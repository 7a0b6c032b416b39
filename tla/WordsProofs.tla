---------------------------- MODULE WordsProofs -----------------------------
(***************************************************************************)
(* What a recursive definition over the numbers up to n yields for every   *)
(* input: the weights of the bytes, the number of a word, and the          *)
(* concatenation of any number of sequences.  Used for the components      *)
(* whose files and messages are made of words (Chunks, Converters).        *)
(***************************************************************************)
EXTENDS SequencesExt, SequenceTheorems, WellFoundedInduction, TLAPS, Words

(* A set of numbers has a least one.                                       *)
LEMMA LeastNumber ==
  ASSUME NEW I \in SUBSET Nat, I # {}
  PROVE  \E x \in I : \A y \in I : x <= y
<1>1. \E x \in I : \A y \in I : ~(<<y, x>> \in OpToRel(<, Nat))
  BY NatLessThanWellFounded, WFMin
<1>2. PICK x \in I : \A y \in I : ~(<<y, x>> \in OpToRel(<, Nat))
  BY <1>1
<1>3. \A y \in I : x <= y
  <2> SUFFICES ASSUME NEW y \in I PROVE x <= y
    OBVIOUS
  <2>1. ~(y < x)
    BY <1>2 DEF OpToRel
  <2> QED BY <2>1
<1> QED BY <1>3

(* What holds of 0 and, with each number below n, of the next one.         *)
LEMMA UpTo ==
  ASSUME NEW n \in Nat, NEW P, 0 \in P,
         \A i \in 0 .. n - 1 : i \in P => i + 1 \in P
  PROVE  0 .. n \subseteq P
<1> DEFINE I == {i \in 0 .. n : i \notin P}
<1> SUFFICES ASSUME I # {} PROVE FALSE
  OBVIOUS
<1>1. PICK x \in I : \A y \in I : x <= y
  <2>1. I \in SUBSET Nat
    OBVIOUS
  <2> HIDE DEF I
  <2> QED BY <2>1, LeastNumber
<1>2. x \in 1 .. n
  OBVIOUS
<1>3. x - 1 \in P
  BY <1>1, <1>2
<1> QED BY <1>2, <1>3

(* A function that is defined by recursion on the numbers to n exists.     *)
Steps(n, X)           == [(1 .. n) \X X -> X]
Solves(f, n, x0, step) ==
  f[0] = x0 /\ \A i \in 1 .. n : f[i] = step[<<i, f[i - 1]>>]
LEMMA Recursion ==
  ASSUME NEW n \in Nat, NEW X, NEW x0 \in X, NEW step \in Steps(n, X)
  PROVE  \E f \in [0 .. n -> X] : Solves(f, n, x0, step)
<1> DEFINE P == {k \in 0 .. n : \E f \in [0 .. k -> X] : Solves(f, k, x0, step)}
<1>1. 0 \in P
  <2> DEFINE g == [i \in 0 .. 0 |-> x0]
  <2>1. g \in [0 .. 0 -> X] /\ Solves(g, 0, x0, step)
    BY DEF Solves
  <2>2. 0 \in 0 .. n
    OBVIOUS
  <2> HIDE DEF g
  <2> QED BY <2>1, <2>2
<1>2. ASSUME NEW k \in 0 .. n - 1, k \in P PROVE k + 1 \in P
  <2>1. PICK f \in [0 .. k -> X] : Solves(f, k, x0, step)
    BY <1>2
  <2> DEFINE g == [i \in 0 .. k + 1 |->
                     IF i <= k THEN f[i] ELSE step[<<k + 1, f[k]>>]]
  <2>2. g \in [0 .. k + 1 -> X]
    BY DEF Steps
  <2>3. Solves(g, k + 1, x0, step)
    <3>1. g[0] = x0
      BY <2>1 DEF Solves
    <3>2. ASSUME NEW i \in 1 .. k + 1 PROVE g[i] = step[<<i, g[i - 1]>>]
      <4>1. CASE i <= k
        BY <2>1, <4>1 DEF Solves, Steps
      <4>2. CASE i = k + 1
        <5>1. g[k + 1] = step[<<k + 1, f[k]>>] /\ g[k] = f[k] /\ i - 1 = k
          BY <4>2
        <5> HIDE DEF g
        <5> QED BY <4>2, <5>1
      <4> QED BY <4>1, <4>2
    <3> QED BY <3>1, <3>2 DEF Solves
  <2>4. k + 1 \in 0 .. n
    OBVIOUS
  <2> HIDE DEF g
  <2> QED BY <2>2, <2>3, <2>4
<1>3. n \in P
  <2> HIDE DEF P
  <2> QED BY <1>1, <1>2, UpTo
<1> QED BY <1>3

-----------------------------------------------------------------------------
(* Numbers and their bytes.                                                *)
LEMMA WeightIs ==
  /\ Weight \in [0 .. Word -> Nat \ {0}]
  /\ Weight[0] = 1
  /\ \A i \in 1 .. Word : Weight[i] = Base * Weight[i - 1]
<1> DEFINE X == Nat \ {0}
    step == [p \in (1 .. Word) \X X |-> Base * p[2]]
<1>1. Word \in Nat /\ Base \in X
  BY WordsAssumption
<1>2. step \in Steps(Word, X)
  <2>1. \A x \in X : Base * x \in X
    BY <1>1
  <2> QED BY <2>1 DEF Steps
<1>3. PICK f \in [0 .. Word -> X] : Solves(f, Word, 1, step)
  <2>1. 1 \in X /\ Word \in Nat
    BY <1>1
  <2> HIDE DEF step, X
  <2> QED BY <1>2, <2>1, Recursion, Zenon
<1>4. \A i \in 1 .. Word : f[i] = Base * f[i - 1]
  <2> SUFFICES ASSUME NEW i \in 1 .. Word PROVE f[i] = Base * f[i - 1]
    OBVIOUS
  <2>1. <<i, f[i - 1]>> \in (1 .. Word) \X X
    BY <1>1
  <2> QED BY <1>3, <2>1 DEF Solves
<1>5. f = [i \in 0 .. Word |-> IF i = 0 THEN 1 ELSE Base * f[i - 1]]
  <2>1. \A i \in 0 .. Word : i = 0 \/ i \in 1 .. Word
    BY <1>1
  <2>2. \A i \in 0 .. Word : f[i] = IF i = 0 THEN 1 ELSE Base * f[i - 1]
    BY <1>3, <1>4, <2>1 DEF Solves
  <2> QED BY <2>2
<1>6. Weight = [i \in 0 .. Word |-> IF i = 0 THEN 1 ELSE Base * Weight[i - 1]]
  BY <1>5 DEF Weight
<1>7. \A i \in 0 .. Word : Weight[i] \in X
  <2> DEFINE P == {i \in 0 .. Word : Weight[i] \in X}
  <2>1. 0 \in P
    BY <1>1, <1>6
  <2>2. ASSUME NEW i \in 0 .. Word - 1, i \in P PROVE i + 1 \in P
    <3>1. i + 1 \in 0 .. Word /\ i + 1 # 0 /\ (i + 1) - 1 = i
      BY <1>1
    <3>2. Weight[i + 1] = Base * Weight[i]
      BY <1>6, <3>1
    <3> QED BY <1>1, <2>2, <3>1, <3>2
  <2>3. 0 .. Word \subseteq P
    <3> HIDE DEF P
    <3> QED BY <1>1, <2>1, <2>2, UpTo
  <2> QED BY <2>3
<1>8. \A i \in 1 .. Word : Weight[i] = Base * Weight[i - 1]
  BY <1>1, <1>6
<1>9. Weight[0] = 1
  BY <1>1, <1>6
<1>10. Weight \in [0 .. Word -> X]
  BY <1>6, <1>7
<1> QED BY <1>8, <1>9, <1>10

(* Division with a remainder.                                              *)
LEMMA DivMod ==
  ASSUME NEW n \in Nat, NEW w \in Nat \ {0}
  PROVE  n \div w \in Nat /\ n % w \in 0 .. w - 1 /\ n = (n \div w) * w + (n % w)
OBVIOUS
(* There is only one way to divide with a remainder.                       *)
LEMMA DivModUnique ==
  ASSUME NEW h \in Nat, NEW w \in Nat \ {0}, NEW r \in 0 .. w - 1
  PROVE  (h * w + r) % w = r /\ (h * w + r) \div w = h
OBVIOUS

(* The number whose last digit is d after those that make r.               *)
LEMMA Digits ==
  ASSUME NEW n \in Nat, NEW w \in Nat \ {0}, NEW b \in Nat \ {0}
  PROVE  n % (b * w) = (n % w) + ((n \div w) % b) * w
<1> DEFINE q == n \div w
           d == q % b
           h == q \div b
           r == n % w
<1>1. q \in Nat /\ r \in 0 .. w - 1 /\ n = q * w + r
  BY DivMod
<1>2. h \in Nat /\ d \in 0 .. b - 1 /\ q = h * b + d
  <2> HIDE DEF q
  <2> QED BY <1>1, DivMod
<1> HIDE DEF q, d, h, r
<1>3. PICK bw \in Nat \ {0} : bw = b * w
  OBVIOUS
<1>4. d * w \in Nat /\ d * w <= bw - w
  <2>1. (b - 1 - d) * w >= 0
    BY <1>2
  <2>2. (b - 1 - d) * w = bw - w - d * w
    BY <1>2, <1>3
  <2> QED BY <1>2, <1>3, <2>1, <2>2
<1>5. n = h * bw + (r + d * w)
  <2>1. q * w = (h * b + d) * w
    BY <1>2
  <2>2. (h * b + d) * w = (h * b) * w + d * w
    BY <1>2
  <2>3. (h * b) * w = h * bw
    BY <1>2, <1>3
  <2> QED BY <1>1, <1>2, <1>4, <2>1, <2>2, <2>3
<1>6. r + d * w \in 0 .. bw - 1
  BY <1>1, <1>3, <1>4
<1>7. n % bw = r + d * w
  <2>1. PICK m : m = r + d * w
    OBVIOUS
  <2>2. m \in 0 .. bw - 1 /\ n = h * bw + m
    BY <1>5, <1>6, <2>1
  <2>3. (h * bw + m) % bw = m
    BY <1>2, <1>3, <2>2, DivModUnique, Zenon
  <2> QED BY <2>1, <2>2, <2>3
<1> QED BY <1>3, <1>7 DEF r, d, q

(* A word that is read is the number that was written.                     *)
LEMMA WordIs ==
  ASSUME NEW b \in [1 .. Word -> Nat]
  PROVE  /\ ToNumber(b) \in Nat
         /\ \A n \in Nat : b = ToWord(n) => ToNumber(b) = n % Weight[Word]
<1> DEFINE Def(f) == [i \in 0 .. Word |-> IF i = 0 THEN 0
                        ELSE f[i - 1] + b[i] * Weight[i - 1]]
           step == [p \in (1 .. Word) \X Nat |-> p[2] + b[p[1]] * Weight[p[1] - 1]]
           sum == CHOOSE f : f = Def(f)
<1>1. Word \in Nat /\ Base \in Nat \ {0}
  BY WordsAssumption
<1>2. ToNumber(b) = sum[Word]
  BY DEF ToNumber
<1>3. \A i \in 1 .. Word : b[i] * Weight[i - 1] \in Nat
  <2> SUFFICES ASSUME NEW i \in 1 .. Word PROVE b[i] * Weight[i - 1] \in Nat
    OBVIOUS
  <2>1. i - 1 \in 0 .. Word
    BY <1>1
  <2>2. Weight[i - 1] \in Nat /\ b[i] \in Nat
    BY <2>1, WeightIs
  <2> QED BY <2>2
<1>4. PICK f \in [0 .. Word -> Nat] : Solves(f, Word, 0, step)
  <2>1. step \in Steps(Word, Nat) /\ 0 \in Nat
    BY <1>3 DEF Steps
  <2> HIDE DEF step
  <2> QED BY <1>1, <2>1, Recursion, Zenon
<1>5. \A i \in 1 .. Word : f[i] = f[i - 1] + b[i] * Weight[i - 1]
  <2> SUFFICES ASSUME NEW i \in 1 .. Word
               PROVE f[i] = f[i - 1] + b[i] * Weight[i - 1]
    OBVIOUS
  <2>1. <<i, f[i - 1]>> \in (1 .. Word) \X Nat
    BY <1>1
  <2> QED BY <1>4, <2>1 DEF Solves
<1>6. sum = Def(sum)
  <2>1. f = Def(f)
    BY <1>1, <1>4, <1>5 DEF Solves
  <2> HIDE DEF Def
  <2> QED BY <2>1
<1>7. /\ sum[0] = 0
      /\ \A i \in 1 .. Word : sum[i] = sum[i - 1] + b[i] * Weight[i - 1]
  <2> HIDE DEF sum
  <2> QED BY <1>1, <1>6
<1> HIDE DEF sum
<1>8. sum[Word] \in Nat
  <2> DEFINE P == {i \in 0 .. Word : sum[i] \in Nat}
  <2>1. 0 \in P
    BY <1>1, <1>7
  <2>2. ASSUME NEW i \in 0 .. Word - 1, i \in P PROVE i + 1 \in P
    <3>1. i + 1 \in 1 .. Word /\ (i + 1) - 1 = i
      BY <1>1
    <3>2. sum[i + 1] = sum[i] + b[i + 1] * Weight[i]
      BY <1>7, <3>1
    <3>3. b[i + 1] * Weight[i] \in Nat
      BY <1>3, <3>1
    <3> QED BY <2>2, <3>1, <3>2, <3>3
  <2>3. 0 .. Word \subseteq P
    <3> HIDE DEF P
    <3> QED BY <1>1, <2>1, <2>2, UpTo
  <2> QED BY <1>1, <2>3
<1>9. ASSUME NEW n \in Nat, b = ToWord(n) PROVE sum[Word] = n % Weight[Word]
  <2> DEFINE P == {i \in 0 .. Word : sum[i] = n % Weight[i]}
  <2>1. 0 \in P
    BY <1>1, <1>7, WeightIs
  <2>2. ASSUME NEW i \in 0 .. Word - 1, i \in P PROVE i + 1 \in P
    <3>1. i + 1 \in 1 .. Word /\ (i + 1) - 1 = i
      BY <1>1
    <3>2. sum[i + 1] = sum[i] + b[i + 1] * Weight[i]
      BY <1>7, <3>1
    <3>3. b[i + 1] = (n \div Weight[i]) % Base
      BY <1>9, <3>1 DEF ToWord
    <3>4. Weight[i + 1] = Base * Weight[i] /\ Weight[i] \in Nat \ {0}
      BY <1>1, <3>1, WeightIs
    <3>5. n % (Base * Weight[i]) = (n % Weight[i]) + ((n \div Weight[i]) % Base) * Weight[i]
      BY <1>1, <3>4, Digits
    <3> QED BY <2>2, <3>1, <3>2, <3>3, <3>4, <3>5
  <2>3. 0 .. Word \subseteq P
    <3> HIDE DEF P
    <3> QED BY <1>1, <2>1, <2>2, UpTo
  <2> QED BY <1>1, <2>3
<1> QED BY <1>2, <1>8, <1>9

-----------------------------------------------------------------------------
(* What a sequence of n pieces of the same length is as one sequence.      *)
AllLong(s, n, L)   == \A i \in 1 .. n : Len(s[i]) = L
Pieces(b, s, n, L) == /\ Len(b) = n * L
                      /\ \A i \in 1 .. n : \A o \in 1 .. L :
                           b[(i - 1) * L + o] = s[i][o]
LEMMA FlattenIs ==
  ASSUME NEW S, NEW n \in Nat \ {0}, NEW s \in [1 .. n -> Seq(S)],
         NEW L \in Nat, AllLong(s, n, L)
  PROVE  FlattenSeq(s) \in Seq(S) /\ Pieces(FlattenSeq(s), s, n, L)
<1> DEFINE Def(h) == [i \in 1 .. n |-> IF i = 1 THEN s[i] ELSE h[i - 1] \o s[i]]
           flat == CHOOSE h : h = Def(h)
           step == [p \in (1 .. n) \X Seq(S) |-> p[2] \o s[p[1]]]
<1>1. Len(s) = n
  OBVIOUS
<1>2. FlattenSeq(s) = flat[n]
  BY <1>1 DEF FlattenSeq
<1>3. PICK f \in [0 .. n -> Seq(S)] : Solves(f, n, <<>>, step)
  <2>1. step \in Steps(n, Seq(S)) /\ <<>> \in Seq(S) /\ n \in Nat
    BY ConcatProperties DEF Steps
  <2> HIDE DEF step
  <2> QED BY <2>1, Recursion, Zenon
<1>4. f[0] = <<>> /\ \A i \in 1 .. n : f[i] = f[i - 1] \o s[i]
  <2> SUFFICES ASSUME NEW i \in 1 .. n PROVE f[i] = f[i - 1] \o s[i]
    BY <1>3 DEF Solves
  <2>1. <<i, f[i - 1]>> \in (1 .. n) \X Seq(S)
    OBVIOUS
  <2> QED BY <1>3, <2>1 DEF Solves
<1>5. flat = Def(flat)
  <2> DEFINE h == [i \in 1 .. n |-> f[i]]
  <2>1. \A i \in 1 .. n : h[i] = IF i = 1 THEN s[i] ELSE h[i - 1] \o s[i]
    <3> SUFFICES ASSUME NEW i \in 1 .. n
                 PROVE h[i] = IF i = 1 THEN s[i] ELSE h[i - 1] \o s[i]
      OBVIOUS
    <3>1. CASE i = 1
      <4>1. 1 \in 1 .. n /\ 1 - 1 = 0 /\ s[1] \in Seq(S)
        OBVIOUS
      <4>2. f[1] = <<>> \o s[1]
        BY <1>4, <4>1
      <4>3. f[1] = s[1]
        BY <4>1, <4>2, ConcatEmptySeq
      <4> QED BY <3>1, <4>3
    <3>2. CASE i # 1
      <4>1. i - 1 \in 1 .. n
        BY <3>2
      <4>2. h[i - 1] = f[i - 1] /\ h[i] = f[i] /\ f[i] = f[i - 1] \o s[i]
        BY <1>4, <4>1
      <4> QED BY <3>2, <4>2
    <3> QED BY <3>1, <3>2
  <2>2. h = Def(h)
    BY <2>1
  <2> HIDE DEF Def, h
  <2> QED BY <2>2
<1>6. \A i \in 1 .. n : flat[i] = IF i = 1 THEN s[i] ELSE flat[i - 1] \o s[i]
  <2> HIDE DEF flat
  <2> QED BY <1>5
<1> HIDE DEF flat
<1> DEFINE Whole(k) ==
      k # 0 => /\ flat[k] \in Seq(S) /\ Len(flat[k]) = k * L
               /\ \A i \in 1 .. k : \A o \in 1 .. L :
                    flat[k][(i - 1) * L + o] = s[i][o]
    P == {k \in 0 .. n : Whole(k)}
<1>7. ASSUME NEW k \in 0 .. n - 1, k \in P PROVE k + 1 \in P
  <2>1. k + 1 \in 1 .. n /\ k + 1 \in 0 .. n
    OBVIOUS
  <2>2. s[k + 1] \in Seq(S) /\ Len(s[k + 1]) = L
    BY <2>1 DEF AllLong
  <2>3. CASE k = 0
    <3>1. flat[1] = s[1]
      BY <1>6, <2>1, <2>3
    <3>2. 1 * L = L /\ (1 - 1) * L = 0
      OBVIOUS
    <3>3. Whole(1)
      <4> SUFFICES ASSUME NEW i \in 1 .. 1, NEW o \in 1 .. L
                   PROVE flat[1][(i - 1) * L + o] = s[i][o]
        BY <2>2, <2>3, <3>1, <3>2
      <4> QED BY <3>1, <3>2
    <3> HIDE DEF Whole
    <3> QED BY <2>1, <2>3, <3>3
  <2>4. CASE k # 0
    <3>1. flat[k + 1] = flat[k] \o s[k + 1]
      <4>1. (k + 1) - 1 = k /\ k + 1 # 1
        BY <2>4
      <4> QED BY <1>6, <2>1, <4>1
    <3>2. PICK K \in Nat : K = k * L
      OBVIOUS
    <3>3. /\ flat[k] \in Seq(S) /\ Len(flat[k]) = K
          /\ \A i \in 1 .. k : \A o \in 1 .. L :
               flat[k][(i - 1) * L + o] = s[i][o]
      BY <1>7, <2>4, <3>2
    <3>4. (k + 1) * L = K + L
      BY <3>2
    <3>5. /\ flat[k + 1] \in Seq(S) /\ Len(flat[k + 1]) = K + L
          /\ \A m \in 1 .. K + L :
               flat[k + 1][m] = IF m <= K THEN flat[k][m] ELSE s[k + 1][m - K]
      <4>1. PICK u \in Seq(S) : u = flat[k]
        BY <3>3
      <4>2. PICK v \in Seq(S) : v = s[k + 1]
        BY <2>2
      <4>3. /\ u \o v \in Seq(S) /\ Len(u \o v) = Len(u) + Len(v)
            /\ \A m \in 1 .. Len(u) + Len(v) :
                 (u \o v)[m] = IF m <= Len(u) THEN u[m] ELSE v[m - Len(u)]
        BY ConcatProperties
      <4>4. Len(u) = K /\ Len(v) = L /\ flat[k + 1] = u \o v
        BY <2>2, <3>1, <3>3, <4>1, <4>2
      <4> QED BY <4>1, <4>2, <4>3, <4>4
    <3>6. ASSUME NEW i \in 1 .. k + 1, NEW o \in 1 .. L
          PROVE  flat[k + 1][(i - 1) * L + o] = s[i][o]
      <4>1. CASE i = k + 1
        <5>1. (i - 1) * L + o = K + o
          BY <3>2, <4>1
        <5>2. K + o \in 1 .. K + L /\ ~(K + o <= K) /\ (K + o) - K = o
          OBVIOUS
        <5> QED BY <3>5, <4>1, <5>1, <5>2
      <4>2. CASE i \in 1 .. k
        <5>1. PICK m : m = (i - 1) * L + o
          OBVIOUS
        <5>2. m \in 1 .. K
          <6>1. PICK d \in Nat : d = (i - 1) * L
            BY <4>2
          <6>2. PICK e \in Nat : e = (k - i) * L
            BY <4>2
          <6>3. d + L + e = K
            BY <3>2, <4>2, <6>1, <6>2
          <6>4. m = d + o
            BY <5>1, <6>1
          <6>5. d + o >= 1 /\ d + o <= K
            BY <6>3
          <6> QED BY <6>4, <6>5
        <5>3. flat[k + 1][m] = flat[k][m]
          BY <3>5, <5>2
        <5> QED BY <3>3, <4>2, <5>1, <5>3
      <4> QED BY <4>1, <4>2
    <3> QED BY <2>1, <3>4, <3>5, <3>6
  <2> QED BY <2>3, <2>4
<1>8. 0 .. n \subseteq P
  <2>1. 0 \in P
    OBVIOUS
  <2> HIDE DEF P
  <2> QED BY <1>7, <2>1, UpTo
<1>9. n \in P /\ n # 0
  <2> HIDE DEF P
  <2> QED BY <1>8
<1>10. Whole(n)
  <2> HIDE DEF Whole
  <2> QED BY <1>9
<1>11. /\ flat[n] \in Seq(S) /\ Len(flat[n]) = n * L
       /\ \A i \in 1 .. n : \A o \in 1 .. L : flat[n][(i - 1) * L + o] = s[i][o]
  BY <1>9, <1>10, Zenon
<1> QED BY <1>2, <1>11, Zenon DEF Pieces
-----------------------------------------------------------------------------
(* The concatenation of any sequences, piece by piece.                     *)
Begin(s, k)   == [i \in 1 .. k |-> s[i]]
Sums(f, n, s) ==
  /\ f[0] = <<>> /\ \A i \in 1 .. n : f[i] = f[i - 1] \o s[i]
  /\ \A k \in 0 .. n : FlattenSeq(Begin(s, k)) = f[k]
LEMMA FlattenSteps ==
  ASSUME NEW S, NEW n \in Nat, NEW s \in [1 .. n -> Seq(S)]
  PROVE  \E f \in [0 .. n -> Seq(S)] : Sums(f, n, s)
<1> DEFINE step == [p \in (1 .. n) \X Seq(S) |-> p[2] \o s[p[1]]]
<1>1. PICK f \in [0 .. n -> Seq(S)] : Solves(f, n, <<>>, step)
  <2>1. step \in Steps(n, Seq(S)) /\ <<>> \in Seq(S) /\ n \in Nat
    BY ConcatProperties DEF Steps
  <2> HIDE DEF step
  <2> QED BY <2>1, Recursion, Zenon
<1>2. f[0] = <<>> /\ \A i \in 1 .. n : f[i] = f[i - 1] \o s[i]
  <2> SUFFICES ASSUME NEW i \in 1 .. n PROVE f[i] = f[i - 1] \o s[i]
    BY <1>1 DEF Solves
  <2>1. <<i, f[i - 1]>> \in (1 .. n) \X Seq(S)
    OBVIOUS
  <2> QED BY <1>1, <2>1 DEF Solves
<1> HIDE DEF step
<1>3. ASSUME NEW k \in 0 .. n PROVE FlattenSeq(Begin(s, k)) = f[k]
  <2> DEFINE b == Begin(s, k)
  <2>1. b \in [1 .. k -> Seq(S)] /\ Len(b) = k /\ b \in Seq(Seq(S))
    BY DEF Begin
  <2>2. CASE k = 0
    <3>1. b = <<>>
      BY <2>1, <2>2
    <3> QED BY <1>2, <2>1, <2>2, <3>1 DEF FlattenSeq
  <2>3. CASE k # 0
    <3> DEFINE Def(h) == [i \in 1 .. k |-> IF i = 1 THEN b[i] ELSE h[i - 1] \o b[i]]
               flat == CHOOSE h : h = Def(h)
    <3>1. FlattenSeq(b) = flat[k]
      BY <2>1, <2>3 DEF FlattenSeq
    <3>2. flat = Def(flat)
      <4> DEFINE h == [i \in 1 .. k |-> f[i]]
      <4>1. \A i \in 1 .. k : h[i] = IF i = 1 THEN b[i] ELSE h[i - 1] \o b[i]
        <5> SUFFICES ASSUME NEW i \in 1 .. k
                     PROVE h[i] = IF i = 1 THEN b[i] ELSE h[i - 1] \o b[i]
          OBVIOUS
        <5>0. b[i] = s[i] /\ i \in 1 .. n
          BY DEF Begin
        <5>1. CASE i = 1
          <6>1. 1 \in 1 .. n /\ 1 - 1 = 0 /\ s[1] \in Seq(S)
            BY <5>0, <5>1
          <6>2. f[1] = <<>> \o s[1]
            BY <1>2, <6>1
          <6>3. f[1] = s[1]
            BY <6>1, <6>2, ConcatEmptySeq
          <6> QED BY <5>0, <5>1, <6>3
        <5>2. CASE i # 1
          <6>1. i - 1 \in 1 .. k
            BY <5>2
          <6>2. h[i - 1] = f[i - 1] /\ h[i] = f[i] /\ f[i] = f[i - 1] \o s[i]
            BY <1>2, <5>0, <6>1
          <6> HIDE DEF h, b
          <6> QED BY <5>0, <5>2, <6>2
        <5> QED BY <5>1, <5>2
      <4>2. h = Def(h)
        <5> HIDE DEF b
        <5> QED BY <4>1
      <4> HIDE DEF Def, h
      <4> QED BY <4>2
    <3> HIDE DEF flat, b
    <3>3. \A i \in 1 .. k : flat[i] = IF i = 1 THEN b[i] ELSE flat[i - 1] \o b[i]
      BY <3>2
    <3> HIDE DEF Def
    <3>4. \A i \in 1 .. k : b[i] = s[i]
      BY DEF b, Begin
    <3> DEFINE P == {i \in 0 .. k : i # 0 => flat[i] = f[i]}
    <3>5. 0 \in P
      OBVIOUS
    <3>6. ASSUME NEW i \in 0 .. k - 1, i \in P PROVE i + 1 \in P
      <4>1. i + 1 \in 1 .. k /\ i + 1 \in 1 .. n /\ (i + 1) - 1 = i
        OBVIOUS
      <4>2. f[i + 1] = f[i] \o s[i + 1]
        BY <1>2, <4>1
      <4>3. CASE i = 0
        <5>0. i + 1 = 1 /\ 1 \in 1 .. k /\ 1 \in 1 .. n
          BY <4>1, <4>3
        <5>1. s[1] \in Seq(S) /\ f[1] = <<>> \o s[1] /\ 1 \in 1 .. k
          <6>1. s[1] \in Seq(S)
            BY <5>0
          <6>2. f[1] = <<>> \o s[1]
            BY <1>2, <4>2, <4>3, <5>0
          <6> QED BY <5>0, <6>1, <6>2
        <5>2. f[1] = s[1]
          BY <5>1, ConcatEmptySeq
        <5>3. flat[1] = s[1]
          BY <3>3, <3>4, <5>1
        <5> QED BY <4>3, <5>1, <5>2, <5>3
      <4>4. CASE i # 0
        <5>1. flat[i] = f[i]
          BY <3>6, <4>4
        <5>2. flat[i + 1] = flat[i] \o b[i + 1]
          <6>1. i + 1 # 1
            BY <4>4
          <6>2. flat[i + 1] = flat[(i + 1) - 1] \o b[i + 1]
            BY <3>3, <4>1, <6>1, Zenon
          <6> QED BY <4>1, <6>2
        <5>3. b[i + 1] = s[i + 1]
          BY <3>4, <4>1
        <5>4. flat[i + 1] = f[i + 1]
          BY <4>2, <5>1, <5>2, <5>3, Zenon
        <5> QED BY <4>1, <5>4
      <4> QED BY <4>3, <4>4
    <3>7. 0 .. k \subseteq P
      <4>1. k \in Nat
        OBVIOUS
      <4> HIDE DEF P
      <4> QED BY <3>5, <3>6, <4>1, UpTo
    <3>8. k \in P
      <4> HIDE DEF P
      <4> QED BY <3>7
    <3> QED BY <2>3, <3>1, <3>8 DEF b
  <2> QED BY <2>2, <2>3
<1>4. Sums(f, n, s)
  BY <1>2, <1>3 DEF Sums
<1> QED BY <1>4

(* One more piece.                                                         *)
LEMMA FlattenMore ==
  ASSUME NEW S, NEW n \in Nat, NEW s \in [1 .. n -> Seq(S)]
  PROVE  /\ FlattenSeq(s) \in Seq(S)
         /\ n = 0 => FlattenSeq(s) = <<>>
         /\ \A k \in 0 .. n : FlattenSeq(Begin(s, k)) \in Seq(S)
         /\ \A k \in 0 .. n - 1 :
              FlattenSeq(Begin(s, k + 1)) = FlattenSeq(Begin(s, k)) \o s[k + 1]
<1>0. PICK f \in [0 .. n -> Seq(S)] : Sums(f, n, s)
  BY FlattenSteps
<1>1. /\ f[0] = <<>> /\ \A i \in 1 .. n : f[i] = f[i - 1] \o s[i]
      /\ \A k \in 0 .. n : FlattenSeq(Begin(s, k)) = f[k]
  BY <1>0 DEF Sums
<1>2. Begin(s, n) = s /\ n \in 0 .. n
  BY DEF Begin
<1>3. FlattenSeq(s) = f[n]
  BY <1>1, <1>2
<1>4. ASSUME NEW k \in 0 .. n - 1
      PROVE FlattenSeq(Begin(s, k + 1)) = FlattenSeq(Begin(s, k)) \o s[k + 1]
  <2>1. k \in 0 .. n /\ k + 1 \in 0 .. n /\ k + 1 \in 1 .. n /\ (k + 1) - 1 = k
    OBVIOUS
  <2>2. f[k + 1] = f[k] \o s[k + 1]
    BY <1>1, <2>1
  <2> QED BY <1>1, <2>1, <2>2
<1> QED BY <1>1, <1>2, <1>3, <1>4

(* The pieces of two sequences.                                            *)
LEMMA FlattenConcat ==
  ASSUME NEW S, NEW s \in Seq(Seq(S)), NEW t \in Seq(Seq(S))
  PROVE  /\ FlattenSeq(s) \in Seq(S) /\ FlattenSeq(t) \in Seq(S)
         /\ FlattenSeq(s \o t) = FlattenSeq(s) \o FlattenSeq(t)
<1> DEFINE a == Len(s)
           b == Len(t)
           r == s \o t
<1>1. a \in Nat /\ b \in Nat /\ s \in [1 .. a -> Seq(S)] /\ t \in [1 .. b -> Seq(S)]
  OBVIOUS
<1>2. /\ r \in Seq(Seq(S)) /\ Len(r) = a + b
      /\ \A i \in 1 .. a : r[i] = s[i]
      /\ \A i \in 1 .. b : r[a + i] = t[i]
  OBVIOUS
<1> HIDE DEF a, b, r
<1>3. r \in [1 .. a + b -> Seq(S)]
  BY <1>1, <1>2
<1> DEFINE P == {k \in 0 .. b : FlattenSeq(Begin(r, a + k))
                                = FlattenSeq(s) \o FlattenSeq(Begin(t, k))}
<1>4. FlattenSeq(s) \in Seq(S) /\ FlattenSeq(t) \in Seq(S)
  BY <1>1, FlattenMore
<1>5. 0 \in P
  <2>1. Begin(r, a + 0) = s
    BY <1>1, <1>2 DEF Begin
  <2>2. Begin(t, 0) \in [1 .. 0 -> Seq(S)]
    BY DEF Begin
  <2>3. FlattenSeq(Begin(t, 0)) = <<>>
    BY <2>2, FlattenMore
  <2>4. FlattenSeq(s) = FlattenSeq(s) \o <<>>
    BY <1>4, ConcatEmptySeq
  <2>5. FlattenSeq(Begin(r, a + 0)) = FlattenSeq(s) \o FlattenSeq(Begin(t, 0))
    BY <2>1, <2>3, <2>4, Zenon
  <2>6. 0 \in 0 .. b
    BY <1>1
  <2> QED BY <2>5, <2>6, Zenon
<1>6. ASSUME NEW k \in 0 .. b - 1, k \in P PROVE k + 1 \in P
  <2>0. a + k \in 0 .. (a + b) - 1 /\ k + 1 \in 1 .. b /\ a + b \in Nat
    BY <1>1
  <2>1. FlattenSeq(Begin(r, (a + k) + 1)) = FlattenSeq(Begin(r, a + k)) \o r[(a + k) + 1]
    BY <1>3, <2>0, FlattenMore
  <2>2. /\ FlattenSeq(Begin(t, k + 1)) = FlattenSeq(Begin(t, k)) \o t[k + 1]
        /\ FlattenSeq(Begin(t, k)) \in Seq(S)
    <3>1. b \in Nat /\ k \in 0 .. b
      BY <1>1
    <3> QED BY <1>1, <3>1, FlattenMore, ZenonT(60)
  <2>3. r[(a + k) + 1] = t[k + 1] /\ t[k + 1] \in Seq(S) /\ (a + k) + 1 = a + (k + 1)
    BY <1>1, <1>2, <2>0
  <2>4. PICK u \in Seq(S) : u = FlattenSeq(s)
    BY <1>4
  <2>5. PICK v \in Seq(S) : v = FlattenSeq(Begin(t, k))
    BY <2>2
  <2>6. PICK w \in Seq(S) : w = t[k + 1]
    BY <2>3
  <2>7. (u \o v) \o w = u \o (v \o w)
    BY ConcatAssociative, SMTT(30)
  <2>8. FlattenSeq(Begin(r, a + k)) = u \o v
    BY <1>6, <2>4, <2>5
  <2>9. FlattenSeq(Begin(r, a + (k + 1))) = u \o (v \o w)
    BY <2>1, <2>3, <2>6, <2>7, <2>8
  <2>10. FlattenSeq(Begin(r, a + (k + 1)))
           = FlattenSeq(s) \o FlattenSeq(Begin(t, k + 1))
    BY <2>2, <2>4, <2>5, <2>6, <2>9
  <2>11. k + 1 \in 0 .. b
    BY <2>0
  <2> QED BY <2>10, <2>11, Zenon
<1>7. b \in P
  <2>1. 0 .. b \subseteq P
    <3> HIDE DEF P
    <3> QED BY <1>1, <1>5, <1>6, UpTo
  <2> HIDE DEF P
  <2> QED BY <1>1, <2>1
<1>8. Begin(r, a + b) = r /\ Begin(t, b) = t
  BY <1>1, <1>3 DEF Begin
<1> QED BY <1>4, <1>7, <1>8 DEF r
=============================================================================
