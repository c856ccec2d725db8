------------------------ MODULE Conversation_proofs ------------------------
(***************************************************************************)
(* Proofs about conversations through the translators, for any texts,      *)
(* functions, arguments, answers, parameters and any length.               *)
(*                                                                         *)
(* The translators loop over messages, blocks and parts; the loops are     *)
(* recursive functions.  Induction and SeqInduction are stated with sets,  *)
(* so that the provers can use them, and give what is kept of a sequence   *)
(* (1) and that one message more is one step more of a loop (2).  Types of *)
(* all intermediate results (3) and the kinds of steps (4) give TypeInv    *)
(* and SentInv: a request is what the loop makes of the present history.   *)
(* Each of the other properties then has an invariant about the loop's     *)
(* result for a history that is still growing, with calls outstanding:     *)
(* AcceptInv (5), NamedInv (6), ClaudeKept and GeminiKept (7), PairInv (8).*)
(***************************************************************************)
EXTENDS Conversation, SequenceTheorems, FiniteSetTheorems, WellFoundedInduction, TLAPS

(* A set of numbers has a least one.                                       *)
LEMMA LeastNumber ==
    ASSUME NEW T \in SUBSET Nat, T # {}
    PROVE  \E x \in T : \A y \in T : x <= y
  <1>1. PICK R : R = OpToRel(<, Nat)
    OBVIOUS
  <1>2. IsWellFoundedOn(R, Nat)
    BY <1>1, NatLessThanWellFounded
  <1>3. PICK x \in T : \A y \in T : ~ (<<y, x>> \in R)
    BY <1>2, WFMin
  <1>4. ASSUME NEW y \in T PROVE x <= y
    <2>1. <<y, x>> \notin R /\ y \in Nat /\ x \in Nat
      BY <1>3
    <2>2. <<y, x>> \in R <=> y < x
      BY <1>1, <2>1 DEF OpToRel
    <2> QED
      BY <2>1, <2>2
  <1> QED
    BY <1>4

(* Induction, for a set of numbers.                                        *)
LEMMA Induction ==
    ASSUME NEW S \in SUBSET Nat, 0 \in S, \A n \in S : n + 1 \in S
    PROVE  \A n \in Nat : n \in S
  <1> SUFFICES ASSUME NEW n \in Nat, n \notin S PROVE FALSE
    OBVIOUS
  <1>1. PICK m \in Nat \ S : \A y \in Nat \ S : m <= y
    BY LeastNumber
  <1>2. m - 1 \in S
    BY <1>1
  <1>3. (m - 1) + 1 \in S
    BY <1>2
  <1> QED
    BY <1>1, <1>3


-----------------------------------------------------------------------------
(* 1. Keep: the function it is defined with exists, and that of a longer   *)
(* sequence continues it.                                                  *)
IsKept(f, s, W, n) ==
    f = [i \in 0..n |-> IF i = 0 THEN <<>>
                        ELSE IF s[i] \in W THEN Append(f[i - 1], s[i]) ELSE f[i - 1]]

(* The function exists: one more element is one more value.                *)
LEMMA KeptExists ==
    ASSUME NEW s, NEW W
    PROVE  \A n \in Nat : \E f : IsKept(f, s, W, n)
  <1> DEFINE S == {n \in Nat : \E f : IsKept(f, s, W, n)}
  <1>1. 0 \in S
    <2>1. IsKept([i \in 0..0 |-> <<>>], s, W, 0)
       BY DEF IsKept
    <2> QED
      BY <2>1
  <1>2. ASSUME NEW n \in S PROVE n + 1 \in S
    <2>1. PICK f : IsKept(f, s, W, n)
      BY <1>2
    <2>2. PICK v : v = IF s[n + 1] \in W THEN Append(f[n], s[n + 1]) ELSE f[n]
      OBVIOUS
    <2>3. PICK g : g = [i \in 0..(n + 1) |-> IF i = n + 1 THEN v ELSE f[i]]
      OBVIOUS
    <2>4. ASSUME NEW i \in 0..(n + 1)
          PROVE  g[i] = IF i = 0 THEN <<>> ELSE IF s[i] \in W THEN Append(g[i - 1], s[i]) ELSE g[i - 1]
      <3>1. CASE i = n + 1
        <4>1. g[i] = v /\ g[i - 1] = f[n] /\ i # 0
          BY <2>3, <3>1
        <4> QED
          BY <2>2, <3>1, <4>1
      <3>2. CASE i \in 0..n
        <4>1. g[i] = f[i] /\ (i # 0 => g[i - 1] = f[i - 1])
          BY <2>3, <3>2
        <4>2. f[i] = IF i = 0 THEN <<>> ELSE IF s[i] \in W THEN Append(f[i - 1], s[i]) ELSE f[i - 1]
          BY <2>1, <3>2 DEF IsKept
        <4> QED
          BY <4>1, <4>2
      <3> QED
        BY <3>1, <3>2
    <2>5. IsKept(g, s, W, n + 1)
      BY <2>3, <2>4 DEF IsKept
    <2> QED
      BY <2>5
  <1> HIDE DEF S
  <1>3. S \in SUBSET Nat
    BY DEF S
  <1>4. \A n \in Nat : n \in S
    BY <1>1, <1>2, <1>3, Induction
  <1> QED
    BY <1>4 DEF S

(* Its values, one after the other.                                        *)
LEMMA KeptStep ==
    ASSUME NEW s, NEW W, NEW n \in Nat, NEW f, IsKept(f, s, W, n), NEW k \in 0..(n - 1)
    PROVE  f[k + 1] = IF s[k + 1] \in W THEN Append(f[k], s[k + 1]) ELSE f[k]
  <1>1. PICK j \in 1..n : j = k + 1
    OBVIOUS
  <1>2. j - 1 = k /\ j \in 0..n /\ j # 0
    BY <1>1
  <1>3. f[j] = IF s[j] \in W THEN Append(f[j - 1], s[j]) ELSE f[j - 1]
    BY <1>2 DEF IsKept
  <1> QED
    BY <1>1, <1>2, <1>3

(* On a common beginning the functions of two sequences agree.             *)
LEMMA KeptAgree ==
    ASSUME NEW s, NEW t, NEW W, NEW n \in Nat, NEW m \in Nat, n <= m,
           NEW f, IsKept(f, s, W, n), NEW g, IsKept(g, t, W, m), \A i \in 1..n : s[i] = t[i]
    PROVE  f[n] = g[n]
  <1> DEFINE S == {k \in Nat : k <= n => f[k] = g[k]}
  <1>1. 0 \in S
    BY DEF IsKept
  <1>2. ASSUME NEW k \in S PROVE k + 1 \in S
    <2> SUFFICES ASSUME k + 1 <= n PROVE f[k + 1] = g[k + 1]
      OBVIOUS
    <2>1. f[k] = g[k] /\ s[k + 1] = t[k + 1]
      OBVIOUS
    <2>2. f[k + 1] = IF s[k + 1] \in W THEN Append(f[k], s[k + 1]) ELSE f[k]
      BY KeptStep
    <2>3. g[k + 1] = IF t[k + 1] \in W THEN Append(g[k], t[k + 1]) ELSE g[k]
      BY KeptStep
    <2> QED
      BY <2>1, <2>2, <2>3
  <1> HIDE DEF S
  <1>3. S \in SUBSET Nat
    BY DEF S
  <1>4. n \in S
    BY <1>1, <1>2, <1>3, Induction
  <1> QED
    BY <1>4 DEF S

(* Keep is the last value of that function.                                *)
LEMMA KeptIs ==
    ASSUME NEW s, NEW W, Len(s) \in Nat
    PROVE  \E f : IsKept(f, s, W, Len(s)) /\ Keep(s, W) = f[Len(s)]
  <1>1. PICK f : f = CHOOSE c : IsKept(c, s, W, Len(s))
    OBVIOUS
  <1>2. IsKept(f, s, W, Len(s))
    BY <1>1, KeptExists
  <1>3. Keep(s, W) = f[Len(s)]
    BY <1>1 DEF Keep, IsKept
  <1> QED
    BY <1>2, <1>3

(* Nothing is kept of the empty sequence.                                  *)
LEMMA KeepEmpty == ASSUME NEW W PROVE Keep(<<>>, W) = <<>>
  <1>1. Len(<<>>) = 0
    OBVIOUS
  <1>2. PICK f : IsKept(f, <<>>, W, 0) /\ Keep(<<>>, W) = f[0]
    BY <1>1, KeptIs
  <1> QED
    BY <1>2 DEF IsKept

(* One more element is kept if it is in the set.                           *)
LEMMA KeepAppend ==
    ASSUME NEW S, NEW s \in Seq(S), NEW x \in S, NEW W
    PROVE  Keep(Append(s, x), W) = IF x \in W THEN Append(Keep(s, W), x) ELSE Keep(s, W)
  <1>1. PICK n \in Nat : n = Len(s)
    BY LenProperties
  <1>2. PICK t : t = Append(s, x)
    OBVIOUS
  <1>3. Len(t) = n + 1 /\ t[n + 1] = x /\ \A i \in 1..n : s[i] = t[i]
    BY <1>1, <1>2, AppendProperties
  <1>4. PICK f : IsKept(f, s, W, n) /\ Keep(s, W) = f[n]
    BY <1>1, KeptIs
  <1>5. PICK g : IsKept(g, t, W, n + 1) /\ Keep(t, W) = g[n + 1]
    BY <1>3, KeptIs
  <1>6. f[n] = g[n]
    BY <1>3, <1>4, <1>5, KeptAgree
  <1>7. g[n + 1] = IF t[n + 1] \in W THEN Append(g[n], t[n + 1]) ELSE g[n]
    <2>1. PICK m \in Nat : m = n + 1
      OBVIOUS
    <2>2. IsKept(g, t, W, m) /\ n \in 0..(m - 1)
      BY <1>5, <2>1
    <2> QED
      BY <2>2, KeptStep
  <1> QED
    BY <1>2, <1>3, <1>4, <1>5, <1>6, <1>7

(* Induction over sequences, for a set of them.                            *)
LEMMA SeqInduction ==
    ASSUME NEW S, NEW P, <<>> \in P, \A s \in Seq(S), x \in S : s \in P => Append(s, x) \in P
    PROVE  \A s \in Seq(S) : s \in P
  <1> DEFINE N == {n \in Nat : \A s \in Seq(S) : Len(s) = n => s \in P}
  <1>1. 0 \in N
    <2> SUFFICES ASSUME NEW s \in Seq(S), Len(s) = 0 PROVE s \in P
      OBVIOUS
    <2>1. s = <<>>
      BY EmptySeq
    <2> QED
      BY <2>1
  <1>2. ASSUME NEW n \in N PROVE n + 1 \in N
    <2> SUFFICES ASSUME NEW s \in Seq(S), Len(s) = n + 1 PROVE s \in P
      OBVIOUS
    <2>1. s # <<>>
      BY EmptySeq
    <2>2. PICK t \in Seq(S), x \in S : s = Append(t, x)
      BY <2>1, SequenceEmptyOrAppend
    <2>3. Len(t) \in Nat /\ Len(s) = Len(t) + 1
      BY <2>2, AppendProperties, LenProperties
    <2>4. Len(t) = n
      BY <2>3
    <2> QED
      BY <2>2, <2>4
  <1> HIDE DEF N
  <1>3. N \in SUBSET Nat
    BY DEF N
  <1>4. \A n \in Nat : n \in N
    BY <1>1, <1>2, <1>3, Induction
  <1> QED
    BY <1>4, LenProperties DEF N

(* What is kept was in the sequence and is in the set.                     *)
LEMMA KeepTyped ==
    ASSUME NEW S, NEW W
    PROVE  \A s \in Seq(S) : Keep(s, W) \in Seq(S \cap W)
  <1> DEFINE P == {s \in Seq(S) : Keep(s, W) \in Seq(S \cap W)}
  <1>1. <<>> \in P
    BY KeepEmpty, EmptySeq
  <1>2. ASSUME NEW s \in Seq(S), NEW x \in S, s \in P PROVE Append(s, x) \in P
    <2>1. Append(s, x) \in Seq(S)
      BY AppendProperties
    <2>2. x \in W => Append(Keep(s, W), x) \in Seq(S \cap W)
      BY <1>2, AppendProperties
    <2> QED
      BY <1>2, <2>1, <2>2, KeepAppend
  <1> HIDE DEF P
  <1>3. \A s \in Seq(S) : s \in P
    BY <1>1, <1>2, SeqInduction
  <1> QED
    BY <1>3 DEF P

(* Sets that agree on the elements keep the same.                          *)
LEMMA KeepSame ==
    ASSUME NEW S, NEW W, NEW V, \A x \in S : x \in W <=> x \in V
    PROVE  \A s \in Seq(S) : Keep(s, W) = Keep(s, V)
  <1> DEFINE P == {s \in Seq(S) : Keep(s, W) = Keep(s, V)}
  <1>1. <<>> \in P
    BY KeepEmpty, EmptySeq
  <1>2. ASSUME NEW s \in Seq(S), NEW x \in S, s \in P PROVE Append(s, x) \in P
    <2>1. Append(s, x) \in Seq(S)
      BY AppendProperties
    <2>2. Keep(Append(s, x), W) = IF x \in W THEN Append(Keep(s, W), x) ELSE Keep(s, W)
      BY KeepAppend
    <2>3. Keep(Append(s, x), V) = IF x \in V THEN Append(Keep(s, V), x) ELSE Keep(s, V)
      BY KeepAppend
    <2> QED
      BY <1>2, <2>1, <2>2, <2>3
  <1> HIDE DEF P
  <1>3. \A s \in Seq(S) : s \in P
    BY <1>1, <1>2, SeqInduction
  <1> QED
    BY <1>3 DEF P

(* A set that has all elements keeps the sequence.                         *)
LEMMA KeepAll ==
    ASSUME NEW S, NEW W, S \subseteq W
    PROVE  \A s \in Seq(S) : Keep(s, W) = s
  <1> DEFINE P == {s \in Seq(S) : Keep(s, W) = s}
  <1>1. <<>> \in P
    BY KeepEmpty, EmptySeq
  <1>2. ASSUME NEW s \in Seq(S), NEW x \in S, s \in P PROVE Append(s, x) \in P
    <2>1. Append(s, x) \in Seq(S)
      BY AppendProperties
    <2>2. Keep(Append(s, x), W) = Append(Keep(s, W), x)
      BY KeepAppend
    <2> QED
      BY <1>2, <2>1, <2>2
  <1> HIDE DEF P
  <1>3. \A s \in Seq(S) : s \in P
    BY <1>1, <1>2, SeqInduction
  <1> QED
    BY <1>3 DEF P

(* A set that has no element keeps nothing.                                *)
LEMMA KeepNone ==
    ASSUME NEW S, NEW W, S \cap W = {}
    PROVE  \A s \in Seq(S) : Keep(s, W) = <<>>
  <1> DEFINE P == {s \in Seq(S) : Keep(s, W) = <<>>}
  <1>1. <<>> \in P
    BY KeepEmpty, EmptySeq
  <1>2. ASSUME NEW s \in Seq(S), NEW x \in S, s \in P PROVE Append(s, x) \in P
    <2>1. Append(s, x) \in Seq(S)
      BY AppendProperties
    <2>2. Keep(Append(s, x), W) = Keep(s, W)
      BY KeepAppend
    <2> QED
      BY <1>2, <2>1, <2>2
  <1> HIDE DEF P
  <1>3. \A s \in Seq(S) : s \in P
    BY <1>1, <1>2, SeqInduction
  <1> QED
    BY <1>3 DEF P

(* One element alone.                                                      *)
LEMMA KeepOne ==
    ASSUME NEW x, NEW W
    PROVE  Keep(<<x>>, W) = IF x \in W THEN <<x>> ELSE <<>>
  <1>1. <<>> \in Seq({x}) /\ x \in {x}
    BY EmptySeq
  <1>2. <<x>> = Append(<<>>, x)
    OBVIOUS
  <1>3. Keep(Append(<<>>, x), W) = IF x \in W THEN Append(Keep(<<>>, W), x) ELSE Keep(<<>>, W)
    BY <1>1, KeepAppend
  <1> QED
    BY <1>2, <1>3, KeepEmpty

(* Keeping distributes over concatenation.                                 *)
LEMMA KeepConcat ==
    ASSUME NEW S, NEW W, NEW s \in Seq(S)
    PROVE  \A t \in Seq(S) : Keep(s \o t, W) = Keep(s, W) \o Keep(t, W)
  <1> DEFINE P == {t \in Seq(S) : Keep(s \o t, W) = Keep(s, W) \o Keep(t, W)}
  <1>0. Keep(s, W) \in Seq(S \cap W)
    BY KeepTyped
  <1>1. <<>> \in P
    BY <1>0, KeepEmpty, EmptySeq, ConcatEmptySeq
  <1>2. ASSUME NEW t \in Seq(S), NEW x \in S, t \in P PROVE Append(t, x) \in P
    <2>1. Append(t, x) \in Seq(S) /\ s \o t \in Seq(S) /\ <<x>> \in Seq(S)
      BY AppendProperties, ConcatProperties
    <2>2. s \o Append(t, x) = Append(s \o t, x)
      BY <2>1, AppendIsConcat, ConcatAssociative
    <2>3. Keep(Append(s \o t, x), W) = IF x \in W THEN Append(Keep(s \o t, W), x) ELSE Keep(s \o t, W)
      BY <2>1, KeepAppend
    <2>4. Keep(t, W) \in Seq(S \cap W)
      BY KeepTyped
    <2>5. Keep(Append(t, x), W) = IF x \in W THEN Append(Keep(t, W), x) ELSE Keep(t, W)
      BY KeepAppend
    <2>6. x \in W => Keep(s, W) \o Append(Keep(t, W), x) = Append(Keep(s, W) \o Keep(t, W), x)
      <3> SUFFICES ASSUME x \in W
                   PROVE  Keep(s, W) \o Append(Keep(t, W), x) = Append(Keep(s, W) \o Keep(t, W), x)
        OBVIOUS
      <3>1. x \in S \cap W /\ <<x>> \in Seq(S \cap W) /\ Keep(s, W) \o Keep(t, W) \in Seq(S \cap W)
        BY <1>0, <2>4, ConcatProperties
      <3> QED
        BY <1>0, <2>4, <3>1, AppendIsConcat, ConcatAssociative
    <2> QED
      BY <1>2, <2>1, <2>2, <2>3, <2>5, <2>6
  <1> HIDE DEF P
  <1>3. \A t \in Seq(S) : t \in P
    BY <1>1, <1>2, SeqInduction
  <1> QED
    BY <1>3 DEF P

-----------------------------------------------------------------------------
(* A function on 1..n is a sequence.                                       *)
LEMMA Mapped ==
    ASSUME NEW T, NEW n \in Nat, NEW f \in [1..n -> T]
    PROVE  f \in Seq(T) /\ Len(f) = n /\ DOMAIN f = 1..n
  OBVIOUS

(* A sequence of one.                                                      *)
LEMMA Singleton == ASSUME NEW S, NEW x \in S PROVE <<x>> \in Seq(S) /\ Len(<<x>>) = 1 /\ <<x>>[1] = x
  OBVIOUS

(* A sequence over a set is one over every larger set.                     *)
LEMMA SeqWidened == ASSUME NEW S, NEW T, S \subseteq T, NEW s \in Seq(S) PROVE s \in Seq(T)
  OBVIOUS

(* Joining texts: the function it is defined with exists.                  *)
IsFlat(f, s, n) == f = [i \in 1..n |-> IF i = 1 THEN s[i] ELSE f[i - 1] \o s[i]]

(* The function exists, with sequences as its values.                      *)
LEMMA FlatExists ==
    ASSUME NEW s
    PROVE  \A n \in Nat : \E f : IsFlat(f, s, n)
  <1> DEFINE S == {n \in Nat : \E f : IsFlat(f, s, n)}
  <1>1. 0 \in S
    <2>1. IsFlat([i \in 1..0 |-> <<>>], s, 0)
       BY DEF IsFlat
    <2> QED
      BY <2>1
  <1>2. ASSUME NEW n \in S PROVE n + 1 \in S
    <2>1. PICK f : IsFlat(f, s, n)
      BY <1>2
    <2>2. PICK v : v = IF n = 0 THEN s[n + 1] ELSE f[n] \o s[n + 1]
      OBVIOUS
    <2>3. PICK g : g = [i \in 1..(n + 1) |-> IF i = n + 1 THEN v ELSE f[i]]
      OBVIOUS
    <2>4. ASSUME NEW i \in 1..(n + 1)
          PROVE  g[i] = IF i = 1 THEN s[i] ELSE g[i - 1] \o s[i]
      <3>1. CASE i = n + 1
        <4>1. g[i] = v /\ (n # 0 => g[i - 1] = f[n]) /\ (i = 1 <=> n = 0)
          BY <2>3, <3>1
        <4> QED
          BY <2>2, <3>1, <4>1
      <3>2. CASE i \in 1..n
        <4>1. g[i] = f[i] /\ (i # 1 => g[i - 1] = f[i - 1])
          BY <2>3, <3>2
        <4>2. f[i] = IF i = 1 THEN s[i] ELSE f[i - 1] \o s[i]
          BY <2>1, <3>2 DEF IsFlat
        <4> QED
          BY <4>1, <4>2
      <3> QED
        BY <3>1, <3>2
    <2>5. IsFlat(g, s, n + 1)
      BY <2>3, <2>4 DEF IsFlat
    <2> QED
      BY <2>5
  <1> HIDE DEF S
  <1>3. S \in SUBSET Nat
    BY DEF S
  <1>4. \A n \in Nat : n \in S
    BY <1>1, <1>2, <1>3, Induction
  <1> QED
    BY <1>4 DEF S

(* FlattenSeq is the last value of that function.                          *)
LEMMA FlatIs ==
    ASSUME NEW s, Len(s) \in Nat, Len(s) # 0
    PROVE  \E f : IsFlat(f, s, Len(s)) /\ FlattenSeq(s) = f[Len(s)]
  <1>1. PICK f : f = CHOOSE c : IsFlat(c, s, Len(s))
    OBVIOUS
  <1>2. IsFlat(f, s, Len(s))
    BY <1>1, FlatExists
  <1>3. FlattenSeq(s) = f[Len(s)]
    BY <1>1 DEF FlattenSeq, IsFlat
  <1> QED
    BY <1>2, <1>3

(* Sequences joined are a sequence.                                        *)
LEMMA FlattenTyped ==
    ASSUME NEW T, NEW s \in Seq(Seq(T))
    PROVE  FlattenSeq(s) \in Seq(T)
  <1>1. Len(s) \in Nat /\ \A i \in 1..Len(s) : s[i] \in Seq(T)
    BY LenProperties, ElementOfSeq
  <1>2. CASE Len(s) = 0
    <2>1. s = <<>> /\ FlattenSeq(s) = s
      BY <1>2, EmptySeq DEF FlattenSeq
    <2> QED
      BY <2>1, EmptySeq
  <1>3. CASE Len(s) # 0
    <2>1. PICK f : IsFlat(f, s, Len(s)) /\ FlattenSeq(s) = f[Len(s)]
      BY <1>1, <1>3, FlatIs
    <2> DEFINE S == {k \in Nat : k + 1 <= Len(s) => f[k + 1] \in Seq(T)}
    <2>2. 0 \in S
      BY <1>1, <1>3, <2>1 DEF IsFlat
    <2>3. ASSUME NEW k \in S PROVE k + 1 \in S
      <3> SUFFICES ASSUME k + 2 <= Len(s) PROVE f[k + 2] \in Seq(T)
        OBVIOUS
      <3>1. PICK i \in 1..Len(s) : i = k + 2
        BY <1>1
      <3>2. i # 1 /\ i - 1 = k + 1 /\ f[i - 1] \in Seq(T) /\ s[i] \in Seq(T)
        BY <1>1, <3>1
      <3>3. f[i] = f[i - 1] \o s[i]
        BY <2>1, <3>2 DEF IsFlat
      <3> QED
        BY <3>1, <3>2, <3>3, ConcatProperties
    <2> HIDE DEF S
    <2>4. S \in SUBSET Nat
      BY DEF S
    <2>5. \A k \in Nat : k \in S
      BY <2>2, <2>3, <2>4, Induction
    <2>6. PICK k \in Nat : k + 1 = Len(s)
      <3>1. Len(s) - 1 \in Nat /\ (Len(s) - 1) + 1 = Len(s)
        BY <1>1, <1>3
      <3> QED
        BY <3>1
    <2>7. k \in S
      BY <2>5
    <2>8. f[k + 1] \in Seq(T)
      BY <2>6, <2>7 DEF S
    <2> QED
      BY <2>1, <2>6, <2>8
  <1> QED
    BY <1>2, <1>3

(* Texts joined are a text.                                                *)
LEMMA JoinedTyped ==
    ASSUME NEW P, NEW parts \in Seq(P), \A p \in P : p.text \in Seq(Words)
    PROVE  Joined(parts) \in Seq(Words)
  <1>1. PICK n \in Nat : n = Len(parts) /\ DOMAIN parts = 1..n /\ \A i \in 1..n : parts[i] \in P
    BY LenProperties, ElementOfSeq
  <1>2. PICK texts : texts = [i \in 1..n |-> parts[i].text]
    OBVIOUS
  <1>3. texts \in [1..n -> Seq(Words)]
    BY <1>1, <1>2
  <1>4. texts \in Seq(Seq(Words))
    BY <1>3, Mapped
  <1>5. Joined(parts) = FlattenSeq(texts)
    BY <1>1, <1>2 DEF Joined
  <1> QED
    BY <1>4, <1>5, FlattenTyped

(* No texts make the empty text.                                           *)
LEMMA JoinedEmpty == Joined(<<>>) = <<>>
  <1>1. PICK texts : texts = [i \in DOMAIN <<>> |-> <<>>[i].text]
    OBVIOUS
  <1>2. texts = <<>> /\ Len(texts) = 0
    BY <1>1
  <1>3. FlattenSeq(texts) = texts
    BY <1>2 DEF FlattenSeq
  <1> QED
    BY <1>1, <1>2, <1>3 DEF Joined

(* One text is itself.                                                     *)
LEMMA JoinedOne == ASSUME NEW p PROVE Joined(<<p>>) = p.text
  <1>1. PICK texts : texts = [i \in DOMAIN <<p>> |-> <<p>>[i].text]
    OBVIOUS
  <1>2. Len(texts) = 1 /\ texts[1] = p.text
    BY <1>1
  <1>3. PICK f : IsFlat(f, texts, 1) /\ FlattenSeq(texts) = f[1]
    <2>1. Len(texts) \in Nat /\ Len(texts) # 0
      BY <1>2
    <2>2. \E f : IsFlat(f, texts, Len(texts)) /\ FlattenSeq(texts) = f[Len(texts)]
      BY <2>1, FlatIs
    <2> QED
      BY <1>2, <2>2
  <1>4. f[1] = texts[1]
    BY <1>3 DEF IsFlat
  <1> QED
    BY <1>1, <1>2, <1>3, <1>4 DEF Joined

-----------------------------------------------------------------------------
(* 2. The loops over a history, first Claude's: a message more is one step *)
(* more.                                                                   *)
TurnsStart == [ok |-> TRUE, system |-> <<>>, turns |-> <<>>]
IsTurns(f, s, n) == f = [k \in 0..n |-> IF k = 0 THEN TurnsStart ELSE TakeMessage(f[k - 1], s[k])]

(* The function exists.                                                    *)
LEMMA TurnsExists ==
    ASSUME NEW s
    PROVE  \A n \in Nat : \E f : IsTurns(f, s, n)
  <1> DEFINE S == {n \in Nat : \E f : IsTurns(f, s, n)}
  <1>1. 0 \in S
    <2>1. IsTurns([k \in 0..0 |-> TurnsStart], s, 0)
       BY DEF IsTurns
    <2> QED
      BY <2>1
  <1>2. ASSUME NEW n \in S PROVE n + 1 \in S
    <2>1. PICK f : IsTurns(f, s, n)
      BY <1>2
    <2>2. PICK g : g = [k \in 0..(n + 1) |-> IF k = n + 1 THEN TakeMessage(f[n], s[n + 1]) ELSE f[k]]
      OBVIOUS
    <2>3. ASSUME NEW k \in 0..(n + 1)
          PROVE  g[k] = IF k = 0 THEN TurnsStart ELSE TakeMessage(g[k - 1], s[k])
      <3>1. CASE k = n + 1
        <4>1. g[k] = TakeMessage(f[n], s[n + 1]) /\ g[k - 1] = f[n] /\ k # 0
          BY <2>2, <3>1
        <4> QED
          BY <3>1, <4>1
      <3>2. CASE k \in 0..n
        <4>1. g[k] = f[k] /\ (k # 0 => g[k - 1] = f[k - 1])
          BY <2>2, <3>2
        <4>2. f[k] = IF k = 0 THEN TurnsStart ELSE TakeMessage(f[k - 1], s[k])
          BY <2>1, <3>2 DEF IsTurns
        <4> QED
          BY <4>1, <4>2
      <3> QED
        BY <3>1, <3>2
    <2>4. IsTurns(g, s, n + 1)
      BY <2>2, <2>3 DEF IsTurns
    <2> QED
      BY <2>4
  <1> HIDE DEF S
  <1>3. S \in SUBSET Nat
    BY DEF S
  <1>4. \A n \in Nat : n \in S
    BY <1>1, <1>2, <1>3, Induction
  <1> QED
    BY <1>4 DEF S

(* Its values, one after the other.                                        *)
LEMMA TurnsStep ==
    ASSUME NEW s, NEW n \in Nat, NEW f, IsTurns(f, s, n), NEW k \in 0..(n - 1)
    PROVE  f[k + 1] = TakeMessage(f[k], s[k + 1])
  <1>1. PICK j \in 1..n : j = k + 1
    OBVIOUS
  <1>2. j - 1 = k /\ j \in 0..n /\ j # 0
    BY <1>1
  <1>3. f[j] = TakeMessage(f[j - 1], s[j])
    BY <1>2 DEF IsTurns
  <1> QED
    BY <1>1, <1>2, <1>3

(* On a common beginning the functions of two histories agree.             *)
LEMMA TurnsAgree ==
    ASSUME NEW s, NEW t, NEW n \in Nat, NEW m \in Nat, n <= m,
           NEW f, IsTurns(f, s, n), NEW g, IsTurns(g, t, m), \A i \in 1..n : s[i] = t[i]
    PROVE  f[n] = g[n]
  <1> DEFINE S == {k \in Nat : k <= n => f[k] = g[k]}
  <1>1. 0 \in S
    BY DEF IsTurns
  <1>2. ASSUME NEW k \in S PROVE k + 1 \in S
    <2> SUFFICES ASSUME k + 1 <= n PROVE f[k + 1] = g[k + 1]
      OBVIOUS
    <2>1. f[k] = g[k] /\ s[k + 1] = t[k + 1]
      OBVIOUS
    <2>2. f[k + 1] = TakeMessage(f[k], s[k + 1])
      BY TurnsStep
    <2>3. g[k + 1] = TakeMessage(g[k], t[k + 1])
      BY TurnsStep
    <2> QED
      BY <2>1, <2>2, <2>3
  <1> HIDE DEF S
  <1>3. S \in SUBSET Nat
    BY DEF S
  <1>4. n \in S
    BY <1>1, <1>2, <1>3, Induction
  <1> QED
    BY <1>4 DEF S

(* The loop is the last value of that function.                            *)
LEMMA TurnsIs ==
    ASSUME NEW s, Len(s) \in Nat
    PROVE  \E f : IsTurns(f, s, Len(s)) /\ SeparateSystemMessages(s) = f[Len(s)]
  <1>1. PICK f : f = CHOOSE c : IsTurns(c, s, Len(s))
    OBVIOUS
  <1>2. IsTurns(f, s, Len(s))
    BY <1>1, TurnsExists
  <1>3. SeparateSystemMessages(s) = f[Len(s)]
    BY <1>1 DEF SeparateSystemMessages, IsTurns, TurnsStart
  <1> QED
    BY <1>2, <1>3

(* The loop over no messages.                                              *)
LEMMA TurnsEmpty == SeparateSystemMessages(<<>>) = TurnsStart
  <1>1. Len(<<>>) = 0
    OBVIOUS
  <1>2. PICK f : IsTurns(f, <<>>, 0) /\ SeparateSystemMessages(<<>>) = f[0]
    BY <1>1, TurnsIs
  <1> QED
    BY <1>2 DEF IsTurns

(* The loop over one message more: TakeMessage once more.                  *)
LEMMA TurnsAppend ==
    ASSUME NEW S, NEW s \in Seq(S), NEW x \in S
    PROVE  SeparateSystemMessages(Append(s, x)) = TakeMessage(SeparateSystemMessages(s), x)
  <1>1. PICK n \in Nat : n = Len(s)
    BY LenProperties
  <1>2. PICK t : t = Append(s, x)
    OBVIOUS
  <1>3. Len(t) = n + 1 /\ t[n + 1] = x /\ \A i \in 1..n : s[i] = t[i]
    BY <1>1, <1>2, AppendProperties
  <1>4. PICK m \in Nat : m = n + 1
    OBVIOUS
  <1>5. PICK f : IsTurns(f, s, n) /\ SeparateSystemMessages(s) = f[n]
    BY <1>1, TurnsIs
  <1>6. PICK g : IsTurns(g, t, m) /\ SeparateSystemMessages(t) = g[m]
    BY <1>3, <1>4, TurnsIs
  <1>7. f[n] = g[n]
    BY <1>3, <1>4, <1>5, <1>6, TurnsAgree
  <1>8. g[n + 1] = TakeMessage(g[n], t[n + 1])
    <2>1. n \in 0..(m - 1)
      BY <1>4
    <2> QED
      BY <1>6, <2>1, TurnsStep
  <1> QED
    BY <1>2, <1>3, <1>4, <1>5, <1>6, <1>7, <1>8

-----------------------------------------------------------------------------
(* The same of Gemini's contents.                                          *)
ContentsStart == [ok |-> TRUE, system |-> <<>>, turns |-> <<>>,
                  names |-> [id \in Ids \cup {""} |-> ""]]
IsContents(f, s, n) == f = [k \in 0..n |-> IF k = 0 THEN ContentsStart ELSE TakeContent(f[k - 1], s[k])]

(* The function exists.                                                    *)
LEMMA ContentsExists ==
    ASSUME NEW s
    PROVE  \A n \in Nat : \E f : IsContents(f, s, n)
  <1> DEFINE S == {n \in Nat : \E f : IsContents(f, s, n)}
  <1>1. 0 \in S
    <2>1. IsContents([k \in 0..0 |-> ContentsStart], s, 0)
       BY DEF IsContents
    <2> QED
      BY <2>1
  <1>2. ASSUME NEW n \in S PROVE n + 1 \in S
    <2>1. PICK f : IsContents(f, s, n)
      BY <1>2
    <2>2. PICK g : g = [k \in 0..(n + 1) |-> IF k = n + 1 THEN TakeContent(f[n], s[n + 1]) ELSE f[k]]
      OBVIOUS
    <2>3. ASSUME NEW k \in 0..(n + 1)
          PROVE  g[k] = IF k = 0 THEN ContentsStart ELSE TakeContent(g[k - 1], s[k])
      <3>1. CASE k = n + 1
        <4>1. g[k] = TakeContent(f[n], s[n + 1]) /\ g[k - 1] = f[n] /\ k # 0
          BY <2>2, <3>1
        <4> QED
          BY <3>1, <4>1
      <3>2. CASE k \in 0..n
        <4>1. g[k] = f[k] /\ (k # 0 => g[k - 1] = f[k - 1])
          BY <2>2, <3>2
        <4>2. f[k] = IF k = 0 THEN ContentsStart ELSE TakeContent(f[k - 1], s[k])
          BY <2>1, <3>2 DEF IsContents
        <4> QED
          BY <4>1, <4>2
      <3> QED
        BY <3>1, <3>2
    <2>4. IsContents(g, s, n + 1)
      BY <2>2, <2>3 DEF IsContents
    <2> QED
      BY <2>4
  <1> HIDE DEF S
  <1>3. S \in SUBSET Nat
    BY DEF S
  <1>4. \A n \in Nat : n \in S
    BY <1>1, <1>2, <1>3, Induction
  <1> QED
    BY <1>4 DEF S

(* Its values, one after the other.                                        *)
LEMMA ContentsStep ==
    ASSUME NEW s, NEW n \in Nat, NEW f, IsContents(f, s, n), NEW k \in 0..(n - 1)
    PROVE  f[k + 1] = TakeContent(f[k], s[k + 1])
  <1>1. PICK j \in 1..n : j = k + 1
    OBVIOUS
  <1>2. j - 1 = k /\ j \in 0..n /\ j # 0
    BY <1>1
  <1>3. f[j] = TakeContent(f[j - 1], s[j])
    BY <1>2 DEF IsContents
  <1> QED
    BY <1>1, <1>2, <1>3

(* On a common beginning the functions of two histories agree.             *)
LEMMA ContentsAgree ==
    ASSUME NEW s, NEW t, NEW n \in Nat, NEW m \in Nat, n <= m,
           NEW f, IsContents(f, s, n), NEW g, IsContents(g, t, m), \A i \in 1..n : s[i] = t[i]
    PROVE  f[n] = g[n]
  <1> DEFINE S == {k \in Nat : k <= n => f[k] = g[k]}
  <1>1. 0 \in S
    BY DEF IsContents
  <1>2. ASSUME NEW k \in S PROVE k + 1 \in S
    <2> SUFFICES ASSUME k + 1 <= n PROVE f[k + 1] = g[k + 1]
      OBVIOUS
    <2>1. f[k] = g[k] /\ s[k + 1] = t[k + 1]
      OBVIOUS
    <2>2. f[k + 1] = TakeContent(f[k], s[k + 1])
      BY ContentsStep
    <2>3. g[k + 1] = TakeContent(g[k], t[k + 1])
      BY ContentsStep
    <2> QED
      BY <2>1, <2>2, <2>3
  <1> HIDE DEF S
  <1>3. S \in SUBSET Nat
    BY DEF S
  <1>4. n \in S
    BY <1>1, <1>2, <1>3, Induction
  <1> QED
    BY <1>4 DEF S

(* The loop is the last value of that function.                            *)
LEMMA ContentsIs ==
    ASSUME NEW s, Len(s) \in Nat
    PROVE  \E f : IsContents(f, s, Len(s)) /\ SeparateContents(s) = f[Len(s)]
  <1>1. PICK f : f = CHOOSE c : IsContents(c, s, Len(s))
    OBVIOUS
  <1>2. IsContents(f, s, Len(s))
    BY <1>1, ContentsExists
  <1>3. SeparateContents(s) = f[Len(s)]
    BY <1>1 DEF SeparateContents, IsContents, ContentsStart
  <1> QED
    BY <1>2, <1>3

(* The loop over no messages.                                              *)
LEMMA ContentsEmpty == SeparateContents(<<>>) = ContentsStart
  <1>1. Len(<<>>) = 0
    OBVIOUS
  <1>2. PICK f : IsContents(f, <<>>, 0) /\ SeparateContents(<<>>) = f[0]
    BY <1>1, ContentsIs
  <1> QED
    BY <1>2 DEF IsContents

(* The loop over one message more: TakeContent once more.                  *)
LEMMA ContentsAppend ==
    ASSUME NEW S, NEW s \in Seq(S), NEW x \in S
    PROVE  SeparateContents(Append(s, x)) = TakeContent(SeparateContents(s), x)
  <1>1. PICK n \in Nat : n = Len(s)
    BY LenProperties
  <1>2. PICK t : t = Append(s, x)
    OBVIOUS
  <1>3. Len(t) = n + 1 /\ t[n + 1] = x /\ \A i \in 1..n : s[i] = t[i]
    BY <1>1, <1>2, AppendProperties
  <1>4. PICK m \in Nat : m = n + 1
    OBVIOUS
  <1>5. PICK f : IsContents(f, s, n) /\ SeparateContents(s) = f[n]
    BY <1>1, ContentsIs
  <1>6. PICK g : IsContents(g, t, m) /\ SeparateContents(t) = g[m]
    BY <1>3, <1>4, ContentsIs
  <1>7. f[n] = g[n]
    BY <1>3, <1>4, <1>5, <1>6, ContentsAgree
  <1>8. g[n + 1] = TakeContent(g[n], t[n + 1])
    <2>1. n \in 0..(m - 1)
      BY <1>4
    <2> QED
      BY <1>6, <2>1, ContentsStep
  <1> QED
    BY <1>2, <1>3, <1>4, <1>5, <1>6, <1>7, <1>8

-----------------------------------------------------------------------------
(* 3. Types of what the translators make.                                  *)
TurnAcc == [ok : BOOLEAN, system : Seq(Seq(Words)), turns : Seq(Turn)]
ContentAcc == [ok : BOOLEAN, system : Seq(Seq(Words)), turns : Seq(Content),
               names : [Ids \cup {""} -> Names \cup {""}]]

(* The empty text is a text.                                               *)
LEMMA EmptyText == <<>> \in Seq(Words)
  BY EmptySeq

(* The content of a message is a text.                                     *)
LEMMA ContentStringTyped == ASSUME NEW msg \in Message PROVE ContentString(msg) \in Seq(Words)
  <1>1. msg.parts \in Seq(Part) /\ \A p \in Part : p.text \in Seq(Words)
    BY DEF Message, Part
  <1> QED
    BY <1>1, JoinedTyped DEF ContentString

(* Text blocks.                                                            *)
LEMMA TextBlockTyped == ASSUME NEW text \in Seq(Words) PROVE TextBlock(text) \in TextBlocks
  BY DEF TextBlock, TextBlocks, Block

(* Image blocks.                                                           *)
LEMMA ImageBlockTyped == ImageBlock \in Block /\ ImageBlock.type = "image"
  BY EmptyText DEF ImageBlock, TextBlock, Block

(* A call makes a tool_use block with parsed arguments.                    *)
LEMMA ToolUseTyped == ASSUME NEW call \in Call PROVE ToolUse(call) \in ToolUses
  <1>1. call.id \in Ids \cup {""} /\ call.name \in Names /\ call.args \in Objects \cup {"{}", "broken"}
    BY DEF Call
  <1>2. ParseArguments(call.args) \in Objects \cup {"{}", None}
    BY <1>1 DEF ParseArguments
  <1>3. PICK args \in Objects \cup {"{}", None} : args = ParseArguments(call.args)
    BY <1>2
  <1>4. ToolUse(call) = [type |-> "tool_use", text |-> <<>>, id |-> call.id, name |-> call.name, args |-> args]
    BY <1>3 DEF ToolUse
  <1>5. ToolUse(call) \in Block /\ ToolUse(call).type = "tool_use"
    <2>1. PICK name \in Names \cup {""} : name = call.name
      BY <1>1
    <2>2. PICK id \in Ids \cup {""} : id = call.id
      BY <1>1
    <2>3. PICK type \in {"text", "image", "tool_use", "tool_result"} : type = "tool_use"
      OBVIOUS
    <2>4. PICK text \in Seq(Words) : text = <<>>
      BY EmptyText
    <2>5. ToolUse(call) = [type |-> type, text |-> text, id |-> id, name |-> name, args |-> args]
      BY <1>4, <2>1, <2>2, <2>3, <2>4
    <2>6. [type |-> type, text |-> text, id |-> id, name |-> name, args |-> args] \in Block
      BY DEF Block
    <2>7. ToolUse(call).type = "tool_use"
      BY DEF ToolUse
    <2> QED
      BY <2>3, <2>5, <2>6, <2>7
  <1> QED
    BY <1>5 DEF ToolUses

(* A tool message makes a tool_result block with its id.                   *)
LEMMA ToolResultTyped ==
    ASSUME NEW msg \in Message
    PROVE  ToolResult(msg) \in ToolResults /\ ToolResult(msg).id = msg.id
  <1>1. PICK text \in Seq(Words) : text = ContentString(msg)
    BY ContentStringTyped
  <1>2. ToolResult(msg) = [type |-> "tool_result", text |-> text, id |-> msg.id, name |-> "", args |-> None]
    BY <1>1 DEF ToolResult
  <1>3. msg.id \in Ids \cup {""}
    BY DEF Message
  <1>4. PICK name \in Names \cup {""}, args \in Objects \cup {"{}", None} : name = "" /\ args = None
    OBVIOUS
  <1>5. ToolResult(msg) \in Block /\ ToolResult(msg).type = "tool_result" /\ ToolResult(msg).id = msg.id
    <2>1. PICK id \in Ids \cup {""} : id = msg.id
      BY <1>3
    <2>2. PICK type \in {"text", "image", "tool_use", "tool_result"} : type = "tool_result"
      OBVIOUS
    <2>3. ToolResult(msg) = [type |-> type, text |-> text, id |-> id, name |-> name, args |-> args]
      BY <1>2, <1>4, <2>1, <2>2
    <2>4. [type |-> type, text |-> text, id |-> id, name |-> name, args |-> args] \in Block
      BY DEF Block
    <2>5. ToolResult(msg).type = "tool_result" /\ ToolResult(msg).id = msg.id
      BY DEF ToolResult
    <2> QED
      BY <2>1, <2>2, <2>3, <2>4, <2>5
  <1> QED
    BY <1>5 DEF ToolResults

(* Blocks of the client's own messages.                                    *)
PlainBlocks == {b \in Block : b.type \in {"text", "image"}}

(* A message whose content is a string.                                    *)
LEMMA StringTurnTyped ==
    ASSUME NEW role \in {"user", "assistant"}, NEW text \in Seq(Words)
    PROVE  /\ StringTurn(role, text) \in Turn /\ StringTurn(role, text).role = role
           /\ StringTurn(role, text).blocks = <<TextBlock(text)>>
           /\ StringTurn(role, text).blocks \in Seq(TextBlocks)
  <1>1. TextBlock(text) \in TextBlocks /\ TextBlock(text) \in Block
    BY TextBlockTyped DEF TextBlocks
  <1>2. PICK b : b = TextBlock(text)
    OBVIOUS
  <1>3. <<b>> \in Seq(Block) /\ <<b>> \in Seq(TextBlocks)
    BY <1>1, <1>2
  <1>4. StringTurn(role, text) = [role |-> role, list |-> FALSE, blocks |-> <<b>>]
    BY <1>2 DEF StringTurn
  <1> QED
    BY <1>2, <1>3, <1>4 DEF Turn

(* A user message makes a turn without calls or results.                   *)
LEMMA UserContentTyped ==
    ASSUME NEW msg \in Message
    PROVE  /\ BuildUserContent(msg) \in Turn /\ BuildUserContent(msg).role = "user"
           /\ BuildUserContent(msg).blocks \in Seq(PlainBlocks)
  <1>1. CASE msg.string \/ \A i \in DOMAIN msg.parts : msg.parts[i].type = "text"
    <2>1. BuildUserContent(msg) = StringTurn("user", ContentString(msg))
      BY <1>1 DEF BuildUserContent
    <2>2. PICK text \in Seq(Words) : text = ContentString(msg)
      BY ContentStringTyped
    <2>3. StringTurn("user", text).blocks \in Seq(TextBlocks) /\ TextBlocks \subseteq PlainBlocks
      BY StringTurnTyped DEF TextBlocks, PlainBlocks
    <2>4. StringTurn("user", text).blocks \in Seq(PlainBlocks)
      BY <2>3
    <2> QED
      BY <2>1, <2>2, <2>4, StringTurnTyped
  <1>2. CASE ~(msg.string \/ \A i \in DOMAIN msg.parts : msg.parts[i].type = "text")
    <2>1. PICK kept : kept = Keep(msg.parts, ShownParts)
      OBVIOUS
    <2>2. kept \in Seq(Part \cap ShownParts)
      BY <2>1, KeepTyped DEF Message
    <2>3. PICK n \in Nat : DOMAIN kept = 1..n /\ \A i \in 1..n : kept[i] \in Part
      BY <2>2, LenProperties, ElementOfSeq
    <2>4. PICK blocks : blocks = [i \in 1..n |-> IF kept[i].type = "text" THEN TextBlock(kept[i].text)
                                                ELSE ImageBlock]
      OBVIOUS
    <2>5. ASSUME NEW i \in 1..n PROVE blocks[i] \in PlainBlocks
      <3>1. kept[i].text \in Seq(Words)
        BY <2>3 DEF Part
      <3>2. TextBlock(kept[i].text) \in PlainBlocks /\ ImageBlock \in PlainBlocks
        BY <3>1, TextBlockTyped, ImageBlockTyped DEF TextBlocks, PlainBlocks
      <3> QED
        BY <2>4, <3>2
    <2>6. blocks \in Seq(PlainBlocks)
      <3>1. blocks \in [1..n -> PlainBlocks]
        BY <2>4, <2>5
      <3> QED
        BY <3>1, Mapped
    <2>7. blocks \in Seq(Block)
      BY <2>6 DEF PlainBlocks
    <2>8. BuildUserContent(msg) = [role |-> "user", list |-> TRUE, blocks |-> blocks]
      BY <1>2, <2>1, <2>3, <2>4 DEF BuildUserContent
    <2> QED
      BY <2>6, <2>7, <2>8 DEF Turn
  <1> QED
    BY <1>1, <1>2

(* A message's calls as blocks.                                            *)
UsesOf(msg) == [i \in DOMAIN msg.calls |-> ToolUse(msg.calls[i])]

(* The tool_use blocks of a message, one for each call.                    *)
LEMMA UsesTyped ==
    ASSUME NEW msg \in Message
    PROVE  UsesOf(msg) \in Seq(ToolUses) /\ Len(UsesOf(msg)) = Len(msg.calls)
  <1>1. PICK n \in Nat : n = Len(msg.calls) /\ DOMAIN msg.calls = 1..n /\ \A i \in 1..n : msg.calls[i] \in Call
    <2>1. msg.calls \in Seq(Call)
      BY DEF Message
    <2> QED
      BY <2>1, LenProperties, ElementOfSeq
  <1>2. UsesOf(msg) \in [1..n -> ToolUses]
    BY <1>1, ToolUseTyped DEF UsesOf
  <1> QED
    BY <1>1, <1>2, Mapped

(* An assistant's message makes its text, if any, and its calls.           *)
LEMMA AssistantMessageTyped ==
    ASSUME NEW msg \in Message
    PROVE  /\ BuildAssistantMessage(msg) \in Turn /\ BuildAssistantMessage(msg).role = "assistant"
           /\ BuildAssistantMessage(msg).blocks =
                 (IF msg.calls # <<>> /\ ContentString(msg) = <<>> THEN <<>> ELSE <<TextBlock(ContentString(msg))>>)
                 \o UsesOf(msg)
  <1>1. PICK text \in Seq(Words) : text = ContentString(msg)
    BY ContentStringTyped
  <1>2. UsesOf(msg) \in Seq(ToolUses) /\ UsesOf(msg) \in Seq(Block)
    <2>1. ToolUses \subseteq Block
      BY DEF ToolUses
    <2> QED
      BY <2>1, UsesTyped, SeqWidened
  <1>3. TextBlock(text) \in Block
    BY TextBlockTyped DEF TextBlocks
  <1>4. CASE msg.calls = <<>>
    <2>1. BuildAssistantMessage(msg) = StringTurn("assistant", text)
      BY <1>1, <1>4 DEF BuildAssistantMessage
    <2>2. UsesOf(msg) = <<>>
      BY <1>4 DEF UsesOf
    <2>3. <<TextBlock(text)>> \o <<>> = <<TextBlock(text)>>
      BY <1>3, ConcatEmptySeq
    <2> QED
      BY <1>1, <1>4, <2>1, <2>2, <2>3, StringTurnTyped
  <1>5. CASE msg.calls # <<>>
    <2>1. PICK first : first = IF text = <<>> THEN <<>> ELSE <<TextBlock(text)>>
      OBVIOUS
    <2>2. first \in Seq(Block)
      BY <1>3, <2>1, EmptySeq
    <2>3. PICK blocks : blocks = first \o UsesOf(msg)
      OBVIOUS
    <2>4. blocks \in Seq(Block)
      BY <1>2, <2>2, <2>3, ConcatProperties
    <2>5. BuildAssistantMessage(msg) = [role |-> "assistant", list |-> TRUE, blocks |-> blocks]
      BY <1>1, <1>5, <2>1, <2>3 DEF BuildAssistantMessage, UsesOf
    <2> QED
      BY <1>1, <1>5, <2>1, <2>3, <2>4, <2>5 DEF Turn
  <1> QED
    BY <1>4, <1>5

(* The last element, replaced.                                             *)
LEMMA LastReplaced ==
    ASSUME NEW S, NEW s \in Seq(S), s # <<>>, NEW y \in S
    PROVE  /\ [s EXCEPT ![Len(s)] = y] \in Seq(S) /\ Len([s EXCEPT ![Len(s)] = y]) = Len(s)
           /\ Len(s) \in Nat \ {0} /\ Last(s) = s[Len(s)] /\ s[Len(s)] \in S
           /\ \A i \in 1..Len(s) : [s EXCEPT ![Len(s)] = y][i] = IF i = Len(s) THEN y ELSE s[i]
  <1>1. Len(s) \in Nat \ {0} /\ DOMAIN s = 1..Len(s)
    BY EmptySeq, LenProperties
  <1>2. s[Len(s)] \in S
    BY <1>1, ElementOfSeq
  <1> QED
    BY <1>1, <1>2 DEF Last

(* Where a result goes: the last turn or one of its own.                   *)
LEMMA ResultAppended ==
    ASSUME NEW ts \in Seq(Turn), NEW r \in ToolResults
    PROVE  /\ AppendToolResult(ts, r) \in Seq(Turn) /\ AppendToolResult(ts, r) # <<>>
           /\ LET merged == ts # <<>> /\ Last(ts).role = "user" /\ Last(ts).list
                  n == IF merged THEN Len(ts) ELSE Len(ts) + 1
              IN  /\ Len(AppendToolResult(ts, r)) = n
                  /\ AppendToolResult(ts, r)[n].role = "user" /\ AppendToolResult(ts, r)[n].list
                  /\ AppendToolResult(ts, r)[n].blocks = IF merged THEN Append(ts[n].blocks, r) ELSE <<r>>
                  /\ \A i \in 1..(n - 1) : AppendToolResult(ts, r)[i] = ts[i]
  <1>1. r \in Block
    BY DEF ToolResults
  <1>2. Len(ts) \in Nat
    BY LenProperties
  <1>3. CASE ts # <<>> /\ Last(ts).role = "user" /\ Last(ts).list
    <2>1. Len(ts) \in Nat \ {0} /\ Last(ts) = ts[Len(ts)] /\ ts[Len(ts)] \in Turn
      BY <1>3, LastReplaced
    <2>2. PICK y : y = [ts[Len(ts)] EXCEPT !.blocks = Append(@, r)]
      OBVIOUS
    <2>3. ts[Len(ts)].blocks \in Seq(Block)
      BY <2>1 DEF Turn
    <2>4. Append(ts[Len(ts)].blocks, r) \in Seq(Block)
      BY <1>1, <2>3, AppendProperties
    <2>5. /\ y \in Turn /\ y.role = ts[Len(ts)].role /\ y.list = ts[Len(ts)].list
          /\ y.blocks = Append(ts[Len(ts)].blocks, r)
      BY <2>1, <2>2, <2>4 DEF Turn
    <2>6. AppendToolResult(ts, r) = [ts EXCEPT ![Len(ts)] = y]
      BY <1>3, <2>1, <2>2 DEF AppendToolResult
    <2>7. AppendToolResult(ts, r) # <<>>
      BY <1>3, <2>1, <2>5, <2>6, LastReplaced
    <2> QED
      BY <1>3, <2>1, <2>5, <2>6, <2>7, LastReplaced
  <1>4. CASE ~(ts # <<>> /\ Last(ts).role = "user" /\ Last(ts).list)
    <2>1. PICK y : y = [role |-> "user", list |-> TRUE, blocks |-> <<r>>]
      OBVIOUS
    <2>2. y \in Turn
      BY <1>1, <2>1 DEF Turn
    <2>3. AppendToolResult(ts, r) = Append(ts, y)
      BY <1>4, <2>1 DEF AppendToolResult
    <2> QED
      BY <1>2, <1>4, <2>1, <2>2, <2>3, AppendProperties
  <1> QED
    BY <1>3, <1>4

(* A step of the loop over Claude's messages.                              *)
LEMMA TakeCases ==
    ASSUME NEW acc \in TurnAcc, NEW msg \in Message
    PROVE  LET r == TakeMessage(acc, msg)
           IN  /\ r \in TurnAcc
               /\ ~acc.ok => ~r.ok
               /\ r.ok /\ IsSystem(msg) => r.turns = acc.turns
               /\ r.ok /\ msg.role = "user" => r.turns = Append(acc.turns, BuildUserContent(msg))
               /\ r.ok /\ msg.role = "assistant" => r.turns = Append(acc.turns, BuildAssistantMessage(msg))
               /\ r.ok /\ msg.role = "tool" => r.turns = AppendToolResult(acc.turns, ToolResult(msg))
               /\ r.ok => msg.role # "function"
  <1>1. /\ acc.ok \in BOOLEAN /\ acc.system \in Seq(Seq(Words)) /\ acc.turns \in Seq(Turn)
        /\ acc = [ok |-> acc.ok, system |-> acc.system, turns |-> acc.turns]
    BY DEF TurnAcc
  <1>2. PICK r : r = TakeMessage(acc, msg)
    OBVIOUS
  <1>3. CASE ~acc.ok
    BY <1>2, <1>3 DEF TakeMessage
  <1>4. CASE acc.ok /\ IsSystem(msg)
    <2>1. PICK system : system = Append(acc.system, ContentString(msg))
      OBVIOUS
    <2>2. system \in Seq(Seq(Words))
      BY <1>1, <2>1, ContentStringTyped, AppendProperties
    <2>3. r = [acc EXCEPT !.system = system]
      <3>1. r = [acc EXCEPT !.system = Append(@, ContentString(msg))]
        BY <1>2, <1>4 DEF TakeMessage, IsSystem
      <3> QED
        BY <1>1, <2>1, <3>1
    <2>4. r \in TurnAcc /\ r.turns = acc.turns
      BY <1>1, <2>2, <2>3 DEF TurnAcc
    <2> QED
      BY <1>2, <1>4, <2>4 DEF IsSystem
  <1>5. ASSUME NEW ts \in Seq(Turn), acc.ok, r = [acc EXCEPT !.turns = ts]
        PROVE  r \in TurnAcc /\ r.turns = ts
    BY <1>1, <1>5 DEF TurnAcc
  <1>6. CASE acc.ok /\ msg.role = "user"
    <2>1. Append(acc.turns, BuildUserContent(msg)) \in Seq(Turn)
      BY <1>1, UserContentTyped, AppendProperties
    <2>2. r = [acc EXCEPT !.turns = Append(@, BuildUserContent(msg))]
      BY <1>2, <1>6 DEF TakeMessage, IsSystem
    <2>3. r = [acc EXCEPT !.turns = Append(acc.turns, BuildUserContent(msg))]
      BY <1>1, <2>2
    <2> QED
      BY <1>2, <1>5, <1>6, <2>1, <2>3 DEF IsSystem
  <1>7. CASE acc.ok /\ msg.role = "assistant"
    <2>1. Append(acc.turns, BuildAssistantMessage(msg)) \in Seq(Turn)
      BY <1>1, AssistantMessageTyped, AppendProperties
    <2>2. r = [acc EXCEPT !.turns = Append(@, BuildAssistantMessage(msg))]
      BY <1>2, <1>7 DEF TakeMessage, IsSystem
    <2>3. r = [acc EXCEPT !.turns = Append(acc.turns, BuildAssistantMessage(msg))]
      BY <1>1, <2>2
    <2> QED
      BY <1>2, <1>5, <1>7, <2>1, <2>3 DEF IsSystem
  <1>8. CASE acc.ok /\ msg.role = "tool" /\ msg.id # ""
    <2>1. AppendToolResult(acc.turns, ToolResult(msg)) \in Seq(Turn)
      BY <1>1, ToolResultTyped, ResultAppended
    <2>2. r = [acc EXCEPT !.turns = AppendToolResult(@, ToolResult(msg))]
      BY <1>2, <1>8 DEF TakeMessage, IsSystem
    <2>3. r = [acc EXCEPT !.turns = AppendToolResult(acc.turns, ToolResult(msg))]
      BY <1>1, <2>2
    <2> QED
      BY <1>2, <1>5, <1>8, <2>1, <2>3 DEF IsSystem
  <1>9. CASE /\ acc.ok /\ ~IsSystem(msg) /\ msg.role \notin {"user", "assistant"}
             /\ ~(msg.role = "tool" /\ msg.id # "")
    <2>1. r = [acc EXCEPT !.ok = FALSE]
      BY <1>2, <1>9 DEF TakeMessage
    <2>2. r \in TurnAcc /\ ~r.ok
      BY <1>1, <2>1 DEF TurnAcc
    <2> QED
      BY <1>2, <1>9, <2>2
  <1> QED
    BY <1>1, <1>3, <1>4, <1>6, <1>7, <1>8, <1>9

-----------------------------------------------------------------------------
(* The same of Gemini's contents.                                          *)
LEMMA TextPartTyped == ASSUME NEW text \in Seq(Words) PROVE TextPart(text) \in TextParts
  BY DEF TextPart, TextParts, GeminiPart

(* A call makes a functionCall part with parsed arguments.                 *)
LEMMA CallPartTyped ==
    ASSUME NEW call \in Call
    PROVE  CallPart(call) \in CallParts /\ CallPart(call).name = call.name
  <1>1. call.name \in Names /\ call.args \in Objects \cup {"{}", "broken"}
    BY DEF Call
  <1>2. ParseArguments(call.args) \in Objects \cup {"{}", None}
    BY <1>1 DEF ParseArguments
  <1>3. PICK args \in Objects \cup {"{}", None} : args = ParseArguments(call.args)
    BY <1>2
  <1>4. PICK name \in Names \cup {"", "unknown"} : name = call.name
    BY <1>1
  <1>5. [type |-> "call", text |-> <<>>, name |-> name, args |-> args] \in GeminiPart
    BY EmptyText DEF GeminiPart
  <1>6. CallPart(call) = [type |-> "call", text |-> <<>>, name |-> name, args |-> args]
    BY <1>3, <1>4 DEF CallPart
  <1>7. CallPart(call).type = "call" /\ CallPart(call).name = call.name
    BY DEF CallPart
  <1> QED
    BY <1>5, <1>6, <1>7 DEF CallParts

(* A result makes a functionResponse part.                                 *)
LEMMA FunctionResponseTyped ==
    ASSUME NEW name \in Names \cup {"", "unknown"}, NEW text \in Seq(Words)
    PROVE  FunctionResponse(name, text) \in GeminiPart /\ FunctionResponse(name, text).name = name
  BY DEF FunctionResponse, GeminiPart

(* A user message makes parts.                                             *)
LEMMA ContentPartsTyped ==
    ASSUME NEW msg \in Message
    PROVE  ExtractContentParts(msg) \in Seq(GeminiPart)
  <1>1. PICK text \in Seq(Words) : text = ContentString(msg)
    BY ContentStringTyped
  <1>2. TextPart(text) \in GeminiPart /\ TextPart(<<>>) \in GeminiPart
    BY TextPartTyped, EmptyText DEF TextParts
  <1>3. PICK kept : kept = Keep(msg.parts, ShownParts)
    OBVIOUS
  <1>4. kept \in Seq(Part \cap ShownParts)
    BY <1>3, KeepTyped DEF Message
  <1>5. PICK n \in Nat : DOMAIN kept = 1..n /\ \A i \in 1..n : kept[i] \in Part \cap ShownParts
    BY <1>4, LenProperties, ElementOfSeq
  <1>6. PICK parts : parts = [i \in 1..n |-> [TextPart(kept[i].text) EXCEPT !.type = kept[i].type]]
    OBVIOUS
  <1>7. ASSUME NEW i \in 1..n PROVE parts[i] \in GeminiPart
    <2>1. kept[i].text \in Seq(Words) /\ kept[i].type \in {"text", "image"}
      BY <1>5 DEF Part, ShownParts
    <2>2. TextPart(kept[i].text) \in GeminiPart
      BY <2>1, TextPartTyped DEF TextParts
    <2>3. [TextPart(kept[i].text) EXCEPT !.type = kept[i].type] \in GeminiPart
      BY <2>1, <2>2 DEF GeminiPart
    <2> QED
      BY <1>6, <2>3
  <1>8. parts \in Seq(GeminiPart)
    <2>1. parts \in [1..n -> GeminiPart]
      BY <1>6, <1>7
    <2> QED
      BY <2>1, Mapped
  <1>9. \/ ExtractContentParts(msg) = <<TextPart(text)>>
        \/ ExtractContentParts(msg) = <<TextPart(<<>>)>>
        \/ ExtractContentParts(msg) = parts
    BY <1>1, <1>3, <1>5, <1>6 DEF ExtractContentParts
  <1>10. <<TextPart(text)>> \in Seq(GeminiPart) /\ <<TextPart(<<>>)>> \in Seq(GeminiPart)
    BY <1>2
  <1> QED
    BY <1>8, <1>9, <1>10

CallsOf(msg) == [i \in DOMAIN msg.calls |-> CallPart(msg.calls[i])]

(* The functionCall parts of a message, one for each call.                 *)
LEMMA CallsTyped ==
    ASSUME NEW msg \in Message
    PROVE  CallsOf(msg) \in Seq(CallParts) /\ Len(CallsOf(msg)) = Len(msg.calls)
  <1>1. PICK n \in Nat : n = Len(msg.calls) /\ DOMAIN msg.calls = 1..n /\ \A i \in 1..n : msg.calls[i] \in Call
    <2>1. msg.calls \in Seq(Call)
      BY DEF Message
    <2> QED
      BY <2>1, LenProperties, ElementOfSeq
  <1>2. CallsOf(msg) \in [1..n -> CallParts]
    BY <1>1, CallPartTyped DEF CallsOf
  <1> QED
    BY <1>1, <1>2, Mapped

(* An assistant's message makes its text, if any, and its calls.           *)
LEMMA AssistantPartsTyped ==
    ASSUME NEW msg \in Message
    PROVE  /\ BuildAssistantParts(msg) \in Seq(GeminiPart)
           /\ BuildAssistantParts(msg) =
                 (IF ContentString(msg) = <<>> /\ msg.calls # <<>> THEN <<>> ELSE <<TextPart(ContentString(msg))>>)
                 \o CallsOf(msg)
  <1>1. PICK text \in Seq(Words) : text = ContentString(msg)
    BY ContentStringTyped
  <1>2. CallsOf(msg) \in Seq(CallParts) /\ CallsOf(msg) \in Seq(GeminiPart) /\ (CallsOf(msg) = <<>> <=> msg.calls = <<>>)
    <2>1. CallParts \subseteq GeminiPart
      BY DEF CallParts
    <2>2. CallsOf(msg) = <<>> <=> msg.calls = <<>>
      <3>1. msg.calls \in Seq(Call)
        BY DEF Message
      <3> QED
        BY <3>1, CallsTyped, EmptySeq
    <2> QED
      BY <2>1, <2>2, CallsTyped, SeqWidened
  <1>3. TextPart(text) \in GeminiPart
    BY TextPartTyped DEF TextParts
  <1>4. PICK first : first = IF text = <<>> THEN <<>> ELSE <<TextPart(text)>>
    OBVIOUS
  <1>5. first \in Seq(GeminiPart) /\ <<TextPart(text)>> \in Seq(GeminiPart)
    BY <1>3, <1>4, EmptySeq
  <1>6. first \o CallsOf(msg) \in Seq(GeminiPart)
    BY <1>2, <1>5, ConcatProperties
  <1>7. first \o CallsOf(msg) = <<>> <=> text = <<>> /\ msg.calls = <<>>
    BY <1>2, <1>4, <1>5, ConcatEqualIffEmpty
  <1>8. BuildAssistantParts(msg) = IF first \o CallsOf(msg) = <<>> THEN <<TextPart(<<>>)>> ELSE first \o CallsOf(msg)
    BY <1>1, <1>4 DEF BuildAssistantParts, CallsOf
  <1>9. CASE text = <<>> /\ msg.calls = <<>>
    <2>1. <<TextPart(text)>> \o CallsOf(msg) = <<TextPart(text)>>
      BY <1>2, <1>5, <1>9, ConcatEmptySeq
    <2> QED
      BY <1>1, <1>5, <1>7, <1>8, <1>9, <2>1
  <1>10. CASE ~(text = <<>> /\ msg.calls = <<>>)
    BY <1>1, <1>4, <1>6, <1>7, <1>8, <1>10
  <1> QED
    BY <1>9, <1>10

(* The last of some places in a sequence.                                  *)
LEMMA LastPlace ==
    ASSUME NEW S, NEW s \in Seq(S), NEW at \in SUBSET DOMAIN s, at # {}
    PROVE  \E i \in at : \A j \in at : j <= i
  <1>1. PICK n \in Nat : DOMAIN s = 1..n
    BY LenProperties
  <1>2. PICK T : T = {n - i : i \in at}
    OBVIOUS
  <1>3. T \in SUBSET Nat /\ T # {}
    BY <1>1, <1>2
  <1>4. PICK x \in T : \A y \in T : x <= y
    BY <1>3, LeastNumber
  <1>5. PICK i \in at : x = n - i
    BY <1>2, <1>4
  <1>6. ASSUME NEW j \in at PROVE j <= i
    <2>1. n - j \in T
      BY <1>2
    <2>2. n - i <= n - j
      BY <1>4, <1>5, <2>1
    <2>3. i \in 1..n /\ j \in 1..n
      BY <1>1
    <2> QED
      BY <2>2, <2>3
  <1> QED
    BY <1>6

(* The last call with an id is one of the calls.                           *)
LEMMA LastCallFound ==
    ASSUME NEW calls \in Seq(Call), NEW id, \E i \in DOMAIN calls : calls[i].id = id
    PROVE  /\ LastCall(calls, id) \in DOMAIN calls /\ calls[LastCall(calls, id)].id = id
           /\ calls[LastCall(calls, id)] \in Call
  <1>1. PICK at : at = {i \in DOMAIN calls : calls[i].id = id}
    OBVIOUS
  <1>2. \E i \in at : \A j \in at : j <= i
    <2>1. at \in SUBSET DOMAIN calls /\ at # {}
      BY <1>1
    <2> QED
      BY <2>1, LastPlace
  <1>3. \E i \in DOMAIN calls : calls[i].id = id /\ \A j \in DOMAIN calls : calls[j].id = id => j <= i
    BY <1>1, <1>2
  <1>4. LastCall(calls, id) \in DOMAIN calls /\ calls[LastCall(calls, id)].id = id
    BY <1>3 DEF LastCall
  <1> QED
    BY <1>4, LenProperties, ElementOfSeq

(* The names are those of the calls.                                       *)
LEMMA RememberTyped ==
    ASSUME NEW names \in [Ids \cup {""} -> Names \cup {""}], NEW calls \in Seq(Call)
    PROVE  Remember(names, calls) \in [Ids \cup {""} -> Names \cup {""}]
  <1>1. DOMAIN names = Ids \cup {""}
    OBVIOUS
  <1>2. ASSUME NEW id \in Ids \cup {""}, Called(calls, id) PROVE calls[LastCall(calls, id)].name \in Names \cup {""}
    <2>1. calls[LastCall(calls, id)] \in Call
      BY <1>2, LastCallFound DEF Called
    <2> QED
      BY <2>1 DEF Call
  <1> QED
    BY <1>1, <1>2 DEF Remember

(* Calls with different ids are found again by their ids.                  *)
LEMMA Remembered ==
    ASSUME NEW names \in [Ids \cup {""} -> Names \cup {""}], NEW calls \in Seq(Call), NEW k \in DOMAIN calls,
           calls[k].id # "", \A i \in DOMAIN calls : calls[i].id = calls[k].id => i = k
    PROVE  Remember(names, calls)[calls[k].id] = calls[k].name
  <1>1. calls[k] \in Call
    BY LenProperties, ElementOfSeq
  <1>2. calls[k].id \in Ids \cup {""} /\ DOMAIN names = Ids \cup {""}
    BY <1>1 DEF Call
  <1>3. LastCall(calls, calls[k].id) = k
    BY LastCallFound
  <1>4. Called(calls, calls[k].id)
    BY DEF Called
  <1> QED
    BY <1>2, <1>3, <1>4 DEF Remember

Responded(name, msg) == <<FunctionResponse(name, ContentString(msg))>>

(* The parts of a result name what they are told to name.                  *)
LEMMA RespondedTyped ==
    ASSUME NEW msg \in Message, NEW name \in Names \cup {"", "unknown"}
    PROVE  Responded(name, msg) \in Seq(GeminiPart) /\ Responded(name, msg)[1].name = name
  <1>1. PICK text \in Seq(Words) : text = ContentString(msg)
    BY ContentStringTyped
  <1>2. FunctionResponse(name, text) \in GeminiPart /\ FunctionResponse(name, text).name = name
    BY FunctionResponseTyped
  <1>3. PICK p \in GeminiPart : p = FunctionResponse(name, text) /\ p.name = name
    BY <1>2
  <1>4. Responded(name, msg) = <<p>>
    BY <1>1, <1>3 DEF Responded
  <1>5. <<p>> \in Seq(GeminiPart)
    BY Singleton
  <1>6. <<p>>[1] = p
    BY Singleton
  <1> QED
    BY <1>3, <1>4, <1>5, <1>6

(* One more content leaves the rest of the loop alone.                     *)
LEMMA ContentAdded ==
    ASSUME NEW acc \in ContentAcc, NEW role \in {"user", "model"}, NEW parts \in Seq(GeminiPart)
    PROVE  /\ AddContent(acc, role, parts) \in ContentAcc
           /\ AddContent(acc, role, parts).ok = acc.ok /\ AddContent(acc, role, parts).names = acc.names
           /\ AddContent(acc, role, parts).turns = Append(acc.turns, [role |-> role, parts |-> parts])
  <1>1. /\ acc.ok \in BOOLEAN /\ acc.system \in Seq(Seq(Words)) /\ acc.turns \in Seq(Content)
        /\ acc.names \in [Ids \cup {""} -> Names \cup {""}]
        /\ acc = [ok |-> acc.ok, system |-> acc.system, turns |-> acc.turns, names |-> acc.names]
    BY DEF ContentAcc
  <1>2. [role |-> role, parts |-> parts] \in Content
    BY DEF Content
  <1>3. PICK ts : ts = Append(acc.turns, [role |-> role, parts |-> parts])
    OBVIOUS
  <1>4. ts \in Seq(Content)
    BY <1>1, <1>2, <1>3, AppendProperties
  <1>5. AddContent(acc, role, parts) = [acc EXCEPT !.turns = ts]
    BY <1>1, <1>3 DEF AddContent
  <1>6. /\ [acc EXCEPT !.turns = ts] \in ContentAcc /\ [acc EXCEPT !.turns = ts].ok = acc.ok
        /\ [acc EXCEPT !.turns = ts].names = acc.names /\ [acc EXCEPT !.turns = ts].turns = ts
    BY <1>1, <1>4 DEF ContentAcc
  <1> QED
    BY <1>3, <1>5, <1>6

(* A step of the loop over Gemini's contents.                              *)
LEMMA ContentCases ==
    ASSUME NEW acc \in ContentAcc, NEW msg \in Message
    PROVE  LET r == TakeContent(acc, msg)
           IN  /\ r \in ContentAcc
               /\ ~acc.ok => ~r.ok
               /\ r.ok /\ IsSystem(msg) => r.turns = acc.turns
               /\ r.ok /\ msg.role = "user" =>
                     r.turns = Append(acc.turns, [role |-> "user", parts |-> ExtractContentParts(msg)])
               /\ r.ok /\ msg.role = "assistant" =>
                     /\ r.turns = Append(acc.turns, [role |-> "model", parts |-> BuildAssistantParts(msg)])
                     /\ r.names = Remember(acc.names, msg.calls)
               /\ r.ok /\ msg.role = "tool" =>
                     r.turns = Append(acc.turns, [role |-> "user",
                                                  parts |-> Responded(ToolCallName(acc.names, msg.id), msg)])
               /\ r.ok /\ msg.role = "function" =>
                     r.turns = Append(acc.turns, [role |-> "user", parts |-> Responded(msg.name, msg)])
               /\ r.ok /\ msg.role # "assistant" => r.names = acc.names
  <1>1. /\ acc.ok \in BOOLEAN /\ acc.system \in Seq(Seq(Words)) /\ acc.turns \in Seq(Content)
        /\ acc.names \in [Ids \cup {""} -> Names \cup {""}]
        /\ acc = [ok |-> acc.ok, system |-> acc.system, turns |-> acc.turns, names |-> acc.names]
    BY DEF ContentAcc
  <1>2. PICK r : r = TakeContent(acc, msg)
    OBVIOUS
  <1>3. CASE ~acc.ok
    BY <1>2, <1>3 DEF TakeContent
  <1>4. CASE acc.ok /\ IsSystem(msg)
    <2>1. PICK system : system = Append(acc.system, ContentString(msg))
      OBVIOUS
    <2>2. system \in Seq(Seq(Words))
      BY <1>1, <2>1, ContentStringTyped, AppendProperties
    <2>3. r = [acc EXCEPT !.system = Append(@, ContentString(msg))]
      BY <1>2, <1>4 DEF TakeContent, IsSystem
    <2>4. r = [acc EXCEPT !.system = system]
      BY <1>1, <2>1, <2>3
    <2>5. r \in ContentAcc /\ r.turns = acc.turns /\ r.names = acc.names
      BY <1>1, <2>2, <2>4 DEF ContentAcc
    <2> QED
      BY <1>2, <1>4, <2>5 DEF IsSystem
  <1>5. CASE acc.ok /\ msg.role = "user"
    <2>1. ExtractContentParts(msg) \in Seq(GeminiPart)
      BY ContentPartsTyped
    <2>2. r = AddContent(acc, "user", ExtractContentParts(msg))
      BY <1>2, <1>5 DEF TakeContent, IsSystem
    <2>3. /\ r \in ContentAcc /\ r.names = acc.names
          /\ r.turns = Append(acc.turns, [role |-> "user", parts |-> ExtractContentParts(msg)])
      BY <2>1, <2>2, ContentAdded
    <2> QED
      BY <1>2, <1>5, <2>3 DEF IsSystem
  <1>6. CASE acc.ok /\ msg.role = "assistant"
    <2>1. PICK parts \in Seq(GeminiPart) : parts = BuildAssistantParts(msg)
      BY AssistantPartsTyped
    <2>2. PICK names : names = Remember(acc.names, msg.calls)
      OBVIOUS
    <2>3. names \in [Ids \cup {""} -> Names \cup {""}]
      BY <1>1, <2>2, RememberTyped DEF Message
    <2>4. PICK mid : mid = AddContent(acc, "model", parts)
      OBVIOUS
    <2>5. mid \in ContentAcc /\ mid.names = acc.names /\ mid.turns = Append(acc.turns, [role |-> "model", parts |-> parts])
      BY <2>4, ContentAdded
    <2>6. r = [mid EXCEPT !.names = Remember(@, msg.calls)]
      BY <1>2, <1>6, <2>1, <2>4 DEF TakeContent, IsSystem
    <2>7. r = [mid EXCEPT !.names = names]
      BY <2>2, <2>5, <2>6 DEF ContentAcc
    <2>8. r \in ContentAcc /\ r.turns = mid.turns /\ r.names = names
      BY <2>3, <2>5, <2>7 DEF ContentAcc
    <2> QED
      BY <1>2, <1>6, <2>1, <2>2, <2>5, <2>8 DEF IsSystem
  <1>7. CASE acc.ok /\ msg.role = "tool"
    <2>1. msg.id \in Ids \cup {""}
      BY DEF Message
    <2>2. PICK name \in Names \cup {"", "unknown"} : name = ToolCallName(acc.names, msg.id)
      BY <1>1, <2>1 DEF ToolCallName
    <2>3. PICK parts \in Seq(GeminiPart) : parts = Responded(name, msg)
      BY RespondedTyped
    <2>4. r = AddContent(acc, "user", parts)
      BY <1>2, <1>7, <2>2, <2>3 DEF TakeContent, IsSystem, Responded
    <2>5. /\ r \in ContentAcc /\ r.names = acc.names
          /\ r.turns = Append(acc.turns, [role |-> "user", parts |-> parts])
      BY <2>4, ContentAdded
    <2> QED
      BY <1>2, <1>7, <2>2, <2>3, <2>5 DEF IsSystem
  <1>8. CASE acc.ok /\ msg.role = "function" /\ msg.name # ""
    <2>1. PICK name \in Names \cup {"", "unknown"} : name = msg.name
      BY DEF Message
    <2>2. PICK parts \in Seq(GeminiPart) : parts = Responded(name, msg)
      BY RespondedTyped
    <2>3. r = AddContent(acc, "user", parts)
      BY <1>2, <1>8, <2>1, <2>2 DEF TakeContent, IsSystem, Responded
    <2>4. /\ r \in ContentAcc /\ r.names = acc.names
          /\ r.turns = Append(acc.turns, [role |-> "user", parts |-> parts])
      BY <2>3, ContentAdded
    <2> QED
      BY <1>2, <1>8, <2>1, <2>2, <2>4 DEF IsSystem
  <1>9. CASE /\ acc.ok /\ ~IsSystem(msg) /\ msg.role \notin {"user", "assistant", "tool"}
             /\ ~(msg.role = "function" /\ msg.name # "")
    <2>1. r = [acc EXCEPT !.ok = FALSE]
      BY <1>2, <1>9 DEF TakeContent
    <2>2. r \in ContentAcc /\ ~r.ok
      BY <1>1, <2>1 DEF ContentAcc
    <2> QED
      BY <1>2, <1>9, <2>2
  <1> QED
    BY <1>1, <1>3, <1>4, <1>5, <1>6, <1>7, <1>8, <1>9

-----------------------------------------------------------------------------
(* Answers as messages.                                                    *)
LEMMA JSONStringTyped ==
    ASSUME NEW args \in Objects \cup {"{}", None}
    PROVE  ToJSONString(args) \in Objects \cup {"{}", "broken"}
  BY DEF ToJSONString

(* The message of an answer: its text and its calls.                       *)
AnswerMessage(text, calls) ==
    [role |-> "assistant", string |-> TRUE, calls |-> calls, id |-> "", name |-> "",
     parts |-> <<[type |-> "text", text |-> text]>>]

(* It is a chat message with that text and those calls.                    *)
LEMMA AnswerMessageTyped ==
    ASSUME NEW text \in Seq(Words), NEW calls \in Seq(Call)
    PROVE  /\ AnswerMessage(text, calls) \in Message /\ AnswerMessage(text, calls).role = "assistant"
           /\ AnswerMessage(text, calls).calls = calls /\ ContentString(AnswerMessage(text, calls)) = text
  <1>1. PICK p : p = [type |-> "text", text |-> text]
    OBVIOUS
  <1>2. p \in Part /\ p.text = text
    BY <1>1 DEF Part
  <1>3. <<p>> \in Seq(Part)
    BY <1>2
  <1>4. AnswerMessage(text, calls) = [role |-> "assistant", string |-> TRUE, calls |-> calls, id |-> "",
                                      name |-> "", parts |-> <<p>>]
    BY <1>1 DEF AnswerMessage
  <1>5. [role |-> "assistant", string |-> TRUE, calls |-> calls, id |-> "", name |-> "", parts |-> <<p>>] \in Message
    <2>1. PICK parts \in Seq(Part) : parts = <<p>>
      BY <1>3
    <2>2. [role |-> "assistant", string |-> TRUE, calls |-> calls, id |-> "", name |-> "", parts |-> parts] \in Message
      BY DEF Message, Roles
    <2> QED
      BY <2>1, <2>2
  <1>6. /\ AnswerMessage(text, calls).role = "assistant" /\ AnswerMessage(text, calls).calls = calls
        /\ AnswerMessage(text, calls).parts = <<p>>
    BY <1>1 DEF AnswerMessage
  <1>7. ContentString(AnswerMessage(text, calls)) = text
    BY <1>2, <1>6, JoinedOne DEF ContentString
  <1> QED
    BY <1>4, <1>5, <1>6, <1>7

(* Claude's answers.                                                       *)
CallOfUse(b) == [id |-> b.id, name |-> b.name, args |-> ToJSONString(b.args)]

(* The blocks of an answer, its texts and its calls.                       *)
LEMMA BlocksOfAnswer ==
    ASSUME NEW a \in AnthropicAnswers
    PROVE  /\ a.blocks \in Seq(AnswerBlocks) /\ a.blocks \in Seq(Block) /\ a.stop \in StopReasons
           /\ Keep(a.blocks, TextBlocks) \in Seq(TextBlocks)
           /\ Keep(a.blocks, ToolUses) \in Seq({b \in ToolUses : b.name \in Names})
  <1>1. a.blocks \in Seq(AnswerBlocks) /\ a.stop \in StopReasons
    BY ConversationAssumption
  <1>2. AnswerBlocks \subseteq Block
    BY DEF AnswerBlocks, TextBlocks, ToolUses
  <1>3. AnswerBlocks \cap TextBlocks \subseteq TextBlocks
    OBVIOUS
  <1>4. AnswerBlocks \cap ToolUses \subseteq {b \in ToolUses : b.name \in Names}
    BY DEF AnswerBlocks, TextBlocks, ToolUses
  <1>5. /\ Keep(a.blocks, TextBlocks) \in Seq(AnswerBlocks \cap TextBlocks)
        /\ Keep(a.blocks, ToolUses) \in Seq(AnswerBlocks \cap ToolUses)
    BY <1>1, KeepTyped
  <1>6. Keep(a.blocks, TextBlocks) \in Seq(TextBlocks)
    BY <1>3, <1>5, SeqWidened
  <1>7. Keep(a.blocks, ToolUses) \in Seq({b \in ToolUses : b.name \in Names})
    BY <1>4, <1>5, SeqWidened
  <1> QED
    BY <1>1, <1>2, <1>6, <1>7, SeqWidened

(* Each tool_use block becomes a call, in order.                           *)
LEMMA ExtractedCalls ==
    ASSUME NEW a \in AnthropicAnswers
    PROVE  LET used == Keep(a.blocks, ToolUses)
               calls == ExtractAnthropicToolCalls(a.blocks)
           IN  /\ calls \in Seq(Call) /\ Len(calls) = Len(used)
               /\ \A i \in 1..Len(used) : calls[i] = CallOfUse(used[i]) /\ used[i] \in ToolUses
  <1>1. PICK used : used = Keep(a.blocks, ToolUses)
    OBVIOUS
  <1>2. used \in Seq({b \in ToolUses : b.name \in Names})
    BY <1>1, BlocksOfAnswer
  <1>3. PICK n \in Nat : n = Len(used) /\ DOMAIN used = 1..n /\ \A i \in 1..n : used[i] \in ToolUses /\ used[i].name \in Names
    BY <1>2, LenProperties, ElementOfSeq
  <1>4. PICK calls : calls = [i \in 1..n |-> CallOfUse(used[i])]
    OBVIOUS
  <1>5. ASSUME NEW i \in 1..n PROVE calls[i] \in Call
    <2>1. used[i].id \in Ids \cup {""} /\ used[i].args \in Objects \cup {"{}", None}
      BY <1>3 DEF ToolUses, Block
    <2>2. PICK args \in Objects \cup {"{}", "broken"} : args = ToJSONString(used[i].args)
      BY <2>1, JSONStringTyped
    <2>3. [id |-> used[i].id, name |-> used[i].name, args |-> args] \in Call
      BY <1>3, <2>1 DEF Call
    <2> QED
      BY <1>4, <2>2, <2>3 DEF CallOfUse
  <1>6. calls \in [1..n -> Call]
    BY <1>4, <1>5
  <1>7. calls \in Seq(Call) /\ Len(calls) = n
    BY <1>6, Mapped
  <1>8. ExtractAnthropicToolCalls(a.blocks) = calls
    BY <1>1, <1>3, <1>4 DEF ExtractAnthropicToolCalls, CallOfUse
  <1> QED
    BY <1>1, <1>3, <1>4, <1>7, <1>8

AnswerCalls(a) == IF a.stop = "tool_use" THEN ExtractAnthropicToolCalls(a.blocks) ELSE <<>>

(* TranslateResponse makes the message of text and calls.                  *)
LEMMA AnthropicAnswerIs ==
    ASSUME NEW a \in AnthropicAnswers
    PROVE  /\ AnthropicAnswer(a) = AnswerMessage(ExtractAnthropicContent(a.blocks), AnswerCalls(a))
           /\ ExtractAnthropicContent(a.blocks) \in Seq(Words) /\ AnswerCalls(a) \in Seq(Call)
  <1>1. MapStopReason(a.stop) = "tool_calls" <=> a.stop = "tool_use"
    BY DEF MapStopReason
  <1>2. \A b \in TextBlocks : b.text \in Seq(Words)
    BY DEF TextBlocks, Block
  <1>3. ExtractAnthropicContent(a.blocks) \in Seq(Words)
    BY <1>2, BlocksOfAnswer, JoinedTyped DEF ExtractAnthropicContent
  <1>4. AnswerCalls(a) \in Seq(Call)
    BY ExtractedCalls, EmptySeq DEF AnswerCalls
  <1>5. AnthropicAnswer(a) = AnswerMessage(ExtractAnthropicContent(a.blocks), AnswerCalls(a))
    BY <1>1 DEF AnthropicAnswer, AnswerMessage, AnswerCalls
  <1> QED
    BY <1>3, <1>4, <1>5

(* Gemini's answers.                                                       *)
LEMMA PartsOfAnswer ==
    ASSUME NEW a \in VertexAnswers
    PROVE  /\ a \in Seq(AnswerParts) /\ a \in Seq(GeminiPart)
           /\ Keep(a, TextParts) \in Seq(TextParts)
           /\ Keep(a, CallParts) \in Seq({p \in CallParts : p.name \in Names})
  <1>1. a \in Seq(AnswerParts)
    BY ConversationAssumption
  <1>2. AnswerParts \subseteq GeminiPart
    BY DEF AnswerParts, TextParts, CallParts
  <1>3. AnswerParts \cap CallParts \subseteq {p \in CallParts : p.name \in Names}
    BY DEF AnswerParts, TextParts, CallParts
  <1>4. Keep(a, TextParts) \in Seq(AnswerParts \cap TextParts) /\ Keep(a, CallParts) \in Seq(AnswerParts \cap CallParts)
    BY <1>1, KeepTyped
  <1>5. Keep(a, TextParts) \in Seq(TextParts)
    <2>1. AnswerParts \cap TextParts \subseteq TextParts
      OBVIOUS
    <2> QED
      BY <1>4, <2>1, SeqWidened
  <1>6. Keep(a, CallParts) \in Seq({p \in CallParts : p.name \in Names})
    BY <1>3, <1>4, SeqWidened
  <1> QED
    BY <1>1, <1>2, <1>5, <1>6, SeqWidened

(* Keeping makes no sequence longer.                                       *)
LEMMA KeepShorter ==
    ASSUME NEW S, NEW W
    PROVE  \A s \in Seq(S) : Len(Keep(s, W)) <= Len(s)
  <1> DEFINE P == {s \in Seq(S) : Len(Keep(s, W)) <= Len(s)}
  <1>1. <<>> \in P
    BY KeepEmpty, EmptySeq
  <1>2. ASSUME NEW s \in Seq(S), NEW x \in S, s \in P PROVE Append(s, x) \in P
    <2>1. Append(s, x) \in Seq(S) /\ Len(Append(s, x)) = Len(s) + 1 /\ Len(s) \in Nat
      BY AppendProperties, LenProperties
    <2>2. Keep(s, W) \in Seq(S \cap W)
      BY KeepTyped
    <2>3. Len(Keep(s, W)) \in Nat /\ (x \in W => Len(Append(Keep(s, W), x)) = Len(Keep(s, W)) + 1)
      BY <2>2, AppendProperties, LenProperties
    <2>4. Keep(Append(s, x), W) = IF x \in W THEN Append(Keep(s, W), x) ELSE Keep(s, W)
      BY KeepAppend
    <2> QED
      BY <1>2, <2>1, <2>3, <2>4
  <1> HIDE DEF P
  <1>3. \A s \in Seq(S) : s \in P
    BY <1>1, <1>2, SeqInduction
  <1> QED
    BY <1>3 DEF P

CallOfPart(i, p) == [id |-> CallIds[i], name |-> p.name, args |-> ToJSONString(p.args)]
CalledParts(a) == [i \in DOMAIN Keep(a, CallParts) |-> CallOfPart(i, Keep(a, CallParts)[i])]

(* Each functionCall part becomes a call, in order, with its id.           *)
LEMMA CalledTyped ==
    ASSUME NEW a \in VertexAnswers
    PROVE  LET called == Keep(a, CallParts)
           IN  /\ CalledParts(a) \in Seq(Call) /\ Len(CalledParts(a)) = Len(called)
               /\ \A i \in 1..Len(called) : /\ CalledParts(a)[i] = CallOfPart(i, called[i])
                                            /\ called[i] \in CallParts /\ i \in DOMAIN CallIds
  <1>1. PICK called : called = Keep(a, CallParts)
    OBVIOUS
  <1>2. called \in Seq({p \in CallParts : p.name \in Names})
    BY <1>1, PartsOfAnswer
  <1>3. PICK n \in Nat : n = Len(called) /\ DOMAIN called = 1..n /\ \A i \in 1..n : called[i] \in CallParts /\ called[i].name \in Names
    BY <1>2, LenProperties, ElementOfSeq
  <1>4. Len(a) \in Nat /\ n <= Len(a)
    BY <1>1, <1>3, PartsOfAnswer, KeepShorter, LenProperties
  <1>5. CallIds \in Seq(Ids) /\ Len(a) <= Len(CallIds)
    BY ConversationAssumption
  <1>6. DOMAIN CallIds = 1..Len(CallIds) /\ Len(CallIds) \in Nat /\ \A i \in 1..Len(CallIds) : CallIds[i] \in Ids
    BY <1>5, LenProperties, ElementOfSeq
  <1>7. \A i \in 1..n : i \in DOMAIN CallIds /\ CallIds[i] \in Ids
    BY <1>4, <1>5, <1>6
  <1>8. PICK calls : calls = [i \in 1..n |-> CallOfPart(i, called[i])]
    OBVIOUS
  <1>9. ASSUME NEW i \in 1..n PROVE calls[i] \in Call
    <2>1. called[i].args \in Objects \cup {"{}", None}
      BY <1>3 DEF CallParts, GeminiPart
    <2>2. PICK args \in Objects \cup {"{}", "broken"} : args = ToJSONString(called[i].args)
      BY <2>1, JSONStringTyped
    <2>3. PICK id \in Ids \cup {""} : id = CallIds[i]
      BY <1>7
    <2>4. [id |-> id, name |-> called[i].name, args |-> args] \in Call
      BY <1>3 DEF Call
    <2> QED
      BY <1>8, <2>2, <2>3, <2>4 DEF CallOfPart
  <1>10. calls \in [1..n -> Call]
    BY <1>8, <1>9
  <1>11. calls \in Seq(Call) /\ Len(calls) = n
    BY <1>10, Mapped
  <1>12. CalledParts(a) = calls
    BY <1>1, <1>3, <1>8 DEF CalledParts
  <1> QED
    BY <1>1, <1>3, <1>7, <1>8, <1>11, <1>12

(* TranslateResponse makes the message of text and calls.                  *)
LEMMA VertexAnswerIs ==
    ASSUME NEW a \in VertexAnswers
    PROVE  /\ VertexAnswer(a) = AnswerMessage(Joined(Keep(a, TextParts)), CalledParts(a))
           /\ Joined(Keep(a, TextParts)) \in Seq(Words) /\ CalledParts(a) \in Seq(Call)
  <1>1. \A p \in TextParts : p.text \in Seq(Words)
    BY DEF TextParts, GeminiPart
  <1>2. Joined(Keep(a, TextParts)) \in Seq(Words)
    BY <1>1, PartsOfAnswer, JoinedTyped
  <1>3. VertexAnswer(a) = AnswerMessage(Joined(Keep(a, TextParts)), CalledParts(a))
    BY DEF VertexAnswer, AnswerMessage, CalledParts, CallOfPart
  <1> QED
    BY <1>2, <1>3, CalledTyped

-----------------------------------------------------------------------------
(* 4. What a step does to the conversation: nothing, a message of the      *)
(* client, or an answer.                                                   *)
Idle == UNCHANGED <<dialect, history, pending, turns>>
Adds(msg) == msg \in Message /\ history' = Append(history, msg) /\ dialect' = dialect
UserSpeaks(msg) == Adds(msg) /\ msg.role = "user" /\ pending = {} /\ pending' = {} /\ turns' = turns
Instructs(msg) == Adds(msg) /\ IsSystem(msg) /\ pending' = pending /\ turns' = turns
Results(msg, c) ==
    /\ Adds(msg) /\ c \in pending /\ pending' = pending \ {c} /\ turns' = turns
    /\ msg.role \in {"tool", "function"} /\ msg.name = c.name /\ (msg.role = "tool" => msg.id = c.id)
PendingOf(msg) == {[at |-> i, id |-> msg.calls[i].id, name |-> msg.calls[i].name] : i \in DOMAIN msg.calls}
Answers(msg, a) ==
    /\ Adds(msg) /\ msg.role = "assistant" /\ pending = {} /\ pending' = PendingOf(msg)
    /\ turns' = Append(turns, a)
    /\ \/ dialect # "gemini" /\ a \in AnthropicAnswers /\ msg = AnthropicAnswer(a)
       \/ dialect = "gemini" /\ a \in VertexAnswers /\ msg = VertexAnswer(a)

TypeInv ==
    /\ dialect \in Dialects /\ params \in ParamSets /\ versioned \in BOOLEAN
    /\ history \in Seq(Message) /\ stage \in {"compose", "sent", "refused"}
    /\ pending \subseteq [at : Nat, id : Ids \cup {""}, name : Names]
    /\ sent # None => sent.turns \in Seq(IF dialect = "gemini" THEN Content ELSE Turn)
    /\ turns \in Seq(IF dialect = "gemini" THEN VertexAnswers ELSE AnthropicAnswers)

(* The loops have the types of their results, and the request is what the  *)
(* history gives as long as its answer is awaited.                         *)
SentInv ==
    /\ SeparateSystemMessages(history) \in TurnAcc
    /\ SeparateContents(history) \in ContentAcc
    /\ stage # "compose" => pending = {}
    /\ stage = "sent" /\ dialect # "gemini" =>
          SeparateSystemMessages(history).ok /\ sent.turns = SeparateSystemMessages(history).turns
    /\ stage = "sent" /\ dialect = "gemini" =>
          SeparateContents(history).ok /\ sent.turns = SeparateContents(history).turns

(* A message of the client.                                                *)
Said(role, content, id, name) ==
    [role |-> role, string |-> content.string, parts |-> content.parts,
     calls |-> <<>>, id |-> id, name |-> name]

(* What the client says is a chat message.                                 *)
LEMMA SaidTyped ==
    ASSUME NEW content \in UserContents, NEW role \in Roles, NEW id \in Ids \cup {""}, NEW name \in Names \cup {""}
    PROVE  Said(role, content, id, name) \in Message
  <1>1. content.string \in BOOLEAN /\ content.parts \in Seq(Part)
    BY ConversationAssumption
  <1>2. PICK calls \in Seq(Call) : calls = <<>>
    BY EmptySeq
  <1>3. [role |-> role, string |-> content.string, parts |-> content.parts,
         calls |-> calls, id |-> id, name |-> name] \in Message
    BY <1>1 DEF Message
  <1> QED
    BY <1>2, <1>3 DEF Said

(* Every step is of one of these kinds.                                    *)
LEMMA Kinds ==
    ASSUME TypeInv, SentInv, [Next]_vars
    PROVE  \/ Idle
           \/ \E msg : UserSpeaks(msg) \/ Instructs(msg)
           \/ \E msg : \E c \in pending : Results(msg, c)
           \/ \E msg, a : Answers(msg, a)
  <1>0. history \in Seq(Message) /\ "" \in Ids \cup {""} /\ "" \in Names \cup {""}
    BY DEF TypeInv
  <1>r. /\ "user" \in Roles /\ "system" \in Roles /\ "developer" \in Roles
        /\ "tool" \in Roles /\ "function" \in Roles
    BY DEF Roles
  <1>s. \A content \in UserContents, role \in Roles, id \in Ids \cup {""}, name \in Names \cup {""} :
            Said(role, content, id, name) \in Message
    BY SaidTyped
  <1>1. CASE Speak
    <2>1. PICK content \in UserContents : Says("user", content, "", "")
      BY <1>1 DEF Speak
    <2>2. PICK msg \in Message : history' = Append(history, msg) /\ msg.role = "user"
      <3>1. Said("user", content, "", "") \in Message /\ Said("user", content, "", "").role = "user"
        <4>1. Said("user", content, "", "") \in Message
          BY <1>0, <1>r, <1>s
        <4> QED
          BY <4>1 DEF Said
      <3>2. history' = Append(history, Said("user", content, "", ""))
        BY <2>1 DEF Says, Said
      <3> QED
        BY <3>1, <3>2
    <2>3. UserSpeaks(msg)
      BY <1>1, <2>2 DEF Speak, UserSpeaks, Adds, setup
    <2> QED
      BY <2>3
  <1>2. CASE Instruct
    <2>1. PICK content \in UserContents, role \in {"system", "developer"} : Says(role, content, "", "")
      BY <1>2 DEF Instruct
    <2>2. PICK msg \in Message : history' = Append(history, msg) /\ msg.role = role
      <3>1. Said(role, content, "", "") \in Message /\ Said(role, content, "", "").role = role
        <4>1. Said(role, content, "", "") \in Message
          BY <1>0, <1>r, <1>s
        <4> QED
          BY <4>1 DEF Said
      <3>2. history' = Append(history, Said(role, content, "", ""))
        BY <2>1 DEF Says, Said
      <3> QED
        BY <3>1, <3>2
    <2>3. Instructs(msg)
      BY <1>2, <2>2 DEF Instruct, Instructs, Adds, setup, IsSystem
    <2> QED
      BY <2>3
  <1>3. ASSUME NEW c \in pending, ReturnResult(c) PROVE \E msg : \E d \in pending : Results(msg, d)
    <2>1. c.id \in Ids \cup {""} /\ c.name \in Names \cup {""}
      BY DEF TypeInv
    <2>2. PICK content \in UserContents : \/ Says("tool", content, c.id, c.name)
                                          \/ Says("function", content, "", c.name)
      BY <1>3 DEF ReturnResult
    <2>3. \E msg \in Message : /\ history' = Append(history, msg) /\ msg.name = c.name
                               /\ \/ msg.role = "tool" /\ msg.id = c.id
                                  \/ msg.role = "function"
      <3>1. CASE Says("tool", content, c.id, c.name)
        <4>1. PICK msg : msg = Said("tool", content, c.id, c.name)
          OBVIOUS
        <4>2. msg \in Message /\ msg.role = "tool" /\ msg.id = c.id /\ msg.name = c.name
          <5>1. msg \in Message
            BY <1>r, <1>s, <2>1, <4>1
          <5> QED
            BY <4>1, <5>1 DEF Said
        <4>3. history' = Append(history, msg)
          BY <3>1, <4>1 DEF Says, Said
        <4> QED
          BY <4>2, <4>3
      <3>2. CASE Says("function", content, "", c.name)
        <4>1. PICK msg : msg = Said("function", content, "", c.name)
          OBVIOUS
        <4>2. msg \in Message /\ msg.role = "function" /\ msg.name = c.name
          <5>1. msg \in Message
            BY <1>0, <1>r, <1>s, <2>1, <4>1
          <5> QED
            BY <4>1, <5>1 DEF Said
        <4>3. history' = Append(history, msg)
          BY <3>2, <4>1 DEF Says, Said
        <4> QED
          BY <4>2, <4>3
      <3> QED
        BY <2>2, <3>1, <3>2
    <2>4. PICK msg \in Message : /\ history' = Append(history, msg) /\ msg.name = c.name
                                 /\ \/ msg.role = "tool" /\ msg.id = c.id
                                    \/ msg.role = "function"
      BY <2>3
    <2>5. Results(msg, c)
      BY <1>3, <2>4 DEF ReturnResult, Results, Adds, setup
    <2> QED
      BY <2>5
  <1>4. CASE Send
    BY <1>4 DEF Send, Idle, setup
  <1>5. CASE ErrorAnswer
    BY <1>5 DEF ErrorAnswer, Idle, setup
  <1>6. ASSUME NEW a \in AnthropicAnswers, ClaudeAnswers(a) PROVE \E msg, b : Answers(msg, b)
    <2>1. PICK msg : msg = AnthropicAnswer(a)
      OBVIOUS
    <2>2. msg \in Message /\ msg.role = "assistant"
      BY <2>1, AnthropicAnswerIs, AnswerMessageTyped
    <2>3. stage = "sent" /\ dialect # "gemini" /\ Receive(msg, a)
      BY <1>6, <2>1 DEF ClaudeAnswers, Receive
    <2>4. pending = {}
      BY <2>3 DEF SentInv
    <2>5. Answers(msg, a)
      BY <2>1, <2>2, <2>3, <2>4 DEF Answers, Adds, Receive, PendingOf, setup
    <2> QED
      BY <2>5
  <1>7. ASSUME NEW a \in VertexAnswers, GeminiAnswers(a) PROVE \E msg, b : Answers(msg, b)
    <2>1. PICK msg : msg = VertexAnswer(a)
      OBVIOUS
    <2>2. msg \in Message /\ msg.role = "assistant"
      BY <2>1, VertexAnswerIs, AnswerMessageTyped
    <2>3. stage = "sent" /\ dialect = "gemini" /\ Receive(msg, a)
      BY <1>7, <2>1 DEF GeminiAnswers, Receive
    <2>4. pending = {}
      BY <2>3 DEF SentInv
    <2>5. Answers(msg, a)
      BY <2>1, <2>2, <2>3, <2>4 DEF Answers, Adds, Receive, PendingOf, setup
    <2> QED
      BY <2>5
  <1>8. CASE UNCHANGED vars
    BY <1>8 DEF vars, Idle
  <1> QED
    BY <1>1, <1>2, <1>3, <1>4, <1>5, <1>6, <1>7, <1>8 DEF Next

(* A message added is one step of each loop.                               *)
LEMMA Added ==
    ASSUME history \in Seq(Message), SeparateSystemMessages(history) \in TurnAcc,
           SeparateContents(history) \in ContentAcc, NEW msg, Adds(msg)
    PROVE  /\ history' \in Seq(Message)
           /\ SeparateSystemMessages(history)' = TakeMessage(SeparateSystemMessages(history), msg)
           /\ SeparateContents(history)' = TakeContent(SeparateContents(history), msg)
           /\ SeparateSystemMessages(history)' \in TurnAcc /\ SeparateContents(history)' \in ContentAcc
  <1>1. msg \in Message /\ history' = Append(history, msg)
    BY DEF Adds
  <1>2. /\ SeparateSystemMessages(Append(history, msg)) = TakeMessage(SeparateSystemMessages(history), msg)
        /\ SeparateContents(Append(history, msg)) = TakeContent(SeparateContents(history), msg)
    BY <1>1, TurnsAppend, ContentsAppend
  <1>3. SeparateSystemMessages(history)' = SeparateSystemMessages(history') /\ SeparateContents(history)' = SeparateContents(history')
    OBVIOUS
  <1>4. TakeMessage(SeparateSystemMessages(history), msg) \in TurnAcc /\ TakeContent(SeparateContents(history), msg) \in ContentAcc
    BY <1>1, TakeCases, ContentCases
  <1> QED
    BY <1>1, <1>2, <1>3, <1>4, AppendProperties

-----------------------------------------------------------------------------
(* The request made of a history.                                          *)
LEMMA AnthropicRequestIs ==
    ASSUME NEW messages, NEW p, AnthropicRequest(messages, p) # None
    PROVE  LET separated == SeparateSystemMessages(messages)
               r == AnthropicRequest(messages, p)
           IN  /\ separated.ok /\ r.turns = separated.turns
               /\ r = [system |-> separated.system, turns |-> separated.turns,
                       tools |-> TranslateToolDefinitions(p.tools),
                       choice |-> IF TranslateToolDefinitions(p.tools) = <<>> THEN "absent"
                                  ELSE TranslateToolChoice(p.choice),
                       maxTokens |-> ResolveMaxTokens(p, DefaultMaxTokens), model |-> TRUE, version |-> "header"]
  <1>1. SeparateSystemMessages(messages).ok
    BY DEF AnthropicRequest
  <1> QED
    BY <1>1 DEF AnthropicRequest

(* What Claude's APIs get, besides the messages.                           *)
Acceptable(r) ==
    /\ r.tools = TranslateToolDefinitions(params.tools)
    /\ r.choice # "absent" => r.tools # <<>>
    /\ r.maxTokens = ResolveMaxTokens(params, DefaultMaxTokens)
    /\ r.model = (dialect = "anthropic")
    /\ r.version = IF dialect = "anthropic" THEN "header" ELSE "body"

(* A request that is not refused has the turns of the loop.                *)
LEMMA TranslatedIs ==
    ASSUME dialect \in Dialects, Translate # None
    PROVE  /\ dialect # "gemini" =>
                 /\ SeparateSystemMessages(history).ok /\ Translate.turns = SeparateSystemMessages(history).turns
                 /\ Acceptable(Translate)
           /\ dialect = "gemini" =>
                 SeparateContents(history).ok /\ Translate.turns = SeparateContents(history).turns
  <1>1. CASE dialect = "anthropic"
    <2>1. Translate = AnthropicRequest(history, params)
      BY <1>1 DEF Translate
    <2>2. PICK r : r = AnthropicRequest(history, params)
      OBVIOUS
    <2>3. SeparateSystemMessages(history).ok /\ r.turns = SeparateSystemMessages(history).turns
      BY <2>1, <2>2, AnthropicRequestIs
    <2>4. Acceptable(r)
      <3>1. PICK separated : separated = SeparateSystemMessages(history)
        OBVIOUS
      <3>2. PICK tools, choice, limit : /\ tools = TranslateToolDefinitions(params.tools)
                                        /\ choice = IF tools = <<>> THEN "absent" ELSE TranslateToolChoice(params.choice)
                                        /\ limit = ResolveMaxTokens(params, DefaultMaxTokens)
        OBVIOUS
      <3>3. r = [system |-> separated.system, turns |-> separated.turns, tools |-> tools, choice |-> choice,
                 maxTokens |-> limit, model |-> TRUE, version |-> "header"]
        BY <2>1, <2>2, <3>1, <3>2, AnthropicRequestIs
      <3>4. r.tools = tools /\ r.choice = choice /\ r.maxTokens = limit /\ r.model = TRUE /\ r.version = "header"
        BY <3>3
      <3> QED
        BY <1>1, <3>2, <3>4 DEF Acceptable
    <2> QED
      BY <1>1, <2>1, <2>2, <2>3, <2>4
  <1>2. CASE dialect = "vertex-anthropic"
    <2>1. Translate = VertexAnthropicRequest(history, params, versioned)
      BY <1>2 DEF Translate
    <2>2. PICK r : r = AnthropicRequest(history, params)
      OBVIOUS
    <2>3. r # None /\ Translate = [r EXCEPT !.model = FALSE, !.version = "body"]
      BY <2>1, <2>2 DEF VertexAnthropicRequest
    <2>4. PICK tools, choice, limit : /\ tools = TranslateToolDefinitions(params.tools)
                                      /\ choice = IF tools = <<>> THEN "absent" ELSE TranslateToolChoice(params.choice)
                                      /\ limit = ResolveMaxTokens(params, DefaultMaxTokens)
      OBVIOUS
    <2>5. PICK separated : separated = SeparateSystemMessages(history)
      OBVIOUS
    <2>6. /\ separated.ok
          /\ r = [system |-> separated.system, turns |-> separated.turns, tools |-> tools, choice |-> choice,
                  maxTokens |-> limit, model |-> TRUE, version |-> "header"]
      BY <2>2, <2>3, <2>4, <2>5, AnthropicRequestIs
    <2>7. PICK t : t = [r EXCEPT !.model = FALSE, !.version = "body"]
      OBVIOUS
    <2>8. /\ t.turns = separated.turns /\ t.tools = tools /\ t.choice = choice /\ t.maxTokens = limit
          /\ t.model = FALSE /\ t.version = "body"
      BY <2>6, <2>7
    <2>9. Acceptable(t)
      BY <1>2, <2>4, <2>8 DEF Acceptable
    <2> QED
      BY <1>2, <2>3, <2>5, <2>6, <2>7, <2>8, <2>9
  <1>3. CASE dialect = "gemini"
    <2>1. Translate = VertexRequest(history, params)
      BY <1>3 DEF Translate
    <2>2. SeparateContents(history).ok
      BY <2>1 DEF VertexRequest
    <2>3. Translate.turns = SeparateContents(history).turns
      BY <2>1 DEF VertexRequest
    <2> QED
      BY <1>3, <2>2, <2>3
  <1> QED
    BY <1>1, <1>2, <1>3 DEF Dialects

(* The conversation keeps its provider and parameters, and its stages.     *)
LEMMA StageSteps ==
    ASSUME [Next]_vars
    PROVE  /\ dialect' = dialect /\ params' = params /\ versioned' = versioned
           /\ \/ Send
              \/ stage = "compose" /\ stage' = "compose" /\ sent' = sent
              \/ stage' = "compose" /\ sent' = sent
              \/ UNCHANGED vars
  <1>1. CASE Speak
    BY <1>1 DEF Speak, Composing, setup
  <1>2. CASE Instruct
    BY <1>2 DEF Instruct, Composing, setup
  <1>3. ASSUME NEW c \in pending, ReturnResult(c)
        PROVE  dialect' = dialect /\ params' = params /\ versioned' = versioned /\ stage = "compose" /\ stage' = "compose" /\ sent' = sent
    BY <1>3 DEF ReturnResult, Composing, setup
  <1>4. CASE Send
    BY <1>4 DEF Send, setup
  <1>5. CASE ErrorAnswer
    BY <1>5 DEF ErrorAnswer, setup
  <1>6. ASSUME NEW msg, NEW a, Receive(msg, a)
        PROVE  dialect' = dialect /\ params' = params /\ versioned' = versioned /\ stage' = "compose" /\ sent' = sent
    BY <1>6 DEF Receive, setup
  <1>7. CASE UNCHANGED vars
    BY <1>7 DEF vars
  <1> QED
    BY <1>1, <1>2, <1>3, <1>4, <1>5, <1>6, <1>7 DEF Next, ClaudeAnswers, GeminiAnswers

(* No messages, no request.                                                *)
LEMMA TypeInit == Init => TypeInv /\ SentInv
  <1> SUFFICES ASSUME Init PROVE TypeInv /\ SentInv
    OBVIOUS
  <1>1. /\ dialect \in Dialects /\ params \in ParamSets /\ versioned \in BOOLEAN
        /\ history = <<>> /\ pending = {} /\ turns = <<>> /\ sent = None /\ stage = "compose"
    BY DEF Init
  <1>2. history \in Seq(Message) /\ turns \in Seq(IF dialect = "gemini" THEN VertexAnswers ELSE AnthropicAnswers)
    BY <1>1, EmptySeq
  <1>3. TurnsStart \in TurnAcc
    <2>1. <<>> \in Seq(Seq(Words)) /\ <<>> \in Seq(Turn)
      BY EmptySeq
    <2> QED
      BY <2>1 DEF TurnsStart, TurnAcc
  <1>4. ContentsStart \in ContentAcc
    <2>1. <<>> \in Seq(Seq(Words)) /\ <<>> \in Seq(Content)
      BY EmptySeq
    <2>2. PICK names \in [Ids \cup {""} -> Names \cup {""}] : names = [id \in Ids \cup {""} |-> ""]
      OBVIOUS
    <2> QED
      BY <2>1, <2>2 DEF ContentsStart, ContentAcc
  <1> QED
    BY <1>1, <1>2, <1>3, <1>4, TurnsEmpty, ContentsEmpty DEF TypeInv, SentInv

(* Every step keeps the types, and the request of the history.             *)
LEMMA TypeStep ==
    ASSUME TypeInv, SentInv, [Next]_vars
    PROVE  TypeInv' /\ SentInv'
  <1>0. /\ dialect' = dialect /\ params' = params /\ versioned' = versioned
        /\ dialect \in Dialects /\ params \in ParamSets /\ versioned \in BOOLEAN
        /\ history \in Seq(Message)
    BY StageSteps DEF TypeInv
  <1>1. /\ history' \in Seq(Message)
        /\ (SeparateSystemMessages(history) \in TurnAcc)' /\ (SeparateContents(history) \in ContentAcc)'
        /\ (turns \in Seq(IF dialect = "gemini" THEN VertexAnswers ELSE AnthropicAnswers))'
        /\ (pending \subseteq [at : Nat, id : Ids \cup {""}, name : Names])'
    <2>1. CASE Idle
      BY <2>1 DEF Idle, TypeInv, SentInv
    <2>2. ASSUME NEW msg, Adds(msg)
          PROVE  /\ history' \in Seq(Message)
                 /\ (SeparateSystemMessages(history) \in TurnAcc)' /\ (SeparateContents(history) \in ContentAcc)'
      BY <2>2, Added DEF TypeInv, SentInv
    <2>3. ASSUME NEW msg, UserSpeaks(msg) \/ Instructs(msg)
          PROVE  Adds(msg) /\ turns' = turns /\ pending' \subseteq pending
      BY <2>3 DEF UserSpeaks, Instructs
    <2>4. ASSUME NEW msg, NEW c \in pending, Results(msg, c)
          PROVE  Adds(msg) /\ turns' = turns /\ pending' \subseteq pending
      BY <2>4 DEF Results
    <2>5. ASSUME NEW msg, NEW a, Answers(msg, a)
          PROVE  /\ Adds(msg) /\ (turns \in Seq(IF dialect = "gemini" THEN VertexAnswers ELSE AnthropicAnswers))'
                 /\ pending' \subseteq [at : Nat, id : Ids \cup {""}, name : Names]
      <3>1. Adds(msg) /\ turns' = Append(turns, a) /\ pending' = PendingOf(msg) /\ msg \in Message
        BY <2>5 DEF Answers, Adds
      <3>2. a \in IF dialect = "gemini" THEN VertexAnswers ELSE AnthropicAnswers
        BY <2>5 DEF Answers
      <3>3. turns' \in Seq(IF dialect = "gemini" THEN VertexAnswers ELSE AnthropicAnswers)
        BY <3>1, <3>2, AppendProperties DEF TypeInv
      <3>4. msg.calls \in Seq(Call)
        BY <3>1 DEF Message
      <3>5. \A i \in DOMAIN msg.calls : i \in Nat /\ msg.calls[i] \in Call
        BY <3>4, LenProperties, ElementOfSeq
      <3>6. \A i \in DOMAIN msg.calls : msg.calls[i].id \in Ids \cup {""} /\ msg.calls[i].name \in Names
        BY <3>5 DEF Call
      <3>7. PendingOf(msg) \subseteq [at : Nat, id : Ids \cup {""}, name : Names]
        <4> SUFFICES ASSUME NEW i \in DOMAIN msg.calls
                     PROVE  [at |-> i, id |-> msg.calls[i].id, name |-> msg.calls[i].name]
                              \in [at : Nat, id : Ids \cup {""}, name : Names]
          BY DEF PendingOf
        <4>1. PICK id \in Ids \cup {""}, name \in Names : id = msg.calls[i].id /\ name = msg.calls[i].name
          BY <3>6
        <4>2. i \in Nat
          BY <3>5
        <4>3. [at |-> i, id |-> id, name |-> name] \in [at : Nat, id : Ids \cup {""}, name : Names]
          BY <4>2
        <4> QED
          BY <4>1, <4>3
      <3> QED
        BY <1>0, <3>1, <3>3, <3>7
    <2> QED
      BY <1>0, <2>1, <2>2, <2>3, <2>4, <2>5, Kinds DEF TypeInv
  <1>2. /\ stage' \in {"compose", "sent", "refused"}
        /\ (sent # None => sent.turns \in Seq(IF dialect = "gemini" THEN Content ELSE Turn))'
        /\ (stage # "compose" => pending = {})'
        /\ (stage = "sent" /\ dialect # "gemini" =>
               SeparateSystemMessages(history).ok /\ sent.turns = SeparateSystemMessages(history).turns)'
        /\ (stage = "sent" /\ dialect = "gemini" =>
               SeparateContents(history).ok /\ sent.turns = SeparateContents(history).turns)'
    <2>1. CASE Send
      <3>1. sent' = Translate /\ history' = history /\ pending' = {} /\ stage' = IF sent' = None THEN "refused" ELSE "sent"
        BY <2>1 DEF Send
      <3>2. CASE Translate = None
        BY <3>1, <3>2
      <3>3. CASE Translate # None
        <4>1. SeparateSystemMessages(history)' = SeparateSystemMessages(history) /\ SeparateContents(history)' = SeparateContents(history)
          BY <3>1
        <4>2. /\ dialect # "gemini" => /\ SeparateSystemMessages(history).ok
                                       /\ Translate.turns = SeparateSystemMessages(history).turns
              /\ dialect = "gemini" => SeparateContents(history).ok /\ Translate.turns = SeparateContents(history).turns
          BY <1>0, <3>3, TranslatedIs
        <4>3. SeparateSystemMessages(history).turns \in Seq(Turn) /\ SeparateContents(history).turns \in Seq(Content)
          BY DEF SentInv, TurnAcc, ContentAcc
        <4> QED
          BY <1>0, <3>1, <4>1, <4>2, <4>3
      <3> QED
        BY <3>2, <3>3
    <2>2. CASE stage' = "compose" /\ sent' = sent
      BY <1>0, <2>2 DEF TypeInv
    <2>3. CASE UNCHANGED vars
      BY <2>3 DEF vars, TypeInv, SentInv
    <2> QED
      BY <2>1, <2>2, <2>3, StageSteps
  <1> QED
    BY <1>0, <1>1, <1>2 DEF TypeInv, SentInv

(* Messages, requests and outstanding calls keep their types through any   *)
(* conversation: calls stay JSON text (toJSONString), and requests consist *)
(* of the provider's blocks or parts (separateSystemMessages).             *)
THEOREM MessagesTyped == Spec => []TypeOK
  <1>1. Init => TypeInv /\ SentInv
    BY TypeInit
  <1>2. TypeInv /\ SentInv /\ [Next]_vars => (TypeInv /\ SentInv)'
    BY TypeStep
  <1>3. TypeInv => TypeOK
    BY DEF TypeInv, TypeOK
  <1> QED
    BY <1>1, <1>2, <1>3, PTL DEF Spec

-----------------------------------------------------------------------------
(* 5. What Claude's APIs require.                                          *)
AcceptInv == stage = "sent" /\ dialect # "gemini" => Acceptable(sent)

(* The limit is positive, and the one given if that is.                    *)
LEMMA LimitPositive ==
    ASSUME NEW p
    PROVE  /\ ResolveMaxTokens(p, DefaultMaxTokens) > 0
           /\ \A l \in {p.completionLimit, p.limit} : l # None =>
                 (l > 0 => ResolveMaxTokens(p, DefaultMaxTokens) \in {p.completionLimit, p.limit})
  BY DEF ResolveMaxTokens, DefaultMaxTokens

(* Such a request is acceptable.                                           *)
LEMMA AcceptImplies == AcceptInv => RequestAcceptable
  <1> SUFFICES ASSUME AcceptInv, stage = "sent", dialect # "gemini" PROVE RequestAcceptable
    BY DEF RequestAcceptable, Sent
  <1>1. Acceptable(sent)
    BY DEF AcceptInv
  <1>2. /\ sent.maxTokens > 0
        /\ \A l \in {params.completionLimit, params.limit} : l # None =>
              (l > 0 => sent.maxTokens \in {params.completionLimit, params.limit})
    BY <1>1, LimitPositive DEF Acceptable
  <1>3. \A i \in DOMAIN sent.tools : sent.tools[i].schema \in {"given", "empty"}
    <2>1. PICK kept : kept = Keep(params.tools, FunctionTools)
      OBVIOUS
    <2>2. sent.tools = [i \in DOMAIN kept |-> [name |-> kept[i].name, schema |-> IF kept[i].schema THEN "given" ELSE "empty"]]
      BY <1>1, <2>1 DEF Acceptable, TranslateToolDefinitions
    <2> QED
      BY <2>2
  <1> QED
    BY <1>1, <1>2, <1>3 DEF RequestAcceptable, Acceptable

(* Send makes such a request, nothing else makes one.                      *)
LEMMA AcceptStep ==
    ASSUME TypeInv, AcceptInv, [Next]_vars
    PROVE  AcceptInv'
  <1>0. dialect' = dialect /\ params' = params /\ dialect \in Dialects
    BY StageSteps DEF TypeInv
  <1>1. CASE Send
    <2>1. sent' = Translate /\ stage' = IF sent' = None THEN "refused" ELSE "sent"
      BY <1>1 DEF Send
    <2>2. Translate # None /\ dialect # "gemini" => Acceptable(Translate)
      BY <1>0, TranslatedIs
    <2> QED
      BY <1>0, <2>1, <2>2 DEF AcceptInv, Acceptable
  <1>2. CASE stage' = "compose"
    BY <1>2 DEF AcceptInv
  <1>3. CASE UNCHANGED vars
    BY <1>3 DEF vars, AcceptInv, Acceptable
  <1> QED
    BY <1>1, <1>2, <1>3, StageSteps

(* Every request to Claude is one its APIs accept: the client's limit or   *)
(* a positive default (resolveMaxTokens), a schema for every tool and a    *)
(* choice only with tools (translateToolDefinitions, TranslateRequest),    *)
(* the version in the header or in the body (TranslateRequestWithConfig).  *)
THEOREM RequestsAcceptable == Spec => []RequestAcceptable
  <1>1. Init => TypeInv /\ SentInv /\ AcceptInv
    BY TypeInit DEF Init, AcceptInv
  <1>2. TypeInv /\ SentInv /\ AcceptInv /\ [Next]_vars => (TypeInv /\ SentInv /\ AcceptInv)'
    BY TypeStep, AcceptStep
  <1> QED
    BY <1>1, <1>2, AcceptImplies, PTL DEF Spec

-----------------------------------------------------------------------------
(* 6. The names of responses.  What the loop has made of a history matches *)
(* the messages that are not instructions, place by place, and the names   *)
(* it remembers are those of the outstanding calls.                        *)
Speakers == {m \in Message : ~IsSystem(m)}
Replies == {"tool", "function"}
Named(spoken, contents) ==
    /\ Len(contents) = Len(spoken)
    /\ \A i \in DOMAIN spoken : spoken[i].role \in Replies => contents[i].parts[1].name = spoken[i].name

NamedInv ==
    dialect = "gemini" /\ SeparateContents(history).ok =>
        /\ Named(Keep(history, Speakers), SeparateContents(history).turns)
        /\ \A c \in pending : SeparateContents(history).names[c.id] = c.name

(* One message and one content more.                                       *)
LEMMA NamedAppend ==
    ASSUME NEW spoken \in Seq(Message), NEW contents \in Seq(Content), Named(spoken, contents),
           NEW msg \in Message, NEW content \in Content,
           msg.role \in Replies => content.parts[1].name = msg.name
    PROVE  Named(Append(spoken, msg), Append(contents, content))
  <1>1. /\ Len(spoken) \in Nat /\ Len(contents) = Len(spoken) /\ DOMAIN spoken = 1..Len(spoken)
        /\ \A i \in DOMAIN spoken : spoken[i].role \in Replies => contents[i].parts[1].name = spoken[i].name
    BY LenProperties DEF Named
  <1>2. PICK n \in Nat : n = Len(spoken)
    BY <1>1
  <1>3. PICK longer, more : longer = Append(spoken, msg) /\ more = Append(contents, content)
    OBVIOUS
  <1>4. /\ Len(longer) = n + 1 /\ DOMAIN longer = 1..(n + 1) /\ longer[n + 1] = msg
        /\ \A i \in 1..n : longer[i] = spoken[i]
        /\ Len(more) = n + 1 /\ more[n + 1] = content
        /\ \A i \in 1..n : more[i] = contents[i]
    BY <1>1, <1>2, <1>3, AppendProperties, LenProperties
  <1>5. ASSUME NEW i \in DOMAIN longer, longer[i].role \in Replies PROVE more[i].parts[1].name = longer[i].name
    <2>1. CASE i = n + 1
      BY <1>4, <1>5, <2>1
    <2>2. CASE i \in 1..n
      BY <1>1, <1>2, <1>4, <1>5, <2>2
    <2> QED
      BY <1>4, <2>1, <2>2
  <1> QED
    BY <1>3, <1>4, <1>5 DEF Named

(* Every step keeps the names: an answer renames, a result reads.          *)
LEMMA NamedStep ==
    ASSUME TypeInv, SentInv, NamedInv, [Next]_vars
    PROVE  NamedInv'
  <1>0. dialect' = dialect /\ history \in Seq(Message)
    BY StageSteps DEF TypeInv
  <1>1. CASE Idle
    BY <1>1 DEF Idle, NamedInv
  <1>2. ASSUME NEW msg, Adds(msg), (dialect = "gemini" /\ SeparateContents(history).ok)'
        PROVE  /\ msg \in Message /\ SeparateContents(history).ok /\ dialect = "gemini"
               /\ SeparateContents(history) \in ContentAcc /\ SeparateContents(history)' \in ContentAcc
               /\ SeparateContents(history)' = TakeContent(SeparateContents(history), msg)
               /\ TakeContent(SeparateContents(history), msg).ok
               /\ Keep(history, Speakers)' =
                     IF IsSystem(msg) THEN Keep(history, Speakers) ELSE Append(Keep(history, Speakers), msg)
               /\ Keep(history, Speakers) \in Seq(Message)
    <2>1. msg \in Message /\ history' = Append(history, msg)
      BY <1>2 DEF Adds
    <2>2. /\ SeparateContents(history) \in ContentAcc /\ SeparateContents(history)' \in ContentAcc
          /\ SeparateContents(history)' = TakeContent(SeparateContents(history), msg)
      BY <1>0, <1>2, Added DEF SentInv
    <2>3. TakeContent(SeparateContents(history), msg).ok
      BY <1>2, <2>2
    <2>4. SeparateContents(history).ok
      BY <2>1, <2>2, <2>3, ContentCases
    <2>5. Keep(Append(history, msg), Speakers) =
             IF msg \in Speakers THEN Append(Keep(history, Speakers), msg) ELSE Keep(history, Speakers)
      BY <1>0, <2>1, KeepAppend
    <2>6. msg \in Speakers <=> ~IsSystem(msg)
      BY <2>1 DEF Speakers
    <2>7. Keep(history, Speakers) \in Seq(Message)
      <3>1. Keep(history, Speakers) \in Seq(Message \cap Speakers)
        BY <1>0, KeepTyped
      <3>2. Message \cap Speakers \subseteq Message
        OBVIOUS
      <3> QED
        BY <3>1, <3>2, SeqWidened
    <2>8. Keep(history, Speakers)' = Keep(history', Speakers)
      BY DEF Speakers
    <2> QED
      BY <1>0, <1>2, <2>1, <2>2, <2>3, <2>4, <2>5, <2>6, <2>7, <2>8
  <1>3. PICK old, new, spoken, contents :
            /\ old = SeparateContents(history) /\ new = SeparateContents(history)'
            /\ spoken = Keep(history, Speakers) /\ contents = old.turns
    OBVIOUS
  <1>4. ASSUME NEW msg, Adds(msg), dialect = "gemini", new.ok
        PROVE  /\ msg \in Message /\ old.ok /\ old \in ContentAcc /\ new \in ContentAcc
               /\ new = TakeContent(old, msg)
               /\ Keep(history, Speakers)' = IF IsSystem(msg) THEN spoken ELSE Append(spoken, msg)
               /\ spoken \in Seq(Message) /\ contents \in Seq(Content)
               /\ Named(spoken, contents) /\ \A c \in pending : old.names[c.id] = c.name
    <2>1. (dialect = "gemini" /\ SeparateContents(history).ok)'
      BY <1>0, <1>3, <1>4
    <2>2. /\ msg \in Message /\ old.ok /\ old \in ContentAcc /\ new \in ContentAcc
          /\ new = TakeContent(old, msg)
          /\ Keep(history, Speakers)' = IF IsSystem(msg) THEN spoken ELSE Append(spoken, msg)
          /\ spoken \in Seq(Message)
      BY <1>2, <1>3, <1>4, <2>1
    <2>3. contents \in Seq(Content)
      BY <1>3, <2>2 DEF ContentAcc
    <2>4. Named(spoken, contents) /\ \A c \in pending : old.names[c.id] = c.name
      BY <1>3, <1>4, <2>2 DEF NamedInv
    <2> QED
      BY <2>2, <2>3, <2>4
  <1>c. ASSUME NEW msg, Adds(msg), dialect = "gemini", new.ok
        PROVE  /\ IsSystem(msg) => new.turns = contents
               /\ msg.role = "user" =>
                     new.turns = Append(contents, [role |-> "user", parts |-> ExtractContentParts(msg)])
               /\ msg.role = "assistant" =>
                     /\ new.turns = Append(contents, [role |-> "model", parts |-> BuildAssistantParts(msg)])
                     /\ new.names = Remember(old.names, msg.calls)
               /\ msg.role = "tool" =>
                     new.turns = Append(contents, [role |-> "user",
                                                   parts |-> Responded(ToolCallName(old.names, msg.id), msg)])
               /\ msg.role = "function" =>
                     new.turns = Append(contents, [role |-> "user", parts |-> Responded(msg.name, msg)])
               /\ msg.role # "assistant" => new.names = old.names
    <2>1. msg \in Message /\ old \in ContentAcc /\ new = TakeContent(old, msg) /\ contents = old.turns
      BY <1>3, <1>4, <1>c
    <2>2. TakeContent(old, msg).ok
      BY <1>c, <2>1
    <2> QED
      BY <2>1, <2>2, ContentCases
  <1>5. ASSUME NEW msg, NEW content \in Content, Adds(msg), dialect = "gemini", new.ok, ~IsSystem(msg),
               new.turns = Append(contents, content), msg.role \in Replies => content.parts[1].name = msg.name
        PROVE  Named(Keep(history, Speakers)', new.turns)
    <2>1. /\ msg \in Message /\ spoken \in Seq(Message) /\ contents \in Seq(Content) /\ Named(spoken, contents)
          /\ Keep(history, Speakers)' = Append(spoken, msg)
      BY <1>4, <1>5
    <2>2. Named(Append(spoken, msg), Append(contents, content))
      BY <1>5, <2>1, NamedAppend
    <2> QED
      BY <1>5, <2>1, <2>2
  <1>6. ASSUME NEW msg, UserSpeaks(msg), dialect = "gemini", new.ok
        PROVE  Named(Keep(history, Speakers)', new.turns) /\ \A c \in pending' : new.names[c.id] = c.name
    <2>1. Adds(msg) /\ msg.role = "user" /\ pending' = {} /\ ~IsSystem(msg) /\ msg.role \notin Replies
      BY <1>6 DEF UserSpeaks, IsSystem, Replies
    <2>2. PICK parts \in Seq(GeminiPart) : parts = ExtractContentParts(msg)
      BY <1>4, <1>6, <2>1, ContentPartsTyped
    <2>3. new.turns = Append(contents, [role |-> "user", parts |-> parts])
      BY <1>6, <1>c, <2>1, <2>2
    <2>4. [role |-> "user", parts |-> parts] \in Content
      BY <2>2 DEF Content
    <2> QED
      BY <1>5, <1>6, <2>1, <2>3, <2>4
  <1>7. ASSUME NEW msg, Instructs(msg), dialect = "gemini", new.ok
        PROVE  Named(Keep(history, Speakers)', new.turns) /\ \A c \in pending' : new.names[c.id] = c.name
    <2>1. Adds(msg) /\ IsSystem(msg) /\ pending' = pending /\ msg.role # "assistant"
      BY <1>7 DEF Instructs, IsSystem
    <2>2. new.turns = contents /\ new.names = old.names
      BY <1>7, <1>c, <2>1
    <2> QED
      BY <1>4, <1>7, <2>1, <2>2
  <1>8. ASSUME NEW msg, NEW c \in pending, Results(msg, c), dialect = "gemini", new.ok
        PROVE  Named(Keep(history, Speakers)', new.turns) /\ \A d \in pending' : new.names[d.id] = d.name
    <2>1. /\ Adds(msg) /\ msg.role \in Replies /\ pending' \subseteq pending /\ ~IsSystem(msg)
          /\ msg.name = c.name /\ (msg.role = "tool" => msg.id = c.id) /\ msg.role # "assistant"
      BY <1>8 DEF Results, IsSystem, Replies
    <2>2. c.name \in Names /\ c.name # "" /\ old.names[c.id] = c.name /\ msg \in Message
      BY <1>4, <1>8, <2>1, ConversationAssumption DEF TypeInv
    <2>3. PICK name \in Names \cup {"", "unknown"} : name = c.name
      BY <2>2
    <2>4. new.turns = Append(contents, [role |-> "user", parts |-> Responded(name, msg)])
      <3>1. CASE msg.role = "tool"
        <4>1. ToolCallName(old.names, msg.id) = name
          BY <2>1, <2>2, <2>3, <3>1 DEF ToolCallName
        <4> QED
          BY <1>8, <1>c, <2>1, <3>1, <4>1
      <3>2. CASE msg.role = "function"
        BY <1>8, <1>c, <2>1, <2>3, <3>2
      <3> QED
        BY <2>1, <3>1, <3>2 DEF Replies
    <2>5. PICK parts \in Seq(GeminiPart) : parts = Responded(name, msg) /\ parts[1].name = name
      BY <2>2, <2>3, RespondedTyped
    <2>6. PICK content \in Content : content = [role |-> "user", parts |-> parts] /\ content.parts = parts
      <3>1. [role |-> "user", parts |-> parts] \in Content
        BY <2>5 DEF Content
      <3> QED
        BY <3>1
    <2>7. new.names = old.names
      BY <1>8, <1>c, <2>1
    <2>8. Named(Keep(history, Speakers)', new.turns)
      BY <1>5, <1>8, <2>1, <2>3, <2>4, <2>5, <2>6
    <2>9. \A d \in pending : old.names[d.id] = d.name
      BY <1>4, <1>8, <2>1
    <2> QED
      BY <2>1, <2>7, <2>8, <2>9
  <1>9. ASSUME NEW msg, NEW a, Answers(msg, a), dialect = "gemini", new.ok
        PROVE  Named(Keep(history, Speakers)', new.turns) /\ \A c \in pending' : new.names[c.id] = c.name
    <2>1. /\ Adds(msg) /\ msg.role = "assistant" /\ ~IsSystem(msg) /\ msg.role \notin Replies
          /\ pending' = PendingOf(msg) /\ a \in VertexAnswers /\ msg = VertexAnswer(a)
      BY <1>9 DEF Answers, IsSystem, Replies
    <2>2. PICK parts \in Seq(GeminiPart) : parts = BuildAssistantParts(msg)
      BY <1>4, <1>9, <2>1, AssistantPartsTyped
    <2>3. new.turns = Append(contents, [role |-> "model", parts |-> parts]) /\ new.names = Remember(old.names, msg.calls)
      BY <1>9, <1>c, <2>1, <2>2
    <2>4. [role |-> "model", parts |-> parts] \in Content
      BY <2>2 DEF Content
    <2>5. Named(Keep(history, Speakers)', new.turns)
      BY <1>5, <1>9, <2>1, <2>3, <2>4
    <2>6. PICK calls \in Seq(Call) : calls = CalledParts(a) /\ msg.calls = calls
      BY <2>1, VertexAnswerIs, AnswerMessageTyped
    <2>7. \A i \in DOMAIN calls : i \in DOMAIN CallIds /\ calls[i].id = CallIds[i] /\ calls[i].id # ""
      <3>1. PICK n \in Nat : n = Len(calls) /\ DOMAIN calls = 1..n
        BY LenProperties
      <3>2. \A i \in 1..n : calls[i] = CallOfPart(i, Keep(a, CallParts)[i]) /\ i \in DOMAIN CallIds
        BY <2>1, <2>6, <3>1, CalledTyped
      <3>3. \A i \in DOMAIN CallIds : CallIds[i] \in Ids /\ CallIds[i] # ""
        <4>1. CallIds \in Seq(Ids) /\ "" \notin Ids
          BY ConversationAssumption
        <4>2. \A i \in DOMAIN CallIds : CallIds[i] \in Ids
          BY <4>1, LenProperties, ElementOfSeq
        <4> QED
          BY <4>1, <4>2
      <3>4. \A i \in 1..n : calls[i].id = CallIds[i]
        <4>1. \A i, p : CallOfPart(i, p).id = CallIds[i]
          BY DEF CallOfPart
        <4> QED
          BY <3>2, <4>1
      <3> QED
        BY <3>1, <3>2, <3>3, <3>4
    <2>8. \A i, j \in DOMAIN calls : calls[i].id = calls[j].id => i = j
      BY <2>7, ConversationAssumption
    <2>9. old.names \in [Ids \cup {""} -> Names \cup {""}]
      BY <1>4, <1>9, <2>1 DEF ContentAcc
    <2>10. \A k \in DOMAIN calls : Remember(old.names, calls)[calls[k].id] = calls[k].name
      BY <2>7, <2>8, <2>9, Remembered
    <2>11. ASSUME NEW c \in pending' PROVE new.names[c.id] = c.name
      <3>1. PICK k \in DOMAIN calls : c = [at |-> k, id |-> calls[k].id, name |-> calls[k].name]
        BY <2>1, <2>6, <2>11 DEF PendingOf
      <3> QED
        BY <2>3, <2>6, <2>10, <3>1
    <2> QED
      BY <2>5, <2>11
  <1>10. CASE dialect = "gemini" /\ new.ok
    <2>1. CASE Idle
      BY <1>1, <2>1
    <2>2. CASE ~Idle
      <3>1. Named(Keep(history, Speakers)', new.turns) /\ \A c \in pending' : new.names[c.id] = c.name
        BY <1>6, <1>7, <1>8, <1>9, <1>10, <2>2, Kinds
      <3>2. Named(Keep(history, Speakers), SeparateContents(history).turns)'
              = Named(Keep(history, Speakers)', SeparateContents(history).turns')
        BY DEF Named, Replies
      <3> QED
        BY <1>3, <3>1, <3>2 DEF NamedInv
    <2> QED
      BY <2>1, <2>2
  <1>11. CASE ~(dialect = "gemini" /\ new.ok)
    BY <1>0, <1>3, <1>11 DEF NamedInv
  <1> QED
    BY <1>10, <1>11

(* Every functionResponse names the function whose call it answers, even   *)
(* though the ids the translator invents start again with each answer      *)
(* (toolCallNames in separateSystemMessages): a later call replaces the    *)
(* name an earlier one left under its id, and no result is outstanding     *)
(* when it does.                                                           *)
THEOREM NamesFound == Spec => []ResponsesNamed
  <1>1. Init => TypeInv /\ SentInv /\ NamedInv
    <2> SUFFICES ASSUME Init PROVE TypeInv /\ SentInv /\ NamedInv
      OBVIOUS
    <2>1. history = <<>> /\ pending = {}
      BY DEF Init
    <2>2. Keep(history, Speakers) = <<>> /\ SeparateContents(history).turns = <<>>
      <3>1. SeparateContents(<<>>).turns = <<>>
        <4>1. ContentsStart.turns = <<>>
          BY DEF ContentsStart
        <4> QED
          BY <4>1, ContentsEmpty
      <3>2. Keep(<<>>, Speakers) = <<>>
        BY KeepEmpty
      <3> QED
        BY <2>1, <3>1, <3>2
    <2>3. Named(<<>>, <<>>)
      BY DEF Named
    <2> QED
      BY <2>1, <2>2, <2>3, TypeInit DEF NamedInv
  <1>2. TypeInv /\ SentInv /\ NamedInv /\ [Next]_vars => (TypeInv /\ SentInv /\ NamedInv)'
    BY TypeStep, NamedStep
  <1>3. SentInv /\ NamedInv => ResponsesNamed
    BY DEF SentInv, NamedInv, Named, Replies, Speakers, ResponsesNamed, Sent
  <1> QED
    BY <1>1, <1>2, <1>3, PTL DEF Spec

-----------------------------------------------------------------------------
(* 7. The provider's own turns.  An answer becomes a message and, in later *)
(* requests, a turn: text and calls survive both translations.             *)
TextsSaid == TextBlocks \cup TextParts
CallsMade == ToolUses \cup CallParts
GistOfCalls(calls, ids) ==
    [i \in DOMAIN calls |-> <<IF ids THEN calls[i].id ELSE "", calls[i].name,
                              IF calls[i].args = None THEN "{}" ELSE calls[i].args>>]

(* A gist from its text and its calls.                                     *)
LEMMA GistIs ==
    ASSUME NEW blocks, NEW ids, NEW text, NEW calls,
           Joined(Keep(blocks, TextsSaid)) = text, Keep(blocks, CallsMade) = calls
    PROVE  Gist(blocks, ids) = [text |-> text, calls |-> GistOfCalls(calls, ids)]
  BY DEF Gist, GistOfCalls, TextsSaid, CallsMade

(* Texts and calls are told apart by their types.                          *)
LEMMA TypesApart ==
    /\ TextBlocks \cap CallsMade = {} /\ TextParts \cap CallsMade = {}
    /\ ToolUses \cap TextsSaid = {} /\ CallParts \cap TextsSaid = {}
    /\ \A b \in Block : (b \in TextsSaid <=> b \in TextBlocks) /\ (b \in CallsMade <=> b \in ToolUses)
    /\ \A p \in GeminiPart : (p \in TextsSaid <=> p \in TextParts) /\ (p \in CallsMade <=> p \in CallParts)
  <1>1. \A b \in TextsSaid : b.type = "text"
    BY DEF TextsSaid, TextBlocks, TextParts
  <1>2. \A b \in CallsMade : b.type \in {"tool_use", "call"}
    BY DEF CallsMade, ToolUses, CallParts
  <1>3. \A b \in Block : /\ b \in TextBlocks <=> b.type = "text"
                         /\ b \in ToolUses <=> b.type = "tool_use"
                         /\ b.type # "call"
    BY DEF TextBlocks, ToolUses, Block
  <1>4. \A p \in GeminiPart : /\ p \in TextParts <=> p.type = "text"
                              /\ p \in CallParts <=> p.type = "call"
                              /\ p.type # "tool_use"
    BY DEF TextParts, CallParts, GeminiPart
  <1>5. \A b \in Block : (b \in TextsSaid <=> b \in TextBlocks) /\ (b \in CallsMade <=> b \in ToolUses)
    <2>1. \A b : (b \in TextBlocks => b \in TextsSaid) /\ (b \in ToolUses => b \in CallsMade)
      BY DEF TextsSaid, CallsMade
    <2> QED
      BY <1>1, <1>2, <1>3, <2>1
  <1>6. \A p \in GeminiPart : (p \in TextsSaid <=> p \in TextParts) /\ (p \in CallsMade <=> p \in CallParts)
    <2>1. \A b : (b \in TextParts => b \in TextsSaid) /\ (b \in CallParts => b \in CallsMade)
      BY DEF TextsSaid, CallsMade
    <2> QED
      BY <1>1, <1>2, <1>4, <2>1
  <1>7. \A b : b \in TextsSaid => b \notin CallsMade
    BY <1>1, <1>2
  <1> QED
    BY <1>5, <1>6, <1>7 DEF TextsSaid, CallsMade

(* A text and the calls after it: what buildAssistantMessage and           *)
(* buildAssistantParts make, with no block for an empty text.              *)
LEMMA GistMade ==
    ASSUME NEW text, NEW T, NEW C, NEW p \in T, p.text = text, NEW front, NEW calls \in Seq(C), NEW ids,
           front = <<p>> \/ (text = <<>> /\ front = <<>>),
           T \subseteq TextsSaid, C \subseteq CallsMade
    PROVE  Gist(front \o calls, ids) = [text |-> text, calls |-> GistOfCalls(calls, ids)]
  <1>1. T \cap CallsMade = {} /\ C \cap TextsSaid = {} /\ T \subseteq T \cup C /\ C \subseteq T \cup C
    BY TypesApart DEF TextsSaid, CallsMade
  <1>2. front \in Seq(T)
    BY EmptySeq, Singleton
  <1>3. front \in Seq(T \cup C) /\ calls \in Seq(T \cup C)
    BY <1>1, <1>2, SeqWidened
  <1>4. /\ Keep(front \o calls, TextsSaid) = Keep(front, TextsSaid) \o Keep(calls, TextsSaid)
        /\ Keep(front \o calls, CallsMade) = Keep(front, CallsMade) \o Keep(calls, CallsMade)
    BY <1>3, KeepConcat
  <1>5. Keep(front, TextsSaid) = front /\ Keep(calls, CallsMade) = calls
    BY <1>2, KeepAll
  <1>6. Keep(front, CallsMade) = <<>> /\ Keep(calls, TextsSaid) = <<>>
    BY <1>1, <1>2, KeepNone
  <1>7. front \o <<>> = front /\ <<>> \o calls = calls
    BY <1>2, ConcatEmptySeq
  <1>8. Joined(front) = text
    BY JoinedEmpty, JoinedOne
  <1> QED
    BY <1>4, <1>5, <1>6, <1>7, <1>8, GistIs

(* Arguments: an object, or {} for none, comes back as it was.             *)
LEMMA ArgumentsKept ==
    ASSUME NEW args \in Objects \cup {"{}", None}
    PROVE  /\ ParseArguments(ToJSONString(args)) # None
           /\ ParseArguments(ToJSONString(args)) = IF args = None THEN "{}" ELSE args
  <1>1. "broken" \notin Objects /\ None \notin Objects \cup {"{}"}
    BY ConversationAssumption
  <1> QED
    BY <1>1 DEF ParseArguments, ToJSONString

(* A call that comes back as it was given.                                 *)
CameBack(given, back, ids) ==
    /\ ids => back.id = given.id
    /\ back.name = given.name
    /\ given.args \in Objects \cup {"{}", None}
    /\ back.args = ParseArguments(ToJSONString(given.args))

(* Calls that came back have the same gist.                                *)
LEMMA CallsKept ==
    ASSUME NEW n \in Nat, NEW given, NEW back, NEW ids, DOMAIN given = 1..n, DOMAIN back = 1..n,
           \A i \in 1..n : CameBack(given[i], back[i], ids)
    PROVE  GistOfCalls(back, ids) = GistOfCalls(given, ids)
  <1>1. ASSUME NEW i \in 1..n
        PROVE  /\ (IF ids THEN back[i].id ELSE "") = (IF ids THEN given[i].id ELSE "")
               /\ back[i].name = given[i].name
               /\ (IF back[i].args = None THEN "{}" ELSE back[i].args) = IF given[i].args = None THEN "{}" ELSE given[i].args
    <2>0. /\ ids => back[i].id = given[i].id
          /\ back[i].name = given[i].name /\ given[i].args \in Objects \cup {"{}", None}
          /\ back[i].args = ParseArguments(ToJSONString(given[i].args))
      BY DEF CameBack
    <2>1. PICK args \in Objects \cup {"{}", None} : args = given[i].args
      BY <2>0
    <2>2. back[i].args # None /\ back[i].args = IF args = None THEN "{}" ELSE args
      BY <2>0, <2>1, ArgumentsKept
    <2> QED
      BY <2>0, <2>1, <2>2
  <1> QED
    BY <1>1 DEF GistOfCalls

(* Claude's answer, made a message and a turn again, says the same.        *)
LEMMA ClaudeTurnKept ==
    ASSUME NEW a \in AnthropicAnswers
    PROVE  Gist(BuildAssistantMessage(AnthropicAnswer(a)).blocks, TRUE) = Gist(Complete(a.blocks, a.stop), TRUE)
  <1>1. PICK text, calls, msg : /\ text = ExtractAnthropicContent(a.blocks) /\ calls = AnswerCalls(a)
                                /\ msg = AnswerMessage(text, calls)
    OBVIOUS
  <1>2. AnthropicAnswer(a) = msg /\ text \in Seq(Words) /\ calls \in Seq(Call)
    BY <1>1, AnthropicAnswerIs
  <1>3. msg \in Message /\ msg.calls = calls /\ ContentString(msg) = text
    BY <1>1, <1>2, AnswerMessageTyped
  <1>4. PICK front : front = IF calls # <<>> /\ text = <<>> THEN <<>> ELSE <<TextBlock(text)>>
    OBVIOUS
  <1>5. BuildAssistantMessage(msg).blocks = front \o UsesOf(msg)
    BY <1>3, <1>4, AssistantMessageTyped
  <1>6. UsesOf(msg) \in Seq(ToolUses) /\ Len(UsesOf(msg)) = Len(calls)
    BY <1>3, UsesTyped
  <1>7. PICK p \in TextBlocks : p = TextBlock(text) /\ p.text = text
    <2>1. TextBlock(text).text = text
      BY DEF TextBlock
    <2> QED
      BY <1>2, <2>1, TextBlockTyped
  <1>8. Gist(front \o UsesOf(msg), TRUE) = [text |-> text, calls |-> GistOfCalls(UsesOf(msg), TRUE)]
    <2>1. front = <<p>> \/ (text = <<>> /\ front = <<>>)
      BY <1>4, <1>7
    <2>2. TextBlocks \subseteq TextsSaid /\ ToolUses \subseteq CallsMade
      BY DEF TextsSaid, CallsMade
    <2>3. \A ids : Gist(front \o UsesOf(msg), ids) = [text |-> text, calls |-> GistOfCalls(UsesOf(msg), ids)]
      BY <1>6, <1>7, <2>1, <2>2, GistMade
    <2> QED
      BY <2>3
  <1>9. a.blocks \in Seq(Block) /\ Keep(a.blocks, TextBlocks) \in Seq(TextBlocks)
    BY BlocksOfAnswer
  <1>10. CASE a.stop = "tool_use"
    <2>1. PICK used : used = Keep(a.blocks, ToolUses)
      OBVIOUS
    <2>2. Keep(a.blocks, TextsSaid) = Keep(a.blocks, TextBlocks) /\ Keep(a.blocks, CallsMade) = used
      BY <1>9, <2>1, TypesApart, KeepSame
    <2>3. Joined(Keep(a.blocks, TextsSaid)) = text
      BY <1>1, <2>2 DEF ExtractAnthropicContent
    <2>4. Gist(a.blocks, TRUE) = [text |-> text, calls |-> GistOfCalls(used, TRUE)]
      BY <2>2, <2>3, GistIs
    <2>5. used \in Seq({b \in ToolUses : b.name \in Names})
      BY <2>1, BlocksOfAnswer
    <2>6. PICK n \in Nat : n = Len(used) /\ DOMAIN used = 1..n
      BY <2>5, LenProperties
    <2>7. calls = ExtractAnthropicToolCalls(a.blocks)
      BY <1>1, <1>10 DEF AnswerCalls
    <2>8. Len(calls) = n /\ \A i \in 1..n : calls[i] = CallOfUse(used[i]) /\ used[i] \in ToolUses
      BY <2>1, <2>6, <2>7, ExtractedCalls
    <2>9. DOMAIN calls = 1..n /\ DOMAIN UsesOf(msg) = 1..n
      BY <1>2, <1>6, <2>8, LenProperties
    <2>10. PICK back : back = UsesOf(msg)
      OBVIOUS
    <2>11. ASSUME NEW i \in 1..n
           PROVE  /\ back[i].id = used[i].id /\ back[i].name = used[i].name
                  /\ used[i].args \in Objects \cup {"{}", None}
                  /\ back[i].args = ParseArguments(ToJSONString(used[i].args))
      <3>1. PICK call : call = CallOfUse(used[i])
        OBVIOUS
      <3>2. back[i] = ToolUse(call)
        BY <1>3, <2>8, <2>9, <2>10, <3>1 DEF UsesOf
      <3>3. call.id = used[i].id /\ call.name = used[i].name /\ call.args = ToJSONString(used[i].args)
        BY <3>1 DEF CallOfUse
      <3>4. ToolUse(call).id = call.id /\ ToolUse(call).name = call.name /\ ToolUse(call).args = ParseArguments(call.args)
        BY DEF ToolUse
      <3>5. used[i].args \in Objects \cup {"{}", None}
        BY <2>8 DEF ToolUses, Block
      <3> QED
        BY <3>2, <3>3, <3>4, <3>5
    <2>12. GistOfCalls(back, TRUE) = GistOfCalls(used, TRUE)
      <3>1. PICK ids : ids = TRUE
        OBVIOUS
      <3>2. DOMAIN used = 1..n /\ DOMAIN back = 1..n
        BY <2>6, <2>9, <2>10
      <3>3. \A i \in 1..n : CameBack(used[i], back[i], ids)
        BY <2>11 DEF CameBack
      <3>4. GistOfCalls(back, ids) = GistOfCalls(used, ids)
        BY <3>2, <3>3, CallsKept
      <3> QED
        BY <3>1, <3>4
    <2>13. Complete(a.blocks, a.stop) = a.blocks
      BY <1>10 DEF Complete
    <2> QED
      BY <1>2, <1>5, <1>8, <2>4, <2>10, <2>12, <2>13
  <1>11. CASE a.stop # "tool_use"
    <2>1. PICK texts \in Seq(TextBlocks) : texts = Keep(a.blocks, TextBlocks)
      BY <1>9
    <2>2. Complete(a.blocks, a.stop) = texts
      BY <1>11, <2>1 DEF Complete
    <2>3. Keep(texts, TextsSaid) = texts
      <3>1. TextBlocks \subseteq TextsSaid
        BY DEF TextsSaid
      <3> QED
        BY <3>1, KeepAll
    <2>4. Keep(texts, CallsMade) = <<>>
      BY TypesApart, KeepNone
    <2>5. Joined(Keep(texts, TextsSaid)) = text
      BY <1>1, <2>1, <2>3 DEF ExtractAnthropicContent
    <2>6. Gist(texts, TRUE) = [text |-> text, calls |-> GistOfCalls(<<>>, TRUE)]
      BY <2>4, <2>5, GistIs
    <2>7. calls = <<>>
      BY <1>1, <1>11 DEF AnswerCalls
    <2>8. UsesOf(msg) = <<>>
      BY <1>6, <2>7, EmptySeq
    <2> QED
      BY <1>2, <1>5, <1>8, <2>2, <2>6, <2>8
  <1> QED
    BY <1>10, <1>11

(* Gemini's answer, made a message and a content again, too.               *)
LEMMA GeminiTurnKept ==
    ASSUME NEW a \in VertexAnswers
    PROVE  Gist(BuildAssistantParts(VertexAnswer(a)), FALSE) = Gist(a, FALSE)
  <1>1. PICK text, calls, msg : /\ text = Joined(Keep(a, TextParts)) /\ calls = CalledParts(a)
                                /\ msg = AnswerMessage(text, calls)
    OBVIOUS
  <1>2. VertexAnswer(a) = msg /\ text \in Seq(Words) /\ calls \in Seq(Call)
    BY <1>1, VertexAnswerIs
  <1>3. msg \in Message /\ msg.calls = calls /\ ContentString(msg) = text
    BY <1>1, <1>2, AnswerMessageTyped
  <1>4. PICK front : front = IF text = <<>> /\ calls # <<>> THEN <<>> ELSE <<TextPart(text)>>
    OBVIOUS
  <1>5. BuildAssistantParts(msg) = front \o CallsOf(msg)
    BY <1>3, <1>4, AssistantPartsTyped
  <1>6. CallsOf(msg) \in Seq(CallParts) /\ Len(CallsOf(msg)) = Len(calls)
    BY <1>3, CallsTyped
  <1>7. PICK p \in TextParts : p = TextPart(text) /\ p.text = text
    <2>1. TextPart(text).text = text
      BY DEF TextPart
    <2> QED
      BY <1>2, <2>1, TextPartTyped
  <1>8. Gist(front \o CallsOf(msg), FALSE) = [text |-> text, calls |-> GistOfCalls(CallsOf(msg), FALSE)]
    <2>1. front = <<p>> \/ (text = <<>> /\ front = <<>>)
      BY <1>4, <1>7
    <2>2. TextParts \subseteq TextsSaid /\ CallParts \subseteq CallsMade
      BY DEF TextsSaid, CallsMade
    <2>3. \A ids : Gist(front \o CallsOf(msg), ids) = [text |-> text, calls |-> GistOfCalls(CallsOf(msg), ids)]
      BY <1>6, <1>7, <2>1, <2>2, GistMade
    <2> QED
      BY <2>3
  <1>9. PICK called : called = Keep(a, CallParts)
    OBVIOUS
  <1>10. a \in Seq(GeminiPart) /\ called \in Seq({q \in CallParts : q.name \in Names})
    BY <1>9, PartsOfAnswer
  <1>11. Keep(a, TextsSaid) = Keep(a, TextParts) /\ Keep(a, CallsMade) = called
    BY <1>9, <1>10, TypesApart, KeepSame
  <1>12. Gist(a, FALSE) = [text |-> text, calls |-> GistOfCalls(called, FALSE)]
    BY <1>1, <1>11, GistIs
  <1>13. PICK n \in Nat : n = Len(called) /\ DOMAIN called = 1..n
    BY <1>10, LenProperties
  <1>14. Len(calls) = n /\ \A i \in 1..n : calls[i] = CallOfPart(i, called[i]) /\ called[i] \in CallParts
    BY <1>1, <1>9, <1>13, CalledTyped
  <1>15. DOMAIN calls = 1..n /\ DOMAIN CallsOf(msg) = 1..n
    BY <1>2, <1>6, <1>14, LenProperties
  <1>16. PICK back : back = CallsOf(msg)
    OBVIOUS
  <1>17. ASSUME NEW i \in 1..n
         PROVE  /\ back[i].name = called[i].name /\ called[i].args \in Objects \cup {"{}", None}
                /\ back[i].args = ParseArguments(ToJSONString(called[i].args))
    <2>1. PICK call : call = CallOfPart(i, called[i])
      OBVIOUS
    <2>2. back[i] = CallPart(call)
      BY <1>3, <1>14, <1>15, <1>16, <2>1 DEF CallsOf
    <2>3. call.name = called[i].name /\ call.args = ToJSONString(called[i].args)
      BY <2>1 DEF CallOfPart
    <2>4. CallPart(call).name = call.name /\ CallPart(call).args = ParseArguments(call.args)
      BY DEF CallPart
    <2>5. called[i].args \in Objects \cup {"{}", None}
      BY <1>14 DEF CallParts, GeminiPart
    <2> QED
      BY <2>2, <2>3, <2>4, <2>5
  <1>18. GistOfCalls(back, FALSE) = GistOfCalls(called, FALSE)
    <2>1. PICK ids : ids = FALSE
      OBVIOUS
    <2>2. DOMAIN called = 1..n /\ DOMAIN back = 1..n
      BY <1>13, <1>15, <1>16
    <2>3. \A i \in 1..n : CameBack(called[i], back[i], ids)
      BY <1>17, <2>1 DEF CameBack
    <2>4. GistOfCalls(back, ids) = GistOfCalls(called, ids)
      BY <2>2, <2>3, CallsKept
    <2> QED
      BY <2>1, <2>4
  <1> QED
    BY <1>2, <1>5, <1>8, <1>12, <1>16, <1>18

(* Another last element, neither of them kept.                             *)
LEMMA KeepReplaced ==
    ASSUME NEW S, NEW W, NEW n \in Nat, NEW s \in Seq(S), NEW t \in Seq(S), Len(s) = n + 1, Len(t) = n + 1,
           \A i \in 1..n : s[i] = t[i], s[n + 1] \notin W, t[n + 1] \notin W
    PROVE  Keep(s, W) = Keep(t, W)
  <1>1. PICK front : front = [i \in 1..n |-> s[i]]
    OBVIOUS
  <1>2. front \in [1..n -> S] /\ s[n + 1] \in S /\ t[n + 1] \in S
    BY <1>1, ElementOfSeq
  <1>3. front \in Seq(S) /\ Len(front) = n
    BY <1>2, Mapped
  <1>4. ASSUME NEW u \in Seq(S), Len(u) = n + 1, \A i \in 1..n : u[i] = s[i] PROVE u = Append(front, u[n + 1])
    <2>1. PICK x \in S : x = u[n + 1]
      BY <1>4, ElementOfSeq
    <2>2. PICK v : v = Append(front, x)
      OBVIOUS
    <2>3. v \in Seq(S) /\ Len(v) = n + 1 /\ v[n + 1] = x /\ \A i \in 1..n : v[i] = front[i]
      BY <1>3, <2>2, AppendProperties
    <2>4. \A i \in 1..(n + 1) : u[i] = v[i]
      BY <1>1, <1>4, <2>1, <2>3
    <2>5. u = v
      BY <1>4, <2>3, <2>4, SeqEqual
    <2> QED
      BY <2>1, <2>2, <2>5
  <1>5. s = Append(front, s[n + 1]) /\ t = Append(front, t[n + 1])
    BY <1>4
  <1>6. /\ Keep(Append(front, s[n + 1]), W) = Keep(front, W)
        /\ Keep(Append(front, t[n + 1]), W) = Keep(front, W)
    BY <1>2, <1>3, KeepAppend
  <1> QED
    BY <1>5, <1>6

(* What a turn of the provider says is what the answer said.               *)
Matches(d, turn, a) ==
    IF d = "gemini" THEN Gist(turn.parts, FALSE) = Gist(a, FALSE)
    ELSE Gist(turn.blocks, TRUE) = Gist(Complete(a.blocks, a.stop), TRUE)

Kept(d, own, answers) ==
    /\ Len(own) = Len(answers)
    /\ \A i \in DOMAIN own : Matches(d, own[i], answers[i])

(* One answer and one turn more.                                           *)
LEMMA KeptOneMore ==
    ASSUME NEW S, NEW T, NEW own \in Seq(S), NEW answers \in Seq(T), NEW d, Kept(d, own, answers),
           NEW turn \in S, NEW a \in T, Matches(d, turn, a)
    PROVE  Kept(d, Append(own, turn), Append(answers, a))
  <1>1. /\ Len(own) \in Nat /\ Len(answers) = Len(own) /\ DOMAIN own = 1..Len(own)
        /\ \A i \in DOMAIN own : Matches(d, own[i], answers[i])
    BY LenProperties DEF Kept
  <1>2. PICK n \in Nat : n = Len(own)
    BY <1>1
  <1>3. PICK longer, more : longer = Append(own, turn) /\ more = Append(answers, a)
    OBVIOUS
  <1>4. /\ Len(longer) = n + 1 /\ DOMAIN longer = 1..(n + 1) /\ longer[n + 1] = turn
        /\ \A i \in 1..n : longer[i] = own[i]
        /\ Len(more) = n + 1 /\ more[n + 1] = a
        /\ \A i \in 1..n : more[i] = answers[i]
    BY <1>1, <1>2, <1>3, AppendProperties, LenProperties
  <1>5. ASSUME NEW i \in DOMAIN longer PROVE Matches(d, longer[i], more[i])
    <2>1. CASE i = n + 1
      BY <1>4, <2>1
    <2>2. CASE i \in 1..n
      BY <1>1, <1>2, <1>4, <2>2
    <2> QED
      BY <1>4, <2>1, <2>2
  <1> QED
    BY <1>3, <1>4, <1>5 DEF Kept

(* The turns of the client are no answers.                                 *)
LEMMA OwnTurns ==
    /\ \A t \in Turn : t \in AnswerTurns <=> t.role = "assistant"
    /\ \A c \in Content : c \in AnswerTurns <=> c.role = "model"
    /\ AnswerTurns \subseteq Turn \cup Content
  <1>1. \A t \in AnswerTurns : t.role \in {"assistant", "model"}
    BY DEF AnswerTurns
  <1>2. \A t \in Turn : t.role # "model"
    BY DEF Turn
  <1>3. \A c \in Content : c.role # "assistant"
    BY DEF Content
  <1>4. /\ \A t \in Turn : t.role = "assistant" => t \in AnswerTurns
        /\ \A c \in Content : c.role = "model" => c \in AnswerTurns
        /\ AnswerTurns \subseteq Turn \cup Content
    BY DEF AnswerTurns
  <1> QED
    BY <1>1, <1>2, <1>3, <1>4

(* A result leaves the turns of the provider as they are.                  *)
LEMMA ResultNotOwn ==
    ASSUME NEW ts \in Seq(Turn), NEW r \in ToolResults
    PROVE  Keep(AppendToolResult(ts, r), AnswerTurns) = Keep(ts, AnswerTurns)
  <1>1. PICK us \in Seq(Turn) : us = AppendToolResult(ts, r)
    BY ResultAppended
  <1>2. CASE ts # <<>> /\ Last(ts).role = "user" /\ Last(ts).list
    <2>1. /\ Len(us) = Len(ts) /\ us[Len(ts)].role = "user"
          /\ \A i \in 1..(Len(ts) - 1) : us[i] = ts[i]
      BY <1>1, <1>2, ResultAppended
    <2>2. PICK n \in Nat : n + 1 = Len(ts)
      <3>1. Len(ts) \in Nat /\ Len(ts) # 0
        BY <1>2, LenProperties, EmptySeq
      <3> QED
        BY <3>1
    <2>3. Last(ts) = ts[n + 1]
      BY <2>2 DEF Last
    <2>4. us[n + 1] \in Turn /\ ts[n + 1] \in Turn
      BY <2>1, <2>2, ElementOfSeq
    <2>5. us[n + 1] \notin AnswerTurns /\ ts[n + 1] \notin AnswerTurns
      <3>1. us[n + 1].role = "user" /\ ts[n + 1].role = "user"
        BY <1>2, <2>1, <2>2, <2>3
      <3> QED
        BY <2>4, <3>1, OwnTurns
    <2>6. Len(us) = n + 1 /\ \A i \in 1..n : us[i] = ts[i]
      BY <2>1, <2>2
    <2> QED
      BY <1>1, <2>2, <2>5, <2>6, KeepReplaced
  <1>3. CASE ~(ts # <<>> /\ Last(ts).role = "user" /\ Last(ts).list)
    <2>1. PICK t : t = [role |-> "user", list |-> TRUE, blocks |-> <<r>>]
      OBVIOUS
    <2>2. us = Append(ts, t)
      BY <1>1, <1>3, <2>1 DEF AppendToolResult
    <2>3. t \in Turn /\ t.role = "user"
      <3>1. r \in Block
        BY DEF ToolResults
      <3>2. PICK blocks \in Seq(Block) : blocks = <<r>>
        BY <3>1, Singleton
      <3>3. [role |-> "user", list |-> TRUE, blocks |-> blocks] \in Turn
        BY DEF Turn
      <3> QED
        BY <2>1, <3>2, <3>3
    <2>4. t \notin AnswerTurns
      BY <2>3, OwnTurns
    <2> QED
      BY <1>1, <2>2, <2>3, <2>4, KeepAppend
  <1> QED
    BY <1>2, <1>3

ClaudeKept ==
    dialect # "gemini" /\ SeparateSystemMessages(history).ok =>
        Kept(dialect, Keep(SeparateSystemMessages(history).turns, AnswerTurns), turns)
GeminiKept ==
    dialect = "gemini" /\ SeparateContents(history).ok =>
        Kept(dialect, Keep(SeparateContents(history).turns, AnswerTurns), turns)

(* Every step of a conversation with Claude keeps its turns.               *)
LEMMA ClaudeKeptStep ==
    ASSUME TypeInv, SentInv, ClaudeKept, [Next]_vars
    PROVE  ClaudeKept'
  <1>0. dialect' = dialect /\ history \in Seq(Message)
    BY StageSteps DEF TypeInv
  <1>1. PICK old, new, ts, own :
            /\ old = SeparateSystemMessages(history) /\ new = SeparateSystemMessages(history)'
            /\ ts = old.turns /\ own = Keep(ts, AnswerTurns)
    OBVIOUS
  <1>2. CASE Idle
    BY <1>2 DEF Idle, ClaudeKept
  <1>3. ASSUME NEW msg, Adds(msg), dialect # "gemini", new.ok
        PROVE  /\ msg \in Message /\ old \in TurnAcc /\ new = TakeMessage(old, msg)
               /\ TakeMessage(old, msg).ok /\ ts \in Seq(Turn) /\ old.ok
               /\ Kept(dialect, own, turns)
    <2>1. msg \in Message
      BY <1>3 DEF Adds
    <2>2. old \in TurnAcc /\ new = TakeMessage(old, msg)
      BY <1>0, <1>1, <1>3, Added DEF SentInv
    <2>3. TakeMessage(old, msg).ok
      BY <1>3, <2>2
    <2>4. old.ok
      BY <2>1, <2>2, <2>3, TakeCases
    <2>5. ts \in Seq(Turn)
      BY <1>1, <2>2 DEF TurnAcc
    <2>6. Kept(dialect, own, turns)
      BY <1>1, <1>3, <2>4 DEF ClaudeKept
    <2> QED
      BY <2>1, <2>2, <2>3, <2>4, <2>5, <2>6
  <1>4. ASSUME NEW msg, Adds(msg), dialect # "gemini", new.ok
        PROVE  /\ IsSystem(msg) => new.turns = ts
               /\ msg.role = "user" => new.turns = Append(ts, BuildUserContent(msg))
               /\ msg.role = "assistant" => new.turns = Append(ts, BuildAssistantMessage(msg))
               /\ msg.role = "tool" => new.turns = AppendToolResult(ts, ToolResult(msg))
               /\ msg.role # "function"
    <2>1. msg \in Message /\ old \in TurnAcc /\ new = TakeMessage(old, msg) /\ TakeMessage(old, msg).ok /\ ts = old.turns
      BY <1>1, <1>3, <1>4
    <2> QED
      BY <2>1, TakeCases
  <1>5. ASSUME NEW msg, Adds(msg), dialect # "gemini", new.ok, msg.role # "assistant"
        PROVE  Keep(new.turns, AnswerTurns) = own
    <2>1. msg \in Message /\ ts \in Seq(Turn)
      BY <1>3, <1>5
    <2>2. CASE IsSystem(msg)
      BY <1>1, <1>4, <1>5, <2>2
    <2>3. CASE msg.role = "user"
      <3>1. PICK t \in Turn : t = BuildUserContent(msg) /\ t.role = "user"
        BY <2>1, UserContentTyped
      <3>2. new.turns = Append(ts, t) /\ t \notin AnswerTurns
        BY <1>4, <1>5, <2>3, <3>1, OwnTurns
      <3> QED
        BY <1>1, <2>1, <3>2, KeepAppend
    <2>4. CASE msg.role = "tool"
      <3>1. PICK r \in ToolResults : r = ToolResult(msg)
        BY <2>1, ToolResultTyped
      <3> QED
        BY <1>1, <1>4, <1>5, <2>1, <2>4, <3>1, ResultNotOwn
    <2>5. msg.role \in Roles /\ msg.role # "function"
      BY <1>4, <1>5, <2>1 DEF Message
    <2> QED
      BY <1>5, <2>2, <2>3, <2>4, <2>5 DEF Roles, IsSystem
  <1>6. ASSUME NEW msg, UserSpeaks(msg) \/ Instructs(msg) \/ \E c \in pending : Results(msg, c),
               dialect # "gemini", new.ok
        PROVE  Kept(dialect, Keep(new.turns, AnswerTurns), turns')
    <2>1. Adds(msg) /\ turns' = turns /\ msg.role # "assistant"
      BY <1>6 DEF UserSpeaks, Instructs, Results, IsSystem
    <2>2. Keep(new.turns, AnswerTurns) = own
      BY <1>5, <1>6, <2>1
    <2> QED
      BY <1>3, <1>6, <2>1, <2>2
  <1>7. ASSUME NEW msg, NEW a, Answers(msg, a), dialect # "gemini", new.ok
        PROVE  Kept(dialect, Keep(new.turns, AnswerTurns), turns')
    <2>1. /\ Adds(msg) /\ msg.role = "assistant" /\ a \in AnthropicAnswers /\ msg = AnthropicAnswer(a)
          /\ turns' = Append(turns, a)
      BY <1>7 DEF Answers
    <2>2. msg \in Message /\ ts \in Seq(Turn) /\ Kept(dialect, own, turns)
      BY <1>3, <1>7, <2>1
    <2>3. PICK t \in Turn : t = BuildAssistantMessage(msg) /\ t.role = "assistant"
      BY <2>2, AssistantMessageTyped
    <2>4. new.turns = Append(ts, t) /\ t \in AnswerTurns
      BY <1>4, <1>7, <2>1, <2>3, OwnTurns
    <2>5. Keep(new.turns, AnswerTurns) = Append(own, t)
      BY <1>1, <2>2, <2>4, KeepAppend
    <2>6. Matches(dialect, t, a)
      BY <1>7, <2>1, <2>3, ClaudeTurnKept DEF Matches
    <2>7. own \in Seq(Turn \cap AnswerTurns) /\ t \in Turn \cap AnswerTurns
      BY <1>1, <2>2, <2>4, KeepTyped
    <2>8. turns \in Seq(AnthropicAnswers)
      BY <1>7 DEF TypeInv
    <2>9. Kept(dialect, Append(own, t), Append(turns, a))
      BY <2>1, <2>2, <2>6, <2>7, <2>8, KeptOneMore
    <2> QED
      BY <2>1, <2>5, <2>9
  <1>8. CASE dialect # "gemini" /\ new.ok /\ ~Idle
    <2>1. Kept(dialect, Keep(new.turns, AnswerTurns), turns')
      BY <1>6, <1>7, <1>8, Kinds
    <2>2. Kept(dialect, Keep(SeparateSystemMessages(history).turns, AnswerTurns), turns)'
            = Kept(dialect', Keep(SeparateSystemMessages(history)'.turns, AnswerTurns), turns')
      BY DEF Kept, Matches
    <2> QED
      BY <1>0, <1>1, <2>1, <2>2 DEF ClaudeKept
  <1>9. CASE ~(dialect # "gemini" /\ new.ok)
    BY <1>0, <1>1, <1>9 DEF ClaudeKept
  <1> QED
    BY <1>2, <1>8, <1>9

(* Every step of a conversation with Gemini keeps its contents.            *)
LEMMA GeminiKeptStep ==
    ASSUME TypeInv, SentInv, GeminiKept, [Next]_vars
    PROVE  GeminiKept'
  <1>0. dialect' = dialect /\ history \in Seq(Message)
    BY StageSteps DEF TypeInv
  <1>1. PICK old, new, ts, own :
            /\ old = SeparateContents(history) /\ new = SeparateContents(history)'
            /\ ts = old.turns /\ own = Keep(ts, AnswerTurns)
    OBVIOUS
  <1>2. CASE Idle
    BY <1>2 DEF Idle, GeminiKept
  <1>3. ASSUME NEW msg, Adds(msg), dialect = "gemini", new.ok
        PROVE  /\ msg \in Message /\ old \in ContentAcc /\ new = TakeContent(old, msg)
               /\ TakeContent(old, msg).ok /\ new \in ContentAcc /\ ts \in Seq(Content) /\ old.ok
               /\ Kept(dialect, own, turns)
    <2>1. msg \in Message
      BY <1>3 DEF Adds
    <2>2. old \in ContentAcc /\ new = TakeContent(old, msg) /\ new \in ContentAcc
      BY <1>0, <1>1, <1>3, Added DEF SentInv
    <2>3. TakeContent(old, msg).ok
      BY <1>3, <2>2
    <2>4. old.ok
      BY <2>1, <2>2, <2>3, ContentCases
    <2>5. ts \in Seq(Content)
      BY <1>1, <2>2 DEF ContentAcc
    <2>6. Kept(dialect, own, turns)
      BY <1>1, <1>3, <2>4 DEF GeminiKept
    <2> QED
      BY <2>1, <2>2, <2>3, <2>4, <2>5, <2>6
  <1>4. ASSUME NEW msg, Adds(msg), dialect = "gemini", new.ok
        PROVE  /\ IsSystem(msg) => new.turns = ts
               /\ msg.role \in {"user", "tool", "function"} =>
                     \E parts \in Seq(GeminiPart) : new.turns = Append(ts, [role |-> "user", parts |-> parts])
               /\ msg.role = "assistant" => new.turns = Append(ts, [role |-> "model", parts |-> BuildAssistantParts(msg)])
    <2>1. /\ msg \in Message /\ old \in ContentAcc /\ new = TakeContent(old, msg) /\ TakeContent(old, msg).ok
          /\ ts = old.turns
      BY <1>1, <1>3, <1>4
    <2>2. /\ IsSystem(msg) => new.turns = ts
          /\ msg.role = "user" => new.turns = Append(ts, [role |-> "user", parts |-> ExtractContentParts(msg)])
          /\ msg.role = "tool" =>
                new.turns = Append(ts, [role |-> "user", parts |-> Responded(ToolCallName(old.names, msg.id), msg)])
          /\ msg.role = "function" =>
                new.turns = Append(ts, [role |-> "user", parts |-> Responded(msg.name, msg)])
          /\ msg.role = "assistant" => new.turns = Append(ts, [role |-> "model", parts |-> BuildAssistantParts(msg)])
      BY <2>1, ContentCases
    <2>3. ExtractContentParts(msg) \in Seq(GeminiPart)
      BY <2>1, ContentPartsTyped
    <2>4. msg.name \in Names \cup {""} /\ msg.id \in Ids \cup {""} /\ old.names \in [Ids \cup {""} -> Names \cup {""}]
      BY <2>1 DEF Message, ContentAcc
    <2>5. ToolCallName(old.names, msg.id) \in Names \cup {"", "unknown"}
      <3>1. old.names[msg.id] \in Names \cup {""}
        BY <2>4
      <3> QED
        BY <3>1 DEF ToolCallName
    <2>6. /\ Responded(ToolCallName(old.names, msg.id), msg) \in Seq(GeminiPart)
          /\ Responded(msg.name, msg) \in Seq(GeminiPart)
      BY <2>1, <2>4, <2>5, RespondedTyped
    <2> QED
      BY <2>2, <2>3, <2>6
  <1>5. ASSUME NEW msg, Adds(msg), dialect = "gemini", new.ok, msg.role # "assistant"
        PROVE  Keep(new.turns, AnswerTurns) = own
    <2>1. msg \in Message /\ ts \in Seq(Content)
      BY <1>3, <1>5
    <2>2. CASE IsSystem(msg)
      BY <1>1, <1>4, <1>5, <2>2
    <2>3. CASE msg.role \in {"user", "tool", "function"}
      <3>1. PICK parts \in Seq(GeminiPart) : new.turns = Append(ts, [role |-> "user", parts |-> parts])
        BY <1>4, <1>5, <2>3
      <3>2. PICK c : c = [role |-> "user", parts |-> parts]
        OBVIOUS
      <3>3. c \in Content /\ c.role = "user"
        BY <3>2 DEF Content
      <3>4. c \notin AnswerTurns
        BY <3>3, OwnTurns
      <3> QED
        BY <1>1, <2>1, <3>1, <3>2, <3>3, <3>4, KeepAppend
    <2>4. msg.role \in Roles
      BY <2>1 DEF Message
    <2> QED
      BY <1>5, <2>2, <2>3, <2>4 DEF Roles, IsSystem
  <1>6. ASSUME NEW msg, UserSpeaks(msg) \/ Instructs(msg) \/ \E c \in pending : Results(msg, c),
               dialect = "gemini", new.ok
        PROVE  Kept(dialect, Keep(new.turns, AnswerTurns), turns')
    <2>1. Adds(msg) /\ turns' = turns /\ msg.role # "assistant"
      BY <1>6 DEF UserSpeaks, Instructs, Results, IsSystem
    <2>2. Keep(new.turns, AnswerTurns) = own
      BY <1>5, <1>6, <2>1
    <2> QED
      BY <1>3, <1>6, <2>1, <2>2
  <1>7. ASSUME NEW msg, NEW a, Answers(msg, a), dialect = "gemini", new.ok
        PROVE  Kept(dialect, Keep(new.turns, AnswerTurns), turns')
    <2>1. /\ Adds(msg) /\ msg.role = "assistant" /\ a \in VertexAnswers /\ msg = VertexAnswer(a)
          /\ turns' = Append(turns, a)
      BY <1>7 DEF Answers
    <2>2. msg \in Message /\ ts \in Seq(Content) /\ Kept(dialect, own, turns)
      BY <1>3, <1>7, <2>1
    <2>3. PICK parts \in Seq(GeminiPart) : parts = BuildAssistantParts(msg)
      BY <2>2, AssistantPartsTyped
    <2>4. PICK t : t = [role |-> "model", parts |-> parts]
      OBVIOUS
    <2>5. t \in Content /\ t.role = "model" /\ t.parts = parts
      BY <2>3, <2>4 DEF Content
    <2>6. new.turns = Append(ts, t) /\ t \in AnswerTurns
      BY <1>4, <1>7, <2>1, <2>3, <2>4, <2>5, OwnTurns
    <2>7. Keep(new.turns, AnswerTurns) = Append(own, t)
      BY <1>1, <2>2, <2>5, <2>6, KeepAppend
    <2>8. Matches(dialect, t, a)
      BY <1>7, <2>1, <2>3, <2>5, GeminiTurnKept DEF Matches
    <2>9. own \in Seq(Content \cap AnswerTurns) /\ t \in Content \cap AnswerTurns
      BY <1>1, <2>2, <2>5, <2>6, KeepTyped
    <2>10. turns \in Seq(VertexAnswers)
      BY <1>7 DEF TypeInv
    <2>11. Kept(dialect, Append(own, t), Append(turns, a))
      BY <2>1, <2>2, <2>8, <2>9, <2>10, KeptOneMore
    <2> QED
      BY <2>1, <2>7, <2>11
  <1>8. CASE dialect = "gemini" /\ new.ok /\ ~Idle
    <2>1. Kept(dialect, Keep(new.turns, AnswerTurns), turns')
      BY <1>6, <1>7, <1>8, Kinds
    <2>2. Kept(dialect, Keep(SeparateContents(history).turns, AnswerTurns), turns)'
            = Kept(dialect', Keep(SeparateContents(history)'.turns, AnswerTurns), turns')
      BY DEF Kept, Matches
    <2> QED
      BY <1>0, <1>1, <2>1, <2>2 DEF GeminiKept
  <1>9. CASE ~(dialect = "gemini" /\ new.ok)
    BY <1>0, <1>1, <1>9 DEF GeminiKept
  <1> QED
    BY <1>2, <1>8, <1>9

(* The provider finds its own answers in every later request, in order:    *)
(* the same text, the same calls with the same arguments, although each    *)
(* was made a chat message and back (TranslateResponse,                    *)
(* buildAssistantMessage and buildAssistantParts), and although results    *)
(* are merged into the turns between them (appendToolResult).              *)
THEOREM AnswersPreserved == Spec => []TurnsPreserved
  <1>1. Init => TypeInv /\ SentInv /\ ClaudeKept /\ GeminiKept
    <2> SUFFICES ASSUME Init PROVE TypeInv /\ SentInv /\ ClaudeKept /\ GeminiKept
      OBVIOUS
    <2>1. history = <<>> /\ turns = <<>>
      BY DEF Init
    <2>2. SeparateSystemMessages(<<>>).turns = <<>> /\ SeparateContents(<<>>).turns = <<>>
      <3>1. TurnsStart.turns = <<>>
        BY DEF TurnsStart
      <3>2. ContentsStart.turns = <<>>
        BY DEF ContentsStart
      <3> QED
        BY <3>1, <3>2, TurnsEmpty, ContentsEmpty
    <2>3. Keep(<<>>, AnswerTurns) = <<>>
      BY KeepEmpty
    <2>4. \A d : Kept(d, <<>>, <<>>)
      BY DEF Kept
    <2> QED
      BY <2>1, <2>2, <2>3, <2>4, TypeInit DEF ClaudeKept, GeminiKept
  <1>2. TypeInv /\ SentInv /\ ClaudeKept /\ GeminiKept /\ [Next]_vars
          => (TypeInv /\ SentInv /\ ClaudeKept /\ GeminiKept)'
    BY TypeStep, ClaudeKeptStep, GeminiKeptStep
  <1>3. SentInv /\ ClaudeKept /\ GeminiKept => TurnsPreserved
    <2> SUFFICES ASSUME SentInv, ClaudeKept, GeminiKept, stage = "sent" PROVE TurnsPreserved
      BY DEF TurnsPreserved, Sent
    <2>1. Kept(dialect, Keep(sent.turns, AnswerTurns), turns)
      BY DEF SentInv, ClaudeKept, GeminiKept
    <2> QED
      BY <2>1 DEF TurnsPreserved, Kept, Matches
  <1> QED
    BY <1>1, <1>2, <1>3, PTL DEF Spec

-----------------------------------------------------------------------------
(* 8. The results of tools.  A message has a result for each call of the   *)
(* message before it and no others, except that those still owed to the    *)
(* last message of the provider are missing.                               *)
Pair(uses, results, owed) ==
    /\ IdsOf(uses) = IdsOf(results) \cup {c.id : c \in owed}
    /\ Len(uses) = Len(results) + Cardinality(owed)
Balanced(ts, i, owed) ==
    /\ Pair(UsesAt(ts, i), ResultsAt(ts, i + 1), owed)
    /\ ResultsAt(ts, i + 1) # <<>> => ts[i + 1].role = "user"
OpenAt(ts) == IF ts # <<>> /\ Last(ts).role = "user" THEN Len(ts) - 1 ELSE Len(ts)

Paired(ts, owed) ==
    /\ \A i \in 0..Len(ts) : Balanced(ts, i, IF i = OpenAt(ts) THEN owed ELSE {})
    /\ owed # {} => ts # <<>> /\ (Last(ts).role = "user" => Last(ts).list)

PairInv ==
    /\ IsFiniteSet(pending)
    /\ SeparateSystemMessages(history).ok => Paired(SeparateSystemMessages(history).turns, pending)

(* No calls, no results.                                                   *)
LEMMA PairNone == Pair(<<>>, <<>>, {})
  BY FS_EmptySet DEF Pair, IdsOf

(* A result for one of the calls.                                          *)
LEMMA PairAnswered ==
    ASSUME NEW uses, NEW S, NEW results \in Seq(S), NEW r \in S, NEW owed, IsFiniteSet(owed), NEW c \in owed,
           r.id = c.id, Pair(uses, results, owed)
    PROVE  Pair(uses, Append(results, r), owed \ {c})
  <1>1. PICK n \in Nat : n = Len(results) /\ DOMAIN results = 1..n
    BY LenProperties
  <1>2. PICK more : more = Append(results, r)
    OBVIOUS
  <1>3. /\ Len(more) = n + 1 /\ DOMAIN more = 1..(n + 1) /\ more[n + 1] = r
        /\ \A i \in 1..n : more[i] = results[i]
    BY <1>1, <1>2, AppendProperties, LenProperties
  <1>4. IdsOf(more) = IdsOf(results) \cup {c.id}
    <2>1. ASSUME NEW x \in IdsOf(more) PROVE x \in IdsOf(results) \cup {c.id}
      <3>1. PICK i \in 1..(n + 1) : x = more[i].id
        BY <1>3, <2>1 DEF IdsOf
      <3>2. CASE i = n + 1
        BY <1>3, <3>1, <3>2
      <3>3. CASE i \in 1..n
        BY <1>1, <1>3, <3>1, <3>3 DEF IdsOf
      <3> QED
        BY <3>1, <3>2, <3>3
    <2>2. ASSUME NEW x \in IdsOf(results) PROVE x \in IdsOf(more)
      <3>1. PICK i \in 1..n : x = results[i].id
        BY <1>1, <2>2 DEF IdsOf
      <3>2. i \in 1..(n + 1) /\ x = more[i].id
        BY <1>3, <3>1
      <3> QED
        BY <1>3, <3>2 DEF IdsOf
    <2>3. c.id \in IdsOf(more)
      <3>1. n + 1 \in DOMAIN more /\ more[n + 1].id = c.id
        BY <1>3
      <3> QED
        BY <3>1 DEF IdsOf
    <2> QED
      BY <2>1, <2>2, <2>3
  <1>5. {d.id : d \in owed} = {c.id} \cup {d.id : d \in owed \ {c}}
    OBVIOUS
  <1>6. Cardinality(owed) \in Nat /\ Cardinality(owed \ {c}) = Cardinality(owed) - 1
    BY FS_RemoveElement, FS_CardinalityType
  <1>7. IdsOf(uses) = IdsOf(results) \cup {d.id : d \in owed} /\ Len(uses) = n + Cardinality(owed)
    BY <1>1 DEF Pair
  <1>8. IdsOf(uses) = IdsOf(more) \cup {d.id : d \in owed \ {c}}
    BY <1>4, <1>5, <1>7
  <1>9. Len(uses) = Len(more) + Cardinality(owed \ {c})
    BY <1>3, <1>6, <1>7
  <1> QED
    BY <1>2, <1>8, <1>9 DEF Pair

(* The calls of an answer, none of them answered.                          *)
LEMMA PairPending ==
    ASSUME NEW msg \in Message
    PROVE  IsFiniteSet(PendingOf(msg)) /\ Pair(UsesOf(msg), <<>>, PendingOf(msg))
  <1>1. PICK calls \in Seq(Call) : calls = msg.calls
    BY DEF Message
  <1>2. PICK n \in Nat : n = Len(calls) /\ DOMAIN calls = 1..n
    BY LenProperties
  <1>3. PICK f : f = [i \in 1..n |-> [at |-> i, id |-> calls[i].id, name |-> calls[i].name]]
    OBVIOUS
  <1>4. PendingOf(msg) = {f[i] : i \in 1..n}
    BY <1>1, <1>2, <1>3 DEF PendingOf
  <1>5. f \in Bijection(1..n, PendingOf(msg))
    <2>1. f \in [1..n -> PendingOf(msg)]
      BY <1>3, <1>4
    <2>2. \A i, j \in 1..n : f[i] = f[j] => i = j
      <3> SUFFICES ASSUME NEW i \in 1..n, NEW j \in 1..n, f[i] = f[j] PROVE i = j
        OBVIOUS
      <3>1. f[i].at = i /\ f[j].at = j
        BY <1>3
      <3> QED
        BY <3>1
    <2>3. \A c \in PendingOf(msg) : \E i \in 1..n : f[i] = c
      BY <1>4
    <2>4. f \in Injection(1..n, PendingOf(msg))
      BY <2>1, <2>2 DEF Injection, IsInjective
    <2>5. f \in Surjection(1..n, PendingOf(msg))
      BY <2>1, <2>3 DEF Surjection
    <2> QED
      BY <2>4, <2>5 DEF Bijection
  <1>6. ExistsBijection(1..n, PendingOf(msg))
    BY <1>5 DEF ExistsBijection
  <1>7. IsFiniteSet(1..n) /\ Cardinality(1..n) = n
    BY FS_Interval
  <1>8. IsFiniteSet(PendingOf(msg)) /\ Cardinality(PendingOf(msg)) = n
    BY <1>6, <1>7, FS_Bijection
  <1>9. Len(UsesOf(msg)) = n /\ UsesOf(msg) = [i \in 1..n |-> ToolUse(calls[i])]
    BY <1>1, <1>2, UsesTyped DEF UsesOf
  <1>10. \A i \in 1..n : UsesOf(msg)[i].id = calls[i].id /\ f[i].id = calls[i].id
    <2>1. \A call : ToolUse(call).id = call.id
      BY DEF ToolUse
    <2> QED
      BY <1>3, <1>9, <2>1
  <1>11. DOMAIN UsesOf(msg) = 1..n
    BY <1>9
  <1>12. IdsOf(UsesOf(msg)) = {c.id : c \in PendingOf(msg)}
    <2>1. ASSUME NEW x \in IdsOf(UsesOf(msg)) PROVE \E c \in PendingOf(msg) : x = c.id
      <3>1. PICK i \in 1..n : x = UsesOf(msg)[i].id
        BY <1>11, <2>1 DEF IdsOf
      <3>2. f[i] \in PendingOf(msg) /\ x = f[i].id
        BY <1>4, <1>10, <3>1
      <3> QED
        BY <3>2
    <2>2. ASSUME NEW c \in PendingOf(msg) PROVE c.id \in IdsOf(UsesOf(msg))
      <3>1. PICK i \in 1..n : c = f[i]
        BY <1>4
      <3>2. c.id = UsesOf(msg)[i].id
        BY <1>10, <3>1
      <3> QED
        BY <1>11, <3>2 DEF IdsOf
    <2> QED
      BY <2>1, <2>2
  <1>13. IdsOf(<<>>) = {} /\ Len(<<>>) = 0
    BY DEF IdsOf
  <1> QED
    BY <1>8, <1>9, <1>12, <1>13 DEF Pair

(* What the blocks of a turn call and answer.                              *)
LEMMA BlocksApart ==
    /\ PlainBlocks \cap ToolUses = {} /\ PlainBlocks \cap ToolResults = {} /\ ToolUses \cap ToolResults = {}
    /\ TextBlocks \subseteq PlainBlocks /\ PlainBlocks \subseteq Block /\ ToolUses \subseteq Block /\ ToolResults \subseteq Block
  BY DEF PlainBlocks, ToolUses, ToolResults, TextBlocks

(* Texts and pictures neither call nor answer.                             *)
LEMMA PlainTurn ==
    ASSUME NEW blocks \in Seq(PlainBlocks)
    PROVE  Keep(blocks, ToolUses) = <<>> /\ Keep(blocks, ToolResults) = <<>>
  BY BlocksApart, KeepNone

(* An assistant's turn has the calls of its message, and no results.       *)
LEMMA AssistantTurn ==
    ASSUME NEW msg \in Message
    PROVE  LET blocks == BuildAssistantMessage(msg).blocks
           IN  Keep(blocks, ToolUses) = UsesOf(msg) /\ Keep(blocks, ToolResults) = <<>>
  <1>1. PICK front : front = IF msg.calls # <<>> /\ ContentString(msg) = <<>> THEN <<>> ELSE <<TextBlock(ContentString(msg))>>
    OBVIOUS
  <1>2. BuildAssistantMessage(msg).blocks = front \o UsesOf(msg)
    BY <1>1, AssistantMessageTyped
  <1>3. TextBlock(ContentString(msg)) \in PlainBlocks
    BY ContentStringTyped, TextBlockTyped, BlocksApart
  <1>4. front \in Seq(PlainBlocks)
    BY <1>1, <1>3, EmptySeq, Singleton
  <1>5. UsesOf(msg) \in Seq(ToolUses)
    BY UsesTyped
  <1>6. front \in Seq(Block) /\ UsesOf(msg) \in Seq(Block)
    BY <1>4, <1>5, BlocksApart, SeqWidened
  <1>7. /\ Keep(front \o UsesOf(msg), ToolUses) = Keep(front, ToolUses) \o Keep(UsesOf(msg), ToolUses)
        /\ Keep(front \o UsesOf(msg), ToolResults) = Keep(front, ToolResults) \o Keep(UsesOf(msg), ToolResults)
    BY <1>6, KeepConcat
  <1>8. Keep(front, ToolUses) = <<>> /\ Keep(front, ToolResults) = <<>>
    BY <1>4, PlainTurn
  <1>9. Keep(UsesOf(msg), ToolUses) = UsesOf(msg) /\ Keep(UsesOf(msg), ToolResults) = <<>>
    BY <1>5, BlocksApart, KeepAll, KeepNone
  <1>10. <<>> \o UsesOf(msg) = UsesOf(msg) /\ <<>> \o <<>> = <<>>
    BY <1>5, ConcatEmptySeq
  <1> QED
    BY <1>2, <1>7, <1>8, <1>9, <1>10

(* One turn more: its calls and results, and those before as they were.    *)
LEMMA AppendedTurn ==
    ASSUME NEW ts \in Seq(Turn), NEW t \in Turn, NEW n \in Nat, n = Len(ts)
    PROVE  LET us == Append(ts, t)
           IN  /\ us \in Seq(Turn) /\ Len(us) = n + 1 /\ us # <<>> /\ Last(us) = t
               /\ \A i \in 1..n : us[i] = ts[i]
               /\ us[n + 1] = t
               /\ \A i \in 0..n : UsesAt(us, i) = UsesAt(ts, i) /\ ResultsAt(us, i) = ResultsAt(ts, i)
               /\ UsesAt(us, n + 1) = Keep(t.blocks, ToolUses) /\ ResultsAt(us, n + 1) = Keep(t.blocks, ToolResults)
               /\ ResultsAt(us, n + 2) = <<>> /\ ResultsAt(ts, n + 1) = <<>>
  <1>1. PICK us : us = Append(ts, t)
    OBVIOUS
  <1>2. /\ us \in Seq(Turn) /\ Len(us) = n + 1 /\ DOMAIN us = 1..(n + 1) /\ us[n + 1] = t
        /\ \A i \in 1..n : us[i] = ts[i]
        /\ DOMAIN ts = 1..n
    BY <1>1, AppendProperties, LenProperties
  <1>3. us # <<>> /\ Last(us) = t
    BY <1>2, EmptySeq DEF Last
  <1>4. \A i \in 0..n : i \in DOMAIN us <=> i \in DOMAIN ts
    BY <1>2
  <1>5. \A i \in 0..n : UsesAt(us, i) = UsesAt(ts, i) /\ ResultsAt(us, i) = ResultsAt(ts, i)
    BY <1>2, <1>4 DEF UsesAt, ResultsAt
  <1>6. n + 1 \in DOMAIN us /\ n + 2 \notin DOMAIN us /\ n + 1 \notin DOMAIN ts
    BY <1>2
  <1>7. /\ UsesAt(us, n + 1) = Keep(t.blocks, ToolUses) /\ ResultsAt(us, n + 1) = Keep(t.blocks, ToolResults)
        /\ ResultsAt(us, n + 2) = <<>> /\ ResultsAt(ts, n + 1) = <<>>
    BY <1>2, <1>6 DEF UsesAt, ResultsAt
  <1> QED
    BY <1>1, <1>2, <1>3, <1>5, <1>7

(* A turn without results, when nothing is owed.                           *)
LEMMA PairedTurn ==
    ASSUME NEW ts \in Seq(Turn), NEW t \in Turn, NEW owed, Paired(ts, {}),
           Keep(t.blocks, ToolResults) = <<>>, Pair(Keep(t.blocks, ToolUses), <<>>, owed),
           t.role = "user" => owed = {}
    PROVE  Paired(Append(ts, t), owed)
  <1>1. PICK n \in Nat : n = Len(ts)
    BY LenProperties
  <1>2. PICK us : us = Append(ts, t)
    OBVIOUS
  <1>3. /\ us \in Seq(Turn) /\ Len(us) = n + 1 /\ us # <<>> /\ Last(us) = t
        /\ \A i \in 1..n : us[i] = ts[i]
        /\ \A i \in 0..n : UsesAt(us, i) = UsesAt(ts, i) /\ ResultsAt(us, i) = ResultsAt(ts, i)
        /\ UsesAt(us, n + 1) = Keep(t.blocks, ToolUses) /\ ResultsAt(us, n + 1) = <<>>
        /\ ResultsAt(us, n + 2) = <<>> /\ ResultsAt(ts, n + 1) = <<>>
    BY <1>1, <1>2, AppendedTurn
  <1>4. OpenAt(us) = IF t.role = "user" THEN n ELSE n + 1
    BY <1>3 DEF OpenAt
  <1>5. ASSUME NEW i \in 0..n PROVE Balanced(us, i, {})
    <2>1. Balanced(ts, i, {})
      BY <1>1 DEF Paired
    <2>2. UsesAt(us, i) = UsesAt(ts, i) /\ ResultsAt(us, i + 1) = ResultsAt(ts, i + 1)
      <3>1. CASE i = n
        BY <1>3, <3>1
      <3>2. CASE i # n
        <4>1. i + 1 \in 0..n
          BY <3>2
        <4> QED
          BY <1>3, <4>1
      <3> QED
        BY <3>1, <3>2
    <2>3. ResultsAt(us, i + 1) # <<>> => us[i + 1].role = "user"
      <3> SUFFICES ASSUME ResultsAt(us, i + 1) # <<>> PROVE us[i + 1].role = "user"
        OBVIOUS
      <3>1. i # n
        BY <1>3
      <3>2. i + 1 \in 1..n
        BY <3>1
      <3> QED
        BY <1>3, <2>1, <2>2, <3>2 DEF Balanced
    <2> QED
      BY <2>1, <2>2, <2>3 DEF Balanced
  <1>6. Balanced(us, n + 1, owed)
    <2>1. (n + 1) + 1 = n + 2
      OBVIOUS
    <2> QED
      BY <1>3, <2>1 DEF Balanced
  <1>7. ASSUME NEW i \in 0..(n + 1) PROVE Balanced(us, i, IF i = OpenAt(us) THEN owed ELSE {})
    <2>1. CASE t.role = "user"
      <3>1. owed = {} /\ (IF i = OpenAt(us) THEN owed ELSE {}) = {}
        BY <2>1
      <3>2. CASE i = n + 1
        BY <1>6, <3>1, <3>2
      <3>3. CASE i \in 0..n
        BY <1>5, <3>1, <3>3
      <3> QED
        BY <3>2, <3>3
    <2>2. CASE t.role # "user"
      <3>1. CASE i = n + 1
        BY <1>4, <1>6, <2>2, <3>1
      <3>2. CASE i \in 0..n
        <4>1. i # OpenAt(us)
          BY <1>4, <2>2, <3>2
        <4> QED
          BY <1>5, <3>2, <4>1
      <3> QED
        BY <3>1, <3>2
    <2> QED
      BY <2>1, <2>2
  <1>8. owed # {} => Last(us).role # "user"
    BY <1>3
  <1> QED
    BY <1>2, <1>3, <1>7, <1>8 DEF Paired

(* The result of one of the calls that are owed: into the last turn if     *)
(* that has results already, in one of its own after the provider's.       *)
LEMMA PairedResult ==
    ASSUME NEW ts \in Seq(Turn), NEW owed, IsFiniteSet(owed), NEW c \in owed, NEW r \in ToolResults,
           r.id = c.id, Paired(ts, owed)
    PROVE  Paired(AppendToolResult(ts, r), owed \ {c})
  <1>1. PICK n \in Nat : n = Len(ts) /\ DOMAIN ts = 1..n
    BY LenProperties
  <1>2. ts # <<>> /\ n # 0 /\ (Last(ts).role = "user" => Last(ts).list)
    BY <1>1, EmptySeq DEF Paired
  <1>3. PICK us \in Seq(Turn) : us = AppendToolResult(ts, r) /\ us # <<>>
    BY ResultAppended
  <1>4. r \in Block /\ r \notin ToolUses /\ r \in ToolResults
    BY BlocksApart
  <1>5. \A i \in 0..n : Balanced(ts, i, IF i = OpenAt(ts) THEN owed ELSE {})
    BY <1>1 DEF Paired
  <1>6. Last(ts) = ts[n]
    BY <1>1 DEF Last
  <1>7. CASE Last(ts).role = "user"
    <2>1. PICK m \in Nat : n = m + 1
      BY <1>2
    <2>2. /\ Len(us) = n /\ us[n].role = "user" /\ us[n].list
          /\ us[n].blocks = Append(ts[n].blocks, r)
          /\ \A i \in 1..(n - 1) : us[i] = ts[i]
      BY <1>1, <1>2, <1>3, <1>7, ResultAppended
    <2>3. /\ DOMAIN us = 1..n /\ Last(us) = us[n]
      BY <2>2, LenProperties DEF Last
    <2>4. OpenAt(ts) = m /\ OpenAt(us) = m
      BY <1>1, <1>2, <1>3, <1>7, <2>1, <2>2, <2>3 DEF OpenAt
    <2>5. ts[n] \in Turn /\ ts[n].blocks \in Seq(Block)
      <3>1. ts[n] \in Turn
        BY <1>1, <1>2, ElementOfSeq
      <3> QED
        BY <3>1 DEF Turn
    <2>6. /\ Keep(us[n].blocks, ToolUses) = Keep(ts[n].blocks, ToolUses)
          /\ Keep(us[n].blocks, ToolResults) = Append(Keep(ts[n].blocks, ToolResults), r)
      <3>1. PICK blocks \in Seq(Block) : blocks = ts[n].blocks
        BY <2>5
      <3>2. /\ Keep(Append(blocks, r), ToolUses) = Keep(blocks, ToolUses)
            /\ Keep(Append(blocks, r), ToolResults) = Append(Keep(blocks, ToolResults), r)
        BY <1>4, KeepAppend
      <3> QED
        BY <2>2, <3>1, <3>2
    <2>7. \A i : i \in DOMAIN us <=> i \in DOMAIN ts
      BY <1>1, <2>3
    <2>8. \A i \in 1..n : i # n => us[i] = ts[i]
      BY <2>2
    <2>9. \A i \in 0..(n + 1) : UsesAt(us, i) = UsesAt(ts, i)
      <3> TAKE i \in 0..(n + 1)
      <3>1. CASE i = n
        BY <1>1, <1>2, <2>6, <2>7, <3>1 DEF UsesAt
      <3>2. CASE i # n
        BY <1>1, <2>7, <2>8, <3>2 DEF UsesAt
      <3> QED
        BY <3>1, <3>2
    <2>10. \A i \in 0..(n + 1) : i # n => ResultsAt(us, i) = ResultsAt(ts, i)
      BY <1>1, <2>7, <2>8 DEF ResultsAt
    <2>11. ResultsAt(us, n) = Append(ResultsAt(ts, n), r) /\ ResultsAt(ts, n) \in Seq(Block \cap ToolResults)
      <3>1. n \in DOMAIN ts /\ n \in DOMAIN us
        BY <1>1, <1>2, <2>3
      <3>2. ResultsAt(ts, n) = Keep(ts[n].blocks, ToolResults) /\ ResultsAt(us, n) = Keep(us[n].blocks, ToolResults)
        BY <3>1 DEF ResultsAt
      <3> QED
        BY <2>5, <2>6, <3>2, KeepTyped
    <2>12. Balanced(us, m, owed \ {c})
      <3>1. Balanced(ts, m, owed)
        <4>1. m \in 0..n
          BY <2>1
        <4> QED
          BY <1>5, <2>4, <4>1
      <3>2. Pair(UsesAt(ts, m), ResultsAt(ts, n), owed)
        BY <2>1, <3>1 DEF Balanced
      <3>3. r \in Block \cap ToolResults
        BY <1>4
      <3>4. Pair(UsesAt(ts, m), Append(ResultsAt(ts, n), r), owed \ {c})
        BY <2>11, <3>2, <3>3, PairAnswered
      <3>5. UsesAt(us, m) = UsesAt(ts, m)
        BY <2>1, <2>9
      <3> QED
        BY <2>1, <2>2, <2>11, <3>4, <3>5 DEF Balanced
    <2>13. ASSUME NEW i \in 0..n, i # m PROVE Balanced(us, i, {})
      <3>1. Balanced(ts, i, {})
        BY <1>5, <2>4, <2>13
      <3>2. i + 1 \in 0..(n + 1) /\ i \in 0..(n + 1) /\ i + 1 # n
        BY <2>1, <2>13
      <3>3. UsesAt(us, i) = UsesAt(ts, i) /\ ResultsAt(us, i + 1) = ResultsAt(ts, i + 1)
        BY <2>9, <2>10, <3>2
      <3>4. ResultsAt(us, i + 1) # <<>> => us[i + 1].role = "user"
        <4> SUFFICES ASSUME ResultsAt(us, i + 1) # <<>> PROVE us[i + 1].role = "user"
          OBVIOUS
        <4>1. i + 1 \in 1..n
          BY <2>3 DEF ResultsAt
        <4>2. us[i + 1] = ts[i + 1]
          BY <2>8, <3>2, <4>1
        <4> QED
          BY <3>1, <3>3, <4>2 DEF Balanced
      <3> QED
        BY <3>1, <3>3, <3>4 DEF Balanced
    <2>14. ASSUME NEW i \in 0..n PROVE Balanced(us, i, IF i = OpenAt(us) THEN owed \ {c} ELSE {})
      BY <2>4, <2>12, <2>13
    <2> QED
      BY <1>3, <2>2, <2>3, <2>14 DEF Paired
  <1>8. CASE Last(ts).role # "user"
    <2>1. PICK t : t = [role |-> "user", list |-> TRUE, blocks |-> <<r>>]
      OBVIOUS
    <2>2. us = Append(ts, t)
      BY <1>3, <1>8, <2>1 DEF AppendToolResult
    <2>3. t \in Turn /\ t.role = "user" /\ t.list /\ t.blocks = <<r>>
      <3>1. PICK blocks \in Seq(Block) : blocks = <<r>>
        BY <1>4, Singleton
      <3>2. [role |-> "user", list |-> TRUE, blocks |-> blocks] \in Turn
        BY DEF Turn
      <3> QED
        BY <2>1, <3>1, <3>2
    <2>4. Keep(t.blocks, ToolUses) = <<>> /\ Keep(t.blocks, ToolResults) = <<r>>
      BY <1>4, <2>3, KeepOne
    <2>5. /\ Len(us) = n + 1 /\ Last(us) = t /\ us[n + 1] = t
          /\ \A i \in 1..n : us[i] = ts[i]
          /\ \A i \in 0..n : UsesAt(us, i) = UsesAt(ts, i) /\ ResultsAt(us, i) = ResultsAt(ts, i)
          /\ UsesAt(us, n + 1) = <<>> /\ ResultsAt(us, n + 1) = <<r>>
          /\ ResultsAt(us, n + 2) = <<>> /\ ResultsAt(ts, n + 1) = <<>>
      <3>1. /\ Len(us) = n + 1 /\ Last(us) = t /\ us[n + 1] = t
            /\ \A i \in 1..n : us[i] = ts[i]
            /\ \A i \in 0..n : UsesAt(us, i) = UsesAt(ts, i) /\ ResultsAt(us, i) = ResultsAt(ts, i)
            /\ UsesAt(us, n + 1) = Keep(t.blocks, ToolUses) /\ ResultsAt(us, n + 1) = Keep(t.blocks, ToolResults)
            /\ ResultsAt(us, n + 2) = <<>> /\ ResultsAt(ts, n + 1) = <<>>
        <4>1. t \in Turn
          BY <2>3
        <4> QED
          BY <1>1, <2>2, <4>1, AppendedTurn
      <3> QED
        BY <2>4, <3>1
    <2>6. OpenAt(ts) = n /\ OpenAt(us) = n
      BY <1>1, <1>3, <1>8, <2>3, <2>5 DEF OpenAt
    <2>7. Balanced(us, n, owed \ {c})
      <3>1. Balanced(ts, n, owed)
        <4>1. n \in 0..n
          OBVIOUS
        <4> QED
          BY <1>5, <2>6, <4>1
      <3>2. Pair(UsesAt(ts, n), <<>>, owed)
        BY <2>5, <3>1 DEF Balanced
      <3>3. <<>> \in Seq(ToolResults) /\ Append(<<>>, r) = <<r>>
        BY EmptySeq
      <3>4. Pair(UsesAt(ts, n), Append(<<>>, r), owed \ {c})
        BY <3>2, <3>3, PairAnswered
      <3>5. UsesAt(us, n) = UsesAt(ts, n)
        BY <2>5
      <3> QED
        BY <2>3, <2>5, <3>3, <3>4, <3>5 DEF Balanced
    <2>8. ASSUME NEW i \in 0..n, i # n PROVE Balanced(us, i, {})
      <3>1. Balanced(ts, i, {})
        BY <1>5, <2>6, <2>8
      <3>2. i + 1 \in 1..n /\ i + 1 \in 0..n
        BY <2>8
      <3>3. UsesAt(us, i) = UsesAt(ts, i) /\ ResultsAt(us, i + 1) = ResultsAt(ts, i + 1) /\ us[i + 1] = ts[i + 1]
        BY <2>5, <3>2
      <3> QED
        BY <3>1, <3>3 DEF Balanced
    <2>9. Balanced(us, n + 1, {})
      <3>1. (n + 1) + 1 = n + 2
        OBVIOUS
      <3> QED
        BY <2>5, <3>1, PairNone DEF Balanced
    <2>10. ASSUME NEW i \in 0..(n + 1) PROVE Balanced(us, i, IF i = OpenAt(us) THEN owed \ {c} ELSE {})
      <3>1. CASE i = n
        BY <2>6, <2>7, <3>1
      <3>2. CASE i = n + 1
        BY <2>6, <2>9, <3>2
      <3>3. CASE i \in 0..n /\ i # n
        BY <2>6, <2>8, <3>3
      <3> QED
        BY <3>1, <3>2, <3>3
    <2> QED
      BY <1>3, <2>3, <2>5, <2>10 DEF Paired
  <1> QED
    BY <1>7, <1>8

(* Every step keeps calls and results paired.                              *)
LEMMA PairStep ==
    ASSUME TypeInv, SentInv, PairInv, [Next]_vars
    PROVE  PairInv'
  <1>0. history \in Seq(Message) /\ IsFiniteSet(pending)
    BY DEF TypeInv, PairInv
  <1>1. PICK old, new, ts :
            /\ old = SeparateSystemMessages(history) /\ new = SeparateSystemMessages(history)' /\ ts = old.turns
    OBVIOUS
  <1>2. CASE Idle
    BY <1>2 DEF Idle, PairInv
  <1>3. ASSUME NEW msg, Adds(msg), new.ok
        PROVE  /\ msg \in Message /\ ts \in Seq(Turn) /\ Paired(ts, pending)
               /\ IsSystem(msg) => new.turns = ts
               /\ msg.role = "user" => new.turns = Append(ts, BuildUserContent(msg))
               /\ msg.role = "assistant" => new.turns = Append(ts, BuildAssistantMessage(msg))
               /\ msg.role = "tool" => new.turns = AppendToolResult(ts, ToolResult(msg))
               /\ msg.role # "function"
    <2>1. msg \in Message
      BY <1>3 DEF Adds
    <2>2. old \in TurnAcc /\ new = TakeMessage(old, msg)
      BY <1>0, <1>1, <1>3, Added DEF SentInv
    <2>3. TakeMessage(old, msg).ok
      BY <1>3, <2>2
    <2>4. old.ok
      BY <2>1, <2>2, <2>3, TakeCases
    <2>5. ts \in Seq(Turn)
      BY <1>1, <2>2 DEF TurnAcc
    <2>6. Paired(ts, pending)
      BY <1>1, <2>4 DEF PairInv
    <2>7. /\ IsSystem(msg) => new.turns = ts
          /\ msg.role = "user" => new.turns = Append(ts, BuildUserContent(msg))
          /\ msg.role = "assistant" => new.turns = Append(ts, BuildAssistantMessage(msg))
          /\ msg.role = "tool" => new.turns = AppendToolResult(ts, ToolResult(msg))
          /\ msg.role # "function"
      BY <1>1, <2>1, <2>2, <2>3, TakeCases
    <2> QED
      BY <2>1, <2>5, <2>6, <2>7
  <1>4. ASSUME NEW msg, UserSpeaks(msg)
        PROVE  IsFiniteSet(pending') /\ (new.ok => Paired(new.turns, pending'))
    <2>1. Adds(msg) /\ msg.role = "user" /\ pending = {} /\ pending' = {}
      BY <1>4 DEF UserSpeaks
    <2>2. CASE new.ok
      <3>1. msg \in Message /\ ts \in Seq(Turn) /\ Paired(ts, {})
        BY <1>3, <2>1, <2>2
      <3>2. PICK t \in Turn : t = BuildUserContent(msg) /\ t.role = "user" /\ t.blocks \in Seq(PlainBlocks)
        BY <3>1, UserContentTyped
      <3>3. Keep(t.blocks, ToolUses) = <<>> /\ Keep(t.blocks, ToolResults) = <<>>
        BY <3>2, PlainTurn
      <3>4. PICK owed : owed = {}
        OBVIOUS
      <3>5. Pair(Keep(t.blocks, ToolUses), <<>>, owed)
        BY <3>3, <3>4, PairNone
      <3>6. Paired(Append(ts, t), owed)
        BY <3>1, <3>2, <3>3, <3>4, <3>5, PairedTurn
      <3> QED
        BY <1>3, <2>1, <2>2, <3>2, <3>4, <3>6, FS_EmptySet
    <2> QED
      BY <2>1, <2>2, FS_EmptySet
  <1>5. ASSUME NEW msg, Instructs(msg)
        PROVE  IsFiniteSet(pending') /\ (new.ok => Paired(new.turns, pending'))
    BY <1>0, <1>3, <1>5 DEF Instructs
  <1>6. ASSUME NEW msg, NEW c \in pending, Results(msg, c)
        PROVE  IsFiniteSet(pending') /\ (new.ok => Paired(new.turns, pending'))
    <2>1. /\ Adds(msg) /\ pending' = pending \ {c} /\ msg.role \in {"tool", "function"}
          /\ (msg.role = "tool" => msg.id = c.id)
      BY <1>6 DEF Results
    <2>2. IsFiniteSet(pending')
      BY <1>0, <2>1, FS_RemoveElement
    <2>3. CASE new.ok
      <3>1. /\ msg \in Message /\ ts \in Seq(Turn) /\ Paired(ts, pending) /\ msg.role = "tool"
            /\ new.turns = AppendToolResult(ts, ToolResult(msg))
        BY <1>3, <2>1, <2>3
      <3>2. PICK r \in ToolResults : r = ToolResult(msg) /\ r.id = c.id
        BY <2>1, <3>1, ToolResultTyped
      <3>3. Paired(AppendToolResult(ts, r), pending \ {c})
        BY <1>0, <3>1, <3>2, PairedResult
      <3> QED
        BY <2>1, <2>2, <3>1, <3>2, <3>3
    <2> QED
      BY <2>2, <2>3
  <1>7. ASSUME NEW msg, NEW a, Answers(msg, a)
        PROVE  IsFiniteSet(pending') /\ (new.ok => Paired(new.turns, pending'))
    <2>1. Adds(msg) /\ msg \in Message /\ msg.role = "assistant" /\ pending = {} /\ pending' = PendingOf(msg)
      BY <1>7 DEF Answers, Adds
    <2>2. IsFiniteSet(PendingOf(msg)) /\ Pair(UsesOf(msg), <<>>, PendingOf(msg))
      BY <2>1, PairPending
    <2>3. CASE new.ok
      <3>1. ts \in Seq(Turn) /\ Paired(ts, {}) /\ new.turns = Append(ts, BuildAssistantMessage(msg))
        BY <1>3, <2>1, <2>3
      <3>2. PICK t \in Turn : t = BuildAssistantMessage(msg) /\ t.role = "assistant"
        BY <2>1, AssistantMessageTyped
      <3>3. Keep(t.blocks, ToolUses) = UsesOf(msg) /\ Keep(t.blocks, ToolResults) = <<>>
        BY <2>1, <3>2, AssistantTurn
      <3>4. Paired(Append(ts, t), PendingOf(msg))
        BY <2>2, <3>1, <3>2, <3>3, PairedTurn
      <3> QED
        BY <2>1, <2>2, <3>1, <3>2, <3>4
    <2> QED
      BY <2>1, <2>2, <2>3
  <1>8. CASE ~Idle
    <2>1. IsFiniteSet(pending') /\ (new.ok => Paired(new.turns, pending'))
      BY <1>4, <1>5, <1>6, <1>7, <1>8, Kinds
    <2>2. Paired(SeparateSystemMessages(history).turns, pending)' = Paired(SeparateSystemMessages(history)'.turns, pending')
      BY DEF Paired, Balanced, Pair, OpenAt
    <2> QED
      BY <1>1, <2>1, <2>2 DEF PairInv
  <1> QED
    BY <1>2, <1>8

(* In every request to Claude, a message with tool_use blocks is directly  *)
(* followed by one user message with exactly one result for each of them,  *)
(* and no other message has results (appendToolResult), in whatever order  *)
(* the client returns the results, with instructions in between.           *)
THEOREM ResultsPaired == Spec => []ToolResultsPaired
  <1>1. Init => TypeInv /\ SentInv /\ PairInv
    <2> SUFFICES ASSUME Init PROVE TypeInv /\ SentInv /\ PairInv
      OBVIOUS
    <2>1. history = <<>> /\ pending = {}
      BY DEF Init
    <2>2. SeparateSystemMessages(<<>>).turns = <<>>
      <3>1. TurnsStart.turns = <<>>
        BY DEF TurnsStart
      <3> QED
        BY <3>1, TurnsEmpty
    <2>3. Paired(<<>>, {})
      <3>1. Len(<<>>) = 0 /\ 0 \notin DOMAIN <<>> /\ 1 \notin DOMAIN <<>>
        OBVIOUS
      <3>2. UsesAt(<<>>, 0) = <<>> /\ ResultsAt(<<>>, 0 + 1) = <<>>
        BY <3>1 DEF UsesAt, ResultsAt
      <3>3. Balanced(<<>>, 0, {})
        BY <3>2, PairNone DEF Balanced
      <3>4. \A i \in 0..Len(<<>>) : i = 0
        BY <3>1
      <3> QED
        BY <3>3, <3>4 DEF Paired
    <2> QED
      BY <2>1, <2>2, <2>3, TypeInit, FS_EmptySet DEF PairInv
  <1>2. TypeInv /\ SentInv /\ PairInv /\ [Next]_vars => (TypeInv /\ SentInv /\ PairInv)'
    BY TypeStep, PairStep
  <1>3. SentInv /\ PairInv => ToolResultsPaired
    <2> SUFFICES ASSUME SentInv, PairInv, stage = "sent", dialect # "gemini", NEW i \in 0..Len(sent.turns)
                 PROVE  /\ IdsOf(UsesAt(sent.turns, i)) = IdsOf(ResultsAt(sent.turns, i + 1))
                        /\ Len(UsesAt(sent.turns, i)) = Len(ResultsAt(sent.turns, i + 1))
                        /\ ResultsAt(sent.turns, i + 1) # <<>> => sent.turns[i + 1].role = "user"
      BY DEF ToolResultsPaired, Sent
    <2>1. pending = {} /\ sent.turns = SeparateSystemMessages(history).turns /\ Paired(sent.turns, {})
      BY DEF SentInv, PairInv
    <2>2. sent.turns \in Seq(Turn)
      BY <2>1 DEF SentInv, TurnAcc
    <2>3. Balanced(sent.turns, i, {})
      BY <2>1 DEF Paired
    <2>4. Len(ResultsAt(sent.turns, i + 1)) \in Nat
      <3>1. \A k \in DOMAIN sent.turns : sent.turns[k].blocks \in Seq(Block)
        <4> TAKE k \in DOMAIN sent.turns
        <4>1. sent.turns[k] \in Turn
          BY <2>2, LenProperties, ElementOfSeq
        <4> QED
          BY <4>1 DEF Turn
      <3>2. \A k \in DOMAIN sent.turns : Keep(sent.turns[k].blocks, ToolResults) \in Seq(Block \cap ToolResults)
        BY <3>1, KeepTyped
      <3>3. ResultsAt(sent.turns, i + 1) \in Seq(Block \cap ToolResults)
        BY <3>2, EmptySeq DEF ResultsAt
      <3> QED
        BY <3>3, LenProperties
    <2>5. Cardinality({}) = 0 /\ {c.id : c \in {}} = {}
      BY FS_EmptySet
    <2> QED
      BY <2>3, <2>4, <2>5 DEF Balanced, Pair
  <1> QED
    BY <1>1, <1>2, <1>3, PTL DEF Spec
=============================================================================
