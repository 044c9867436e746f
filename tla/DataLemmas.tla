----------------------------- MODULE DataLemmas ------------------------------
(***************************************************************************)
(* Lemmas about the data the models are built from.  The message queue of   *)
(* an Exec port is a sequence without repetitions, seen as the set of its   *)
(* messages: what PutMsg(), GetMsg() and Remove() do to that set.  Block    *)
(* numbers are taken apart and put together by division.                    *)
(***************************************************************************)
EXTENDS Integers, SequencesExt, SequenceTheorems, TLAPS

\* The elements of a sequence by index.
LEMMA SetOfSequence ==
  ASSUME NEW S, NEW s \in Seq(S)
  PROVE  /\ ToSet(s) \subseteq S
         /\ \A e : e \in ToSet(s) <=> \E i \in 1 .. Len(s) : s[i] = e
         /\ IsInjective(s) <=> \A i, j \in 1 .. Len(s) : s[i] = s[j] => i = j
BY LenProperties DEF ToSet, IsInjective

\* What PutMsg() does to the set of queued messages.
LEMMA AppendFacts ==
  ASSUME NEW S, NEW s \in Seq(S), NEW e \in S, e \notin ToSet(s), IsInjective(s)
  PROVE  /\ Append(s, e) \in Seq(S)
         /\ Append(s, e) # <<>>
         /\ ToSet(Append(s, e)) = ToSet(s) \cup {e}
         /\ IsInjective(Append(s, e))
<1> DEFINE t == Append(s, e)
<1>1. /\ t \in Seq(S) /\ t # <<>> /\ Len(t) = Len(s) + 1
      /\ \A i \in 1 .. Len(s) : t[i] = s[i]
      /\ t[Len(s) + 1] = e
      /\ Len(s) \in Nat
  BY AppendProperties, LenProperties
<1> HIDE DEF t
<1>2. ASSUME NEW x PROVE x \in ToSet(t) <=> x \in ToSet(s) \cup {e}
  <2>1. x \in ToSet(t) <=> \E i \in 1 .. Len(s) + 1 : t[i] = x
    BY <1>1, SetOfSequence
  <2>2. x \in ToSet(s) <=> \E i \in 1 .. Len(s) : s[i] = x
    BY SetOfSequence
  <2> QED
    BY <1>1, <2>1, <2>2
<1>3. IsInjective(t)
  <2>1. \A i, j \in 1 .. Len(s) : s[i] = s[j] => i = j
    BY SetOfSequence
  <2>2. \A i \in 1 .. Len(s) : s[i] # e
    BY SetOfSequence
  <2>3. \A i, j \in 1 .. Len(t) : t[i] = t[j] => i = j
    BY <1>1, <2>1, <2>2
  <2> QED
    BY <1>1, <2>3, SetOfSequence
<1> QED
  BY <1>1, <1>2, <1>3 DEF t

\* What GetMsg() does.
LEMMA TailFacts ==
  ASSUME NEW S, NEW s \in Seq(S), s # <<>>, IsInjective(s)
  PROVE  /\ Tail(s) \in Seq(S)
         /\ Head(s) \in S
         /\ Head(s) \in ToSet(s)
         /\ ToSet(Tail(s)) = ToSet(s) \ {Head(s)}
         /\ IsInjective(Tail(s))
<1> DEFINE t == Tail(s)
<1>1. /\ t \in Seq(S) /\ Len(t) = Len(s) - 1
      /\ \A i \in 1 .. Len(t) : t[i] = s[i + 1]
      /\ Head(s) \in S /\ Head(s) = s[1]
      /\ Len(s) \in Nat \ {0}
  BY HeadTailProperties, EmptySeq, LenProperties
<1> HIDE DEF t
<1>2. \A i, j \in 1 .. Len(s) : s[i] = s[j] => i = j
  BY SetOfSequence
<1>3. ASSUME NEW x PROVE x \in ToSet(t) <=> x \in ToSet(s) \ {Head(s)}
  <2>1. x \in ToSet(t) <=> \E i \in 1 .. Len(t) : t[i] = x
    BY <1>1, SetOfSequence
  <2>2. x \in ToSet(s) <=> \E i \in 1 .. Len(s) : s[i] = x
    BY SetOfSequence
  <2>3. \A i \in 2 .. Len(s) : i - 1 \in 1 .. Len(t) /\ t[i - 1] = s[i]
    BY <1>1
  <2> QED
    BY <1>1, <1>2, <2>1, <2>2, <2>3
<1>4. IsInjective(t)
  <2>1. \A i, j \in 1 .. Len(t) : t[i] = t[j] => i = j
    BY <1>1, <1>2
  <2> QED
    BY <1>1, <2>1, SetOfSequence
<1>5. Head(s) \in ToSet(s)
  BY <1>1, SetOfSequence
<1> QED
  BY <1>1, <1>3, <1>4, <1>5 DEF t

\* What Remove() does to a message in the queue.
LEMMA RemoveAtFacts ==
  ASSUME NEW S, NEW s \in Seq(S), NEW i \in 1 .. Len(s), IsInjective(s)
  PROVE  /\ RemoveAt(s, i) \in Seq(S)
         /\ ToSet(RemoveAt(s, i)) = ToSet(s) \ {s[i]}
         /\ IsInjective(RemoveAt(s, i))
<1> DEFINE a == SubSeq(s, 1, i - 1)
           b == SubSeq(s, i + 1, Len(s))
           t == RemoveAt(s, i)
<1>0. /\ Len(s) \in Nat
      /\ \A j \in 1 .. Len(s) : s[j] \in S
  BY LenProperties, ElementOfSeq
<1>1. /\ a \in Seq(S) /\ Len(a) = i - 1
      /\ \A j \in 1 .. i - 1 : a[j] = s[j]
  <2>1. \A j \in 1 .. i - 1 : s[j] \in S
    BY <1>0
  <2>2. /\ a \in Seq(S)
        /\ Len(a) = IF 1 <= i - 1 THEN (i - 1) - 1 + 1 ELSE 0
        /\ \A j \in 1 .. (i - 1) - 1 + 1 : a[j] = s[1 + j - 1]
    BY <1>0, <2>1, SubSeqProperties
  <2> QED
    BY <1>0, <2>2
<1>2. /\ b \in Seq(S) /\ Len(b) = Len(s) - i
      /\ \A j \in 1 .. Len(s) - i : b[j] = s[i + j]
  <2>1. \A j \in i + 1 .. Len(s) : s[j] \in S
    BY <1>0
  <2>2. /\ b \in Seq(S)
        /\ Len(b) = IF i + 1 <= Len(s) THEN Len(s) - (i + 1) + 1 ELSE 0
        /\ \A j \in 1 .. Len(s) - (i + 1) + 1 : b[j] = s[(i + 1) + j - 1]
    BY <1>0, <2>1, SubSeqProperties
  <2> QED
    BY <1>0, <2>2
<1>3. t = a \o b
  BY DEF RemoveAt
<1> HIDE DEF a, b, t
<1>4. /\ t \in Seq(S) /\ Len(t) = Len(s) - 1
      /\ \A j \in 1 .. Len(t) : t[j] = IF j < i THEN s[j] ELSE s[j + 1]
  <2>1. /\ t \in Seq(S) /\ Len(t) = Len(a) + Len(b)
        /\ \A j \in 1 .. Len(a) + Len(b) :
             t[j] = IF j <= Len(a) THEN a[j] ELSE b[j - Len(a)]
    BY <1>1, <1>2, <1>3, ConcatProperties
  <2>2. Len(t) = Len(s) - 1
    BY <1>0, <1>1, <1>2, <2>1
  <2>3. ASSUME NEW j \in 1 .. Len(t), j < i PROVE t[j] = s[j]
    <3>1. j \in 1 .. i - 1 /\ j \in 1 .. Len(a) + Len(b) /\ j <= Len(a)
      BY <1>0, <1>1, <1>2, <2>2, <2>3
    <3> QED
      BY <1>1, <2>1, <3>1
  <2>4. ASSUME NEW j \in 1 .. Len(t), ~(j < i) PROVE t[j] = s[j + 1]
    <3>1. /\ j \in 1 .. Len(a) + Len(b) /\ ~(j <= Len(a))
          /\ j - Len(a) \in 1 .. Len(s) - i /\ i + (j - Len(a)) = j + 1
      BY <1>0, <1>1, <1>2, <2>2, <2>4
    <3> QED
      BY <1>2, <2>1, <3>1
  <2> QED
    BY <2>1, <2>2, <2>3, <2>4
<1>5. \A j, k \in 1 .. Len(s) : s[j] = s[k] => j = k
  BY SetOfSequence
<1>6. ASSUME NEW x PROVE x \in ToSet(t) <=> x \in ToSet(s) \ {s[i]}
  <2>1. x \in ToSet(t) <=> \E j \in 1 .. Len(t) : t[j] = x
    BY <1>4, SetOfSequence
  <2>2. x \in ToSet(s) <=> \E j \in 1 .. Len(s) : s[j] = x
    BY SetOfSequence
  <2>3. \A j \in 1 .. i - 1 : j \in 1 .. Len(t) /\ t[j] = s[j]
    BY <1>0, <1>4
  <2>4. \A j \in i + 1 .. Len(s) : j - 1 \in 1 .. Len(t) /\ t[j - 1] = s[j]
    BY <1>0, <1>4
  <2>5. ASSUME x \in ToSet(t) PROVE x \in ToSet(s) \ {s[i]}
    <3>1. PICK j \in 1 .. Len(t) : t[j] = x
      BY <2>1, <2>5
    <3>2. /\ j \in 1 .. Len(s) /\ j + 1 \in 1 .. Len(s)
          /\ x = IF j < i THEN s[j] ELSE s[j + 1]
      BY <1>0, <1>4, <3>1
    <3> QED
      BY <1>5, <2>2, <3>2
  <2>6. ASSUME x \in ToSet(s), x # s[i] PROVE x \in ToSet(t)
    <3>1. PICK j \in 1 .. Len(s) : s[j] = x
      BY <2>2, <2>6
    <3>2. j \in 1 .. i - 1 \/ j \in i + 1 .. Len(s)
      BY <1>0, <2>6, <3>1
    <3> QED
      BY <2>1, <2>3, <2>4, <3>1, <3>2
  <2> QED
    BY <2>5, <2>6
<1>7. IsInjective(t)
  <2>1. \A j, k \in 1 .. Len(t) : t[j] = t[k] => j = k
    BY <1>0, <1>4, <1>5
  <2> QED
    BY <1>4, <2>1, SetOfSequence
<1> QED
  BY <1>4, <1>6, <1>7 DEF t

\* Quotient and remainder are the only numbers with the property that defines
\* them: what lets / and % be replaced when an address is taken apart.
LEMMA DivUnique ==
  ASSUME NEW b \in Nat \ {0}, NEW q \in Nat, NEW r \in Nat, r < b
  PROVE  (b * q + r) \div b = q /\ (b * q + r) % b = r
<1> DEFINE x == b * q + r
<1> DEFINE d == x \div b
<1> DEFINE m == x % b
<1>1. x \in Nat
  <2>1. b * q \in Nat
    BY SMT
  <2> QED
    BY <2>1
<1>2. d \in Int /\ m \in 0..b-1 /\ x = b * d + m
  BY <1>1, SMT
<1> HIDE DEF d, m
<1>3. ASSUME d >= q + 1
      PROVE  FALSE
  <2>1. b * d >= b * (q + 1)
    BY <1>2, <1>3, SMT
  <2>2. b * (q + 1) = b * q + b
    BY SMT
  <2>3. b * d \in Int /\ b * q \in Int
    BY <1>2, SMT
  <2> QED
    BY <1>2, <2>1, <2>2, <2>3
<1>4. ASSUME q >= d + 1
      PROVE  FALSE
  <2>1. b * q >= b * (d + 1)
    BY <1>2, <1>4, SMT
  <2>2. b * (d + 1) = b * d + b
    BY <1>2, SMT
  <2>3. b * d \in Int /\ b * q \in Int
    BY <1>2, SMT
  <2> QED
    BY <1>2, <2>1, <2>2, <2>3
<1>5. d = q
  BY <1>2, <1>3, <1>4
<1>6. m = r
  <2>1. b * q \in Int
    BY SMT
  <2> QED
    BY <1>2, <1>5, <2>1
<1> QED
  BY <1>5, <1>6 DEF d, m

=============================================================================
