----------------------------- MODULE ListLemmas -----------------------------
(***************************************************************************)
(* Facts about the Redis lists of the models: a process appends to a list  *)
(* (rpush) or takes the head of it (lpop).                                 *)
(***************************************************************************)
EXTENDS Integers, Sequences, TLAPS

\* The types of what is pushed and popped.
LEMMA HeadTailType ==
    ASSUME NEW S, NEW s \in Seq(S), s # <<>>
    PROVE  Head(s) \in S /\ Tail(s) \in Seq(S)
OBVIOUS

LEMMA AppendType ==
    ASSUME NEW S, NEW s \in Seq(S), NEW e \in S
    PROVE  Append(s, e) \in Seq(S)
OBVIOUS

\* Lists without repetition.
Distinct(s) == \A m, n \in DOMAIN s : s[m] = s[n] => m = n
IsIn(e, s) == \E n \in DOMAIN s : s[n] = e

\* A push of what is not there keeps them so, ...
LEMMA DistinctAppend ==
    ASSUME NEW S, NEW s \in Seq(S), NEW e \in S
    PROVE  /\ Distinct(s) /\ ~IsIn(e, s) => Distinct(Append(s, e))
           /\ \A d \in S : IsIn(d, Append(s, e)) <=> IsIn(d, s) \/ d = e
<1>1. /\ DOMAIN Append(s, e) = 1 .. Len(s) + 1
      /\ DOMAIN s = 1 .. Len(s)
      /\ Len(s) \in Nat
      /\ Append(s, e)[Len(s) + 1] = e
      /\ \A n \in 1 .. Len(s) : Append(s, e)[n] = s[n]
  OBVIOUS
<1>2. \A n \in 1 .. Len(s) + 1 : n \in 1 .. Len(s) \/ n = Len(s) + 1
  BY <1>1
<1>3. Len(s) + 1 \in 1 .. Len(s) + 1 /\ 1 .. Len(s) \subseteq 1 .. Len(s) + 1
  BY <1>1
<1>4. Distinct(s) /\ ~IsIn(e, s) => Distinct(Append(s, e))
  BY <1>1, <1>2 DEF Distinct, IsIn
<1>5. ASSUME NEW d \in S
      PROVE  IsIn(d, Append(s, e)) <=> IsIn(d, s) \/ d = e
  BY <1>1, <1>2, <1>3 DEF IsIn
<1>6. QED
  BY <1>4, <1>5

\* ... and a pop removes the only occurrence.
LEMMA DistinctTail ==
    ASSUME NEW S, NEW s \in Seq(S), s # <<>>, Distinct(s)
    PROVE  /\ Distinct(Tail(s))
           /\ IsIn(Head(s), s)
           /\ \A d \in S : IsIn(d, Tail(s)) <=> IsIn(d, s) /\ d # Head(s)
<1>1. /\ Len(s) \in Nat \ {0}
      /\ DOMAIN s = 1 .. Len(s)
      /\ DOMAIN Tail(s) = 1 .. Len(s) - 1
      /\ Head(s) = s[1]
      /\ \A n \in 1 .. Len(s) - 1 : Tail(s)[n] = s[n + 1]
  OBVIOUS
<1>2. 1 \in DOMAIN s /\ \A n \in 1 .. Len(s) - 1 : n + 1 \in DOMAIN s /\ n + 1 # 1
  BY <1>1
<1>3. \A n \in DOMAIN s : n # 1 => n - 1 \in 1 .. Len(s) - 1 /\ (n - 1) + 1 = n
  BY <1>1
<1>4. Distinct(Tail(s))
  BY <1>1, <1>2 DEF Distinct
<1>5. IsIn(Head(s), s)
  BY <1>1, <1>2 DEF IsIn
<1>6. ASSUME NEW d \in S
      PROVE  IsIn(d, Tail(s)) <=> IsIn(d, s) /\ d # Head(s)
  <2>1. ASSUME IsIn(d, Tail(s)) PROVE IsIn(d, s) /\ d # Head(s)
    <3>1. PICK n \in 1 .. Len(s) - 1 : s[n + 1] = d
      BY <1>1, <2>1 DEF IsIn
    <3>2. QED
      BY <1>1, <1>2, <3>1 DEF IsIn, Distinct
  <2>2. ASSUME IsIn(d, s), d # Head(s) PROVE IsIn(d, Tail(s))
    <3>1. PICK n \in DOMAIN s : s[n] = d
      BY <2>2 DEF IsIn
    <3>2. n - 1 \in DOMAIN Tail(s) /\ Tail(s)[n - 1] = d
      BY <1>1, <1>3, <2>2, <3>1
    <3>3. QED
      BY <3>2 DEF IsIn
  <2>3. QED
    BY <2>1, <2>2
<1>7. QED
  BY <1>4, <1>5, <1>6

\* The same of one element, in a list where others may be repeated.
Once(e, s) == \A m, n \in DOMAIN s : s[m] = e /\ s[n] = e => m = n

LEMMA OnceAppend ==
    ASSUME NEW S, NEW s \in Seq(S), NEW e \in S, NEW d \in S
    PROVE  /\ Once(d, s) /\ (d = e => ~IsIn(e, s)) => Once(d, Append(s, e))
           /\ IsIn(d, Append(s, e)) <=> IsIn(d, s) \/ d = e
<1>1. /\ DOMAIN Append(s, e) = 1 .. Len(s) + 1
      /\ DOMAIN s = 1 .. Len(s)
      /\ Len(s) \in Nat
      /\ Append(s, e)[Len(s) + 1] = e
      /\ \A n \in 1 .. Len(s) : Append(s, e)[n] = s[n]
  OBVIOUS
<1>2. \A n \in 1 .. Len(s) + 1 : n \in 1 .. Len(s) \/ n = Len(s) + 1
  BY <1>1
<1>3. Once(d, s) /\ (d = e => ~IsIn(e, s)) => Once(d, Append(s, e))
  BY <1>1, <1>2 DEF Once, IsIn
<1>4. QED
  BY <1>3, DistinctAppend

LEMMA OnceTail ==
    ASSUME NEW S, NEW s \in Seq(S), s # <<>>, NEW d \in S
    PROVE  /\ IsIn(Head(s), s)
           /\ IsIn(d, Tail(s)) => IsIn(d, s)
           /\ IsIn(d, s) /\ d # Head(s) => IsIn(d, Tail(s))
           /\ Once(d, s) => Once(d, Tail(s)) /\ (d = Head(s) => ~IsIn(d, Tail(s)))
<1>1. /\ Len(s) \in Nat \ {0}
      /\ DOMAIN s = 1 .. Len(s)
      /\ DOMAIN Tail(s) = 1 .. Len(s) - 1
      /\ Head(s) = s[1]
      /\ \A n \in 1 .. Len(s) - 1 : Tail(s)[n] = s[n + 1]
  OBVIOUS
<1>2. 1 \in DOMAIN s /\ \A n \in 1 .. Len(s) - 1 : n + 1 \in DOMAIN s /\ n + 1 # 1
  BY <1>1
<1>3. \A n \in DOMAIN s : n # 1 => n - 1 \in 1 .. Len(s) - 1 /\ (n - 1) + 1 = n
  BY <1>1
<1>4. IsIn(Head(s), s) /\ (IsIn(d, Tail(s)) => IsIn(d, s))
  BY <1>1, <1>2 DEF IsIn
<1>5. ASSUME IsIn(d, s), d # Head(s) PROVE IsIn(d, Tail(s))
  <2>1. PICK n \in DOMAIN s : s[n] = d
    BY <1>5 DEF IsIn
  <2>2. n - 1 \in DOMAIN Tail(s) /\ Tail(s)[n - 1] = d
    BY <1>1, <1>3, <1>5, <2>1
  <2>3. QED
    BY <2>2 DEF IsIn
<1>6. ASSUME Once(d, s) PROVE Once(d, Tail(s)) /\ (d = Head(s) => ~IsIn(d, Tail(s)))
  <2>1. \A m, n \in 1 .. Len(s) - 1 : m + 1 = n + 1 => m = n
    BY <1>1
  <2>2. Once(d, Tail(s))
    BY <1>1, <1>2, <1>6, <2>1 DEF Once
  <2>3. d = Head(s) => ~IsIn(d, Tail(s))
    BY <1>1, <1>2, <1>6 DEF Once, IsIn
  <2>4. QED
    BY <2>2, <2>3
<1>7. QED
  BY <1>4, <1>5, <1>6
=============================================================================
