----------------------------- MODULE QueueLemmas -----------------------------
(***************************************************************************)
(* What the last word on a queue says, and how that outlives sending,      *)
(* handling, repeating and removing messages.  The modules with queues     *)
(* read their messages as words: one of them, silent, is of messages that  *)
(* do not matter to what is asked.                                         *)
(***************************************************************************)
EXTENDS Naturals, Sequences, SequencesExt, SequenceTheorems, TLAPS

\* The last word that is not silent is v; without one, the state it would have changed,
\* base, is v already.
LastIs(words, silent, base, v) ==
    /\ (\A i \in DOMAIN words : words[i] = silent) => base = v
    /\ \A i \in DOMAIN words :
          words[i] # silent /\ (\A j \in DOMAIN words : j > i => words[j] = silent)
              => words[i] = v

\* Without messages the state decides.
LEMMA LastOfNone ==
    ASSUME NEW words, DOMAIN words = {}, NEW silent, NEW base, NEW v
    PROVE  LastIs(words, silent, base, v) <=> base = v
BY DEF LastIs

\* A message is sent that says nothing.
LEMMA LastKept ==
    ASSUME NEW n \in Nat, NEW words, DOMAIN words = 1..n, NEW more, DOMAIN more = 1..(n + 1),
           \A i \in 1..n : more[i] = words[i],
           NEW silent, more[n + 1] = silent,
           NEW base, NEW v, LastIs(words, silent, base, v)
    PROVE  LastIs(more, silent, base, v)
<1>1. \A i \in DOMAIN more : i \in DOMAIN words \/ i = n + 1
    OBVIOUS
<1>2. \A i \in DOMAIN words : i \in DOMAIN more /\ more[i] = words[i]
    OBVIOUS
<1> QED
    BY <1>1, <1>2 DEF LastIs

\* A message is sent that says v, whatever was said before.
LEMMA LastSaid ==
    ASSUME NEW n \in Nat, NEW more, DOMAIN more = 1..(n + 1),
           NEW silent, NEW base, NEW v, v # silent, more[n + 1] = v
    PROVE  LastIs(more, silent, base, v)
<1>1. n + 1 \in DOMAIN more
    OBVIOUS
<1>2. \A i \in DOMAIN more : i = n + 1 \/ n + 1 > i
    OBVIOUS
<1> QED
    BY <1>1, <1>2 DEF LastIs

\* The first message is handled: the state is what it said.
LEMMA LastTaken ==
    ASSUME NEW n \in Nat, NEW words, DOMAIN words = 1..(n + 1), NEW rest, DOMAIN rest = 1..n,
           \A i \in 1..n : rest[i] = words[i + 1],
           NEW silent, NEW base, NEW v, LastIs(words, silent, base, v)
    PROVE  LastIs(rest, silent, IF words[1] = silent THEN base ELSE words[1], v)
<1>1. \A i \in DOMAIN words : i # 1 => i - 1 \in 1..n /\ rest[i - 1] = words[i]
    OBVIOUS
<1>2. 1 \in DOMAIN words /\ \A i \in DOMAIN rest : i + 1 \in DOMAIN words
    OBVIOUS
<1>3. ASSUME \A i \in DOMAIN rest : rest[i] = silent
      PROVE  (IF words[1] = silent THEN base ELSE words[1]) = v
    <2>1. \A i \in DOMAIN words : i # 1 => words[i] = silent
        BY <1>1, <1>3
    <2>2. \A i \in DOMAIN words : i > 1 => i # 1
        OBVIOUS
    <2> QED
        BY <1>2, <2>1, <2>2 DEF LastIs
<1>4. ASSUME NEW i \in DOMAIN rest, rest[i] # silent,
             \A j \in DOMAIN rest : j > i => rest[j] = silent
      PROVE  rest[i] = v
    <2>1. words[i + 1] = rest[i] /\ i + 1 \in DOMAIN words
        BY <1>2
    <2>2. ASSUME NEW j \in DOMAIN words, j > i + 1 PROVE words[j] = silent
        <3>1. j - 1 \in DOMAIN rest /\ j - 1 > i /\ words[j] = rest[j - 1]
            BY <1>1, <2>2
        <3> QED
            BY <1>4, <3>1
    <2> QED
        BY <1>4, <2>1, <2>2 DEF LastIs
<1> QED
    BY <1>3, <1>4 DEF LastIs

\* A message the state already agrees with is put before the others again.
LEMMA LastRepeated ==
    ASSUME NEW n \in Nat, NEW words, DOMAIN words = 1..n, NEW more, DOMAIN more = 1..(n + 1),
           \A i \in 1..n : more[i + 1] = words[i],
           NEW silent, NEW base, NEW v, more[1] \in {silent, base},
           LastIs(words, silent, base, v)
    PROVE  LastIs(more, silent, base, v)
<1>1. \A i \in DOMAIN words : i + 1 \in DOMAIN more /\ more[i + 1] = words[i] /\ i + 1 > 1
    OBVIOUS
<1>2. ASSUME \A i \in DOMAIN more : more[i] = silent PROVE base = v
    BY <1>1, <1>2 DEF LastIs
<1>3. ASSUME NEW i \in DOMAIN more, more[i] # silent,
             \A j \in DOMAIN more : j > i => more[j] = silent
      PROVE  more[i] = v
    <2>1. CASE i = 1
        <3>1. \A j \in DOMAIN words : words[j] = silent
            BY <1>1, <1>3, <2>1
        <3> QED
            BY <1>3, <2>1, <3>1 DEF LastIs
    <2>2. CASE i # 1
        <3>1. i - 1 \in DOMAIN words /\ words[i - 1] = more[i]
            BY <2>2
        <3>2. ASSUME NEW j \in DOMAIN words, j > i - 1 PROVE words[j] = silent
            BY <1>1, <1>3, <3>2
        <3> QED
            BY <1>3, <3>1, <3>2 DEF LastIs
    <2> QED
        BY <2>1, <2>2
<1> QED
    BY <1>2, <1>3 DEF LastIs

\* A message that says nothing is taken out of the order.
LEMMA LastWithout ==
    ASSUME NEW n \in Nat, NEW words, DOMAIN words = 1..(n + 1), NEW rest, DOMAIN rest = 1..n,
           NEW i \in 1..(n + 1),
           \A j \in 1..n : rest[j] = words[IF j < i THEN j ELSE j + 1],
           NEW silent, words[i] = silent,
           NEW base, NEW v, LastIs(words, silent, base, v)
    PROVE  LastIs(rest, silent, base, v)
<1> DEFINE At(j) == IF j < i THEN j ELSE j + 1
           From(j) == IF j < i THEN j ELSE j - 1
<1>1. \A j \in DOMAIN rest : At(j) \in DOMAIN words /\ rest[j] = words[At(j)]
    OBVIOUS
<1>2. \A j \in DOMAIN words : j # i => From(j) \in DOMAIN rest /\ At(From(j)) = j
    OBVIOUS
<1>3. \A j \in DOMAIN rest, k \in DOMAIN words : k # i /\ k > At(j) => From(k) > j
    OBVIOUS
<1>4. ASSUME \A j \in DOMAIN rest : rest[j] = silent PROVE base = v
    <2>1. \A j \in DOMAIN words : words[j] = silent
        BY <1>1, <1>2, <1>4
    <2> QED
        BY <2>1 DEF LastIs
<1>5. ASSUME NEW j \in DOMAIN rest, rest[j] # silent,
             \A k \in DOMAIN rest : k > j => rest[k] = silent
      PROVE  rest[j] = v
    <2>1. ASSUME NEW k \in DOMAIN words, k > At(j) PROVE words[k] = silent
        <3>1. CASE k # i
            <4>1. From(k) \in DOMAIN rest /\ From(k) > j /\ rest[From(k)] = words[k]
                BY <1>1, <1>2, <1>3, <2>1, <3>1
            <4> QED
                BY <1>5, <4>1
        <3> QED
            BY <3>1
    <2>2. At(j) \in DOMAIN words /\ words[At(j)] = rest[j]
        BY <1>1
    <2> QED
        BY <1>5, <2>1, <2>2 DEF LastIs
<1> QED
    BY <1>4, <1>5 DEF LastIs

-----------------------------------------------------------------------------
(* Sequences *)

\* A sequence without its first element.
LEMMA Taken ==
    ASSUME NEW S, NEW s \in Seq(S), s # <<>>
    PROVE  /\ Tail(s) \in Seq(S) /\ Len(Tail(s)) \in Nat /\ DOMAIN Tail(s) = 1..Len(Tail(s))
           /\ Len(s) = Len(Tail(s)) + 1 /\ DOMAIN s = 1..(Len(Tail(s)) + 1)
           /\ Head(s) = s[1] /\ Head(s) \in S
           /\ \A i \in 1..Len(Tail(s)) : Tail(s)[i] = s[i + 1]
<1>1. Len(s) \in Nat \ {0} /\ DOMAIN s = 1..Len(s)
    BY EmptySeq, LenProperties
<1>2. /\ Head(s) \in S /\ Tail(s) \in Seq(S) /\ Len(Tail(s)) = Len(s) - 1
      /\ \A i \in 1..Len(Tail(s)) : Tail(s)[i] = s[i + 1]
    BY HeadTailProperties
<1>3. Len(Tail(s)) \in Nat /\ DOMAIN Tail(s) = 1..Len(Tail(s))
    BY <1>2, LenProperties
<1>4. Len(s) = Len(Tail(s)) + 1
    BY <1>1, <1>2
<1>5. Head(s) = s[1]
    BY <1>1
<1> QED
    BY <1>1, <1>2, <1>3, <1>4, <1>5

\* A sequence with one more element.
LEMMA Added ==
    ASSUME NEW S, NEW s \in Seq(S), NEW e \in S
    PROVE  /\ Append(s, e) \in Seq(S) /\ Append(s, e) # <<>>
           /\ Len(s) \in Nat /\ DOMAIN s = 1..Len(s) /\ DOMAIN Append(s, e) = 1..(Len(s) + 1)
           /\ \A i \in 1..Len(s) : Append(s, e)[i] = s[i]
           /\ Append(s, e)[Len(s) + 1] = e
BY AppendProperties, LenProperties

\* A part of a sequence.
LEMMA Part ==
    ASSUME NEW S, NEW s \in Seq(S), NEW m \in 1..(Len(s) + 1), NEW n \in 0..Len(s), m <= n + 1
    PROVE  /\ SubSeq(s, m, n) \in Seq(S) /\ Len(SubSeq(s, m, n)) = n + 1 - m
           /\ \A j \in 1..(n + 1 - m) : SubSeq(s, m, n)[j] = s[m + j - 1]
<1>1. Len(s) \in Nat /\ \A j \in 1..Len(s) : s[j] \in S
    BY LenProperties, ElementOfSeq
<1>2. m \in Int /\ n \in Int /\ \A j \in m..n : s[j] \in S
    BY <1>1
<1>3. /\ SubSeq(s, m, n) \in Seq(S)
      /\ Len(SubSeq(s, m, n)) = IF m <= n THEN n - m + 1 ELSE 0
      /\ \A j \in 1..(n - m + 1) : SubSeq(s, m, n)[j] = s[m + j - 1]
    BY <1>2, SubSeqProperties
<1>4. n - m + 1 = n + 1 - m /\ (~(m <= n) => n + 1 - m = 0)
    BY <1>1
<1>5. Len(SubSeq(s, m, n)) = n + 1 - m
    BY <1>3, <1>4
<1> QED
    BY <1>3, <1>4, <1>5

\* A sequence without its i-th element.
LEMMA Removed ==
    ASSUME NEW S, NEW s \in Seq(S), NEW i \in DOMAIN s
    PROVE  /\ RemoveAt(s, i) \in Seq(S) /\ Len(RemoveAt(s, i)) \in Nat
           /\ DOMAIN RemoveAt(s, i) = 1..Len(RemoveAt(s, i))
           /\ DOMAIN s = 1..(Len(RemoveAt(s, i)) + 1)
           /\ \A j \in 1..Len(RemoveAt(s, i)) :
                 RemoveAt(s, i)[j] = s[IF j < i THEN j ELSE j + 1]
<1> DEFINE a == SubSeq(s, 1, i - 1)
           b == SubSeq(s, i + 1, Len(s))
           c == RemoveAt(s, i)
           n == Len(s)
<1>1. Len(s) \in Nat /\ DOMAIN s = 1..Len(s) /\ i \in 1..Len(s)
    BY LenProperties
<1>2. /\ a \in Seq(S) /\ Len(a) = i - 1 /\ \A j \in 1..(i - 1) : a[j] = s[j]
    <2>1. 1 \in 1..(Len(s) + 1) /\ i - 1 \in 0..Len(s) /\ 1 <= (i - 1) + 1
          /\ (i - 1) + 1 - 1 = i - 1 /\ \A j \in 1..(i - 1) : 1 + j - 1 = j
        BY <1>1
    <2> QED
        BY <2>1, Part
<1>3. /\ b \in Seq(S) /\ Len(b) = Len(s) - i /\ \A j \in 1..(Len(s) - i) : b[j] = s[i + j]
    <2>0. n \in Nat /\ i \in 1..n
        BY <1>1
    <2> HIDE DEF n
    <2>1. /\ i + 1 \in 1..(n + 1) /\ n \in 0..n /\ i + 1 <= n + 1
          /\ n + 1 - (i + 1) = n - i
          /\ \A j \in 1..(n - i) : (i + 1) + j - 1 = i + j
        BY <2>0
    <2> USE DEF n
    <2> QED
        BY <2>1, Part
<1>4. c = a \o b
    BY DEF RemoveAt
<1> HIDE DEF a, b, c
<1>5. /\ c \in Seq(S) /\ Len(c) = Len(a) + Len(b)
      /\ \A j \in 1..(Len(a) + Len(b)) : c[j] = IF j <= Len(a) THEN a[j] ELSE b[j - Len(a)]
    BY <1>2, <1>3, <1>4, ConcatProperties
<1>6. Len(c) = Len(s) - 1 /\ Len(c) \in Nat /\ Len(s) = Len(c) + 1
    <2>1. n \in Nat /\ i \in 1..n /\ Len(a) = i - 1 /\ Len(b) = n - i /\ Len(c) = Len(a) + Len(b)
        BY <1>1, <1>2, <1>3, <1>5
    <2> HIDE DEF n
    <2>2. Len(c) = n - 1 /\ n - 1 \in Nat /\ n = (n - 1) + 1
        BY <2>1
    <2> QED
        BY <2>2 DEF n
<1>7. ASSUME NEW j \in 1..Len(c) PROVE c[j] = s[IF j < i THEN j ELSE j + 1]
    <2>1. j \in 1..(Len(a) + Len(b))
        BY <1>5
    <2>2. c[j] = IF j <= Len(a) THEN a[j] ELSE b[j - Len(a)]
        BY <1>5, <2>1
    <2>3. CASE j < i
        <3>1. j <= Len(a) /\ j \in 1..(i - 1)
            BY <1>1, <1>2, <1>6, <2>3
        <3> QED
            BY <1>2, <2>2, <2>3, <3>1
    <2>4. CASE ~(j < i)
        <3>1. ~(j <= Len(a)) /\ j - Len(a) \in 1..(Len(s) - i) /\ i + (j - Len(a)) = j + 1
            BY <1>1, <1>2, <1>6, <2>4
        <3> QED
            BY <1>3, <2>2, <2>4, <3>1
    <2> QED
        BY <2>3, <2>4
<1>8. DOMAIN c = 1..Len(c) /\ DOMAIN s = 1..(Len(c) + 1)
    <2>1. DOMAIN c = 1..Len(c)
        BY <1>5, LenProperties
    <2> QED
        BY <1>1, <1>6, <2>1
<1> QED
    BY <1>5, <1>6, <1>7, <1>8 DEF c
=============================================================================
