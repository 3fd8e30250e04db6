--------------------------- MODULE ConfigFile_proofs ---------------------------
(* Proofs about the configuration file.                                     *)
EXTENDS ConfigFile, NatLemmas, SequenceTheorems, FiniteSetTheorems, TLAPS

-----------------------------------------------------------------------------
(* Lines.                                                                   *)

LEMMA PartTyped ==
    ASSUME NEW T, NEW s \in Seq(T), NEW a \in Int, NEW b \in Int,
           1 <= a, b <= Len(s), a <= b + 1
    PROVE  /\ SubSeq(s, a, b) \in Seq(T)
           /\ Len(SubSeq(s, a, b)) = b - a + 1
           /\ \A i \in 1..b - a + 1 : SubSeq(s, a, b)[i] = s[a + i - 1]
<1>1. Len(SubSeq(s, a, b)) = b - a + 1
  OBVIOUS
<1>2. \A i \in 1..b - a + 1 : SubSeq(s, a, b)[i] = s[a + i - 1] /\ s[a + i - 1] \in T
  OBVIOUS
<1> QED BY <1>1, <1>2

LEMMA Joined ==
    ASSUME NEW T, NEW a \in Seq(T), NEW b \in Seq(T)
    PROVE  /\ a \o b \in Seq(T)
           /\ Len(a \o b) = Len(a) + Len(b)
           /\ \A i \in 1..Len(a) : (a \o b)[i] = a[i]
           /\ \A i \in 1..Len(b) : (a \o b)[Len(a) + i] = b[i]
<1>1. /\ a \o b \in Seq(T) /\ Len(a \o b) = Len(a) + Len(b)
      /\ \A i \in 1..Len(a) + Len(b) :
           (a \o b)[i] = IF i <= Len(a) THEN a[i] ELSE b[i - Len(a)]
  BY ConcatProperties
<1>2. Len(a) \in Nat /\ Len(b) \in Nat
  OBVIOUS
<1>3. ASSUME NEW i \in 1..Len(a)
      PROVE  (a \o b)[i] = a[i]
  BY <1>1, <1>2
<1>4. ASSUME NEW i \in 1..Len(b)
      PROVE  (a \o b)[Len(a) + i] = b[i]
  <2>1. Len(a) + i \in 1..Len(a) + Len(b) /\ ~(Len(a) + i <= Len(a)) /\ (Len(a) + i) - Len(a) = i
    BY <1>2
  <2> QED BY <1>1, <2>1
<1> QED BY <1>1, <1>3, <1>4

\* c is a followed by b.
IsJoin(c, a, b) ==
    /\ Len(c) = Len(a) + Len(b)
    /\ \A i \in 1..Len(a) : c[i] = a[i]
    /\ \A i \in 1..Len(b) : c[Len(a) + i] = b[i]

LEMMA JoinedIs ==
    ASSUME NEW T, NEW a \in Seq(T), NEW b \in Seq(T)
    PROVE  a \o b \in Seq(T) /\ IsJoin(a \o b, a, b)
BY Joined DEF IsJoin

\* A line ends at the first nl, or where the file does.
LEMMA EndOfLineIs ==
    ASSUME NEW T, NEW f \in Seq(T), NEW p \in DOMAIN f
    PROVE  /\ EndOfLine(f, p) \in p..Len(f)
           /\ EndOfLine(f, p) = Len(f) \/ f[EndOfLine(f, p)] = nl
           /\ \A i \in p..EndOfLine(f, p) - 1 : f[i] # nl
<1> DEFINE Ends == {e \in p..Len(f) : e = Len(f) \/ f[e] = nl}
<1>1. Ends \in SUBSET Nat /\ Len(f) \in Ends
  OBVIOUS
<1>2. PICK e \in Ends : \A k \in Ends : e <= k
  BY <1>1, LeastNat
<1>3. e \in p..Len(f) /\ (e = Len(f) \/ f[e] = nl)
  OBVIOUS
<1>4. ASSUME NEW i \in p..e - 1
      PROVE  f[i] # nl
  <2>1. i \in p..Len(f) /\ ~(e <= i)
    BY <1>3
  <2> QED BY <1>2, <2>1
<1> QED BY <1>3, <1>4 DEF EndOfLine

LEMMA LineIs ==
    ASSUME NEW T, NEW f \in Seq(T), NEW p \in DOMAIN f
    PROVE  /\ Line(f, p) \in Seq(T)
           /\ Len(Line(f, p)) = EndOfLine(f, p) - p + 1
           /\ \A i \in 1..Len(Line(f, p)) : Line(f, p)[i] = f[p + i - 1]
<1>1. EndOfLine(f, p) \in p..Len(f)
  BY EndOfLineIs
<1> QED BY <1>1, PartTyped DEF Line

\* What is skipped are the blanks at the front, all of them.
Skips(s, c) ==
    /\ \A i \in 1..c : s[i] = blank
    /\ c < Len(s) => s[c + 1] # blank
    /\ SkipLeading(s) = SubSeq(s, c + 1, Len(s))
    /\ Len(SkipLeading(s)) = Len(s) - c
    /\ \A i \in 1..Len(s) - c : SkipLeading(s)[i] = s[c + i]

LEMMA SkipLeadingIs ==
    ASSUME NEW T, NEW s \in Seq(T)
    PROVE  SkipLeading(s) \in Seq(T) /\ \E c \in 0..Len(s) : Skips(s, c)
<1> DEFINE Reach == {k \in 0..Len(s) : \A j \in 1..k : s[j] = blank}
<1>1. Reach \in SUBSET Nat /\ Reach # {} /\ \A k \in Reach : k <= Len(s)
  <2>1. 0 \in Reach
    OBVIOUS
  <2> QED BY <2>1
<1>2. PICK c \in Reach : \A k \in Reach : k <= c
  <2>1. Len(s) \in Nat
    OBVIOUS
  <2> HIDE DEF Reach
  <2> QED BY <1>1, <2>1, GreatestNat
<1>3. c \in 0..Len(s) /\ \A i \in 1..c : s[i] = blank
  OBVIOUS
<1>4. c < Len(s) => s[c + 1] # blank
  <2>1. SUFFICES ASSUME c < Len(s), s[c + 1] = blank
                 PROVE  FALSE
    OBVIOUS
  <2>2. \A j \in 1..c + 1 : s[j] = blank
    BY <1>3, <2>1
  <2>3. c + 1 \in 0..Len(s)
    BY <1>3, <2>1
  <2>4. c + 1 \in Reach
    BY <2>2, <2>3
  <2> QED BY <1>2, <1>3, <2>4
<1> HIDE DEF Reach
<1> DEFINE Blanks == {i \in DOMAIN s : \A j \in 1..i : s[j] = blank}
<1>5. Blanks = 1..c
  <2>1. ASSUME NEW i \in Blanks
        PROVE  i \in 1..c
    <3>1. i \in 1..Len(s) /\ \A j \in 1..i : s[j] = blank
      OBVIOUS
    <3>2. i \in 0..Len(s) /\ i \in Reach
      BY <3>1 DEF Reach
    <3> QED BY <1>2, <1>3, <3>1, <3>2
  <2>2. ASSUME NEW i \in 1..c
        PROVE  i \in Blanks
    <3>1. i \in 1..Len(s) /\ \A j \in 1..i : s[j] = blank
      BY <1>3
    <3> QED BY <3>1
  <2> QED BY <2>1, <2>2
<1>6. Cardinality(Blanks) = c
  <2>1. 1 \in Int /\ c \in Int /\ 1 <= c + 1
    BY <1>3
  <2>2. Cardinality(1..c) = IF 1 > c THEN 0 ELSE c - 1 + 1
    BY <2>1, FS_Interval
  <2>3. Cardinality(1..c) = c
    BY <1>3, <2>2
  <2> QED BY <1>5, <2>3
<1>7. SkipLeading(s) = SubSeq(s, c + 1, Len(s))
  <2> HIDE DEF Blanks
  <2>1. SkipLeading(s) = SubSeq(s, 1 + Cardinality(Blanks), Len(s))
    BY DEF SkipLeading, Blanks
  <2>2. 1 + Cardinality(Blanks) = c + 1
    BY <1>3, <1>6
  <2> QED BY <2>1, <2>2
<1> HIDE DEF Blanks
<1>8. SkipLeading(s) \in Seq(T) /\ Len(SkipLeading(s)) = Len(s) - c
      /\ \A i \in 1..Len(s) - c : SkipLeading(s)[i] = s[c + i]
  <2>1. c + 1 \in Int /\ Len(s) \in Int /\ 1 <= c + 1 /\ Len(s) <= Len(s) /\ c + 1 <= Len(s) + 1
    BY <1>3
  <2>2. /\ SubSeq(s, c + 1, Len(s)) \in Seq(T)
        /\ Len(SubSeq(s, c + 1, Len(s))) = Len(s) - (c + 1) + 1
        /\ \A i \in 1..Len(s) - (c + 1) + 1 : SubSeq(s, c + 1, Len(s))[i] = s[c + 1 + i - 1]
    BY <2>1, PartTyped
  <2>3. Len(s) - (c + 1) + 1 = Len(s) - c
    BY <1>3
  <2>4. Len(SkipLeading(s)) = Len(s) - c
    BY <1>7, <2>2, <2>3
  <2>5. ASSUME NEW i \in 1..Len(s) - c
        PROVE  SkipLeading(s)[i] = s[c + i]
    <3>1. SubSeq(s, c + 1, Len(s))[i] = s[c + 1 + i - 1]
      BY <2>2, <2>3
    <3>2. c + 1 + i - 1 = c + i
      BY <1>3
    <3> QED BY <1>7, <3>1, <3>2
  <2> QED BY <1>7, <2>2, <2>4, <2>5
<1> QED BY <1>3, <1>4, <1>7, <1>8 DEF Skips

LEMMA ReadTyped ==
    ASSUME NEW f \in Seq(Tokens), NEW p \in DOMAIN f
    PROVE  SkipLeading(Line(f, p)) \in Seq(Tokens)
<1>1. Line(f, p) \in Seq(Tokens)
  BY LineIs
<1> QED BY <1>1, SkipLeadingIs

-----------------------------------------------------------------------------
(* Values.                                                                  *)

\* What a character is written as inside a quotation.
Escaped(c) == IF c = quote THEN <<escape, quote>> ELSE <<c>>

\* The function that Quoted defines by recursion.
Body(v) ==
    CHOOSE body : body = [i \in 0..Len(v) |->
        IF i = 0 THEN <<>> ELSE body[i - 1] \o (IF v[i] = quote THEN <<escape, quote>> ELSE <<v[i]>>)]

LEMMA QuotedBody ==
    ASSUME NEW v
    PROVE  Quoted(v) = IF NeedsQuotes(v) THEN <<quote>> \o Body(v)[Len(v)] \o <<quote>> ELSE v
BY DEF Quoted, Body

\* A function that is defined at i from what follows i, and one that is defined
\* at i from what is before i: they exist.
Backward(f, L, base, step) ==
    /\ f[L + 1] = base /\ f[L + 2] = base
    /\ \A i \in 1..L : f[i] = step[<<i, f[i + 1], f[i + 2]>>]

Forward(f, L, base, step) ==
    f[0] = base /\ \A i \in 1..L : f[i] = step[<<i, f[i - 1]>>]

LEMMA BackwardFunction ==
    ASSUME NEW L \in Nat, NEW R, NEW base \in R, NEW step \in [(1..L) \X R \X R -> R]
    PROVE  \E f \in [1..L + 2 -> R] : Backward(f, L, base, step)
<1> DEFINE From(m, f) ==
        /\ f[L + 1] = base /\ f[L + 2] = base
        /\ \A i \in 1..L : m <= i => f[i] = step[<<i, f[i + 1], f[i + 2]>>]
<1> DEFINE Done == {k \in Nat : k <= L => \E f \in [1..L + 2 -> R] : From(L + 1 - k, f)}
<1>1. 0 \in Done
  <2>1. [i \in 1..L + 2 |-> base] \in [1..L + 2 -> R]
    OBVIOUS
  <2>2. From(L + 1 - 0, [i \in 1..L + 2 |-> base])
    OBVIOUS
  <2> QED BY <2>1, <2>2
<1>2. ASSUME NEW k \in Nat, k \in Done
      PROVE  k + 1 \in Done
  <2>1. SUFFICES ASSUME k + 1 <= L
                 PROVE  \E f \in [1..L + 2 -> R] : From(L + 1 - (k + 1), f)
    OBVIOUS
  <2>2. PICK f \in [1..L + 2 -> R] : From(L + 1 - k, f)
    BY <1>2, <2>1
  <2> DEFINE at == L - k
  <2>3. at \in 1..L /\ at + 1 \in 1..L + 2 /\ at + 2 \in 1..L + 2 /\ L + 1 - k = at + 1
        /\ L + 1 - (k + 1) = at
    BY <2>1
  <2> HIDE DEF at
  <2> DEFINE value == step[<<at, f[at + 1], f[at + 2]>>]
  <2>4. value \in R
    <3>1. f[at + 1] \in R /\ f[at + 2] \in R
      BY <2>3
    <3>2. <<at, f[at + 1], f[at + 2]>> \in (1..L) \X R \X R
      BY <2>3, <3>1
    <3> QED BY <3>2
  <2> DEFINE g == [f EXCEPT ![at] = value]
  <2>5. g \in [1..L + 2 -> R] /\ g[at] = value /\ \A i \in 1..L + 2 : i # at => g[i] = f[i]
    BY <2>3, <2>4
  <2>6. g[L + 1] = base /\ g[L + 2] = base
    BY <2>2, <2>3, <2>5
  <2>7. ASSUME NEW i \in 1..L, at <= i
        PROVE  g[i] = step[<<i, g[i + 1], g[i + 2]>>]
    <3>1. g[i + 1] = f[i + 1] /\ g[i + 2] = f[i + 2]
      BY <2>3, <2>5, <2>7
    <3>2. CASE i = at
      BY <2>5, <3>1, <3>2
    <3>3. CASE i # at
      <4>1. at + 1 <= i
        BY <2>3, <2>7, <3>3
      <4>2. f[i] = step[<<i, f[i + 1], f[i + 2]>>]
        BY <2>2, <2>3, <4>1
      <4>3. g[i] = f[i]
        BY <2>5, <3>3
      <4> HIDE DEF g
      <4> QED BY <3>1, <4>2, <4>3
    <3> QED BY <3>2, <3>3
  <2> HIDE DEF g
  <2>8. From(at, g)
    BY <2>6, <2>7
  <2> QED BY <2>3, <2>5, <2>8
<1>3. Nat \subseteq Done
  <2> HIDE DEF Done
  <2> QED BY <1>1, <1>2, NatInductive
<1>4. PICK f \in [1..L + 2 -> R] : From(L + 1 - L, f)
  <2>1. L \in Done
    <3> HIDE DEF Done
    <3> QED BY <1>3
  <2>2. L <= L
    OBVIOUS
  <2> HIDE DEF From
  <2> QED BY <2>1, <2>2
<1>5. L + 1 - L = 1 /\ \A i \in 1..L : 1 <= i
  OBVIOUS
<1> QED BY <1>4, <1>5 DEF Backward

LEMMA ForwardFunction ==
    ASSUME NEW L \in Nat, NEW R, NEW base \in R, NEW step \in [(1..L) \X R -> R]
    PROVE  \E f \in [0..L -> R] : Forward(f, L, base, step)
<1> DEFINE UpTo(m, f) == f[0] = base /\ \A i \in 1..L : i <= m => f[i] = step[<<i, f[i - 1]>>]
<1> DEFINE Done == {k \in Nat : k <= L => \E f \in [0..L -> R] : UpTo(k, f)}
<1>1. 0 \in Done
  <2>1. [i \in 0..L |-> base] \in [0..L -> R]
    OBVIOUS
  <2>2. UpTo(0, [i \in 0..L |-> base])
    OBVIOUS
  <2> QED BY <2>1, <2>2
<1>2. ASSUME NEW k \in Nat, k \in Done
      PROVE  k + 1 \in Done
  <2>1. SUFFICES ASSUME k + 1 <= L
                 PROVE  \E f \in [0..L -> R] : UpTo(k + 1, f)
    OBVIOUS
  <2>2. PICK f \in [0..L -> R] : UpTo(k, f)
    BY <1>2, <2>1
  <2> DEFINE value == step[<<k + 1, f[k]>>]
  <2>4. value \in R
    <3>1. k + 1 \in 1..L /\ f[k] \in R
      BY <2>1
    <3>2. <<k + 1, f[k]>> \in (1..L) \X R
      BY <3>1
    <3> QED BY <3>2
  <2> DEFINE g == [f EXCEPT ![k + 1] = value]
  <2>5. g \in [0..L -> R] /\ g[k + 1] = value /\ \A i \in 0..L : i # k + 1 => g[i] = f[i]
    BY <2>1, <2>4
  <2>6. g[0] = base
    BY <2>2, <2>5
  <2>7. ASSUME NEW i \in 1..L, i <= k + 1
        PROVE  g[i] = step[<<i, g[i - 1]>>]
    <3>1. g[i - 1] = f[i - 1]
      BY <2>5, <2>7
    <3>2. CASE i = k + 1
      <4>1. i - 1 = k
        BY <3>2
      <4> QED BY <2>5, <3>1, <3>2, <4>1
    <3>3. CASE i # k + 1
      <4>1. i <= k /\ i \in 0..L
        BY <2>7, <3>3
      <4>2. f[i] = step[<<i, f[i - 1]>>]
        BY <2>2, <4>1
      <4> QED BY <2>5, <3>1, <3>3, <4>1, <4>2
    <3> QED BY <3>2, <3>3
  <2> HIDE DEF g
  <2>8. UpTo(k + 1, g)
    BY <2>6, <2>7
  <2> QED BY <2>5, <2>8
<1>3. Nat \subseteq Done
  <2> HIDE DEF Done
  <2> QED BY <1>1, <1>2, NatInductive
<1>4. PICK f \in [0..L -> R] : UpTo(L, f)
  BY <1>3
<1> QED BY <1>4 DEF Forward

LEMMA BodyIs ==
    ASSUME NEW T, quote \in T, escape \in T, NEW v \in Seq(T)
    PROVE  /\ Body(v) \in [0..Len(v) -> Seq(T)]
           /\ Body(v)[0] = <<>>
           /\ \A i \in 1..Len(v) : Body(v)[i] = Body(v)[i - 1] \o Escaped(v[i])
<1> DEFINE L == Len(v)
<1> DEFINE Def(b) == [i \in 0..L |->
        IF i = 0 THEN <<>> ELSE b[i - 1] \o (IF v[i] = quote THEN <<escape, quote>> ELSE <<v[i]>>)]
<1> DEFINE step == [p \in (1..L) \X Seq(T) |-> p[2] \o Escaped(v[p[1]])]
<1>1. L \in Nat /\ \A i \in 1..L : Escaped(v[i]) \in Seq(T)
  <2>1. L \in Nat
    OBVIOUS
  <2>2. ASSUME NEW i \in 1..L
        PROVE  Escaped(v[i]) \in Seq(T)
    <3>1. v[i] \in T
      OBVIOUS
    <3> QED BY <3>1 DEF Escaped
  <2> QED BY <2>1, <2>2
<1>2. step \in [(1..L) \X Seq(T) -> Seq(T)]
  <2>1. ASSUME NEW p \in (1..L) \X Seq(T)
        PROVE  p[2] \o Escaped(v[p[1]]) \in Seq(T)
    <3>1. p[1] \in 1..L /\ p[2] \in Seq(T)
      OBVIOUS
    <3>2. Escaped(v[p[1]]) \in Seq(T)
      BY <1>1, <3>1
    <3> QED BY <3>1, <3>2, ConcatProperties
  <2> QED BY <2>1
<1>3. <<>> \in Seq(T)
  OBVIOUS
<1>4. PICK f \in [0..L -> Seq(T)] : f[0] = <<>> /\ \A i \in 1..L : f[i] = step[<<i, f[i - 1]>>]
  <2> DEFINE R == Seq(T)
  <2> DEFINE base == <<>>
  <2>1. step \in [(1..L) \X R -> R] /\ base \in R
    BY <1>2, <1>3
  <2> HIDE DEF step, R, base, L
  <2>2. L \in Nat
    BY <1>1
  <2>3. \E f \in [0..L -> R] : Forward(f, L, base, step)
    BY <2>1, <2>2, ForwardFunction
  <2> QED BY <2>3 DEF R, base, Forward
<1>5. ASSUME NEW i \in 1..L
      PROVE  f[i] = f[i - 1] \o Escaped(v[i])
  <2>1. f[i - 1] \in Seq(T) /\ <<i, f[i - 1]>> \in (1..L) \X Seq(T)
    BY SMTT(30)
  <2> QED BY <1>4, <2>1
<1> HIDE DEF step
<1>6. f = Def(f)
  <2>1. ASSUME NEW i \in 0..L
        PROVE  f[i] = Def(f)[i]
    <3>1. CASE i = 0
      BY <1>4, <3>1
    <3>2. CASE i # 0
      <4>1. i \in 1..L
        BY <3>2
      <4>2. f[i] = f[i - 1] \o (IF v[i] = quote THEN <<escape, quote>> ELSE <<v[i]>>)
        BY <1>5, <4>1 DEF Escaped
      <4> QED BY <3>2, <4>2
    <3> QED BY <3>1, <3>2
  <2> QED BY <2>1
<1>7. Body(v) = Def(Body(v))
  BY <1>6 DEF Body
<1> DEFINE b == Body(v)
<1>8. b[0] = <<>> /\ \A i \in 1..L : b[i] = b[i - 1] \o Escaped(v[i])
  <2>1. b[0] = <<>>
    BY <1>1, <1>7
  <2>2. ASSUME NEW i \in 1..L
        PROVE  b[i] = b[i - 1] \o Escaped(v[i])
    <3>1. i \in 0..L /\ i # 0
      OBVIOUS
    <3>2. b[i] = Def(b)[i]
      BY <1>7
    <3> HIDE DEF b
    <3> QED BY <3>1, <3>2 DEF Escaped
  <2> QED BY <2>1, <2>2
<1> DEFINE Fine == {k \in Nat : k <= L => b[k] \in Seq(T)}
<1>9. Nat \subseteq Fine
  <2> HIDE DEF b
  <2>1. 0 \in Fine
    BY <1>3, <1>8
  <2>2. ASSUME NEW k \in Nat, k \in Fine
        PROVE  k + 1 \in Fine
    <3>1. SUFFICES ASSUME k + 1 <= L
                   PROVE  b[k + 1] \in Seq(T)
      OBVIOUS
    <3>2. b[k] \in Seq(T) /\ k + 1 \in 1..L /\ (k + 1) - 1 = k
      BY <1>1, <2>2, <3>1
    <3>3. b[k + 1] = b[k] \o Escaped(v[k + 1])
      BY <1>8, <3>2
    <3>4. Escaped(v[k + 1]) \in Seq(T)
      BY <1>1, <3>2
    <3> QED BY <3>2, <3>3, <3>4, ConcatProperties
  <2> HIDE DEF Fine
  <2> QED BY <2>1, <2>2, NatInductive
<1>10. b \in [0..L -> Seq(T)]
  <2>1. DOMAIN b = 0..L /\ b = [i \in 0..L |-> b[i]]
    BY <1>7
  <2>2. \A i \in 0..L : b[i] \in Seq(T)
    BY <1>1, <1>9
  <2> HIDE DEF b
  <2> QED BY <2>1, <2>2
<1> QED BY <1>8, <1>10

LEMMA QuotedTyped ==
    ASSUME NEW T, quote \in T, escape \in T, NEW v \in Seq(T)
    PROVE  Quoted(v) \in Seq(T)
<1>1. Body(v)[Len(v)] \in Seq(T)
  <2>1. Body(v) \in [0..Len(v) -> Seq(T)]
    BY BodyIs
  <2>2. Len(v) \in Nat
    OBVIOUS
  <2>3. Len(v) \in 0..Len(v)
    BY <2>2
  <2> QED BY <2>1, <2>3
<1>2. <<quote>> \in Seq(T) /\ <<quote>> \o Body(v)[Len(v)] \in Seq(T)
  BY <1>1, ConcatProperties
<1>3. <<quote>> \o Body(v)[Len(v)] \o <<quote>> \in Seq(T)
  BY <1>2, ConcatProperties
<1> QED BY <1>3, QuotedBody

-----------------------------------------------------------------------------
(* Types.                                                                   *)

Rewriting == {"section", "key", "rest", "remove"}

\* The write position is in the file that is written, or at its end.
TypeInv ==
    /\ TypeOK
    /\ pc # "idle" => arg \in Puts \X Values
    /\ pc \in {"idle", "open"} => wpos = 1
    /\ pc \in {"idle", "open", "rename"} => out = <<>>
    /\ pc = "create" => file \in Seq(Tokens) /\ wpos <= Len(file) + 1
    /\ pc \in Rewriting \cup {"rename"} => temp \in Seq(Tokens)
    /\ pc \in Rewriting => file \in Seq(Tokens) /\ wpos <= Len(temp) + 1

LEMMA OverwriteIs ==
    ASSUME NEW T, NEW f \in Seq(T), NEW piece \in Seq(T),
           NEW p \in 1..Len(f) + 1, NEW n \in 0..Len(piece)
    PROVE  /\ Overwrite(f, p, piece, n) \in Seq(T)
           /\ Len(Overwrite(f, p, piece, n)) = (IF p - 1 + n > Len(f) THEN p - 1 + n ELSE Len(f))
<1> DEFINE a == SubSeq(f, 1, p - 1)
<1> DEFINE b == SubSeq(piece, 1, n)
<1> DEFINE c == SubSeq(f, p + n, Len(f))
<1>1. a \in Seq(T) /\ Len(a) = p - 1
  <2>1. 1 <= 1 /\ p - 1 <= Len(f) /\ 1 <= p - 1 + 1 /\ p - 1 \in Int /\ p - 1 - 1 + 1 = p - 1
    OBVIOUS
  <2> QED BY <2>1, PartTyped
<1>2. b \in Seq(T) /\ Len(b) = n
  <2>1. 1 <= 1 /\ n <= Len(piece) /\ 1 <= n + 1 /\ n \in Int /\ n - 1 + 1 = n
    OBVIOUS
  <2> QED BY <2>1, PartTyped
<1>3. c \in Seq(T) /\ Len(c) = (IF p - 1 + n > Len(f) THEN 0 ELSE Len(f) - (p - 1 + n))
  <2>1. CASE p + n <= Len(f) + 1
    <3>1. 1 <= p + n /\ Len(f) <= Len(f) /\ p + n \in Int /\ Len(f) \in Int
      OBVIOUS
    <3>2. c \in Seq(T) /\ Len(c) = Len(f) - (p + n) + 1
      BY <2>1, <3>1, PartTyped
    <3> HIDE DEF c
    <3> QED BY <2>1, <3>1, <3>2
  <2>2. CASE p + n > Len(f) + 1
    <3>1. c = <<>>
      BY <2>2
    <3> HIDE DEF c
    <3> QED BY <2>2, <3>1
  <2> QED BY <2>1, <2>2
<1>4. Overwrite(f, p, piece, n) = a \o b \o c
  BY DEF Overwrite
<1> HIDE DEF a, b, c
<1>5. a \o b \in Seq(T) /\ Len(a \o b) = Len(a) + Len(b)
  BY <1>1, <1>2, ConcatProperties
<1>6. (a \o b) \o c \in Seq(T) /\ Len((a \o b) \o c) = Len(a \o b) + Len(c)
  BY <1>3, <1>5, ConcatProperties
<1>7. Len((a \o b) \o c) = (IF p - 1 + n > Len(f) THEN p - 1 + n ELSE Len(f))
  <2> DEFINE w == p - 1 + n
  <2>1. Len(a \o b) = w /\ w \in Nat /\ Len(f) \in Nat
    BY <1>1, <1>2, <1>5
  <2>2. Len((a \o b) \o c) = w + (IF w > Len(f) THEN 0 ELSE Len(f) - w)
    <3> HIDE DEF w
    <3> QED BY <1>3, <1>6, <2>1 DEF w
  <2> HIDE DEF w
  <2>3. Len((a \o b) \o c) = (IF w > Len(f) THEN w ELSE Len(f))
    BY <2>1, <2>2
  <2> QED BY <2>3 DEF w
<1> QED BY <1>4, <1>6, <1>7

LEMMA MarksAreTokens ==
    /\ nl \in Tokens /\ quote \in Tokens /\ escape \in Tokens /\ blank \in Tokens
    /\ Slide \in Tokens /\ Puts \subseteq Tokens /\ Headers \subseteq Tokens
    /\ Values \subseteq Seq(Tokens)
<1>1. Values \subseteq Seq(Tokens)
  <2>1. ASSUME NEW v \in Values
        PROVE  v \in Seq(Tokens)
    <3>1. v \in Seq(Tokens \ (Headers \cup Keys \cup {nl}))
      BY TokensAssumption
    <3> QED BY <3>1
  <2> QED BY <2>1
<1> QED BY <1>1, TokensAssumption DEF Tokens

LEMMA KeyLineTyped ==
    ASSUME NEW a \in Puts \X Values
    PROVE  /\ Quoted(a[2]) \in Seq(Tokens) /\ <<a[1]>> \in Seq(Tokens)
           /\ <<a[1]>> \o Quoted(a[2]) \o <<nl>> \in Seq(Tokens)
<1>1. a[1] \in Tokens /\ a[2] \in Seq(Tokens)
  BY MarksAreTokens
<1>2. Quoted(a[2]) \in Seq(Tokens) /\ <<a[1]>> \in Seq(Tokens) /\ <<nl>> \in Seq(Tokens)
  BY <1>1, MarksAreTokens, QuotedTyped
<1>3. <<a[1]>> \o Quoted(a[2]) \in Seq(Tokens)
  BY <1>2, ConcatProperties
<1>4. <<a[1]>> \o Quoted(a[2]) \o <<nl>> \in Seq(Tokens)
  BY <1>2, <1>3, ConcatProperties
<1> QED BY <1>2, <1>4

LEMMA NothingToWrite == <<>> \in Seq(Seq(Tokens))
OBVIOUS

\* What every return does.
LEMMA ReturnTyped ==
    ASSUME NEW value \in {0, 1}, Return(value)
    PROVE  /\ pc' = "idle" /\ arg' \in (Puts \X Values) \cup {<<>>}
           /\ rpos' \in Nat \ {0} /\ wpos' \in Nat \ {0} /\ wpos' = 1
           /\ out' = <<>> /\ out' \in Seq(Seq(Tokens)) /\ copied' \in BOOLEAN
           /\ result' \in {0, 1}
<1>1. pc' = "idle" /\ arg' = <<>> /\ rpos' = 1 /\ wpos' = 1 /\ out' = <<>> /\ result' = value
  BY DEF Return
<1>2. copied' \in BOOLEAN
  <2>1. copied' = FALSE
    BY DEF Return
  <2> QED BY <2>1
<1>3. out' \in Seq(Seq(Tokens))
  BY <1>1, NothingToWrite
<1> QED BY <1>1, <1>2, <1>3

LEMMA TypeInit == Init => TypeInv
<1> SUFFICES ASSUME Init
             PROVE  TypeInv
  OBVIOUS
<1>1. faults \in 0..MaxFaults /\ puts \in 0..MaxPuts
  BY TokensAssumption DEF Init
<1>2. file \in Seq(Tokens) \cup {Absent}
  BY TokensAssumption DEF Init
<1>3. out \in Seq(Seq(Tokens)) /\ temp \in Seq(Tokens) \cup {Absent}
  BY NothingToWrite DEF Init
<1>4. copied \in BOOLEAN /\ full \in BOOLEAN /\ interrupted \in BOOLEAN /\ short \in BOOLEAN
  <2>1. copied = FALSE /\ full = FALSE /\ interrupted = FALSE /\ short = FALSE
    BY DEF Init
  <2> QED BY <2>1
<1>5. arg \in (Puts \X Values) \cup {<<>>} /\ rpos \in Nat \ {0} /\ wpos \in Nat \ {0}
      /\ result \in {0, 1} /\ pc = "idle"
  BY DEF Init
<1>6. TypeOK
  BY <1>1, <1>2, <1>3, <1>4, <1>5 DEF TypeOK
<1> QED BY <1>6 DEF Init, TypeInv, Rewriting

\* What the three loops have in common: a line is read.
LEMMA AdvanceTyped ==
    ASSUME TypeInv, pc \in Rewriting, Advance
    PROVE  rpos \in DOMAIN file /\ rpos' \in Nat \ {0} /\ Read \in Seq(Tokens)
<1>1. file \in Seq(Tokens) /\ rpos \in Nat \ {0}
  BY DEF TypeInv, TypeOK
<1>2. rpos \in DOMAIN file
  BY <1>1 DEF Advance, AtEnd
<1>3. Len(Line(file, rpos)) \in Nat
  <2>1. Line(file, rpos) \in Seq(Tokens)
    BY <1>1, <1>2, LineIs
  <2> QED BY <2>1
<1>4. rpos' \in Nat \ {0}
  BY <1>1, <1>3 DEF Advance
<1>5. Read \in Seq(Tokens)
  BY <1>1, <1>2, ReadTyped DEF Read
<1> QED BY <1>2, <1>4, <1>5

LEMMA CopyTyped ==
    ASSUME NEW line \in Seq(Tokens), NEW apart
    PROVE  Copy(line, apart) \in Seq(Seq(Tokens))
<1>1. <<nl>> \in Seq(Tokens)
  BY MarksAreTokens
<1> QED BY <1>1 DEF Copy

\* Another fault is within the bound.
LEMMA OneMore ==
    ASSUME TypeInv, faults' = faults \/ (faults < MaxFaults /\ faults' = faults + 1)
    PROVE  faults' \in 0..MaxFaults
<1>1. faults \in 0..MaxFaults /\ MaxFaults \in Nat
  BY TokensAssumption DEF TypeInv, TypeOK
<1> QED BY <1>1

LEMMA TypeNext == TypeInv /\ [Next]_vars => TypeInv'
<1> SUFFICES ASSUME TypeInv, [Next]_vars
             PROVE  TypeInv'
  OBVIOUS
<1> USE DEF disk, history
<1>1. CASE OpenNew
  <2>1. arg \in Puts \X Values
    BY <1>1 DEF OpenNew, TypeInv
  <2>2. CASE pc' = "create" /\ file' = <<>> /\ out' = <<<<Slide, nl>>, KeyLine>>
             /\ UNCHANGED <<arg, rpos, wpos, copied, result>>
    <3>1. <<Slide, nl>> \in Seq(Tokens) /\ KeyLine \in Seq(Tokens)
      BY <2>1, MarksAreTokens, KeyLineTyped DEF KeyLine
    <3>2. out' \in Seq(Seq(Tokens))
      BY <2>2, <3>1
    <3>3. file' \in Seq(Tokens) /\ Len(file') = 0 /\ wpos' = 1
      BY <1>1, <2>2 DEF OpenNew, TypeInv
    <3> QED BY <1>1, <2>1, <2>2, <3>2, <3>3 DEF OpenNew, TypeInv, TypeOK, Rewriting
  <2>3. CASE Return(0) /\ UNCHANGED file
    BY <1>1, <2>3 DEF OpenNew, Return, TypeInv, TypeOK, Rewriting
  <2> QED BY <1>1, <2>2, <2>3 DEF OpenNew
<1>2. CASE OpenSame
  BY <1>2 DEF OpenSame, Return, TypeInv, TypeOK, Rewriting
<1>3. CASE OpenTemp
  <2>1. arg \in Puts \X Values /\ file \in Seq(Tokens) /\ wpos = 1 /\ out = <<>>
    BY <1>3 DEF OpenTemp, TypeInv, TypeOK
  <2>2. faults' \in 0..MaxFaults
    <3>1. faults' = faults \/ (faults < MaxFaults /\ faults' = faults + 1)
      BY <1>3 DEF OpenTemp
    <3> QED BY <3>1, OneMore
  <2>3. CASE /\ pc' = "section"
             /\ temp' = IF temp = Absent THEN <<>> ELSE temp
             /\ UNCHANGED <<arg, rpos, out, wpos, copied, result>>
    <3>1. temp' \in Seq(Tokens)
      BY <2>3 DEF TypeInv, TypeOK
    <3>2. wpos' <= Len(temp') + 1
      BY <2>1, <2>3, <3>1
    <3> QED BY <1>3, <2>1, <2>3, <2>2, <3>1, <3>2 DEF OpenTemp, TypeInv, TypeOK, Rewriting
  <2>4. CASE Return(0) /\ UNCHANGED <<temp, due>>
    BY <1>3, <2>4, <2>2 DEF OpenTemp, Return, TypeInv, TypeOK, Rewriting
  <2> QED BY <1>3, <2>3, <2>4 DEF OpenTemp
<1>4. CASE FindSection
  <2>1. rpos' \in Nat \ {0} /\ Read \in Seq(Tokens)
    BY <1>4, AdvanceTyped DEF FindSection, Reading, Rewriting
  <2>2. out' \in Seq(Seq(Tokens))
    BY <1>4, <2>1, CopyTyped DEF FindSection
  <2>3. copied' \in BOOLEAN
    BY <1>4 DEF FindSection, TypeInv, TypeOK
  <2>4. pc' \in {"key", "section"} /\ pc = "section"
    BY <1>4 DEF FindSection, Reading
  <2> QED BY <1>4, <2>1, <2>2, <2>3, <2>4 DEF FindSection, Advance, TypeInv, TypeOK, Rewriting
<1>5. CASE FindKey
  <2>1. rpos' \in Nat \ {0} /\ Read \in Seq(Tokens)
    BY <1>5, AdvanceTyped DEF FindKey, Reading, Rewriting
  <2>2. arg \in Puts \X Values /\ pc = "key"
    BY <1>5 DEF FindKey, Reading, TypeInv
  <2>3. out' \in Seq(Seq(Tokens))
    <3>1. CASE out' = <<KeyLine>>
      BY <2>2, <3>1, KeyLineTyped DEF KeyLine
    <3>2. CASE out' = <<<<arg[1]>>, Quoted(arg[2]), <<nl, nl>>, Read>>
      <4>1. <<nl, nl>> \in Seq(Tokens)
        BY MarksAreTokens
      <4> QED BY <2>1, <2>2, <3>2, <4>1, KeyLineTyped
    <3>3. CASE out' = Copy(Read, FALSE)
      BY <2>1, <3>3, CopyTyped
    <3> QED BY <1>5, <3>1, <3>2, <3>3 DEF FindKey
  <2>4. pc' \in {"key", "rest"}
    BY <1>5, <2>2 DEF FindKey
  <2> QED BY <1>5, <2>1, <2>2, <2>3, <2>4 DEF FindKey, Advance, TypeInv, TypeOK, Rewriting
<1>6. CASE CopyRest
  <2>1. rpos' \in Nat \ {0} /\ Read \in Seq(Tokens)
    BY <1>6, AdvanceTyped DEF CopyRest, Reading, Rewriting
  <2>2. out' \in Seq(Seq(Tokens))
    BY <1>6, <2>1, CopyTyped DEF CopyRest
  <2> QED BY <1>6, <2>1, <2>2 DEF CopyRest, Reading, Advance, TypeInv, TypeOK, Rewriting
<1>7. CASE EndOfFile \/ ReadFails
  <2>1. NoLine
    BY <1>7 DEF EndOfFile, ReadFails
  <2>2. pc \in {"section", "key", "rest"} /\ pc' = "remove"
    BY <2>1 DEF NoLine, Reading
  <2>3. KeyLine \in Seq(Tokens) /\ <<nl>> \in Seq(Tokens) /\ <<Slide, nl>> \in Seq(Tokens)
    BY <2>2, MarksAreTokens, KeyLineTyped DEF TypeInv, KeyLine
  <2>4. out' \in Seq(Seq(Tokens))
    <3>1. CASE out' = <<<<nl>>, <<Slide, nl>>, KeyLine>>
      BY <2>3, <3>1
    <3>2. CASE out' = <<<<nl>>, KeyLine>>
      BY <2>3, <3>2
    <3>3. CASE out' = <<>>
      BY <3>3, NothingToWrite
    <3> QED BY <2>1, <3>1, <3>2, <3>3 DEF NoLine
  <2>5. faults' \in 0..MaxFaults /\ short' \in BOOLEAN
    <3>1. faults' = faults \/ (faults < MaxFaults /\ faults' = faults + 1)
      BY <1>7 DEF EndOfFile, ReadFails
    <3>2. short' = short \/ short' = TRUE
      BY <1>7 DEF EndOfFile, ReadFails
    <3> QED BY <3>1, <3>2, OneMore DEF TypeInv, TypeOK
  <2>6. UNCHANGED <<disk, arg, rpos, wpos, copied, result, full, puts, interrupted>>
    BY <1>7, <2>1 DEF NoLine, EndOfFile, ReadFails
  <2> QED BY <2>2, <2>4, <2>5, <2>6 DEF TypeInv, TypeOK, Rewriting
<1>8. CASE Write
  <2> DEFINE f == IF pc = "create" THEN file ELSE temp
  <2> DEFINE all == Len(Head(out))
  <2>1. PICK n \in 0..all :
          /\ UNCHANGED <<full, faults>> \/ (full' = TRUE /\ faults < MaxFaults /\ faults' = faults + 1)
          /\ WriteTo(f, n) /\ wpos' = wpos + n
    BY <1>8 DEF Write
  <2>2. out # <<>> /\ out' = Tail(out) /\ UNCHANGED <<pc, arg, rpos, copied, result, puts, interrupted, short, due>>
    BY <1>8 DEF Write
  <2>3. out \in Seq(Seq(Tokens)) /\ Head(out) \in Seq(Tokens) /\ Tail(out) \in Seq(Seq(Tokens))
        /\ all \in Nat
    BY <2>2 DEF TypeInv, TypeOK
  <2>4. full' \in BOOLEAN /\ faults' \in 0..MaxFaults
    <3>1. full \in BOOLEAN /\ faults \in 0..MaxFaults /\ MaxFaults \in Nat
      BY TokensAssumption DEF TypeInv, TypeOK
    <3>2. CASE UNCHANGED <<full, faults>>
      BY <3>1, <3>2
    <3>3. CASE full' = TRUE /\ faults < MaxFaults /\ faults' = faults + 1
      <4>1. full' \in BOOLEAN
        BY <3>3
      <4>2. faults' \in 0..MaxFaults
        BY <3>1, <3>3
      <4> QED BY <4>1, <4>2
    <3> QED BY <2>1, <3>2, <3>3
  <2>5. wpos \in Nat \ {0} /\ wpos' \in Nat \ {0}
    BY <2>1 DEF TypeInv, TypeOK
  <2>6. ASSUME NEW g \in Seq(Tokens), wpos <= Len(g) + 1
        PROVE  /\ Overwrite(g, wpos, Head(out), n) \in Seq(Tokens)
               /\ wpos' <= Len(Overwrite(g, wpos, Head(out), n)) + 1
    <3>1. wpos \in 1..Len(g) + 1
      BY <2>5, <2>6
    <3>2. /\ Overwrite(g, wpos, Head(out), n) \in Seq(Tokens)
          /\ Len(Overwrite(g, wpos, Head(out), n))
               = (IF wpos - 1 + n > Len(g) THEN wpos - 1 + n ELSE Len(g))
      BY <2>3, <3>1, OverwriteIs, SMTT(30)
    <3>3. n \in Nat /\ Len(g) \in Nat /\ wpos' = wpos + n
      BY <2>1, <2>3
    <3> QED BY <2>5, <3>2, <3>3
  <2>7. CASE pc = "create"
    <3>1. file' = Overwrite(file, wpos, Head(out), n) /\ UNCHANGED temp
      BY <2>1, <2>7 DEF WriteTo
    <3>2. file' \in Seq(Tokens) /\ wpos' <= Len(file') + 1
      BY <2>6, <2>7, <3>1 DEF TypeInv
    <3> QED BY <2>2, <2>3, <2>4, <2>5, <2>7, <3>1, <3>2 DEF TypeInv, TypeOK, Rewriting
  <2>8. CASE pc # "create"
    <3>1. temp' = Overwrite(temp, wpos, Head(out), n) /\ UNCHANGED file
      BY <2>1, <2>8 DEF WriteTo
    <3>2. pc \in Rewriting
      <4>1. pc \notin {"idle", "open"}
        BY <2>2 DEF TypeInv
      <4>2. pc # "rename"
        BY <2>2 DEF TypeInv
      <4> QED BY <2>8, <4>1, <4>2 DEF TypeInv, TypeOK, Rewriting
    <3>3. temp' \in Seq(Tokens) /\ wpos' <= Len(temp') + 1
      BY <2>6, <3>1, <3>2 DEF TypeInv
    <3> QED BY <2>2, <2>3, <2>4, <2>5, <3>1, <3>2, <3>3 DEF TypeInv, TypeOK, Rewriting
  <2> QED BY <2>7, <2>8
<1>9. CASE Created
  <2>1. Return(1) /\ UNCHANGED <<disk, full, history>>
    BY <1>9 DEF Created
  <2> QED BY <2>1, ReturnTyped DEF TypeInv, TypeOK, Rewriting
<1>10. CASE Remove
  <2>1. temp \in Seq(Tokens) /\ pc = "remove" /\ pc' = "rename"
    BY <1>10 DEF Remove, Goto, TypeInv, Rewriting
  <2> QED BY <1>10, <2>1 DEF Remove, TypeInv, TypeOK, Rewriting
<1>11. CASE Rename
  <2>1. Return(1) /\ file' \in Seq(Tokens) /\ temp' = Absent
        /\ UNCHANGED <<full, puts, faults, interrupted, short>>
    BY <1>11 DEF Rename, TypeInv
  <2> QED BY <2>1, ReturnTyped DEF TypeInv, TypeOK, Rewriting
<1>12. CASE Crash
  <2>1. faults' \in 0..MaxFaults
    BY <1>12, TokensAssumption DEF Crash, TypeInv, TypeOK
  <2>2. Return(result) /\ result \in {0, 1} /\ interrupted' = TRUE
        /\ UNCHANGED <<disk, full, puts, short, due>>
    BY <1>12 DEF Crash, TypeInv, TypeOK
  <2> QED BY <2>1, <2>2, ReturnTyped DEF TypeInv, TypeOK, Rewriting
<1>13. ASSUME NEW key \in Puts, NEW value \in Values, Call(key, value)
       PROVE  TypeInv'
  <2>1. puts' \in 0..MaxPuts
    BY <1>13, TokensAssumption, SMTT(30) DEF Call, TypeInv, TypeOK
  <2> QED BY <1>13, <2>1 DEF Call, Goto, TypeInv, TypeOK, Rewriting
<1>14. CASE UNCHANGED vars
  BY <1>14 DEF vars, call, TypeInv, TypeOK, Rewriting
<1> QED BY <1>1, <1>2, <1>3, <1>4, <1>5, <1>6, <1>7, <1>8, <1>9, <1>10, <1>11, <1>12, <1>13, <1>14
        DEF Next, IniPuts

\* Every token that ini_puts writes is one, and it never writes beyond the end
\* of the file it has written so far (minIni.c:526-682).
THEOREM TypeCorrect == Spec => []TypeOK
<1>1. TypeInv => TypeOK
  BY DEF TypeInv
<1> QED BY <1>1, TypeInit, TypeNext, PTL DEF Spec

-----------------------------------------------------------------------------
(* The value that is read is the value that was written.                    *)

Pair(s, i) == i < Len(s) /\ s[i] \in {quote, escape} /\ s[i + 1] = quote

\* The functions that BeforeComment and Dequoted define by recursion.
End(s) ==
    CHOOSE end : end = [p \in (1..Len(s) + 1) \X BOOLEAN |->
        IF p[1] > Len(s) \/ (s[p[1]] \in Comment /\ ~p[2]) THEN p[1]
        ELSE IF p[1] < Len(s) /\ s[p[1]] \in {quote, escape} /\ s[p[1] + 1] = quote
             THEN end[<<p[1] + 2, p[2]>>]
        ELSE end[<<p[1] + 1, p[2] # (s[p[1]] = quote)>>]]

Plain(s) ==
    CHOOSE from : from = [i \in 1..Len(s) + 1 |->
        IF i > Len(s) THEN <<>>
        ELSE IF i < Len(s) /\ s[i] \in {quote, escape} /\ s[i + 1] = quote
             THEN <<quote>> \o from[i + 2]
        ELSE <<s[i]>> \o from[i + 1]]

LEMMA BeforeCommentEnd ==
    ASSUME NEW s
    PROVE  BeforeComment(s) = SubSeq(s, 1, End(s)[<<1, FALSE>>] - 1)
BY DEF BeforeComment, End

LEMMA DequotedPlain ==
    ASSUME NEW s
    PROVE  Dequoted(s) = Plain(s)[1]
BY DEF Dequoted, Plain

\* What the end is at i, from what it is after i.
EndRule(s, i, q) ==
    End(s)[<<i, q>>] =
        IF s[i] \in Comment /\ ~q THEN i
        ELSE IF Pair(s, i) THEN End(s)[<<i + 2, q>>]
        ELSE End(s)[<<i + 1, q # (s[i] = quote)>>]

LEMMA EndIs ==
    ASSUME NEW T, NEW s \in Seq(T)
    PROVE  /\ \A q \in BOOLEAN : End(s)[<<Len(s) + 1, q>>] = Len(s) + 1
           /\ \A i \in 1..Len(s), q \in BOOLEAN : EndRule(s, i, q)
<1> DEFINE L == Len(s)
<1> DEFINE At == (1..L + 1) \X BOOLEAN
<1> DEFINE value(e, p) ==
        IF p[1] > L \/ (s[p[1]] \in Comment /\ ~p[2]) THEN p[1]
        ELSE IF p[1] < L /\ s[p[1]] \in {quote, escape} /\ s[p[1] + 1] = quote
             THEN e[<<p[1] + 2, p[2]>>]
        ELSE e[<<p[1] + 1, p[2] # (s[p[1]] = quote)>>]
<1>0. L \in Nat
  OBVIOUS
<1> DEFINE body(e, i, q) ==
        IF s[i] \in Comment /\ ~q THEN i
        ELSE IF Pair(s, i) THEN e[<<i + 2, q>>]
        ELSE e[<<i + 1, q # (s[i] = quote)>>]
<1>a. ASSUME NEW e, NEW i \in 1..L, NEW q \in BOOLEAN
      PROVE  value(e, <<i, q>>) = body(e, i, q)
  <2>1. <<i, q>>[1] = i /\ <<i, q>>[2] = q /\ ~(i > L)
    OBVIOUS
  <2> QED BY <2>1 DEF Pair
<1>b. ASSUME NEW e, NEW q \in BOOLEAN
      PROVE  value(e, <<L + 1, q>>) = L + 1
  <2>1. <<L + 1, q>>[1] = L + 1 /\ L + 1 > L
    BY <1>0
  <2> QED BY <2>1
<1> HIDE DEF value
<1>1. \E e : e = [p \in At |-> value(e, p)]
  <2> DEFINE R == [BOOLEAN -> Nat]
  <2> DEFINE base == [q \in BOOLEAN |-> L + 1]
  <2> DEFINE next(p, q) ==
        IF s[p[1]] \in Comment /\ ~q THEN p[1]
        ELSE IF Pair(s, p[1]) THEN p[3][q]
        ELSE p[2][q # (s[p[1]] = quote)]
  <2> DEFINE step == [p \in (1..L) \X R \X R |-> [q \in BOOLEAN |-> next(p, q)]]
  <2>1. base \in R
    OBVIOUS
  <2>2. step \in [(1..L) \X R \X R -> R]
    <3>1. ASSUME NEW p \in (1..L) \X R \X R, NEW q \in BOOLEAN
          PROVE  next(p, q) \in Nat
      <4>1. p[1] \in Nat /\ p[2] \in R /\ p[3] \in R
        <5>1. p[1] \in 1..L
          OBVIOUS
        <5>2. p[2] \in R /\ p[3] \in R
          <6> HIDE DEF R
          <6> QED OBVIOUS
        <5> QED BY <5>1, <5>2
      <4> DEFINE other == q # (s[p[1]] = quote)
      <4>3. other \in BOOLEAN
        OBVIOUS
      <4> HIDE DEF other
      <4>4. p[3][q] \in Nat /\ p[2][other] \in Nat
        BY <4>1, <4>3
      <4> QED BY <4>1, <4>4 DEF other
    <3> HIDE DEF next
    <3> QED BY <3>1
  <2>3. PICK f \in [1..L + 2 -> R] : Backward(f, L, base, step)
    <3> HIDE DEF R, base, step, L
    <3> QED BY <1>0, <2>1, <2>2, BackwardFunction
  <2> DEFINE e == [p \in At |-> f[p[1]][p[2]]]
  <2>4. ASSUME NEW i \in 1..L, NEW q \in BOOLEAN
        PROVE  f[i][q] = IF s[i] \in Comment /\ ~q THEN i
                         ELSE IF Pair(s, i) THEN f[i + 2][q]
                         ELSE f[i + 1][q # (s[i] = quote)]
    <3>1. f[i] = step[<<i, f[i + 1], f[i + 2]>>]
      BY <2>3 DEF Backward
    <3>2. i + 1 \in 1..L + 2 /\ i + 2 \in 1..L + 2
      OBVIOUS
    <3>3. <<i, f[i + 1], f[i + 2]>> \in (1..L) \X R \X R
      <4> HIDE DEF R
      <4> QED BY <3>2
    <3>4. f[i][q] = next(<<i, f[i + 1], f[i + 2]>>, q)
      <4> HIDE DEF next, R
      <4> QED BY <3>1, <3>3
    <3> QED BY <3>4
  <2>5. ASSUME NEW q \in BOOLEAN
        PROVE  f[L + 1][q] = L + 1
    BY <2>3 DEF Backward
  <2> HIDE DEF step, next, base, R
  <2>e. ASSUME NEW i \in 1..L + 1, NEW q \in BOOLEAN
        PROVE  e[<<i, q>>] = f[i][q]
    <3>1. <<i, q>> \in At
      OBVIOUS
    <3> QED BY <3>1
  <2> HIDE DEF e
  <2>6. ASSUME NEW i \in 1..L + 1, NEW q \in BOOLEAN
        PROVE  e[<<i, q>>] = value(e, <<i, q>>)
    <3>2. CASE i = L + 1
      BY <1>b, <2>5, <2>e, <3>2
    <3>3. CASE i # L + 1
      <4>1. i \in 1..L
        BY <1>0, <3>3
      <4>2. i + 1 \in 1..L + 1 /\ (Pair(s, i) => i + 2 \in 1..L + 1)
        BY <4>1 DEF Pair
      <4> DEFINE other == q # (s[i] = quote)
      <4>3. other \in BOOLEAN
        OBVIOUS
      <4>4. f[i][q] = IF s[i] \in Comment /\ ~q THEN i
                         ELSE IF Pair(s, i) THEN f[i + 2][q]
                         ELSE f[i + 1][other]
        BY <2>4, <4>1
      <4>5. value(e, <<i, q>>) =
                  IF s[i] \in Comment /\ ~q THEN i
                  ELSE IF Pair(s, i) THEN e[<<i + 2, q>>]
                  ELSE e[<<i + 1, other>>]
        <5>1. value(e, <<i, q>>) = body(e, i, q)
          <6> HIDE DEF body
          <6> QED BY <1>a, <4>1
        <5> QED BY <5>1
      <4> HIDE DEF other
      <4>6. e[<<i + 1, other>>] = f[i + 1][other] /\ e[<<i, q>>] = f[i][q]
        BY <2>e, <4>2, <4>3
      <4>7. Pair(s, i) => e[<<i + 2, q>>] = f[i + 2][q]
        BY <2>e, <4>2
      <4> QED BY <4>4, <4>5, <4>6, <4>7
    <3> QED BY <3>2, <3>3
  <2>7. ASSUME NEW p \in At
        PROVE  e[p] = value(e, p)
    <3>1. p = <<p[1], p[2]>> /\ p[1] \in 1..L + 1 /\ p[2] \in BOOLEAN
      OBVIOUS
    <3> QED BY <2>6, <3>1
  <2>8. e = [p \in At |-> value(e, p)]
    <3>1. e = [p \in At |-> e[p]]
      BY DEF e
    <3> HIDE DEF At
    <3> QED BY <2>7, <3>1
  <2> QED BY <2>8
<1> DEFINE end == End(s)
<1>2. end = [p \in At |-> value(end, p)]
  BY <1>1 DEF End, value
<1> HIDE DEF end
<1>3. ASSUME NEW q \in BOOLEAN
      PROVE  end[<<L + 1, q>>] = L + 1
  <2>1. <<L + 1, q>> \in At
    BY <1>0
  <2>2. end[<<L + 1, q>>] = value(end, <<L + 1, q>>)
    <3> HIDE DEF At
    <3> QED BY <1>2, <2>1
  <2> QED BY <1>b, <2>2
<1>4. ASSUME NEW i \in 1..L, NEW q \in BOOLEAN
      PROVE  end[<<i, q>>] = body(end, i, q)
  <2>1. <<i, q>> \in At
    BY <1>0
  <2>2. end[<<i, q>>] = value(end, <<i, q>>)
    <3> HIDE DEF At
    <3> QED BY <1>2, <2>1
  <2> HIDE DEF body
  <2> QED BY <1>a, <2>2
<1> QED BY <1>3, <1>4 DEF end, EndRule

LEMMA PlainIs ==
    ASSUME NEW T, quote \in T, NEW s \in Seq(T)
    PROVE  /\ Plain(s)[Len(s) + 1] = <<>>
           /\ \A i \in 1..Len(s) :
                Plain(s)[i] = IF Pair(s, i) THEN <<quote>> \o Plain(s)[i + 2]
                              ELSE <<s[i]>> \o Plain(s)[i + 1]
<1> DEFINE L == Len(s)
<1> DEFINE value(e, i) ==
        IF i > L THEN <<>>
        ELSE IF i < L /\ s[i] \in {quote, escape} /\ s[i + 1] = quote
             THEN <<quote>> \o e[i + 2]
        ELSE <<s[i]>> \o e[i + 1]
<1> DEFINE body(e, i) ==
        IF Pair(s, i) THEN <<quote>> \o e[i + 2] ELSE <<s[i]>> \o e[i + 1]
<1>0. L \in Nat
  OBVIOUS
<1>a. ASSUME NEW e, NEW i \in 1..L
      PROVE  value(e, i) = body(e, i)
  BY DEF Pair
<1>b. ASSUME NEW e
      PROVE  value(e, L + 1) = <<>>
  BY <1>0
<1> HIDE DEF value
<1>1. \E e : e = [i \in 1..L + 1 |-> value(e, i)]
  <2> DEFINE R == Seq(T)
  <2> DEFINE base == <<>>
  <2> DEFINE next(p) == IF Pair(s, p[1]) THEN <<quote>> \o p[3] ELSE <<s[p[1]]>> \o p[2]
  <2> DEFINE step == [p \in (1..L) \X R \X R |-> next(p)]
  <2>1. base \in R
    OBVIOUS
  <2>2. step \in [(1..L) \X R \X R -> R]
    <3>1. ASSUME NEW p \in (1..L) \X R \X R
          PROVE  next(p) \in R
      <4>1. p[1] \in 1..L
        OBVIOUS
      <4>2. p[2] \in R /\ p[3] \in R
        <5> HIDE DEF R
        <5> QED OBVIOUS
      <4>3. <<quote>> \in Seq(T) /\ <<s[p[1]]>> \in Seq(T)
        BY <4>1
      <4>4. <<quote>> \o p[3] \in R /\ <<s[p[1]]>> \o p[2] \in R
        BY <4>2, <4>3, ConcatProperties
      <4> QED BY <4>4
    <3> HIDE DEF next, R
    <3> QED BY <3>1
  <2>3. PICK f \in [1..L + 2 -> R] : Backward(f, L, base, step)
    <3> HIDE DEF R, base, step, L
    <3> QED BY <1>0, <2>1, <2>2, BackwardFunction
  <2>4. ASSUME NEW i \in 1..L
        PROVE  f[i] = body(f, i)
    <3>1. f[i] = step[<<i, f[i + 1], f[i + 2]>>]
      BY <2>3 DEF Backward
    <3>2. i + 1 \in 1..L + 2 /\ i + 2 \in 1..L + 2
      OBVIOUS
    <3>3. <<i, f[i + 1], f[i + 2]>> \in (1..L) \X R \X R
      <4> HIDE DEF R
      <4> QED BY <3>2
    <3>4. f[i] = next(<<i, f[i + 1], f[i + 2]>>)
      <4> HIDE DEF next, R
      <4> QED BY <3>1, <3>3
    <3> QED BY <3>4
  <2>5. f[L + 1] = <<>>
    BY <2>3 DEF Backward
  <2> DEFINE e == [i \in 1..L + 1 |-> f[i]]
  <2>6. \A i \in 1..L + 1 : e[i] = f[i]
    OBVIOUS
  <2> HIDE DEF e, R, base, step, next
  <2>7. ASSUME NEW i \in 1..L + 1
        PROVE  e[i] = value(e, i)
    <3>1. CASE i = L + 1
      BY <1>b, <2>5, <2>6, <3>1
    <3>2. CASE i # L + 1
      <4>1. i \in 1..L /\ i + 1 \in 1..L + 1 /\ (Pair(s, i) => i + 2 \in 1..L + 1)
        BY <3>2 DEF Pair
      <4>2. e[i] = f[i] /\ e[i + 1] = f[i + 1] /\ (Pair(s, i) => e[i + 2] = f[i + 2])
        BY <2>6, <4>1
      <4>3. body(f, i) = body(e, i)
        BY <4>2
      <4> HIDE DEF body
      <4> QED BY <1>a, <2>4, <4>1, <4>2, <4>3
    <3> QED BY <3>1, <3>2
  <2>8. e = [i \in 1..L + 1 |-> value(e, i)]
    <3>1. e = [i \in 1..L + 1 |-> e[i]]
      BY DEF e
    <3> QED BY <2>7, <3>1
  <2> QED BY <2>8
<1> DEFINE plain == Plain(s)
<1>2. plain = [i \in 1..L + 1 |-> value(plain, i)]
  BY <1>1 DEF Plain, value
<1> HIDE DEF plain
<1>3. plain[L + 1] = <<>>
  BY <1>0, <1>2, <1>b
<1>4. ASSUME NEW i \in 1..L
      PROVE  plain[i] = body(plain, i)
  <2>1. plain[i] = value(plain, i)
    BY <1>2
  <2> HIDE DEF body
  <2> QED BY <1>a, <2>1
<1> QED BY <1>3, <1>4 DEF plain

LEMMA ValueOfIs ==
    ASSUME NEW s
    PROVE  ValueOf(s) = Unquoted(StripTrailing(BeforeComment(SkipLeading(s))))
<1> DEFINE v == Unquoted(StripTrailing(BeforeComment(SkipLeading(s))))
<1> DEFINE S == {Unquoted(r) : r \in {StripTrailing(q) :
                    q \in {BeforeComment(p) : p \in {SkipLeading(s)}}}}
<1>1. S = {v}
  <2>1. {BeforeComment(p) : p \in {SkipLeading(s)}} = {BeforeComment(SkipLeading(s))}
    OBVIOUS
  <2>2. {StripTrailing(q) : q \in {BeforeComment(SkipLeading(s))}}
          = {StripTrailing(BeforeComment(SkipLeading(s)))}
    OBVIOUS
  <2>3. {Unquoted(r) : r \in {StripTrailing(BeforeComment(SkipLeading(s)))}} = {v}
    OBVIOUS
  <2> QED BY <2>1, <2>2, <2>3
<1>2. ValueOf(s) = CHOOSE w \in S : TRUE
  BY DEF ValueOf
<1> HIDE DEF v, S
<1>3. (CHOOSE w \in {v} : TRUE) = v
  OBVIOUS
<1> QED BY <1>1, <1>2, <1>3 DEF v

LEMMA WholePart ==
    ASSUME NEW T, NEW s \in Seq(T)
    PROVE  SubSeq(s, 1, Len(s)) = s
OBVIOUS

LEMMA SkipNothing ==
    ASSUME NEW T, NEW s \in Seq(T), s # <<>> => s[1] # blank
    PROVE  SkipLeading(s) = s
<1>1. PICK c \in 0..Len(s) :
             /\ \A i \in 1..c : s[i] = blank
             /\ SkipLeading(s) = SubSeq(s, c + 1, Len(s))
  BY SkipLeadingIs DEF Skips
<1>2. c = 0
  <2>1. SUFFICES ASSUME c # 0
                 PROVE  FALSE
    OBVIOUS
  <2>2. 1 \in 1..c /\ 1 <= Len(s)
    BY <1>1, <2>1
  <2>3. s # <<>>
    BY <2>2
  <2> QED BY <1>1, <2>2, <2>3
<1> QED BY <1>1, <1>2, WholePart

LEMMA StripIs ==
    ASSUME NEW T, NEW s \in Seq(T), NEW n \in 0..Len(s),
           n > 0 => s[n] \notin {blank, nl},
           \A i \in n + 1..Len(s) : s[i] \in {blank, nl}
    PROVE  StripTrailing(s) = SubSeq(s, 1, n)
<1> DEFINE Kept == {i \in DOMAIN s : \E j \in i..Len(s) : s[j] \notin {blank, nl}}
<1>1. Kept = 1..n
  <2>1. ASSUME NEW i \in Kept
        PROVE  i \in 1..n
    <3>1. i \in 1..Len(s)
      OBVIOUS
    <3>2. PICK j \in i..Len(s) : s[j] \notin {blank, nl}
      OBVIOUS
    <3>3. ~(j \in n + 1..Len(s))
      BY <3>2
    <3> QED BY <3>1, <3>2, <3>3
  <2>2. ASSUME NEW i \in 1..n
        PROVE  i \in Kept
    <3>1. i \in DOMAIN s /\ n \in i..Len(s) /\ n > 0
      OBVIOUS
    <3> QED BY <3>1
  <2> QED BY <2>1, <2>2
<1>2. Cardinality(Kept) = n
  <2>1. 1 \in Int /\ n \in Int
    OBVIOUS
  <2>2. Cardinality(1..n) = IF 1 > n THEN 0 ELSE n - 1 + 1
    BY <2>1, FS_Interval
  <2>3. Cardinality(1..n) = n
    BY <2>2
  <2> QED BY <1>1, <2>3
<1> HIDE DEF Kept
<1> QED BY <1>2 DEF StripTrailing, Kept

LEMMA NoComment ==
    ASSUME NEW T, NEW s \in Seq(T), End(s)[<<1, FALSE>>] = Len(s) + 1
    PROVE  BeforeComment(s) = s
<1>1. BeforeComment(s) = SubSeq(s, 1, Len(s) + 1 - 1)
  BY BeforeCommentEnd
<1>2. Len(s) + 1 - 1 = Len(s)
  OBVIOUS
<1> QED BY <1>1, <1>2, WholePart

\* The body of a quotation, character by character.
LEMMA BodyGrows ==
    ASSUME NEW T, quote \in T, escape \in T, NEW v \in Seq(T), NEW k \in 0..Len(v)
    PROVE  /\ Len(Body(v)[k]) <= Len(Body(v)[Len(v)])
           /\ \A j \in 1..Len(Body(v)[k]) : Body(v)[Len(v)][j] = Body(v)[k][j]
<1> DEFINE b == Body(v)
<1> DEFINE Before(m) == Len(b[k]) <= Len(b[m]) /\ \A j \in 1..Len(b[k]) : b[m][j] = b[k][j]
<1> DEFINE Done == {m \in Nat : k <= m /\ m <= Len(v) => Before(m)}
<1>1. /\ b \in [0..Len(v) -> Seq(T)]
      /\ \A i \in 1..Len(v) : b[i] = b[i - 1] \o Escaped(v[i])
  BY BodyIs
<1>2. Len(v) \in Nat
  OBVIOUS
<1> HIDE DEF b
<1>3. b[k] \in Seq(T) /\ Len(b[k]) \in Nat
  BY <1>1
<1>4. ASSUME NEW m \in Nat, m = k
      PROVE  m \in Done
  BY <1>3, <1>4
<1>5. 0 \in Done
  <2>1. CASE k = 0
    BY <1>4, <2>1
  <2>2. CASE k # 0
    BY <2>2
  <2> QED BY <2>1, <2>2
<1>6. ASSUME NEW m \in Nat, m \in Done
      PROVE  m + 1 \in Done
  <2>1. CASE k = m + 1
    BY <1>4, <2>1
  <2>2. CASE ~(k <= m + 1 /\ m + 1 <= Len(v))
    BY <2>2
  <2>3. CASE k <= m /\ m + 1 <= Len(v)
    <3>1. Before(m)
      BY <1>2, <1>6, <2>3
    <3>2. m + 1 \in 1..Len(v) /\ m \in 0..Len(v) /\ (m + 1) - 1 = m
      BY <1>2, <2>3
    <3>3. b[m + 1] = b[m] \o Escaped(v[m + 1])
      BY <1>1, <3>2
    <3>4. b[m] \in Seq(T) /\ Escaped(v[m + 1]) \in Seq(T)
      <4>1. v[m + 1] \in T
        BY <3>2
      <4>2. Escaped(v[m + 1]) \in Seq(T)
        BY <4>1 DEF Escaped
      <4>3. b[m] \in Seq(T)
        BY <1>1, <3>2
      <4> QED BY <4>2, <4>3
    <3>5. Len(b[m + 1]) = Len(b[m]) + Len(Escaped(v[m + 1]))
          /\ \A j \in 1..Len(b[m]) : b[m + 1][j] = b[m][j]
      <4> DEFINE x == b[m]
      <4> DEFINE y == Escaped(v[m + 1])
      <4>1. x \in Seq(T) /\ y \in Seq(T) /\ b[m + 1] = x \o y
        BY <3>3, <3>4
      <4> HIDE DEF x, y
      <4>2. Len(x \o y) = Len(x) + Len(y) /\ \A j \in 1..Len(x) : (x \o y)[j] = x[j]
        BY <4>1, Joined
      <4> QED BY <4>1, <4>2 DEF x, y
    <3>6. Len(b[m]) \in Nat /\ Len(Escaped(v[m + 1])) \in Nat
      BY <3>4
    <3>7. Before(m + 1)
      <4>1. Len(b[k]) <= Len(b[m + 1])
        <5>1. Len(b[k]) <= Len(b[m]) /\ Len(b[m + 1]) = Len(b[m]) + Len(Escaped(v[m + 1]))
          BY <3>1, <3>5
        <5>2. \A i, j, n \in Nat : i <= j => i <= j + n
          OBVIOUS
        <5>3. Len(b[k]) <= Len(b[m]) + Len(Escaped(v[m + 1]))
          BY <1>3, <3>6, <5>1, <5>2
        <5> HIDE DEF Before
        <5> QED BY <5>1, <5>3
      <4>2. ASSUME NEW j \in 1..Len(b[k])
            PROVE  b[m + 1][j] = b[k][j]
        <5>1. j \in 1..Len(b[m]) /\ b[m][j] = b[k][j]
          BY <1>3, <3>1, <3>6
        <5> QED BY <3>5, <5>1
      <4> QED BY <4>1, <4>2
    <3> HIDE DEF Before
    <3> QED BY <3>7
  <2> QED BY <2>1, <2>2, <2>3
<1>7. Len(v) \in Done
  <2> HIDE DEF Done
  <2> QED BY <1>2, <1>5, <1>6, NatInductive
<1>8. Before(Len(v))
  BY <1>2, <1>7
<1> QED BY <1>8 DEF b

\* What the character v[k + 1] adds to the body that is `whole` in the end.
Added(v, k, whole, at) ==
    /\ at \in Nat
    /\ v[k + 1] = quote =>
        /\ Len(Body(v)[k + 1]) = at + 2 /\ at + 2 <= Len(whole)
        /\ whole[at + 1] = escape /\ whole[at + 2] = quote
    /\ v[k + 1] # quote =>
        /\ Len(Body(v)[k + 1]) = at + 1 /\ at + 1 <= Len(whole)
        /\ whole[at + 1] = v[k + 1]

LEMMA BodyStep ==
    ASSUME NEW T, quote \in T, escape \in T, NEW v \in Seq(T), NEW k \in 0..Len(v) - 1,
           NEW whole, whole = Body(v)[Len(v)], NEW at, at = Len(Body(v)[k])
    PROVE  whole \in Seq(T) /\ Added(v, k, whole, at)
<1> DEFINE b == Body(v)
<1> DEFINE c == Escaped(v[k + 1])
<1>1. Len(v) \in Nat /\ k + 1 \in 1..Len(v) /\ k \in 0..Len(v) /\ k + 1 \in 0..Len(v)
      /\ Len(v) \in 0..Len(v) /\ (k + 1) - 1 = k
  <2>1. Len(v) \in Nat
    OBVIOUS
  <2> QED BY <2>1
<1>2. b[k] \in Seq(T) /\ whole \in Seq(T) /\ b[k + 1] = b[k] \o c /\ b[k + 1] \in Seq(T)
  <2>1. /\ b \in [0..Len(v) -> Seq(T)]
        /\ \A i \in 1..Len(v) : b[i] = b[i - 1] \o Escaped(v[i])
    BY BodyIs
  <2> HIDE DEF b
  <2>2. b[k + 1] = b[k] \o c
    BY <1>1, <2>1
  <2>3. whole = b[Len(v)]
    BY DEF b
  <2> QED BY <1>1, <2>1, <2>2, <2>3
<1>3. c \in Seq(T) /\ c = IF v[k + 1] = quote THEN <<escape, quote>> ELSE <<v[k + 1]>>
  <2>1. v[k + 1] \in T
    BY <1>1
  <2> QED BY <2>1 DEF Escaped
<1>4. Len(b[k + 1]) <= Len(whole) /\ \A j \in 1..Len(b[k + 1]) : whole[j] = b[k + 1][j]
  <2>1. k + 1 \in 0..Len(v)
    BY <1>1
  <2> QED BY <2>1, BodyGrows
<1> HIDE DEF b, c
<1>5. /\ Len(b[k] \o c) = Len(b[k]) + Len(c)
      /\ \A i \in 1..Len(c) : (b[k] \o c)[Len(b[k]) + i] = c[i]
  <2> DEFINE x == b[k]
  <2>1. x \in Seq(T) /\ c \in Seq(T)
    BY <1>2, <1>3
  <2> HIDE DEF x
  <2>2. Len(x \o c) = Len(x) + Len(c) /\ \A i \in 1..Len(c) : (x \o c)[Len(x) + i] = c[i]
    BY <2>1, Joined
  <2> QED BY <2>2 DEF x
<1>6. at \in Nat /\ at = Len(b[k])
  BY <1>2 DEF b
<1>7. ASSUME v[k + 1] = quote
      PROVE  /\ Len(b[k + 1]) = at + 2 /\ at + 2 <= Len(whole)
             /\ whole[at + 1] = escape /\ whole[at + 2] = quote
  <2>1. c = <<escape, quote>>
    BY <1>3, <1>7
  <2>2. Len(c) = 2 /\ c[1] = escape /\ c[2] = quote
    BY <2>1
  <2>3. Len(b[k + 1]) = at + 2
    BY <1>2, <1>5, <1>6, <2>2
  <2>4. at + 1 \in 1..at + 2 /\ at + 2 \in 1..at + 2 /\ 1 \in 1..Len(c) /\ 2 \in 1..Len(c)
    BY <1>6, <2>2
  <2>5. b[k + 1][at + 1] = escape /\ b[k + 1][at + 2] = quote
    BY <1>2, <1>5, <1>6, <2>2, <2>4
  <2> QED BY <1>4, <2>3, <2>4, <2>5
<1>8. ASSUME v[k + 1] # quote
      PROVE  /\ Len(b[k + 1]) = at + 1 /\ at + 1 <= Len(whole)
             /\ whole[at + 1] = v[k + 1]
  <2>1. c = <<v[k + 1]>>
    BY <1>3, <1>8
  <2>2. Len(c) = 1 /\ c[1] = v[k + 1]
    BY <2>1
  <2>3. Len(b[k + 1]) = at + 1
    BY <1>2, <1>5, <1>6, <2>2
  <2>4. at + 1 \in 1..at + 1 /\ 1 \in 1..Len(c)
    BY <1>6, <2>2
  <2>5. b[k + 1][at + 1] = v[k + 1]
    BY <1>2, <1>5, <1>6, <2>2, <2>4
  <2> QED BY <1>4, <2>3, <2>4, <2>5
<1> QED BY <1>2, <1>6, <1>7, <1>8 DEF b, Added

LEMMA MarksDiffer ==
    /\ nl # quote /\ nl # escape /\ nl # blank /\ quote # escape /\ quote # blank
    /\ nl \notin Comment /\ quote \notin Comment /\ escape \notin Comment
BY DEF nl, quote, escape, blank, Comment

\* t is W in quotes, and s a line of it.
IsQuotation(s, t, W) ==
    /\ Len(t) = Len(W) + 2 /\ Len(s) = Len(W) + 3 /\ Len(W) \in Nat
    /\ s[1] = quote /\ s[Len(W) + 2] = quote /\ s[Len(W) + 3] = nl
    /\ \A i \in 1..Len(W) : s[i + 1] = W[i]
    /\ \A i \in 1..Len(W) + 2 : s[i] = t[i]
    /\ SubSeq(s, 1, Len(W) + 2) = t
    /\ SubSeq(t, 2, Len(t) - 1) = W

LEMMA QuotationIs ==
    ASSUME NEW T, nl \in T, quote \in T, NEW W \in Seq(T),
           NEW t, t = <<quote>> \o W \o <<quote>>, NEW s, s = t \o <<nl>>
    PROVE  t \in Seq(T) /\ s \in Seq(T) /\ IsQuotation(s, t, W)
<1> DEFINE q == <<quote>>
<1> DEFINE n == <<nl>>
<1> DEFINE u == q \o W
<1> DEFINE w == Len(W)
<1>1. q \in Seq(T) /\ n \in Seq(T) /\ Len(q) = 1 /\ Len(n) = 1 /\ q[1] = quote /\ n[1] = nl
  OBVIOUS
<1>2. w \in Nat
  OBVIOUS
<1>w. Len(W) = w
  OBVIOUS
<1> HIDE DEF q, n, w
<1>3. u \in Seq(T) /\ Len(u) = w + 1 /\ u[1] = quote /\ \A i \in 1..w : u[i + 1] = W[i]
  <2>j. u \in Seq(T) /\ IsJoin(u, q, W)
    BY <1>1, JoinedIs
  <2>1. /\ u \in Seq(T) /\ Len(u) = Len(q) + Len(W)
        /\ \A i \in 1..Len(q) : u[i] = q[i]
        /\ \A i \in 1..Len(W) : u[Len(q) + i] = W[i]
    <3> HIDE DEF u
    <3> QED BY <2>j DEF IsJoin
  <2> HIDE DEF u
  <2>2. ASSUME NEW i \in 1..w
        PROVE  u[i + 1] = W[i]
    <3>1. u[Len(q) + i] = W[i] /\ Len(q) + i = i + 1
      BY <1>1, <1>2, <1>w, <2>1
    <3> QED BY <3>1
  <2> QED BY <1>1, <1>2, <1>w, <2>1, <2>2
<1>4. t = u \o q
  BY DEF q
<1> HIDE DEF u
<1>5. t \in Seq(T) /\ Len(t) = w + 2 /\ t[w + 2] = quote /\ \A i \in 1..w + 1 : t[i] = u[i]
  <2>j. t \in Seq(T) /\ IsJoin(t, u, q)
    BY <1>1, <1>3, <1>4, JoinedIs
  <2>1. /\ t \in Seq(T) /\ Len(t) = Len(u) + Len(q)
        /\ \A i \in 1..Len(u) : t[i] = u[i]
        /\ \A i \in 1..Len(q) : t[Len(u) + i] = q[i]
    BY <2>j DEF IsJoin
  <2>2. t[Len(u) + 1] = q[1]
    BY <1>1, <2>1
  <2>3. Len(u) + 1 = w + 2
    BY <1>2, <1>3
  <2> QED BY <1>1, <1>2, <1>3, <2>1, <2>2, <2>3
<1>6. s \in Seq(T) /\ Len(s) = w + 3 /\ s[w + 3] = nl /\ \A i \in 1..w + 2 : s[i] = t[i]
  <2>0. s = t \o n
    BY DEF n
  <2>j. s \in Seq(T) /\ IsJoin(s, t, n)
    BY <1>1, <1>5, <2>0, JoinedIs
  <2>1. /\ s \in Seq(T) /\ Len(s) = Len(t) + Len(n)
        /\ \A i \in 1..Len(t) : s[i] = t[i]
        /\ \A i \in 1..Len(n) : s[Len(t) + i] = n[i]
    BY <2>j DEF IsJoin
  <2>2. s[Len(t) + 1] = n[1]
    BY <1>1, <2>1
  <2>3. Len(t) + 1 = w + 3
    BY <1>2, <1>5
  <2> QED BY <1>1, <1>2, <1>5, <2>1, <2>2, <2>3
<1>7. s[1] = quote /\ s[w + 2] = quote
  BY <1>2, <1>3, <1>5, <1>6
<1>8. ASSUME NEW i \in 1..w
      PROVE  s[i + 1] = W[i] /\ t[i + 1] = W[i]
  <2>1. i + 1 \in 1..w + 1 /\ i + 1 \in 1..w + 2
    BY <1>2
  <2> QED BY <1>3, <1>5, <1>6, <2>1
<1>9. SubSeq(s, 1, w + 2) = t
  <2>1. 1 <= 1 /\ w + 2 <= Len(s) /\ 1 <= w + 2 + 1 /\ w + 2 \in Int /\ w + 2 - 1 + 1 = w + 2
    BY <1>2, <1>6
  <2>2. /\ SubSeq(s, 1, w + 2) \in Seq(T) /\ Len(SubSeq(s, 1, w + 2)) = w + 2
        /\ \A i \in 1..w + 2 : SubSeq(s, 1, w + 2)[i] = s[1 + i - 1]
    BY <1>6, <2>1, PartTyped, SMTT(30)
  <2>3. \A i \in 1..w + 2 : SubSeq(s, 1, w + 2)[i] = t[i]
    BY <1>2, <1>6, <2>2
  <2> QED BY <1>5, <2>2, <2>3, SeqEqual
<1>10. SubSeq(t, 2, Len(t) - 1) = W
  <2>1. 1 <= 2 /\ Len(t) - 1 <= Len(t) /\ 2 <= Len(t) - 1 + 1 /\ Len(t) - 1 \in Int
        /\ Len(t) - 1 - 2 + 1 = w
    BY <1>2, <1>5
  <2>2. /\ SubSeq(t, 2, Len(t) - 1) \in Seq(T) /\ Len(SubSeq(t, 2, Len(t) - 1)) = w
        /\ \A i \in 1..w : SubSeq(t, 2, Len(t) - 1)[i] = t[2 + i - 1]
    BY <1>5, <2>1, PartTyped
  <2>3. ASSUME NEW i \in 1..w
        PROVE  SubSeq(t, 2, Len(t) - 1)[i] = W[i]
    <3>1. 2 + i - 1 = i + 1
      BY <1>2
    <3> QED BY <1>8, <2>2, <3>1
  <2> QED BY <1>w, <2>2, <2>3, SeqEqual
<1> QED BY <1>2, <1>5, <1>6, <1>7, <1>8, <1>9, <1>10, <1>w DEF IsQuotation

\* Without a comment the whole line is kept.
LEMMA EndWithout ==
    ASSUME NEW T, NEW s \in Seq(T), \A i \in 1..Len(s) : s[i] \notin Comment
    PROVE  End(s)[<<1, FALSE>>] = Len(s) + 1
<1> DEFINE L == Len(s)
<1> DEFINE AtEndFrom(i) == \A q \in BOOLEAN : End(s)[<<i, q>>] = L + 1
<1> DEFINE Done == {k \in Nat : \A i \in 1..L + 1 : L + 1 - k <= i => AtEndFrom(i)}
<1>0. L \in Nat
  OBVIOUS
<1>1. AtEndFrom(L + 1)
  BY EndIs
<1>2. 0 \in Done
  <2>1. ASSUME NEW i \in 1..L + 1, L + 1 - 0 <= i
        PROVE  AtEndFrom(i)
    <3>1. i = L + 1
      BY <1>0, <2>1
    <3> QED BY <1>1, <3>1
  <2> QED BY <2>1
<1>3. ASSUME NEW k \in Nat, k \in Done
      PROVE  k + 1 \in Done
  <2>1. ASSUME NEW i \in 1..L + 1, L + 1 - (k + 1) <= i
        PROVE  AtEndFrom(i)
    <3>1. CASE i = L + 1
      BY <1>1, <3>1
    <3>2. CASE i # L + 1
      <4>1. i \in 1..L /\ i + 1 \in 1..L + 1 /\ L + 1 - k <= i + 1
        BY <1>0, <2>1, <3>2
      <4>2. AtEndFrom(i + 1)
        BY <1>3, <4>1
      <4>3. Pair(s, i) => AtEndFrom(i + 2)
        <5>1. Pair(s, i) => i + 2 \in 1..L + 1 /\ L + 1 - k <= i + 2
          BY <1>0, <4>1 DEF Pair
        <5> QED BY <1>3, <5>1
      <4>4. ASSUME NEW q \in BOOLEAN
            PROVE  End(s)[<<i, q>>] = L + 1
        <5> DEFINE other == q # (s[i] = quote)
        <5>1. other \in BOOLEAN
          OBVIOUS
        <5>2. End(s)[<<i, q>>] = IF s[i] \in Comment /\ ~q THEN i
                  ELSE IF Pair(s, i) THEN End(s)[<<i + 2, q>>]
                  ELSE End(s)[<<i + 1, other>>]
          <6>1. EndRule(s, i, q)
            BY <4>1, EndIs
          <6> QED BY <6>1 DEF EndRule
        <5> HIDE DEF other
        <5>3. s[i] \notin Comment
          BY <4>1
        <5> QED BY <4>2, <4>3, <5>1, <5>2, <5>3
      <4> QED BY <4>4
    <3> QED BY <3>1, <3>2
  <2> HIDE DEF AtEndFrom
  <2> QED BY <2>1
<1>4. L + 1 \in Done
  <2> HIDE DEF Done
  <2> QED BY <1>0, <1>2, <1>3, NatInductive
<1>5. 1 \in 1..L + 1 /\ L + 1 - (L + 1) <= 1
  BY <1>0
<1> HIDE DEF AtEndFrom
<1>6. AtEndFrom(1)
  BY <1>4, <1>5
<1> QED BY <1>6 DEF AtEndFrom

\* Nor is anything of a quotation taken for a comment.
LEMMA EndOfQuotation ==
    ASSUME NEW T, nl \in T, quote \in T, escape \in T, NEW v \in Seq(T), v # <<>>,
           NEW W, W = Body(v)[Len(v)],
           NEW t, t = <<quote>> \o W \o <<quote>>, NEW s, s = t \o <<nl>>
    PROVE  End(s)[<<1, FALSE>>] = Len(s) + 1
<1> DEFINE n == Len(v)
<1> DEFINE pos(k) == Len(Body(v)[k]) + 2
<1>0. n \in Nat \ {0}
  OBVIOUS
<1>1. W \in Seq(T) /\ Body(v)[0] = <<>>
  <2>1. Body(v) \in [0..n -> Seq(T)] /\ Body(v)[0] = <<>>
    BY BodyIs
  <2>2. n \in 0..n
    BY <1>0
  <2> QED BY <2>1, <2>2
<1>2. /\ s \in Seq(T) /\ Len(s) = Len(W) + 3 /\ Len(W) \in Nat
      /\ s[1] = quote /\ s[Len(W) + 2] = quote /\ s[Len(W) + 3] = nl
      /\ \A i \in 1..Len(W) : s[i + 1] = W[i]
  <2>1. s \in Seq(T) /\ IsQuotation(s, t, W)
    BY <1>1, QuotationIs
  <2> QED BY <2>1 DEF IsQuotation
<1>3. ASSUME NEW k \in 0..n - 1
      PROVE  /\ pos(k) \in 2..Len(W) + 1
             /\ v[k + 1] = quote => /\ pos(k + 1) = pos(k) + 2
                                    /\ s[pos(k)] = escape /\ s[pos(k) + 1] = quote
             /\ v[k + 1] # quote => /\ pos(k + 1) = pos(k) + 1
                                    /\ s[pos(k)] = v[k + 1]
  <2> DEFINE at == Len(Body(v)[k])
  <2>1. Added(v, k, W, at)
    BY BodyStep
  <2>2. pos(k) = at + 2 /\ pos(k + 1) = Len(Body(v)[k + 1]) + 2
    OBVIOUS
  <2> HIDE DEF at, pos
  <2>3. CASE v[k + 1] = quote
    <3>1. /\ at \in Nat /\ Len(Body(v)[k + 1]) = at + 2 /\ at + 2 <= Len(W)
          /\ W[at + 1] = escape /\ W[at + 2] = quote
      BY <2>1, <2>3 DEF Added
    <3>2. at + 1 \in 1..Len(W) /\ at + 2 \in 1..Len(W)
      BY <1>2, <3>1, SMTT(30)
    <3>3. s[(at + 1) + 1] = escape /\ s[(at + 2) + 1] = quote
      BY <1>2, <3>1, <3>2
    <3>4. (at + 1) + 1 = pos(k) /\ (at + 2) + 1 = pos(k) + 1 /\ pos(k) \in 2..Len(W) + 1
          /\ pos(k + 1) = pos(k) + 2
      BY <1>2, <2>2, <3>1
    <3> QED BY <2>3, <3>3, <3>4
  <2>4. CASE v[k + 1] # quote
    <3>1. /\ at \in Nat /\ Len(Body(v)[k + 1]) = at + 1 /\ at + 1 <= Len(W)
          /\ W[at + 1] = v[k + 1]
      BY <2>1, <2>4 DEF Added
    <3>2. at + 1 \in 1..Len(W)
      BY <1>2, <3>1
    <3>3. s[(at + 1) + 1] = v[k + 1]
      BY <1>2, <3>1, <3>2
    <3>4. (at + 1) + 1 = pos(k) /\ pos(k) \in 2..Len(W) + 1 /\ pos(k + 1) = pos(k) + 1
      BY <1>2, <2>2, <3>1
    <3> QED BY <2>4, <3>3, <3>4
  <2> QED BY <2>3, <2>4
<1>4. pos(n) = Len(W) + 2 /\ pos(0) = 2
  BY <1>1
<1> HIDE DEF pos, n
<1>r. \A i \in 1..Len(s), q \in BOOLEAN : EndRule(s, i, q)
  BY <1>2, EndIs
<1>5. ASSUME NEW i \in 1..Len(s), NEW q \in BOOLEAN
      PROVE  End(s)[<<i, q>>] = IF s[i] \in Comment /\ ~q THEN i
                  ELSE IF Pair(s, i) THEN End(s)[<<i + 2, q>>]
                  ELSE End(s)[<<i + 1, q # (s[i] = quote)>>]
  BY <1>r DEF EndRule
<1>6. ASSUME NEW q \in BOOLEAN
      PROVE  End(s)[<<Len(s), q>>] = Len(s) + 1
  <2>1. Len(s) \in 1..Len(s) /\ s[Len(s)] = nl
    BY <1>2
  <2>2. s[Len(s)] \notin Comment /\ s[Len(s)] # quote
    BY <2>1, MarksDiffer
  <2>3. ~Pair(s, Len(s))
    BY <1>2 DEF Pair
  <2>4. (q # (s[Len(s)] = quote)) = q
    BY <2>2
  <2>5. End(s)[<<Len(s), q>>] = End(s)[<<Len(s) + 1, q>>]
    <3>1. EndRule(s, Len(s), q)
      BY <1>r, <2>1
    <3> DEFINE other == q # (s[Len(s)] = quote)
    <3>2. End(s)[<<Len(s), q>>] = End(s)[<<Len(s) + 1, other>>]
      BY <2>2, <2>3, <3>1 DEF EndRule
    <3> QED BY <2>4, <3>2
  <2>6. End(s)[<<Len(s) + 1, q>>] = Len(s) + 1
    BY <1>2, EndIs
  <2> QED BY <2>5, <2>6
<1> DEFINE Good(k) == End(s)[<<pos(k), TRUE>>] = Len(s) + 1
<1>7. Good(n)
  <2>1. Len(W) + 2 \in 1..Len(s) /\ s[Len(W) + 2] = quote /\ Len(W) + 2 + 1 = Len(s)
    BY <1>2
  <2>2. ~Pair(s, Len(W) + 2)
    BY <1>2, <2>1, MarksDiffer DEF Pair
  <2>3. (TRUE # (s[Len(W) + 2] = quote)) = FALSE
    BY <2>1
  <2>4. End(s)[<<Len(W) + 2, TRUE>>] = End(s)[<<Len(W) + 2 + 1, FALSE>>]
    <3>1. EndRule(s, Len(W) + 2, TRUE)
      BY <1>r, <2>1
    <3> DEFINE other == TRUE # (s[Len(W) + 2] = quote)
    <3>2. End(s)[<<Len(W) + 2, TRUE>>] = End(s)[<<Len(W) + 2 + 1, other>>]
      BY <2>2, <3>1 DEF EndRule
    <3> QED BY <2>3, <3>2
  <2> QED BY <1>4, <1>6, <2>1, <2>4
<1>8. ASSUME NEW k \in 0..n - 1, Good(k + 1)
      PROVE  Good(k)
  <2>0. pos(k) \in 1..Len(s)
    BY <1>2, <1>3
  <2>1. CASE v[k + 1] = quote
    <3>1. s[pos(k)] = escape /\ s[pos(k) + 1] = quote /\ pos(k + 1) = pos(k) + 2
      BY <1>3, <2>1
    <3>2. Pair(s, pos(k))
      <4>1. pos(k) < Len(s)
        BY <1>2, <1>3
      <4> QED BY <3>1, <4>1 DEF Pair
    <3>3. End(s)[<<pos(k), TRUE>>] = End(s)[<<pos(k) + 2, TRUE>>]
      BY <1>5, <2>0, <3>2
    <3> QED BY <1>8, <3>1, <3>3
  <2>2. CASE v[k + 1] # quote
    <3>1. s[pos(k)] # quote /\ pos(k + 1) = pos(k) + 1
      BY <1>3, <2>2
    <3>2. CASE ~Pair(s, pos(k))
      <4>1. (TRUE # (s[pos(k)] = quote)) = TRUE
        BY <3>1
      <4>2. End(s)[<<pos(k), TRUE>>] = End(s)[<<pos(k) + 1, TRUE>>]
        BY <1>5, <2>0, <3>2, <4>1
      <4> QED BY <1>8, <3>1, <4>2
    <3>3. CASE Pair(s, pos(k))
      <4>1. s[pos(k + 1)] = quote
        BY <3>1, <3>3 DEF Pair
      <4>2. k + 1 = n
        <5>1. SUFFICES ASSUME k + 1 \in 0..n - 1
                       PROVE  FALSE
          BY <1>0 DEF n
        <5>2. s[pos(k + 1)] = escape \/ s[pos(k + 1)] # quote
          BY <1>3, <5>1
        <5> QED BY <4>1, <5>2, MarksDiffer
      <4>3. pos(k) + 2 = Len(s)
        <5>1. pos(k + 1) = Len(W) + 2
          BY <1>4, <4>2
        <5> QED BY <1>2, <1>3, <3>1, <5>1
      <4>4. End(s)[<<pos(k), TRUE>>] = End(s)[<<pos(k) + 2, TRUE>>]
        BY <1>5, <2>0, <3>3
      <4> QED BY <1>6, <4>3, <4>4
    <3> QED BY <3>2, <3>3
  <2> QED BY <2>1, <2>2
<1>9. Good(0)
  <2> DEFINE Done == {d \in Nat : d <= n => Good(n - d)}
  <2> HIDE DEF Good
  <2>0. n \in Nat
    BY <1>0 DEF n
  <2>1. 0 \in Done
    <3>1. n - 0 = n
      BY <2>0
    <3> QED BY <1>7, <3>1
  <2>2. ASSUME NEW d \in Nat, d \in Done
        PROVE  d + 1 \in Done
    <3>1. SUFFICES ASSUME d + 1 <= n
                   PROVE  Good(n - (d + 1))
      OBVIOUS
    <3>2. Good(n - d) /\ n - (d + 1) \in 0..n - 1 /\ n - (d + 1) + 1 = n - d
      BY <2>0, <2>2, <3>1
    <3> QED BY <1>8, <3>2
  <2>3. n \in Done
    <3> HIDE DEF Done
    <3> QED BY <2>0, <2>1, <2>2, NatInductive
  <2>4. n - n = 0 /\ n <= n
    BY <2>0
  <2> QED BY <2>3, <2>4
<1>10. End(s)[<<1, FALSE>>] = End(s)[<<2, TRUE>>]
  <2>1. 1 \in 1..Len(s) /\ s[1] = quote /\ 1 + 1 = 2
    BY <1>2
  <2>2. s[2] # quote
    <3>1. 0 \in 0..n - 1 /\ 0 + 1 = 1
      BY <1>0 DEF n
    <3>2. s[pos(0)] = escape \/ s[pos(0)] # quote
      BY <1>3, <3>1
    <3> QED BY <1>4, <3>2, MarksDiffer
  <2>3. ~Pair(s, 1)
    BY <2>1, <2>2 DEF Pair
  <2>4. (FALSE # (s[1] = quote)) = TRUE
    BY <2>1
  <2>5. s[1] \notin Comment
    BY <2>1, MarksDiffer
  <2>6. EndRule(s, 1, FALSE)
    BY <1>r, <2>1
  <2> DEFINE other == FALSE # (s[1] = quote)
  <2>7. End(s)[<<1, FALSE>>] = End(s)[<<1 + 1, other>>]
    BY <2>3, <2>5, <2>6 DEF EndRule
  <2> QED BY <2>1, <2>4, <2>7
<1> QED BY <1>4, <1>9, <1>10

\* Dequoting undoes the escapes.
LEMMA BodyDequoted ==
    ASSUME NEW T, quote \in T, escape \in T, NEW v \in Seq(T),
           NEW W, W = Body(v)[Len(v)]
    PROVE  Dequoted(W) = v
<1> DEFINE n == Len(v)
<1> DEFINE pos(k) == Len(Body(v)[k]) + 1
<1> DEFINE Good(k) == Plain(W)[pos(k)] = SubSeq(v, k + 1, n)
<1>0. n \in Nat
  OBVIOUS
<1>1. W \in Seq(T) /\ Body(v)[0] = <<>> /\ Len(W) \in Nat
  <2>1. Body(v) \in [0..n -> Seq(T)] /\ Body(v)[0] = <<>>
    BY BodyIs
  <2>2. n \in 0..n
    BY <1>0
  <2>3. W \in Seq(T)
    BY <2>1, <2>2
  <2> QED BY <2>1, <2>3
<1>2. pos(n) = Len(W) + 1 /\ pos(0) = 1
  BY <1>1
<1>3. ASSUME NEW k \in 0..n - 1
      PROVE  /\ pos(k) \in 1..Len(W)
             /\ v[k + 1] = quote => /\ pos(k + 1) = pos(k) + 2 /\ pos(k) + 1 \in 1..Len(W)
                                    /\ W[pos(k)] = escape /\ W[pos(k) + 1] = quote
             /\ v[k + 1] # quote => /\ pos(k + 1) = pos(k) + 1
                                    /\ W[pos(k)] = v[k + 1]
  <2> DEFINE at == Len(Body(v)[k])
  <2>1. Added(v, k, W, at)
    BY BodyStep
  <2>2. pos(k) = at + 1 /\ pos(k + 1) = Len(Body(v)[k + 1]) + 1
    OBVIOUS
  <2> HIDE DEF at, pos
  <2>3. CASE v[k + 1] = quote
    <3>1. /\ at \in Nat /\ Len(Body(v)[k + 1]) = at + 2 /\ at + 2 <= Len(W)
          /\ W[at + 1] = escape /\ W[at + 2] = quote
      BY <2>1, <2>3 DEF Added
    <3>2. at + 2 = pos(k) + 1 /\ pos(k) \in 1..Len(W) /\ pos(k) + 1 \in 1..Len(W)
          /\ pos(k + 1) = pos(k) + 2
      BY <1>1, <2>2, <3>1
    <3> QED BY <2>2, <2>3, <3>1, <3>2
  <2>4. CASE v[k + 1] # quote
    <3>1. /\ at \in Nat /\ Len(Body(v)[k + 1]) = at + 1 /\ at + 1 <= Len(W)
          /\ W[at + 1] = v[k + 1]
      BY <2>1, <2>4 DEF Added
    <3>2. pos(k) \in 1..Len(W) /\ pos(k + 1) = pos(k) + 1
      BY <1>1, <2>2, <3>1
    <3> QED BY <2>2, <2>4, <3>1, <3>2
  <2> QED BY <2>3, <2>4
<1> HIDE DEF pos, n
<1>4. Good(n)
  <2>1. Plain(W)[Len(W) + 1] = <<>>
    BY <1>1, PlainIs
  <2>2. SubSeq(v, n + 1, n) = <<>>
    BY <1>0
  <2> QED BY <1>2, <2>1, <2>2
<1>5. ASSUME NEW k \in 0..n - 1, Good(k + 1)
      PROVE  Good(k)
  <2>0. pos(k) \in 1..Len(W)
    BY <1>3
  <2>1. Plain(W)[pos(k)] = IF Pair(W, pos(k)) THEN <<quote>> \o Plain(W)[pos(k) + 2]
                           ELSE <<W[pos(k)]>> \o Plain(W)[pos(k) + 1]
    BY <1>1, <2>0, PlainIs
  <2>2. SubSeq(v, k + 1, n) = <<v[k + 1]>> \o SubSeq(v, k + 2, n)
    <3>1. k + 1 \in 1..n /\ k + 1 <= Len(v) /\ n = Len(v)
      BY <1>0 DEF n
    <3> DEFINE a == <<v[k + 1]>>
    <3> DEFINE b == SubSeq(v, k + 2, n)
    <3> DEFINE c == SubSeq(v, k + 1, n)
    <3>2. a \in Seq(T) /\ Len(a) = 1 /\ a[1] = v[k + 1]
      BY <3>1
    <3>3. b \in Seq(T) /\ Len(b) = n - k - 1 /\ \A i \in 1..n - k - 1 : b[i] = v[k + 1 + i]
      <4>1. k + 2 \in Int /\ n \in Int /\ 1 <= k + 2 /\ n <= Len(v) /\ k + 2 <= n + 1
        BY <1>0, <3>1
      <4>2. /\ b \in Seq(T) /\ Len(b) = n - (k + 2) + 1
            /\ \A i \in 1..n - (k + 2) + 1 : b[i] = v[k + 2 + i - 1]
        BY <4>1, PartTyped
      <4>3. n - (k + 2) + 1 = n - k - 1
        BY <1>0
      <4> HIDE DEF b
      <4>4. ASSUME NEW i \in 1..n - k - 1
            PROVE  b[i] = v[k + 1 + i]
        <5>1. k + 2 + i - 1 = k + 1 + i
          BY <1>0
        <5>2. b[i] = v[k + 2 + i - 1]
          BY <4>2, <4>3
        <5> QED BY <5>1, <5>2
      <4> QED BY <4>2, <4>3, <4>4
    <3>4. c \in Seq(T) /\ Len(c) = n - k /\ \A i \in 1..n - k : c[i] = v[k + i]
      <4>1. k + 1 \in Int /\ n \in Int /\ 1 <= k + 1 /\ n <= Len(v) /\ k + 1 <= n + 1
        BY <1>0, <3>1
      <4>2. /\ c \in Seq(T) /\ Len(c) = n - (k + 1) + 1
            /\ \A i \in 1..n - (k + 1) + 1 : c[i] = v[k + 1 + i - 1]
        BY <4>1, PartTyped
      <4>3. n - (k + 1) + 1 = n - k
        BY <1>0
      <4> HIDE DEF c
      <4>4. ASSUME NEW i \in 1..n - k
            PROVE  c[i] = v[k + i]
        <5>1. k + 1 + i - 1 = k + i
          BY <1>0
        <5>2. c[i] = v[k + 1 + i - 1]
          BY <4>2, <4>3
        <5> QED BY <5>1, <5>2
      <4> QED BY <4>2, <4>3, <4>4
    <3> HIDE DEF a, b, c
    <3>5. a \o b \in Seq(T) /\ IsJoin(a \o b, a, b)
      BY <3>2, <3>3, JoinedIs
    <3>6. Len(a \o b) = n - k
      BY <1>0, <3>2, <3>3, <3>5 DEF IsJoin
    <3>7. ASSUME NEW i \in 1..n - k
          PROVE  c[i] = (a \o b)[i]
      <4>1. CASE i = 1
        <5>1. (a \o b)[1] = a[1]
          BY <3>2, <3>5 DEF IsJoin
        <5>2. c[1] = v[k + 1]
          BY <3>4, <4>1
        <5> QED BY <3>2, <4>1, <5>1, <5>2
      <4>2. CASE i # 1
        <5>1. i - 1 \in 1..n - k - 1 /\ k + 1 + (i - 1) = k + i /\ 1 + (i - 1) = i
          BY <1>0, <4>2
        <5>2. b[i - 1] = v[k + i]
          BY <3>3, <5>1
        <5>3. (a \o b)[Len(a) + (i - 1)] = b[i - 1]
          BY <3>3, <3>5, <5>1 DEF IsJoin
        <5> QED BY <3>2, <3>4, <5>1, <5>2, <5>3
      <4> QED BY <4>1, <4>2
    <3>8. c = a \o b
      BY <3>4, <3>5, <3>6, <3>7, SeqEqual
    <3> QED BY <3>8 DEF a, b, c
  <2>3. CASE v[k + 1] = quote
    <3>1. Pair(W, pos(k))
      <4>1. pos(k) < Len(W)
        BY <1>1, <1>3, <2>3
      <4> QED BY <1>3, <2>3, <4>1 DEF Pair
    <3>2. pos(k + 1) = pos(k) + 2 /\ (k + 1) + 1 = k + 2
      BY <1>3, <2>3
    <3>3. Plain(W)[pos(k) + 2] = SubSeq(v, k + 2, n)
      BY <1>5, <3>2
    <3> QED BY <2>1, <2>2, <2>3, <3>1, <3>3
  <2>4. CASE v[k + 1] # quote
    <3>1. W[pos(k)] = v[k + 1] /\ pos(k + 1) = pos(k) + 1 /\ (k + 1) + 1 = k + 2
      BY <1>3, <2>4
    <3>2. ~Pair(W, pos(k))
      <4>1. SUFFICES ASSUME Pair(W, pos(k))
                     PROVE  FALSE
        OBVIOUS
      <4>2. W[pos(k + 1)] = quote /\ pos(k) < Len(W)
        BY <3>1, <4>1 DEF Pair
      <4>3. k + 1 \in 0..n - 1
        <5>1. k + 1 # n
          <6>1. SUFFICES ASSUME k + 1 = n
                         PROVE  FALSE
            OBVIOUS
          <6>2. pos(k) + 1 = Len(W) + 1
            BY <1>2, <3>1, <6>1
          <6> QED BY <1>1, <1>3, <4>2, <6>2
        <5> QED BY <1>0, <5>1
      <4>4. W[pos(k + 1)] = escape \/ W[pos(k + 1)] # quote
        BY <1>3, <4>3
      <4> QED BY <4>2, <4>4, MarksDiffer
    <3>3. Plain(W)[pos(k) + 1] = SubSeq(v, k + 2, n)
      BY <1>5, <3>1
    <3> QED BY <2>1, <2>2, <3>1, <3>2, <3>3
  <2> QED BY <2>3, <2>4
<1>6. Good(0)
  <2> DEFINE Done == {d \in Nat : d <= n => Good(n - d)}
  <2> HIDE DEF Good
  <2>1. 0 \in Done
    <3>1. n - 0 = n
      BY <1>0
    <3> QED BY <1>4, <3>1
  <2>2. ASSUME NEW d \in Nat, d \in Done
        PROVE  d + 1 \in Done
    <3>1. SUFFICES ASSUME d + 1 <= n
                   PROVE  Good(n - (d + 1))
      OBVIOUS
    <3>2. Good(n - d) /\ n - (d + 1) \in 0..n - 1 /\ n - (d + 1) + 1 = n - d
      BY <1>0, <2>2, <3>1
    <3> QED BY <1>5, <3>2
  <2>3. n \in Done
    <3> HIDE DEF Done
    <3> QED BY <1>0, <2>1, <2>2, NatInductive
  <2>4. n - n = 0 /\ n <= n
    BY <1>0
  <2> QED BY <2>3, <2>4
<1>7. Plain(W)[1] = SubSeq(v, 1, n)
  BY <1>2, <1>6
<1>8. SubSeq(v, 1, n) = v
  BY WholePart DEF n
<1> QED BY <1>7, <1>8, DequotedPlain

\* What may be put: characters of one line, and no blank at the front unless the
\* value is quoted.
Putable(T) ==
    {v \in Seq(T) : /\ \A i \in DOMAIN v : v[i] # nl
                    /\ v # <<>> /\ ~NeedsQuotes(v) => v[1] # blank}

\* A value that ini_puts writes is the value that ini_gets reads: what it quotes
\* is dequoted, a quote or a comment character in it ends nothing, blanks at its
\* end are kept (minIni.c:182-230, 254-263, 506-524).
THEOREM WrittenIsRead ==
    ASSUME NEW T, nl \in T, quote \in T, escape \in T, NEW v \in Putable(T)
    PROVE  ValueOf(Quoted(v) \o <<nl>>) = v
<1>0. v \in Seq(T) /\ Len(v) \in Nat
  BY DEF Putable
<1>1. CASE ~NeedsQuotes(v)
  <2> DEFINE s == v \o <<nl>>
  <2>1. Quoted(v) = v
    BY <1>1 DEF Quoted
  <2>2. s \in Seq(T) /\ IsJoin(s, v, <<nl>>)
    <3>1. <<nl>> \in Seq(T)
      OBVIOUS
    <3> QED BY <1>0, <3>1, JoinedIs
  <2> HIDE DEF s
  <2>3. Len(s) = Len(v) + 1 /\ s[Len(v) + 1] = nl /\ \A i \in 1..Len(v) : s[i] = v[i]
    <3>1. Len(<<nl>>) = 1 /\ <<nl>>[1] = nl
      OBVIOUS
    <3>2. Len(s) = Len(v) + Len(<<nl>>)
      BY <2>2 DEF IsJoin
    <3>3. \A i \in 1..Len(v) : s[i] = v[i]
      BY <2>2 DEF IsJoin
    <3>4. s[Len(v) + 1] = <<nl>>[1]
      <4>1. 1 \in 1..Len(<<nl>>)
        OBVIOUS
      <4> QED BY <2>2, <4>1 DEF IsJoin
    <3> QED BY <3>1, <3>2, <3>3, <3>4
  <2>4. ASSUME NEW i \in 1..Len(v)
        PROVE  v[i] \notin Comment /\ v[i] # quote /\ v[Len(v)] # blank /\ v[Len(v)] # nl /\ v # <<>>
    <3>1. v # <<>> /\ Len(v) \in DOMAIN v
      BY <1>0
    <3> QED BY <1>1, <3>1 DEF NeedsQuotes, Putable
  <2>5. SkipLeading(s) = s
    <3>1. s[1] # blank
      <4>1. CASE v = <<>>
        <5>1. Len(v) + 1 = 1
          BY <4>1
        <5> QED BY <2>3, <5>1, MarksDiffer
      <4>2. CASE v # <<>>
        <5>1. 1 \in 1..Len(v) /\ v[1] # blank
          BY <1>0, <1>1, <4>2 DEF Putable
        <5> QED BY <2>3, <5>1
      <4> QED BY <4>1, <4>2
    <3> QED BY <2>2, <3>1, SkipNothing
  <2>6. BeforeComment(s) = s
    <3>1. ASSUME NEW i \in 1..Len(s)
          PROVE  s[i] \notin Comment
      <4>1. CASE i \in 1..Len(v)
        BY <2>3, <2>4, <4>1
      <4>2. CASE i = Len(v) + 1
        BY <2>3, <4>2, MarksDiffer
      <4> QED BY <1>0, <2>3, <4>1, <4>2
    <3>2. End(s)[<<1, FALSE>>] = Len(s) + 1
      BY <2>2, <3>1, EndWithout
    <3> QED BY <2>2, <3>2, NoComment
  <2>7. StripTrailing(s) = v
    <3>1. Len(v) \in 0..Len(s) /\ \A i \in Len(v) + 1..Len(s) : s[i] = nl
      BY <1>0, <2>3
    <3>2. Len(v) > 0 => s[Len(v)] \notin {blank, nl}
      <4>1. Len(v) > 0 => Len(v) \in 1..Len(v)
        BY <1>0
      <4> QED BY <2>3, <2>4, <4>1
    <3>3. StripTrailing(s) = SubSeq(s, 1, Len(v))
      BY <2>2, <3>1, <3>2, StripIs
    <3>4. 1 <= 1 /\ Len(v) <= Len(s) /\ 1 <= Len(v) + 1 /\ Len(v) \in Int /\ Len(v) - 1 + 1 = Len(v)
      BY <1>0, <2>3
    <3>5. /\ SubSeq(s, 1, Len(v)) \in Seq(T) /\ Len(SubSeq(s, 1, Len(v))) = Len(v)
          /\ \A i \in 1..Len(v) : SubSeq(s, 1, Len(v))[i] = s[1 + i - 1]
      BY <2>2, <3>4, PartTyped
    <3>6. \A i \in 1..Len(v) : SubSeq(s, 1, Len(v))[i] = v[i]
      BY <1>0, <2>3, <3>5
    <3> QED BY <1>0, <3>3, <3>5, <3>6, SeqEqual
  <2>8. Unquoted(v) = v
    <3>1. v # <<>> => v[1] # quote
      <4>1. v # <<>> => 1 \in 1..Len(v)
        BY <1>0
      <4> QED BY <2>4, <4>1
    <3> QED BY <3>1 DEF Unquoted
  <2>9. ValueOf(s) = v
    BY <2>5, <2>6, <2>7, <2>8, ValueOfIs
  <2> QED BY <2>1, <2>9 DEF s
<1>2. CASE NeedsQuotes(v)
  <2> DEFINE W == Body(v)[Len(v)]
  <2> DEFINE t == <<quote>> \o W \o <<quote>>
  <2> DEFINE s == t \o <<nl>>
  <2>1. Quoted(v) = t /\ v # <<>>
    BY <1>2, QuotedBody DEF NeedsQuotes
  <2>2. W \in Seq(T)
    <3>1. Body(v) \in [0..Len(v) -> Seq(T)]
      BY <1>0, BodyIs
    <3>2. Len(v) \in 0..Len(v)
      BY <1>0
    <3> QED BY <3>1, <3>2
  <2>3. t \in Seq(T) /\ s \in Seq(T) /\ IsQuotation(s, t, W)
    <3> HIDE DEF W
    <3> QED BY <2>2, QuotationIs
  <2>4. End(s)[<<1, FALSE>>] = Len(s) + 1
    BY <1>0, <2>1, EndOfQuotation
  <2>5. Dequoted(W) = v
    BY <1>0, BodyDequoted
  <2> HIDE DEF W, t, s
  <2>6. /\ Len(t) = Len(W) + 2 /\ Len(s) = Len(W) + 3 /\ Len(W) \in Nat
        /\ s[1] = quote /\ s[Len(W) + 2] = quote /\ s[Len(W) + 3] = nl
        /\ \A i \in 1..Len(W) + 2 : s[i] = t[i]
        /\ SubSeq(s, 1, Len(W) + 2) = t /\ SubSeq(t, 2, Len(t) - 1) = W
    BY <2>3 DEF IsQuotation
  <2>7. SkipLeading(s) = s
    BY <2>3, <2>6, SkipNothing, MarksDiffer
  <2>8. BeforeComment(s) = s
    BY <2>3, <2>4, NoComment
  <2>9. StripTrailing(s) = t
    <3>1. Len(W) + 2 \in 0..Len(s) /\ s[Len(W) + 2] \notin {blank, nl}
          /\ \A i \in Len(W) + 2 + 1..Len(s) : s[i] = nl
      <4>1. s[Len(W) + 2] \notin {blank, nl}
        BY <2>6, MarksDiffer
      <4>2. \A i \in Len(W) + 2 + 1..Len(s) : i = Len(W) + 3
        BY <2>6
      <4> QED BY <2>6, <4>1, <4>2
    <3>2. StripTrailing(s) = SubSeq(s, 1, Len(W) + 2)
      BY <2>3, <3>1, StripIs
    <3> QED BY <2>6, <3>2
  <2>10. Unquoted(t) = v
    <3>1. t # <<>> /\ t[1] = quote /\ t[Len(t)] = quote
      <4>1. 1 \in 1..Len(W) + 2 /\ Len(W) + 2 \in 1..Len(W) + 2
        BY <2>6
      <4>2. t[1] = quote /\ t[Len(W) + 2] = quote
        BY <2>6, <4>1
      <4>3. t # <<>>
        BY <2>3, <2>6
      <4> QED BY <2>6, <4>2, <4>3
    <3>2. Unquoted(t) = Dequoted(SubSeq(t, 2, Len(t) - 1))
      BY <3>1 DEF Unquoted
    <3> QED BY <2>5, <2>6, <3>2
  <2>11. ValueOf(s) = v
    BY <2>7, <2>8, <2>9, <2>10, ValueOfIs
  <2> QED BY <2>1, <2>11 DEF s
<1> QED BY <1>1, <1>2

-----------------------------------------------------------------------------
(* What a line adds to a file.                                              *)

\* Its last line has an end.
Closed(f) == f = <<>> \/ f[Len(f)] = nl

\* f is the beginning of g.
Extends(g, f) == Len(f) <= Len(g) /\ \A i \in 1..Len(f) : g[i] = f[i]

\* One line, with its end or the last of its file.
IsLine(L) == L # <<>> /\ \A i \in 1..Len(L) - 1 : L[i] # nl

\* g is f and one more line, L.
AddsLine(g, f, L) ==
    /\ g \in Seq(Tokens) /\ f \in Seq(Tokens) /\ L \in Seq(Tokens)
    /\ IsJoin(g, f, L) /\ Closed(f) /\ IsLine(L)

Names == Headers \cup Keys

LEMMA NamesAreNames ==
    /\ Headers \subseteq Names /\ Keys \subseteq Names /\ Headers \cap Keys = {}
    /\ nl \notin Names /\ blank \notin Names /\ quote \notin Names
    /\ Names \cap Comment = {} /\ "absent" \notin Names
BY TokensAssumption DEF Names

LEMMA ExtendsJoin ==
    ASSUME NEW g \in Seq(Tokens), NEW f \in Seq(Tokens), NEW L \in Seq(Tokens), IsJoin(g, f, L)
    PROVE  Extends(g, f)
<1>1. Len(f) \in Nat /\ Len(L) \in Nat
  OBVIOUS
<1> QED BY <1>1 DEF IsJoin, Extends

\* Whether a line starts at p depends on what is before p.
LEMMA StartsKept ==
    ASSUME NEW g \in Seq(Tokens), NEW f \in Seq(Tokens), Extends(g, f), NEW p \in 1..Len(f)
    PROVE  Starts(g, p) <=> Starts(f, p)
<1>1. \A i \in 1..p : g[i] = f[i]
  BY DEF Extends
<1>2. p # 1 => g[p - 1] = f[p - 1]
  BY <1>1
<1>3. ASSUME NEW b \in 1..p - 1
      PROVE  /\ (b = 1 \/ g[b - 1] = nl) <=> (b = 1 \/ f[b - 1] = nl)
             /\ (\A i \in b..p - 1 : g[i] = blank) <=> (\A i \in b..p - 1 : f[i] = blank)
  <2>1. b # 1 => b - 1 \in 1..p
    OBVIOUS
  <2>2. \A i \in b..p - 1 : g[i] = f[i]
    BY <1>1
  <2> QED BY <1>1, <2>1, <2>2
<1>4. (\E b \in 1..p - 1 : (b = 1 \/ g[b - 1] = nl) /\ \A i \in b..p - 1 : g[i] = blank)
        <=> (\E b \in 1..p - 1 : (b = 1 \/ f[b - 1] = nl) /\ \A i \in b..p - 1 : f[i] = blank)
  BY <1>3
<1> QED BY <1>2, <1>4 DEF Starts

\* In the line that is added, what only blanks precede starts it.
LEMMA StartsInLine ==
    ASSUME NEW g, NEW f, NEW L, AddsLine(g, f, L), NEW j \in 1..Len(L)
    PROVE  Starts(g, Len(f) + j) <=> \A i \in 1..j - 1 : L[i] = blank
<1> DEFINE F == Len(f)
<1> DEFINE p == F + j
<1>1. /\ F \in Nat /\ \A i \in 1..F : g[i] = f[i]
      /\ \A i \in 1..Len(L) : g[F + i] = L[i]
      /\ \A i \in 1..Len(L) - 1 : L[i] # nl
      /\ F = 0 \/ g[F] = nl
  <2>1. F \in Nat /\ F # 0 => F \in 1..F
    BY DEF AddsLine
  <2>2. \A i \in 1..F : g[i] = f[i]
    BY DEF AddsLine, IsJoin
  <2>3. F = 0 \/ g[F] = nl
    <3>1. CASE f = <<>>
      BY <3>1
    <3>2. CASE f # <<>>
      <4>1. F \in 1..F
        BY <3>2 DEF AddsLine
      <4> QED BY <2>2, <3>2, <4>1 DEF AddsLine, Closed
    <3> QED BY <3>1, <3>2
  <2>4. F \in Nat
    BY DEF AddsLine
  <2> QED BY <2>2, <2>3, <2>4 DEF AddsLine, IsJoin, IsLine
<1> HIDE DEF F
<1>2. ASSUME Starts(g, p), NEW i \in 1..j - 1
      PROVE  L[i] = blank
  <2>1. p # 1 /\ p - 1 = F + (j - 1) /\ j - 1 \in 1..Len(L) - 1
    BY <1>1
  <2>2. g[p - 1] # nl
    <3>1. j - 1 \in 1..Len(L)
      BY <2>1
    <3>2. g[F + (j - 1)] = L[j - 1]
      BY <1>1, <3>1
    <3> QED BY <1>1, <2>1, <3>2
  <2>3. PICK b \in 1..p - 1 : (b = 1 \/ g[b - 1] = nl) /\ \A k \in b..p - 1 : g[k] = blank
    BY <1>2, <2>1, <2>2 DEF Starts
  <2>4. b <= F + 1
    <3>1. SUFFICES ASSUME b > F + 1
                   PROVE  FALSE
      BY <1>1, <2>3
    <3>2. b - 1 - F \in 1..Len(L) - 1 /\ b - 1 = F + (b - 1 - F) /\ b # 1
      BY <1>1, <3>1
    <3>3. g[b - 1] = L[b - 1 - F]
      BY <1>1, <3>2
    <3> QED BY <1>1, <2>3, <3>2, <3>3
  <2>5. F + i \in b..p - 1 /\ i \in 1..Len(L)
    BY <1>1, <2>4
  <2> QED BY <1>1, <2>3, <2>5
<1>3. ASSUME \A i \in 1..j - 1 : L[i] = blank
      PROVE  Starts(g, p)
  <2>1. CASE j = 1
    <3>1. p = F + 1 /\ p - 1 = F
      BY <1>1, <2>1
    <3>2. p = 1 \/ g[p - 1] = nl
      BY <1>1, <3>1
    <3> QED BY <3>2 DEF Starts
  <2>2. CASE j # 1
    <3>1. p - 1 = F + (j - 1) /\ j - 1 \in 1..j - 1 /\ j - 1 \in 1..Len(L)
      BY <1>1, <2>2
    <3>2. g[p - 1] = blank
      BY <1>1, <1>3, <3>1
    <3>3. F + 1 \in 1..p - 1 /\ (F + 1) - 1 = F
      BY <1>1, <2>2
    <3>4. F + 1 = 1 \/ g[(F + 1) - 1] = nl
      BY <1>1, <3>3
    <3>5. ASSUME NEW i \in F + 1..p - 1
          PROVE  g[i] = blank
      <4>1. i - F \in 1..j - 1 /\ i - F \in 1..Len(L) /\ F + (i - F) = i
        BY <1>1
      <4> QED BY <1>1, <1>3, <4>1
    <3> QED BY <3>2, <3>3, <3>4, <3>5 DEF Starts
  <2> QED BY <2>1, <2>2
<1> QED BY <1>2, <1>3 DEF F

\* The one place in a new line where a name could start it.
NewStart(g, L) == Len(g) - Len(SkipLeading(L)) + 1

LEMMA NewStartIs ==
    ASSUME NEW g, NEW f, NEW L, AddsLine(g, f, L), NEW R, R = SkipLeading(L)
    PROVE  /\ R \in Seq(Tokens) /\ Len(f) \in Nat /\ Len(g) \in Nat /\ Len(R) \in Nat
           /\ Len(R) <= Len(L) /\ Len(g) = Len(f) + Len(L)
           /\ R # <<>> => /\ NewStart(g, L) \in Len(f) + 1..Len(g)
                          /\ g[NewStart(g, L)] = R[1]
                          /\ Starts(g, NewStart(g, L))
           /\ \A p \in Len(f) + 1..Len(g) : Starts(g, p) /\ g[p] # blank =>
                          p = NewStart(g, L) /\ R # <<>>
           /\ \A i \in 1..Len(R) : g[NewStart(g, L) + i - 1] = R[i]
<1> DEFINE F == Len(f)
<1>0. g \in Seq(Tokens) /\ f \in Seq(Tokens) /\ L \in Seq(Tokens)
  BY DEF AddsLine
<1>1. /\ F \in Nat /\ Len(L) \in Nat /\ Len(g) = F + Len(L)
      /\ \A i \in 1..Len(L) : g[F + i] = L[i]
  BY <1>0 DEF AddsLine, IsJoin
<1>2. PICK c \in 0..Len(L) :
             /\ \A i \in 1..c : L[i] = blank
             /\ c < Len(L) => L[c + 1] # blank
             /\ R \in Seq(Tokens)
             /\ Len(R) = Len(L) - c
             /\ \A i \in 1..Len(L) - c : R[i] = L[c + i]
  <2>1. SkipLeading(L) \in Seq(Tokens) /\ \E c \in 0..Len(L) : Skips(L, c)
    BY <1>0, SkipLeadingIs
  <2> QED BY <2>1 DEF Skips
<1>3. \A j \in 1..Len(L) : Starts(g, F + j) <=> \A i \in 1..j - 1 : L[i] = blank
  BY StartsInLine
<1> HIDE DEF F
<1>4. NewStart(g, L) = F + (c + 1)
  BY <1>1, <1>2 DEF NewStart
<1>5. ASSUME R # <<>>
      PROVE  /\ NewStart(g, L) \in F + 1..Len(g)
             /\ g[NewStart(g, L)] = R[1]
             /\ Starts(g, NewStart(g, L))
  <2>1. Len(R) # 0
    BY <1>2, <1>5
  <2>2. c + 1 \in 1..Len(L) /\ 1 \in 1..Len(L) - c /\ (c + 1) - 1 = c
    BY <1>1, <1>2, <2>1
  <2>3. F + (c + 1) \in F + 1..Len(g)
    BY <1>1, <2>2
  <2>4. g[F + (c + 1)] = R[1]
    BY <1>1, <1>2, <2>2
  <2>5. Starts(g, F + (c + 1))
    BY <1>2, <1>3, <2>2
  <2> QED BY <1>4, <2>3, <2>4, <2>5
<1>6. ASSUME NEW p \in F + 1..Len(g), Starts(g, p), g[p] # blank
      PROVE  p = NewStart(g, L) /\ R # <<>>
  <2>1. PICK j \in 1..Len(L) : p = F + j
    <3>1. p - F \in 1..Len(L) /\ p = F + (p - F)
      BY <1>1
    <3> QED BY <3>1
  <2>2. L[j] # blank /\ \A i \in 1..j - 1 : L[i] = blank
    BY <1>1, <1>3, <1>6, <2>1
  <2>3. j = c + 1
    <3>1. ~(j <= c)
      BY <1>2, <2>2
    <3>2. ~(c + 1 < j)
      <4>1. SUFFICES ASSUME c + 1 < j
                     PROVE  FALSE
        OBVIOUS
      <4>2. c < Len(L) /\ c + 1 \in 1..j - 1
        BY <1>2, <4>1
      <4> QED BY <1>2, <2>2, <4>2
    <3> QED BY <1>2, <3>1, <3>2
  <2>4. R # <<>>
    <3>1. Len(R) # 0
      BY <1>1, <1>2, <2>3
    <3> QED BY <3>1
  <2> QED BY <1>4, <2>1, <2>3, <2>4
<1>7. ASSUME NEW i \in 1..Len(R)
      PROVE  g[NewStart(g, L) + i - 1] = R[i]
  <2>1. c + i \in 1..Len(L) /\ i \in 1..Len(L) - c /\ NewStart(g, L) + i - 1 = F + (c + i)
    BY <1>1, <1>2, <1>4
  <2> QED BY <1>1, <1>2, <2>1
<1>8. R \in Seq(Tokens) /\ Len(R) \in Nat /\ Len(R) <= Len(L) /\ Len(g) \in Nat
  BY <1>0, <1>1, <1>2
<1> QED BY <1>1, <1>5, <1>6, <1>7, <1>8 DEF F

-----------------------------------------------------------------------------
(* What a reader finds in a file: sections and entries.                     *)

Sect(f, h) == LinesWith(f, h) # {}

FirstOf(f, h, s) == s \in LinesWith(f, h) /\ \A q \in LinesWith(f, h) : s <= q

NoHeader(f, a, b) == \A q \in a..b : f[q] \in Headers => ~Starts(f, q)

\* The end of f is in its first section h.
Within(f, h) == \E s \in DOMAIN f : FirstOf(f, h, s) /\ NoHeader(f, s + 1, Len(f))

Has(f, h, k) == Candidates(f, h, k) # {}

LEMMA CandidateIs ==
    ASSUME NEW f, NEW h, NEW k, NEW p
    PROVE  p \in Candidates(f, h, k) <=>
             p \in LinesWith(f, k) /\ \E s \in DOMAIN f :
                 FirstOf(f, h, s) /\ s < p /\ NoHeader(f, s + 1, p - 1)
<1>1. ASSUME NEW s
      PROVE  s \in LinesWith(f, h) => s \in DOMAIN f
  BY DEF LinesWith
<1> QED BY <1>1 DEF Candidates, FirstOf, NoHeader

LEMMA LinesKept ==
    ASSUME NEW g \in Seq(Tokens), NEW f \in Seq(Tokens), Extends(g, f), NEW t
    PROVE  /\ LinesWith(f, t) \subseteq LinesWith(g, t)
           /\ \A p \in LinesWith(g, t) : p <= Len(f) => p \in LinesWith(f, t)
           /\ LinesWith(g, t) \subseteq 1..Len(g) /\ LinesWith(f, t) \subseteq 1..Len(f)
<1>1. Len(f) \in Nat /\ Len(g) \in Nat /\ DOMAIN f = 1..Len(f) /\ DOMAIN g = 1..Len(g)
  OBVIOUS
<1>2. Len(f) <= Len(g) /\ \A i \in 1..Len(f) : g[i] = f[i]
  BY DEF Extends
<1>3. ASSUME NEW p \in 1..Len(f)
      PROVE  p \in LinesWith(f, t) <=> p \in LinesWith(g, t)
  <2>1. Starts(g, p) <=> Starts(f, p)
    BY StartsKept
  <2>2. p \in 1..Len(g) /\ g[p] = f[p]
    BY <1>1, <1>2
  <2> QED BY <1>1, <2>1, <2>2 DEF LinesWith
<1>4. LinesWith(g, t) \subseteq 1..Len(g) /\ LinesWith(f, t) \subseteq 1..Len(f)
  BY <1>1 DEF LinesWith
<1>5. ASSUME NEW p \in LinesWith(g, t), p <= Len(f)
      PROVE  p \in LinesWith(f, t)
  <2>1. p \in 1..Len(f)
    BY <1>1, <1>4, <1>5
  <2> QED BY <1>3, <2>1
<1> QED BY <1>3, <1>4, <1>5

LEMMA NoHeaderKept ==
    ASSUME NEW g \in Seq(Tokens), NEW f \in Seq(Tokens), Extends(g, f),
           NEW a \in Nat \ {0}, NEW b \in Int, b <= Len(f)
    PROVE  NoHeader(g, a, b) <=> NoHeader(f, a, b)
<1>1. ASSUME NEW q \in a..b
      PROVE  g[q] = f[q] /\ (Starts(g, q) <=> Starts(f, q))
  <2>1. q \in 1..Len(f)
    OBVIOUS
  <2> QED BY <2>1, StartsKept DEF Extends
<1> QED BY <1>1 DEF NoHeader

\* A first section stays the first.
LEMMA FirstKept ==
    ASSUME NEW g \in Seq(Tokens), NEW f \in Seq(Tokens), Extends(g, f), NEW h,
           NEW s \in 1..Len(f)
    PROVE  FirstOf(g, h, s) <=> FirstOf(f, h, s)
<1>1. /\ LinesWith(f, h) \subseteq LinesWith(g, h)
      /\ \A p \in LinesWith(g, h) : p <= Len(f) => p \in LinesWith(f, h)
      /\ LinesWith(g, h) \subseteq 1..Len(g)
  BY LinesKept
<1>2. Len(f) \in Nat
  OBVIOUS
<1>3. ASSUME FirstOf(g, h, s)
      PROVE  FirstOf(f, h, s)
  BY <1>1, <1>3 DEF FirstOf
<1>4. ASSUME FirstOf(f, h, s)
      PROVE  FirstOf(g, h, s)
  <2>1. ASSUME NEW q \in LinesWith(g, h)
        PROVE  s <= q
    <3>1. CASE q <= Len(f)
      BY <1>1, <1>4, <3>1 DEF FirstOf
    <3>2. CASE ~(q <= Len(f))
      BY <1>1, <1>2, <3>2
    <3> QED BY <3>1, <3>2
  <2> QED BY <1>1, <1>4, <2>1 DEF FirstOf
<1> QED BY <1>3, <1>4

\* What a file holds is found at the same place when it is continued.
LEMMA CandidatesKept ==
    ASSUME NEW g \in Seq(Tokens), NEW f \in Seq(Tokens), Extends(g, f), NEW h, NEW k,
           NEW p \in 1..Len(f)
    PROVE  p \in Candidates(g, h, k) <=> p \in Candidates(f, h, k)
<1>1. p \in LinesWith(g, k) <=> p \in LinesWith(f, k)
  <2>1. Len(f) \in Nat
    OBVIOUS
  <2> QED BY <2>1, LinesKept
<1>2. ASSUME NEW s \in 1..Len(f), s < p
      PROVE  /\ FirstOf(g, h, s) <=> FirstOf(f, h, s)
             /\ NoHeader(g, s + 1, p - 1) <=> NoHeader(f, s + 1, p - 1)
  <2>1. s + 1 \in Nat \ {0} /\ p - 1 \in Int /\ p - 1 <= Len(f)
    OBVIOUS
  <2> QED BY <2>1, FirstKept, NoHeaderKept
<1>3. DOMAIN f = 1..Len(f) /\ Len(f) <= Len(g) /\ DOMAIN g = 1..Len(g) /\ Len(f) \in Nat /\ Len(g) \in Nat
  BY DEF Extends
<1>4. ASSUME NEW s \in DOMAIN g, s < p
      PROVE  s \in 1..Len(f) /\ s \in DOMAIN f
  BY <1>3, <1>4
<1>5. ASSUME NEW s \in DOMAIN f
      PROVE  s \in 1..Len(f) /\ s \in DOMAIN g
  BY <1>3
<1> QED BY <1>1, <1>2, <1>4, <1>5, CandidateIs

LEMMA CandidatesIn ==
    ASSUME NEW f \in Seq(Tokens), NEW h, NEW k
    PROVE  Candidates(f, h, k) \subseteq 1..Len(f) /\ Candidates(f, h, k) \subseteq LinesWith(f, k)
BY DEF Candidates, LinesWith

\* Get reads what follows the first candidate.
LEMMA GetIs ==
    ASSUME NEW f \in Seq(Tokens), NEW h, NEW k, Has(f, h, k)
    PROVE  \E p \in Candidates(f, h, k) :
             /\ \A q \in Candidates(f, h, k) : p <= q
             /\ Get(f, h, k) = ValueOf(SubSeq(f, p + 1, EndOfLine(f, p)))
<1> DEFINE C == Candidates(f, h, k)
<1>1. C \in SUBSET Nat /\ C # {}
  <2>1. C \subseteq 1..Len(f) /\ Len(f) \in Nat
    BY CandidatesIn
  <2> HIDE DEF C
  <2>2. C \in SUBSET Nat
    BY <2>1
  <2> QED BY <2>2 DEF C, Has
<1> HIDE DEF C
<1>2. PICK p \in C : \A q \in C : p <= q
  BY <1>1, LeastNat
<1>3. Least(C) = p
  <2>1. ASSUME NEW i \in C, \A j \in C : i <= j
        PROVE  i = p
    <3>1. i <= p /\ p <= i /\ i \in Nat /\ p \in Nat
      BY <1>1, <1>2, <2>1
    <3> QED BY <3>1
  <2> QED BY <1>2, <2>1 DEF Least
<1> DEFINE value(i) == ValueOf(SubSeq(f, i + 1, EndOfLine(f, i)))
<1>4. Get(f, h, k) = CHOOSE v \in {value(i) : i \in {Least(C)}} : TRUE
  BY <1>1 DEF Get, C
<1> HIDE DEF value
<1>5. {value(i) : i \in {Least(C)}} = {value(p)}
  BY <1>3
<1>6. Get(f, h, k) = value(p)
  BY <1>4, <1>5
<1> QED BY <1>2, <1>6 DEF C, value

LEMMA GetOfFirst ==
    ASSUME NEW f \in Seq(Tokens), NEW h, NEW k, NEW p \in Candidates(f, h, k),
           \A q \in Candidates(f, h, k) : p <= q
    PROVE  Get(f, h, k) = ValueOf(SubSeq(f, p + 1, EndOfLine(f, p)))
<1>1. Has(f, h, k)
  BY DEF Has
<1>2. PICK r \in Candidates(f, h, k) :
             /\ \A q \in Candidates(f, h, k) : r <= q
             /\ Get(f, h, k) = ValueOf(SubSeq(f, r + 1, EndOfLine(f, r)))
  BY <1>1, GetIs
<1>3. r <= p /\ p <= r /\ p \in Nat /\ r \in Nat
  BY <1>2, CandidatesIn
<1>4. r = p
  BY <1>3
<1> QED BY <1>2, <1>4

LEMMA GetOfNone ==
    ASSUME NEW f, NEW h, NEW k, ~Has(f, h, k)
    PROVE  Get(f, h, k) = Absent
BY DEF Get, Has
LEMMA PartKept ==
    ASSUME NEW g \in Seq(Tokens), NEW f \in Seq(Tokens), Extends(g, f),
           NEW a \in Int, NEW b \in Int, 1 <= a, b <= Len(f), a <= b + 1
    PROVE  SubSeq(g, a, b) = SubSeq(f, a, b)
<1>1. Len(f) \in Nat /\ Len(g) \in Nat /\ Len(f) <= Len(g) /\ \A i \in 1..Len(f) : g[i] = f[i]
  BY DEF Extends
<1>2. b <= Len(g)
  BY <1>1
<1> DEFINE u == SubSeq(g, a, b)
<1> DEFINE v == SubSeq(f, a, b)
<1>3. u \in Seq(Tokens) /\ Len(u) = b - a + 1 /\ \A i \in 1..b - a + 1 : u[i] = g[a + i - 1]
  BY <1>2, PartTyped
<1>4. v \in Seq(Tokens) /\ Len(v) = b - a + 1 /\ \A i \in 1..b - a + 1 : v[i] = f[a + i - 1]
  BY PartTyped
<1>5. ASSUME NEW i \in 1..b - a + 1
      PROVE  g[a + i - 1] = f[a + i - 1]
  <2>1. a + i - 1 \in 1..Len(f)
    BY <1>1
  <2> QED BY <1>1, <2>1
<1> HIDE DEF u, v
<1>6. u = v
  BY <1>3, <1>4, <1>5, SeqEqual
<1> QED BY <1>6 DEF u, v

\* A line that has its end is read alike when the file is continued.
LEMMA EndOfLineKept ==
    ASSUME NEW g \in Seq(Tokens), NEW f \in Seq(Tokens), Extends(g, f), NEW p \in 1..Len(f),
           f[EndOfLine(f, p)] = nl
    PROVE  /\ EndOfLine(g, p) = EndOfLine(f, p)
           /\ SubSeq(g, p + 1, EndOfLine(g, p)) = SubSeq(f, p + 1, EndOfLine(f, p))
<1> DEFINE e == EndOfLine(f, p)
<1> DEFINE d == EndOfLine(g, p)
<1>1. Len(f) \in Nat /\ Len(g) \in Nat /\ Len(f) <= Len(g) /\ \A i \in 1..Len(f) : g[i] = f[i]
  BY DEF Extends
<1>2. p \in DOMAIN f /\ p \in DOMAIN g
  BY <1>1
<1>3. e \in p..Len(f) /\ f[e] = nl /\ \A i \in p..e - 1 : f[i] # nl
  BY <1>2, EndOfLineIs
<1>4. d \in p..Len(g) /\ (d = Len(g) \/ g[d] = nl) /\ \A i \in p..d - 1 : g[i] # nl
  BY <1>2, EndOfLineIs
<1> HIDE DEF e, d
<1>5. d = e
  <2>1. ~(e < d)
    <3>1. SUFFICES ASSUME e < d
                   PROVE  FALSE
      OBVIOUS
    <3>2. e \in p..d - 1 /\ e \in 1..Len(f)
      BY <1>3, <1>4, <3>1
    <3> QED BY <1>1, <1>3, <1>4, <3>2
  <2>2. ~(d < e)
    <3>1. SUFFICES ASSUME d < e
                   PROVE  FALSE
      OBVIOUS
    <3>2. d \in p..e - 1 /\ d \in 1..Len(f) /\ d # Len(g)
      BY <1>1, <1>3, <1>4, <3>1
    <3> QED BY <1>1, <1>3, <1>4, <3>2
  <2> QED BY <1>3, <1>4, <2>1, <2>2
<1>6. SubSeq(g, p + 1, e) = SubSeq(f, p + 1, e)
  <2>1. p + 1 \in Int /\ e \in Int /\ 1 <= p + 1 /\ e <= Len(f) /\ p + 1 <= e + 1
    BY <1>1, <1>3
  <2> QED BY <2>1, PartKept
<1> QED BY <1>5, <1>6 DEF d, e

\* What a file holds whose last line has its end is read alike when the file is
\* continued, whatever follows.
LEMMA GetKept ==
    ASSUME NEW g \in Seq(Tokens), NEW f \in Seq(Tokens), Extends(g, f), Closed(f),
           NEW h, NEW k, Has(f, h, k)
    PROVE  Has(g, h, k) /\ Get(g, h, k) = Get(f, h, k)
<1>1. PICK p \in Candidates(f, h, k) :
             /\ \A q \in Candidates(f, h, k) : p <= q
             /\ Get(f, h, k) = ValueOf(SubSeq(f, p + 1, EndOfLine(f, p)))
  BY GetIs
<1>2. p \in 1..Len(f) /\ Len(f) \in Nat /\ Candidates(g, h, k) \subseteq 1..Len(g) /\ Len(g) \in Nat
  BY CandidatesIn
<1>3. p \in Candidates(g, h, k)
  BY <1>2, CandidatesKept
<1>4. ASSUME NEW q \in Candidates(g, h, k)
      PROVE  p <= q
  <2>1. CASE q <= Len(f)
    <3>1. q \in 1..Len(f)
      BY <1>2, <2>1
    <3>2. q \in Candidates(f, h, k)
      BY <3>1, CandidatesKept
    <3> QED BY <1>1, <3>2
  <2>2. CASE ~(q <= Len(f))
    BY <1>2, <2>2
  <2> QED BY <2>1, <2>2
<1>5. f[EndOfLine(f, p)] = nl
  <2>1. f # <<>> /\ p \in DOMAIN f
    BY <1>2
  <2>2. EndOfLine(f, p) = Len(f) \/ f[EndOfLine(f, p)] = nl
    BY <2>1, EndOfLineIs
  <2> QED BY <2>1, <2>2 DEF Closed
<1>6. SubSeq(g, p + 1, EndOfLine(g, p)) = SubSeq(f, p + 1, EndOfLine(f, p))
  BY <1>2, <1>5, EndOfLineKept
<1>7. Get(g, h, k) = ValueOf(SubSeq(g, p + 1, EndOfLine(g, p)))
  BY <1>3, <1>4, GetOfFirst
<1> QED BY <1>1, <1>3, <1>6, <1>7 DEF Has

\* Where the lines that start with a name are after one was added.
LEMMA NewLines ==
    ASSUME NEW g, NEW f, NEW L, AddsLine(g, f, L), NEW R, R = SkipLeading(L), NEW t \in Names
    PROVE  /\ \A p \in LinesWith(g, t) : p \in LinesWith(f, t) \/ (p = NewStart(g, L) /\ Opens(R, {t}))
           /\ Opens(R, {t}) => NewStart(g, L) \in LinesWith(g, t)
           /\ Opens(R, {t}) => NewStart(g, L) \in Len(f) + 1..Len(g)
<1>1. /\ R \in Seq(Tokens) /\ Len(f) \in Nat /\ Len(g) \in Nat
      /\ R # <<>> => /\ NewStart(g, L) \in Len(f) + 1..Len(g)
                     /\ g[NewStart(g, L)] = R[1]
                     /\ Starts(g, NewStart(g, L))
      /\ \A p \in Len(f) + 1..Len(g) : Starts(g, p) /\ g[p] # blank =>
                     p = NewStart(g, L) /\ R # <<>>
  BY NewStartIs
<1>2. t # nl /\ t # blank
  BY NamesAreNames
<1>3. g \in Seq(Tokens) /\ f \in Seq(Tokens) /\ Extends(g, f)
  BY ExtendsJoin DEF AddsLine
<1>4. /\ \A p \in LinesWith(g, t) : p <= Len(f) => p \in LinesWith(f, t)
      /\ LinesWith(g, t) \subseteq 1..Len(g)
  BY <1>3, LinesKept
<1>5. ASSUME NEW p \in LinesWith(g, t), ~(p <= Len(f))
      PROVE  p = NewStart(g, L) /\ Opens(R, {t})
  <2>1. p \in Len(f) + 1..Len(g) /\ Starts(g, p) /\ g[p] = t
    BY <1>1, <1>4, <1>5 DEF LinesWith
  <2>2. p = NewStart(g, L) /\ R # <<>> /\ R[1] = t
    BY <1>1, <1>2, <2>1
  <2> QED BY <1>2, <2>2 DEF Opens, Blank
<1>6. ASSUME Opens(R, {t})
      PROVE  NewStart(g, L) \in LinesWith(g, t) /\ NewStart(g, L) \in Len(f) + 1..Len(g)
  <2>1. R # <<>> /\ R[1] = t
    BY <1>6 DEF Opens, Blank
  <2>2. NewStart(g, L) \in 1..Len(g) /\ DOMAIN g = 1..Len(g)
    BY <1>1, <1>3, <2>1
  <2> QED BY <1>1, <2>1, <2>2 DEF LinesWith
<1> QED BY <1>4, <1>5, <1>6

\* What a line adds that R is left of when its first blanks are skipped.
Effect(g, f, R) ==
    \A h \in Headers :
        /\ Sect(g, h) <=> (Sect(f, h) \/ Opens(R, {h}))
        /\ Within(g, h) <=> (IF Opens(R, Headers) THEN Opens(R, {h}) /\ ~Sect(f, h) ELSE Within(f, h))
        /\ \A k \in Keys :
             /\ Has(g, h, k) <=> (Has(f, h, k) \/ (Opens(R, {k}) /\ Within(f, h)))
             /\ Has(f, h, k) => Get(g, h, k) = Get(f, h, k)
             /\ Has(g, h, k) /\ ~Has(f, h, k) => Get(g, h, k) = ValueOf(SubSeq(R, 2, Len(R)))

\* The only name that starts a line in what was added.
LEMMA OneStart ==
    ASSUME NEW g, NEW f, NEW L, AddsLine(g, f, L), NEW R, R = SkipLeading(L),
           NEW q \in Len(f) + 1..Len(g), Starts(g, q), g[q] \in Names
    PROVE  q = NewStart(g, L) /\ Opens(R, {g[q]}) /\ (g[q] \in Headers => Opens(R, Headers))
<1>1. R # <<>> /\ q = NewStart(g, L) /\ g[NewStart(g, L)] = R[1]
  <2>1. g[q] # blank
    BY NamesAreNames
  <2> QED BY <2>1, NewStartIs
<1>2. g[q] # nl
  BY NamesAreNames
<1> QED BY <1>1, <1>2 DEF Opens, Blank

LEMMA SectAfter ==
    ASSUME NEW g, NEW f, NEW L, AddsLine(g, f, L), NEW R, R = SkipLeading(L), NEW h \in Headers
    PROVE  Sect(g, h) <=> (Sect(f, h) \/ Opens(R, {h}))
<1>1. h \in Names /\ g \in Seq(Tokens) /\ f \in Seq(Tokens) /\ Extends(g, f)
  BY NamesAreNames, ExtendsJoin DEF AddsLine
<1>2. LinesWith(f, h) \subseteq LinesWith(g, h)
  BY <1>1, LinesKept
<1>3. /\ \A p \in LinesWith(g, h) : p \in LinesWith(f, h) \/ (p = NewStart(g, L) /\ Opens(R, {h}))
      /\ Opens(R, {h}) => NewStart(g, L) \in LinesWith(g, h)
  BY <1>1, NewLines
<1> QED BY <1>2, <1>3 DEF Sect

LEMMA WithinAfter ==
    ASSUME NEW g, NEW f, NEW L, AddsLine(g, f, L), NEW R, R = SkipLeading(L), NEW h \in Headers
    PROVE  Within(g, h) <=> (IF Opens(R, Headers) THEN Opens(R, {h}) /\ ~Sect(f, h) ELSE Within(f, h))
<1> DEFINE P == NewStart(g, L)
<1>1. h \in Names /\ g \in Seq(Tokens) /\ f \in Seq(Tokens) /\ Extends(g, f)
      /\ Len(f) \in Nat /\ Len(g) \in Nat /\ Len(f) <= Len(g)
      /\ DOMAIN g = 1..Len(g) /\ DOMAIN f = 1..Len(f)
  BY NamesAreNames, ExtendsJoin DEF AddsLine, Extends
<1>2. /\ \A p \in LinesWith(g, h) : p \in LinesWith(f, h) \/ (p = P /\ Opens(R, {h}))
      /\ Opens(R, {h}) => P \in LinesWith(g, h)
  BY <1>1, NewLines
<1>3. LinesWith(f, h) \subseteq LinesWith(g, h) /\ LinesWith(f, h) \subseteq 1..Len(f)
  BY <1>1, LinesKept
<1>4. ASSUME NEW q \in Len(f) + 1..Len(g), Starts(g, q), g[q] \in Headers
      PROVE  q = P /\ Opens(R, {g[q]}) /\ Opens(R, Headers)
  BY <1>4, OneStart DEF Names
<1>5. CASE Opens(R, Headers)
  <2>1. PICK t \in Headers : Opens(R, {t})
    BY <1>5 DEF Opens
  <2>2. P \in Len(f) + 1..Len(g) /\ P \in LinesWith(g, t)
    BY <2>1, NewLines DEF Names
  <2>3. P \in DOMAIN g /\ g[P] = t /\ Starts(g, P)
    BY <2>2 DEF LinesWith
  <2> HIDE DEF P
  <2>4. ASSUME Within(g, h)
        PROVE  Opens(R, {h}) /\ ~Sect(f, h)
    <3>1. PICK s \in DOMAIN g : FirstOf(g, h, s) /\ NoHeader(g, s + 1, Len(g))
      BY <2>4 DEF Within
    <3>2. ~(s < P)
      <4>1. SUFFICES ASSUME s < P
                     PROVE  FALSE
        OBVIOUS
      <4>2. P \in s + 1..Len(g)
        BY <1>1, <2>2, <4>1
      <4> QED BY <2>3, <3>1, <4>2 DEF NoHeader
    <3>3. s \in LinesWith(g, h) /\ \A q \in LinesWith(g, h) : s <= q
      BY <3>1 DEF FirstOf
    <3>4. s > Len(f)
      BY <1>1, <2>2, <3>2
    <3>5. s \notin LinesWith(f, h)
      BY <1>1, <1>3, <3>4
    <3>6. Opens(R, {h})
      BY <1>2, <3>3, <3>5
    <3>7. ~Sect(f, h)
      <4>1. SUFFICES ASSUME NEW q \in LinesWith(f, h)
                     PROVE  FALSE
        BY DEF Sect
      <4>2. s <= q /\ q \in 1..Len(f)
        BY <1>3, <3>3
      <4> QED BY <1>1, <3>4, <4>2
    <3> QED BY <3>6, <3>7
  <2>5. ASSUME Opens(R, {h}), ~Sect(f, h)
        PROVE  Within(g, h)
    <3>1. P \in LinesWith(g, h)
      BY <1>2, <2>5
    <3>2. \A q \in LinesWith(g, h) : q = P
      BY <1>2, <2>5 DEF Sect
    <3>3. FirstOf(g, h, P)
      <4>1. P <= P
        BY <2>2
      <4> QED BY <3>1, <3>2, <4>1 DEF FirstOf
    <3>4. NoHeader(g, P + 1, Len(g))
      <4>1. SUFFICES ASSUME NEW q \in P + 1..Len(g), g[q] \in Headers, Starts(g, q)
                     PROVE  FALSE
        BY DEF NoHeader
      <4>2. q \in Len(f) + 1..Len(g) /\ q # P
        BY <1>1, <2>2
      <4> QED BY <1>4, <4>1, <4>2
    <3> QED BY <2>3, <3>3, <3>4 DEF Within
  <2> QED BY <1>5, <2>4, <2>5
<1>6. CASE ~Opens(R, Headers)
  <2>1. ASSUME NEW q \in Len(f) + 1..Len(g)
        PROVE  g[q] \in Headers => ~Starts(g, q)
    BY <1>4, <1>6
  <2>2. ~Opens(R, {h})
    BY <1>6 DEF Opens
  <2> HIDE DEF P
  <2>3. ASSUME NEW s \in 1..Len(f)
        PROVE  /\ FirstOf(g, h, s) <=> FirstOf(f, h, s)
               /\ NoHeader(g, s + 1, Len(g)) <=> NoHeader(f, s + 1, Len(f))
    <3>1. FirstOf(g, h, s) <=> FirstOf(f, h, s)
      BY <1>1, FirstKept
    <3>2. NoHeader(g, s + 1, Len(f)) <=> NoHeader(f, s + 1, Len(f))
      <4>1. s + 1 \in Nat \ {0} /\ Len(f) \in Int /\ Len(f) <= Len(f)
        BY <1>1
      <4> QED BY <1>1, <4>1, NoHeaderKept
    <3>3. NoHeader(g, s + 1, Len(g)) <=> NoHeader(g, s + 1, Len(f))
      <4>1. ASSUME NEW q \in s + 1..Len(g)
            PROVE  q \in s + 1..Len(f) \/ q \in Len(f) + 1..Len(g)
        BY <1>1
      <4>2. ASSUME NEW q \in s + 1..Len(f)
            PROVE  q \in s + 1..Len(g)
        BY <1>1
      <4> QED BY <2>1, <4>1, <4>2 DEF NoHeader
    <3> QED BY <3>1, <3>2, <3>3
  <2>4. ASSUME NEW s \in DOMAIN g, FirstOf(g, h, s)
        PROVE  s \in 1..Len(f)
    BY <1>2, <1>3, <2>2, <2>4 DEF FirstOf
  <2>5. ASSUME NEW s \in DOMAIN f
        PROVE  s \in 1..Len(f) /\ s \in DOMAIN g
    BY <1>1
  <2>6. \A s \in 1..Len(f) : s \in DOMAIN f
    BY <1>1
  <2>7. Within(g, h) <=> Within(f, h)
    BY <2>3, <2>4, <2>5, <2>6 DEF Within
  <2> QED BY <1>6, <2>7
<1> QED BY <1>5, <1>6

LEMMA HasAfter ==
    ASSUME NEW g, NEW f, NEW L, AddsLine(g, f, L), NEW R, R = SkipLeading(L),
           NEW h \in Headers, NEW k \in Keys
    PROVE  /\ \A p \in Candidates(g, h, k) : p \in Candidates(f, h, k) \/
                  (p = NewStart(g, L) /\ Opens(R, {k}) /\ Within(f, h))
           /\ Candidates(f, h, k) \subseteq Candidates(g, h, k)
           /\ Opens(R, {k}) /\ Within(f, h) => NewStart(g, L) \in Candidates(g, h, k)
<1> DEFINE P == NewStart(g, L)
<1>1. h \in Names /\ k \in Names /\ g \in Seq(Tokens) /\ f \in Seq(Tokens) /\ Extends(g, f)
      /\ Len(f) \in Nat /\ Len(g) \in Nat /\ Len(f) <= Len(g)
      /\ DOMAIN g = 1..Len(g) /\ DOMAIN f = 1..Len(f)
  BY NamesAreNames, ExtendsJoin DEF AddsLine, Extends
<1>2. /\ \A p \in LinesWith(g, k) : p \in LinesWith(f, k) \/ (p = P /\ Opens(R, {k}))
      /\ Opens(R, {k}) => P \in LinesWith(g, k)
      /\ Opens(R, {k}) => P \in Len(f) + 1..Len(g)
  BY <1>1, NewLines
<1>3. /\ \A p \in LinesWith(g, h) : p \in LinesWith(f, h) \/ (p = P /\ Opens(R, {h}))
      /\ LinesWith(f, h) \subseteq 1..Len(f)
  BY <1>1, NewLines, LinesKept
<1>4. LinesWith(f, k) \subseteq 1..Len(f) /\ LinesWith(g, k) \subseteq 1..Len(g)
  BY <1>1, LinesKept
<1>5. Candidates(f, h, k) \subseteq 1..Len(f)
  BY <1>1, CandidatesIn
<1>6. ASSUME NEW q \in Len(f) + 1..Len(g), Starts(g, q), g[q] \in Names
      PROVE  q = P
  BY <1>6, OneStart
<1> HIDE DEF P
<1>7. ASSUME NEW p \in Candidates(g, h, k), p \notin Candidates(f, h, k)
      PROVE  p = P /\ Opens(R, {k}) /\ Within(f, h)
  <2>1. p \in LinesWith(g, k)
    BY CandidateIs
  <2>2. p \in 1..Len(g)
    BY <1>4, <2>1
  <2>3. ~(p <= Len(f))
    <3>1. SUFFICES ASSUME p <= Len(f)
                   PROVE  FALSE
      OBVIOUS
    <3>2. p \in 1..Len(f)
      BY <2>2, <3>1
    <3> QED BY <1>1, <1>7, <3>2, CandidatesKept
  <2>4. p = P /\ Opens(R, {k})
    <3>1. p \notin LinesWith(f, k)
      BY <1>1, <1>4, <2>3
    <3> QED BY <1>2, <2>1, <3>1
  <2>5. PICK s \in DOMAIN g : FirstOf(g, h, s) /\ s < p /\ NoHeader(g, s + 1, p - 1)
    BY CandidateIs
  <2>6. s \in 1..Len(f)
    BY <1>3, <2>4, <2>5, <2>2 DEF FirstOf
  <2>7. FirstOf(f, h, s)
    BY <1>1, <2>5, <2>6, FirstKept
  <2>8. NoHeader(f, s + 1, Len(f))
    <3>1. ASSUME NEW q \in s + 1..Len(f)
          PROVE  q \in s + 1..p - 1
      BY <1>1, <2>2, <2>3
    <3>2. NoHeader(g, s + 1, Len(f))
      BY <2>5, <3>1 DEF NoHeader
    <3>3. s + 1 \in Nat \ {0} /\ Len(f) \in Int /\ Len(f) <= Len(f)
      BY <1>1, <2>6
    <3> QED BY <1>1, <3>2, <3>3, NoHeaderKept
  <2>9. Within(f, h)
    BY <1>1, <2>6, <2>7, <2>8 DEF Within
  <2> QED BY <2>4, <2>9
<1>8. ASSUME NEW p \in Candidates(f, h, k)
      PROVE  p \in Candidates(g, h, k)
  BY <1>1, <1>5, CandidatesKept
<1>9. ASSUME Opens(R, {k}), Within(f, h)
      PROVE  P \in Candidates(g, h, k)
  <2>1. PICK s \in DOMAIN f : FirstOf(f, h, s) /\ NoHeader(f, s + 1, Len(f))
    BY <1>9 DEF Within
  <2>2. s \in 1..Len(f) /\ s \in DOMAIN g /\ P \in Len(f) + 1..Len(g) /\ P \in LinesWith(g, k)
    BY <1>1, <1>2, <1>9
  <2>3. FirstOf(g, h, s)
    BY <1>1, <2>1, <2>2, FirstKept
  <2>4. NoHeader(g, s + 1, Len(f))
    <3>1. s + 1 \in Nat \ {0} /\ Len(f) \in Int /\ Len(f) <= Len(f)
      BY <1>1, <2>2
    <3> QED BY <1>1, <2>1, <3>1, NoHeaderKept
  <2>5. NoHeader(g, s + 1, P - 1)
    <3>1. SUFFICES ASSUME NEW q \in s + 1..P - 1, g[q] \in Headers, Starts(g, q)
                   PROVE  FALSE
      BY DEF NoHeader
    <3>2. CASE q <= Len(f)
      <4>1. q \in s + 1..Len(f)
        BY <1>1, <2>2, <3>2
      <4> QED BY <2>4, <3>1, <4>1 DEF NoHeader
    <3>3. CASE ~(q <= Len(f))
      <4>1. q \in Len(f) + 1..Len(g) /\ q # P
        BY <1>1, <2>2, <3>3
      <4> QED BY <1>6, <3>1, <4>1 DEF Names
    <3> QED BY <3>2, <3>3
  <2>6. s < P
    BY <1>1, <2>2
  <2> QED BY <2>2, <2>3, <2>5, <2>6, CandidateIs
<1> QED BY <1>7, <1>8, <1>9 DEF P

LEMMA SameRest ==
    ASSUME NEW T, NEW s \in Seq(T), NEW t \in Seq(T), NEW p \in 1..Len(s), NEW q \in 1..Len(t),
           Len(s) - p = Len(t) - q, \A i \in 1..Len(s) - p : s[p + i] = t[q + i]
    PROVE  SubSeq(s, p + 1, Len(s)) = SubSeq(t, q + 1, Len(t))
<1>1. /\ p + 1 \in Int /\ Len(s) \in Int /\ 1 <= p + 1 /\ Len(s) <= Len(s) /\ p + 1 <= Len(s) + 1
      /\ q + 1 \in Int /\ Len(t) \in Int /\ 1 <= q + 1 /\ Len(t) <= Len(t) /\ q + 1 <= Len(t) + 1
  OBVIOUS
<1> DEFINE a == SubSeq(s, p + 1, Len(s))
<1> DEFINE b == SubSeq(t, q + 1, Len(t))
<1>2. /\ a \in Seq(T)
      /\ Len(a) = Len(s) - (p + 1) + 1
      /\ \A i \in 1..Len(s) - (p + 1) + 1 : a[i] = s[p + 1 + i - 1]
  BY <1>1, PartTyped
<1>3. /\ b \in Seq(T)
      /\ Len(b) = Len(t) - (q + 1) + 1
      /\ \A i \in 1..Len(t) - (q + 1) + 1 : b[i] = t[q + 1 + i - 1]
  BY <1>1, PartTyped
<1> HIDE DEF a, b
<1>4. Len(a) = Len(b)
  BY <1>1, <1>2, <1>3
<1>5. ASSUME NEW i \in 1..Len(a)
      PROVE  a[i] = b[i]
  <2>1. /\ i \in 1..Len(s) - (p + 1) + 1 /\ i \in 1..Len(t) - (q + 1) + 1 /\ i \in 1..Len(s) - p
        /\ p + 1 + i - 1 = p + i /\ q + 1 + i - 1 = q + i
    BY <1>1, <1>2, <1>4
  <2> QED BY <1>2, <1>3, <2>1
<1>6. a = b
  BY <1>2, <1>3, <1>4, <1>5, SeqEqual
<1> QED BY <1>6 DEF a, b

LEMMA GetAfter ==
    ASSUME NEW g, NEW f, NEW L, AddsLine(g, f, L), NEW R, R = SkipLeading(L),
           NEW h \in Headers, NEW k \in Keys, ~Has(f, h, k), Has(g, h, k)
    PROVE  Get(g, h, k) = ValueOf(SubSeq(R, 2, Len(R)))
<1> DEFINE P == NewStart(g, L)
<1>1. Candidates(f, h, k) = {} /\ Candidates(g, h, k) # {}
  BY DEF Has
<1>2. \A p \in Candidates(g, h, k) : p = P /\ Opens(R, {k})
  BY <1>1, HasAfter
<1>3. P \in Candidates(g, h, k) /\ Opens(R, {k})
  BY <1>1, <1>2
<1>4. /\ R \in Seq(Tokens) /\ Len(f) \in Nat /\ Len(g) \in Nat /\ Len(R) \in Nat
      /\ Len(g) = Len(f) + Len(L)
      /\ \A i \in 1..Len(R) : g[P + i - 1] = R[i]
  BY NewStartIs
<1>5. P \in Len(f) + 1..Len(g)
  BY <1>3, NewLines DEF Names
<1>6. g \in Seq(Tokens) /\ P \in DOMAIN g /\ Len(L) \in Nat
      /\ (\A j \in 1..Len(L) : g[Len(f) + j] = L[j])
      /\ (\A j \in 1..Len(L) - 1 : L[j] # nl)
  <2>1. g \in Seq(Tokens) /\ L \in Seq(Tokens)
    BY DEF AddsLine
  <2>2. Len(L) \in Nat /\ DOMAIN g = 1..Len(g)
    BY <2>1
  <2>3. P \in DOMAIN g
    BY <1>4, <1>5, <2>2
  <2> QED BY <2>1, <2>2, <2>3 DEF AddsLine, IsJoin, IsLine
<1>7. P + Len(R) - 1 = Len(g)
  BY <1>4 DEF NewStart
<1>8. Get(g, h, k) = ValueOf(SubSeq(g, P + 1, EndOfLine(g, P)))
  <2>1. \A q \in Candidates(g, h, k) : P <= q
    <3>1. P <= P
      BY <1>4, <1>5
    <3> QED BY <1>2, <3>1
  <2> QED BY <1>3, <1>6, <2>1, GetOfFirst
<1> HIDE DEF P
<1>9. EndOfLine(g, P) = Len(g)
  <2> DEFINE e == EndOfLine(g, P)
  <2>1. e \in P..Len(g) /\ (e = Len(g) \/ g[e] = nl)
    BY <1>6, EndOfLineIs
  <2> HIDE DEF e
  <2>2. SUFFICES ASSUME e # Len(g)
                 PROVE  FALSE
    BY DEF e
  <2>3. e - Len(f) \in 1..Len(L) - 1 /\ e - Len(f) \in 1..Len(L) /\ Len(f) + (e - Len(f)) = e
    <3>1. P \in Nat /\ P > Len(f) /\ e \in Nat /\ P <= e /\ e < Len(g) /\ Len(g) = Len(f) + Len(L)
          /\ Len(f) \in Nat /\ Len(L) \in Nat
      BY <1>4, <1>5, <1>6, <2>1, <2>2
    <3> QED BY <3>1
  <2>4. g[e] = L[e - Len(f)] /\ L[e - Len(f)] # nl
    BY <1>6, <2>3
  <2> QED BY <2>1, <2>2, <2>4
<1>10. SubSeq(g, P + 1, Len(g)) = SubSeq(R, 2, Len(R))
  <2>1. ASSUME NEW i \in 1..Len(g) - P
        PROVE  g[P + i] = R[1 + i]
    <3>1. 1 + i \in 1..Len(R) /\ P + (1 + i) - 1 = P + i
      BY <1>4, <1>5, <1>7
    <3> QED BY <1>4, <3>1
  <2>2. P \in 1..Len(g) /\ Len(g) - P = Len(R) - 1 /\ 1 \in 1..Len(R)
    BY <1>4, <1>5, <1>7
  <2>3. SubSeq(g, P + 1, Len(g)) = SubSeq(R, 1 + 1, Len(R))
    BY <1>4, <1>6, <2>1, <2>2, SameRest, ZenonT(60)
  <2>4. 1 + 1 = 2
    OBVIOUS
  <2> QED BY <2>3, <2>4, Zenon
<1> QED BY <1>8, <1>9, <1>10

LEMMA EffectOfLine ==
    ASSUME NEW g, NEW f, NEW L, AddsLine(g, f, L), NEW R, R = SkipLeading(L)
    PROVE  Effect(g, f, R)
<1>1. ASSUME NEW h \in Headers, NEW k \in Keys
      PROVE  /\ Has(g, h, k) <=> (Has(f, h, k) \/ (Opens(R, {k}) /\ Within(f, h)))
             /\ Has(f, h, k) => Get(g, h, k) = Get(f, h, k)
             /\ Has(g, h, k) /\ ~Has(f, h, k) => Get(g, h, k) = ValueOf(SubSeq(R, 2, Len(R)))
  <2>1. /\ \A p \in Candidates(g, h, k) : p \in Candidates(f, h, k) \/
                  (p = NewStart(g, L) /\ Opens(R, {k}) /\ Within(f, h))
        /\ Candidates(f, h, k) \subseteq Candidates(g, h, k)
        /\ Opens(R, {k}) /\ Within(f, h) => NewStart(g, L) \in Candidates(g, h, k)
    BY HasAfter
  <2>2. Has(g, h, k) <=> (Has(f, h, k) \/ (Opens(R, {k}) /\ Within(f, h)))
    BY <2>1 DEF Has
  <2>3. ASSUME Has(f, h, k)
        PROVE  Get(g, h, k) = Get(f, h, k)
    <3>1. g \in Seq(Tokens) /\ f \in Seq(Tokens) /\ Extends(g, f) /\ Closed(f)
      BY ExtendsJoin DEF AddsLine
    <3> QED BY <2>3, <3>1, GetKept
  <2>4. ASSUME Has(g, h, k), ~Has(f, h, k)
        PROVE  Get(g, h, k) = ValueOf(SubSeq(R, 2, Len(R)))
    BY <2>4, GetAfter
  <2> QED BY <2>2, <2>3, <2>4
<1>2. ASSUME NEW h \in Headers
      PROVE  /\ Sect(g, h) <=> (Sect(f, h) \/ Opens(R, {h}))
             /\ Within(g, h) <=> (IF Opens(R, Headers) THEN Opens(R, {h}) /\ ~Sect(f, h) ELSE Within(f, h))
  BY SectAfter, WithinAfter
<1> QED BY <1>1, <1>2 DEF Effect

\* Two files that a reader cannot tell apart, however they go on, but for E.
Same(a, d, E) ==
    \A h \in Headers :
        /\ Sect(a, h) <=> Sect(d, h)
        /\ Within(a, h) <=> Within(d, h)
        /\ \A k \in Keys : <<h, k>> \notin E =>
             (Has(a, h, k) <=> Has(d, h, k)) /\ Get(a, h, k) = Get(d, h, k)

\* The same line has the same effect on both.
LEMMA SameStep ==
    ASSUME NEW a, NEW d, NEW b, NEW c, NEW R, NEW E,
           Same(a, d, E), Effect(b, a, R), Effect(c, d, R)
    PROVE  Same(b, c, E)
<1>1. ASSUME NEW h \in Headers
      PROVE  (Sect(b, h) <=> Sect(c, h)) /\ (Within(b, h) <=> Within(c, h))
  BY DEF Same, Effect
<1>2. ASSUME NEW h \in Headers, NEW k \in Keys, <<h, k>> \notin E
      PROVE  (Has(b, h, k) <=> Has(c, h, k)) /\ Get(b, h, k) = Get(c, h, k)
  <2>1. /\ Has(a, h, k) <=> Has(d, h, k)
        /\ Get(a, h, k) = Get(d, h, k)
        /\ Within(a, h) <=> Within(d, h)
    BY <1>2 DEF Same
  <2>2. /\ Has(b, h, k) <=> (Has(a, h, k) \/ (Opens(R, {k}) /\ Within(a, h)))
        /\ Has(a, h, k) => Get(b, h, k) = Get(a, h, k)
        /\ Has(b, h, k) /\ ~Has(a, h, k) => Get(b, h, k) = ValueOf(SubSeq(R, 2, Len(R)))
    BY DEF Effect
  <2>3. /\ Has(c, h, k) <=> (Has(d, h, k) \/ (Opens(R, {k}) /\ Within(d, h)))
        /\ Has(d, h, k) => Get(c, h, k) = Get(d, h, k)
        /\ Has(c, h, k) /\ ~Has(d, h, k) => Get(c, h, k) = ValueOf(SubSeq(R, 2, Len(R)))
    BY DEF Effect
  <2>4. Has(b, h, k) <=> Has(c, h, k)
    BY <2>1, <2>2, <2>3
  <2>5. CASE Has(a, h, k)
    BY <2>1, <2>2, <2>3, <2>5
  <2>6. CASE ~Has(a, h, k) /\ Has(b, h, k)
    BY <2>1, <2>2, <2>3, <2>4, <2>6
  <2>7. CASE ~Has(b, h, k)
    BY <2>4, <2>7, GetOfNone
  <2> QED BY <2>4, <2>5, <2>6, <2>7
<1> QED BY <1>1, <1>2 DEF Same

LEMMA SameSelf ==
    ASSUME NEW a, NEW E
    PROVE  Same(a, a, E)
BY DEF Same

LEMMA SameBack ==
    ASSUME NEW a, NEW b, NEW E, Same(a, b, E)
    PROVE  Same(b, a, E)
<1>1. ASSUME NEW h \in Headers
      PROVE  (Sect(b, h) <=> Sect(a, h)) /\ (Within(b, h) <=> Within(a, h))
  BY DEF Same
<1>2. ASSUME NEW h \in Headers, NEW k \in Keys, <<h, k>> \notin E
      PROVE  (Has(b, h, k) <=> Has(a, h, k)) /\ Get(b, h, k) = Get(a, h, k)
  BY <1>2 DEF Same
<1> QED BY <1>1, <1>2 DEF Same

LEMMA SameButFor ==
    ASSUME NEW a, NEW b, NEW E, Same(a, b, {})
    PROVE  Same(a, b, E)
BY DEF Same

LEMMA SameTrans ==
    ASSUME NEW a, NEW b, NEW c, NEW E, Same(a, b, E), Same(b, c, E)
    PROVE  Same(a, c, E)
<1>1. ASSUME NEW h \in Headers
      PROVE  (Sect(a, h) <=> Sect(c, h)) /\ (Within(a, h) <=> Within(c, h))
  <2>1. (Sect(a, h) <=> Sect(b, h)) /\ (Within(a, h) <=> Within(b, h))
    BY DEF Same
  <2>2. (Sect(b, h) <=> Sect(c, h)) /\ (Within(b, h) <=> Within(c, h))
    BY DEF Same
  <2> QED BY <2>1, <2>2
<1>2. ASSUME NEW h \in Headers, NEW k \in Keys, <<h, k>> \notin E
      PROVE  (Has(a, h, k) <=> Has(c, h, k)) /\ Get(a, h, k) = Get(c, h, k)
  <2>1. (Has(a, h, k) <=> Has(b, h, k)) /\ Get(a, h, k) = Get(b, h, k)
    BY <1>2 DEF Same
  <2>2. (Has(b, h, k) <=> Has(c, h, k)) /\ Get(b, h, k) = Get(c, h, k)
    BY <1>2 DEF Same
  <2> QED BY <2>1, <2>2
<1> QED BY <1>1, <1>2 DEF Same

\* A line that does not start with a name changes nothing for a reader.
LEMMA MuteLine ==
    ASSUME NEW g, NEW f, NEW R, Effect(g, f, R), ~Opens(R, Names)
    PROVE  Same(g, f, {})
<1>1. ~Opens(R, Headers) /\ \A t \in Names : ~Opens(R, {t})
  BY DEF Opens, Names
<1>2. ASSUME NEW h \in Headers
      PROVE  (Sect(g, h) <=> Sect(f, h)) /\ (Within(g, h) <=> Within(f, h))
  BY <1>1 DEF Effect, Names
<1>3. ASSUME NEW h \in Headers, NEW k \in Keys
      PROVE  (Has(g, h, k) <=> Has(f, h, k)) /\ Get(g, h, k) = Get(f, h, k)
  <2>1. Has(g, h, k) <=> Has(f, h, k)
    BY <1>1 DEF Effect, Names
  <2>2. CASE Has(f, h, k)
    BY <2>2 DEF Effect
  <2>3. CASE ~Has(f, h, k)
    BY <2>1, <2>3, GetOfNone
  <2> QED BY <2>1, <2>2, <2>3
<1> QED BY <1>2, <1>3 DEF Same

\* A file ends in at most one section.
LEMMA OneSection ==
    ASSUME NEW f \in Seq(Tokens), NEW h \in Headers, NEW i \in Headers, Within(f, h), Within(f, i)
    PROVE  h = i
<1>1. PICK s \in DOMAIN f : FirstOf(f, h, s) /\ NoHeader(f, s + 1, Len(f))
  BY DEF Within
<1>2. PICK t \in DOMAIN f : FirstOf(f, i, t) /\ NoHeader(f, t + 1, Len(f))
  BY DEF Within
<1>3. f[s] = h /\ Starts(f, s) /\ f[t] = i /\ Starts(f, t)
  BY <1>1, <1>2 DEF FirstOf, LinesWith
<1>4. s \in 1..Len(f) /\ t \in 1..Len(f) /\ Len(f) \in Nat
  OBVIOUS
<1>5. ~(s < t)
  <2>1. s < t => t \in s + 1..Len(f)
    BY <1>4
  <2> QED BY <1>1, <1>3, <2>1 DEF NoHeader
<1>6. ~(t < s)
  <2>1. t < s => s \in t + 1..Len(f)
    BY <1>4
  <2> QED BY <1>2, <1>3, <2>1 DEF NoHeader
<1> QED BY <1>3, <1>4, <1>5, <1>6

\* What the line of a key in its section adds to f.
KeyRead(g, f, R, h, k) ==
    /\ Same(g, f, {<<h, k>>})
    /\ Within(g, h)
    /\ Has(g, h, k)
    /\ ~Has(f, h, k) => Get(g, h, k) = ValueOf(SubSeq(R, 2, Len(R)))

LEMMA KeyInSection ==
    ASSUME NEW g \in Seq(Tokens), NEW f \in Seq(Tokens), NEW R, Effect(g, f, R),
           NEW h \in Headers, NEW k \in Keys, Opens(R, {k}), Within(f, h)
    PROVE  KeyRead(g, f, R, h, k)
<1>1. ~Opens(R, Headers) /\ (\A t \in Headers : ~Opens(R, {t})) /\ (\A t \in Keys : Opens(R, {t}) => t = k)
  BY NamesAreNames DEF Opens
<1>2. ASSUME NEW i \in Headers
      PROVE  (Sect(g, i) <=> Sect(f, i)) /\ (Within(g, i) <=> Within(f, i))
  BY <1>1 DEF Effect
<1>3. ASSUME NEW i \in Headers, NEW l \in Keys, <<i, l>> \notin {<<h, k>>}
      PROVE  (Has(g, i, l) <=> Has(f, i, l)) /\ Get(g, i, l) = Get(f, i, l)
  <2>1. ~(Opens(R, {l}) /\ Within(f, i))
    <3>1. SUFFICES ASSUME Opens(R, {l}), Within(f, i)
                   PROVE  FALSE
      OBVIOUS
    <3>2. i = h
      BY <3>1, OneSection
    <3>3. l = k
      BY <1>1, <3>1
    <3> QED BY <1>3, <3>2, <3>3
  <2>2. Has(g, i, l) <=> (Has(f, i, l) \/ (Opens(R, {l}) /\ Within(f, i)))
    BY DEF Effect
  <2>3. CASE Has(f, i, l)
    BY <2>2, <2>3 DEF Effect
  <2>4. CASE ~Has(f, i, l)
    BY <2>1, <2>2, <2>4, GetOfNone
  <2> QED BY <2>3, <2>4
<1>4. Has(g, h, k) /\ (~Has(f, h, k) => Get(g, h, k) = ValueOf(SubSeq(R, 2, Len(R))))
  <2>1. Has(g, h, k) <=> (Has(f, h, k) \/ (Opens(R, {k}) /\ Within(f, h)))
    BY DEF Effect
  <2>2. Has(g, h, k)
    BY <2>1
  <2> QED BY <2>2 DEF Effect
<1>5. Same(g, f, {<<h, k>>}) /\ Within(g, h)
  BY <1>2, <1>3 DEF Same
<1> QED BY <1>4, <1>5 DEF KeyRead

\* The line of a key, as ini_puts writes it.
LineOf(k, v) == <<k>> \o Quoted(v) \o <<nl>>

\* At most one fault, and none on a file whose last line has no end: what the
\* theorems about the rewriting of the file take for granted.
Careful ==
    /\ MaxFaults \in {0, 1}
    /\ \A f \in FragileFiles : f = Absent \/ Closed(f)
    /\ Values \subseteq Putable(Tokens)

LEMMA QuotedHasNoEnd ==
    ASSUME NEW v \in Values
    PROVE  Quoted(v) \in Seq(Tokens) /\ \A i \in 1..Len(Quoted(v)) : Quoted(v)[i] # nl
<1>1. v \in Seq(Tokens \ {nl})
  <2>1. v \in Seq(Tokens \ (Headers \cup Keys \cup {nl}))
    BY TokensAssumption
  <2>2. Tokens \ (Headers \cup Keys \cup {nl}) \subseteq Tokens \ {nl}
    OBVIOUS
  <2> DEFINE A == Tokens \ (Headers \cup Keys \cup {nl})
  <2> DEFINE B == Tokens \ {nl}
  <2> HIDE DEF A, B
  <2>3. ASSUME NEW w \in Seq(A), A \subseteq B
        PROVE  w \in Seq(B)
    BY <2>3
  <2> QED BY <2>1, <2>2, <2>3 DEF A, B
<1>2. quote \in Tokens \ {nl} /\ escape \in Tokens \ {nl}
  BY MarksAreTokens, MarksDiffer
<1> DEFINE T == Tokens \ {nl}
<1> HIDE DEF T
<1>3. Quoted(v) \in Seq(T)
  BY <1>1, <1>2, QuotedTyped DEF T
<1>4. ASSUME NEW i \in 1..Len(Quoted(v))
      PROVE  Quoted(v)[i] \in T
  BY <1>3
<1>5. T \subseteq Tokens /\ nl \notin T
  BY DEF T
<1>6. Quoted(v) \in Seq(Tokens)
  BY <1>3, <1>5
<1> QED BY <1>4, <1>5, <1>6

LEMMA LineOfKey ==
    ASSUME NEW k \in Keys, NEW v \in Values
    PROVE  /\ LineOf(k, v) \in Seq(Tokens)
           /\ IsLine(LineOf(k, v))
           /\ LineOf(k, v)[Len(LineOf(k, v))] = nl
           /\ SkipLeading(LineOf(k, v)) = LineOf(k, v)
           /\ Opens(LineOf(k, v), {k})
           /\ v \in Putable(Tokens) => ValueOf(SubSeq(LineOf(k, v), 2, Len(LineOf(k, v)))) = v
<1> DEFINE q == Quoted(v)
<1> DEFINE b == <<k>> \o q
<1> DEFINE K == b \o <<nl>>
<1> DEFINE w == q \o <<nl>>
<1>1. q \in Seq(Tokens) /\ \A i \in 1..Len(q) : q[i] # nl
  BY QuotedHasNoEnd
<1>2. <<k>> \in Seq(Tokens) /\ <<nl>> \in Seq(Tokens) /\ Len(<<k>>) = 1 /\ Len(<<nl>>) = 1
      /\ <<k>>[1] = k /\ <<nl>>[1] = nl
  BY MarksAreTokens DEF Tokens
<1>3. k # nl /\ k # blank
  BY NamesAreNames DEF Names
<1> HIDE DEF q
<1>4. b \in Seq(Tokens) /\ IsJoin(b, <<k>>, q)
  BY <1>1, <1>2, JoinedIs
<1> HIDE DEF b
<1>5. K \in Seq(Tokens) /\ IsJoin(K, b, <<nl>>) /\ w \in Seq(Tokens) /\ IsJoin(w, q, <<nl>>)
  BY <1>1, <1>2, <1>4, JoinedIs
<1> HIDE DEF K, w
<1>6. Len(q) \in Nat
  BY <1>1
<1>7. /\ Len(b) = Len(q) + 1 /\ b[1] = k
      /\ \A i \in 1..Len(q) : b[1 + i] = q[i]
  <2>1. 1 \in 1..Len(<<k>>)
    BY <1>2
  <2> QED BY <1>2, <1>4, <1>6, <2>1 DEF IsJoin
<1>8. /\ Len(K) = Len(q) + 2 /\ K[Len(q) + 2] = nl /\ K[1] = k
      /\ \A i \in 1..Len(q) : K[1 + i] = q[i]
  <2>1. 1 \in 1..Len(<<nl>>) /\ Len(b) + 1 = Len(q) + 2
    BY <1>2, <1>6, <1>7
  <2>2. Len(K) = Len(q) + 2 /\ K[Len(q) + 2] = nl
    BY <1>2, <1>5, <1>6, <1>7, <2>1 DEF IsJoin
  <2>3. ASSUME NEW i \in 1..Len(b)
        PROVE  K[i] = b[i]
    BY <1>5 DEF IsJoin
  <2>4. K[1] = k
    <3>1. 1 \in 1..Len(b)
      BY <1>6, <1>7
    <3> QED BY <1>7, <2>3, <3>1
  <2>5. ASSUME NEW i \in 1..Len(q)
        PROVE  K[1 + i] = q[i]
    <3>1. 1 + i \in 1..Len(b)
      BY <1>6, <1>7
    <3> QED BY <1>7, <2>3, <3>1
  <2> QED BY <2>2, <2>4, <2>5
<1>9. IsLine(K)
  <2>1. ASSUME NEW i \in 1..Len(K) - 1
        PROVE  K[i] # nl
    <3>1. CASE i = 1
      BY <1>3, <1>8, <3>1
    <3>2. CASE i # 1
      <4>1. i - 1 \in 1..Len(q) /\ 1 + (i - 1) = i
        BY <1>6, <1>8, <3>2
      <4> QED BY <1>1, <1>8, <4>1
    <3> QED BY <3>1, <3>2
  <2>2. K # <<>>
    BY <1>5, <1>6, <1>8
  <2> QED BY <2>1, <2>2 DEF IsLine
<1>10. SkipLeading(K) = K
  BY <1>3, <1>5, <1>8, SkipNothing
<1>11. Opens(K, {k})
  BY <1>3, <1>5, <1>6, <1>8 DEF Opens, Blank
<1>12. SubSeq(K, 2, Len(K)) = w
  <2>1. Len(w) = Len(q) + 1 /\ w[Len(q) + 1] = nl /\ \A i \in 1..Len(q) : w[i] = q[i]
    <3>1. 1 \in 1..Len(<<nl>>)
      BY <1>2
    <3> QED BY <1>2, <1>5, <1>6, <3>1 DEF IsJoin
  <2> DEFINE m == 2
  <2> DEFINE a == SubSeq(K, m, Len(K))
  <2>2. m \in Int /\ m = 2
    OBVIOUS
  <2> HIDE DEF m
  <2>3. m \in Int /\ Len(K) \in Int /\ 1 <= m /\ Len(K) <= Len(K) /\ m <= Len(K) + 1
    BY <1>6, <1>8, <2>2
  <2>4. /\ a \in Seq(Tokens)
        /\ Len(a) = Len(K) - m + 1
        /\ \A i \in 1..Len(K) - m + 1 : a[i] = K[m + i - 1]
    BY <1>5, <2>3, PartTyped
  <2> HIDE DEF a
  <2>5. Len(a) = Len(w)
    BY <1>6, <1>8, <2>1, <2>2, <2>4
  <2>6. ASSUME NEW i \in 1..Len(a)
        PROVE  a[i] = w[i]
    <3>1. i \in 1..Len(K) - m + 1 /\ m + i - 1 = 1 + i /\ a[i] = K[1 + i]
      BY <1>6, <1>8, <2>2, <2>4
    <3>2. CASE i \in 1..Len(q)
      BY <1>8, <2>1, <3>1, <3>2
    <3>3. CASE i \notin 1..Len(q)
      <4>1. i = Len(q) + 1 /\ 1 + i = Len(q) + 2
        BY <1>6, <2>1, <2>5, <3>3
      <4> QED BY <1>8, <2>1, <3>1, <4>1
    <3> QED BY <3>2, <3>3
  <2>7. a = w
    BY <1>5, <2>4, <2>5, <2>6, SeqEqual
  <2> QED BY <2>7, <2>2 DEF a
<1>13. v \in Putable(Tokens) => ValueOf(w) = v
  BY MarksAreTokens, WrittenIsRead DEF w, q
<1>14. LineOf(k, v) = K
  BY DEF LineOf, K, b, q
<1>15. K[Len(K)] = nl
  BY <1>8
<1> HIDE DEF LineOf
<1>16. v \in Putable(Tokens) => ValueOf(SubSeq(K, 2, Len(K))) = v
  BY <1>12, <1>13
<1> QED BY <1>5, <1>9, <1>10, <1>11, <1>14, <1>15, <1>16

-----------------------------------------------------------------------------
(* A last line that has no end, and one that is cut.                        *)

\* Where a value ends does not depend on the end of its line.
LEMMA EndBeforeLineEnd ==
    ASSUME NEW T, NEW q \in Seq(T), NEW r \in Seq(T), IsJoin(r, q, <<nl>>)
    PROVE  /\ End(q)[<<1, FALSE>>] \in 1..Len(q) + 1
           /\ End(r)[<<1, FALSE>>] = IF End(q)[<<1, FALSE>>] = Len(q) + 1 THEN Len(q) + 2
                                     ELSE End(q)[<<1, FALSE>>]
<1> DEFINE L == Len(q)
<1> DEFINE Agree(i) == \A b \in BOOLEAN :
        /\ End(q)[<<i, b>>] \in 1..L + 1
        /\ End(r)[<<i, b>>] = IF End(q)[<<i, b>>] = L + 1 THEN L + 2 ELSE End(q)[<<i, b>>]
<1> DEFINE Done == {k \in Nat : \A i \in 1..L + 1 : L + 1 - k <= i => Agree(i)}
<1>0. L \in Nat /\ Len(r) = L + 1 /\ r[L + 1] = nl /\ \A i \in 1..L : r[i] = q[i]
  <2>1. Len(<<nl>>) = 1 /\ <<nl>>[1] = nl /\ 1 \in 1..Len(<<nl>>)
    OBVIOUS
  <2> QED BY <2>1 DEF IsJoin
<1>1. Agree(L + 1)
  <2>1. ASSUME NEW b \in BOOLEAN
        PROVE  End(q)[<<L + 1, b>>] = L + 1 /\ End(r)[<<L + 1, b>>] = L + 2
    <3>1. End(q)[<<L + 1, b>>] = L + 1
      BY EndIs
    <3> DEFINE other == b # (r[L + 1] = quote)
    <3>2. other \in BOOLEAN
      OBVIOUS
    <3>3. End(r)[<<L + 1, b>>] = IF r[L + 1] \in Comment /\ ~b THEN L + 1
                  ELSE IF Pair(r, L + 1) THEN End(r)[<<L + 1 + 2, b>>]
                  ELSE End(r)[<<L + 1 + 1, other>>]
      <4>1. L + 1 \in 1..Len(r)
        BY <1>0
      <4>2. EndRule(r, L + 1, b)
        BY <4>1, EndIs
      <4> QED BY <4>2 DEF EndRule
    <3> HIDE DEF other
    <3>4. r[L + 1] \notin Comment
      BY <1>0, MarksDiffer
    <3>5. ~Pair(r, L + 1)
      BY <1>0 DEF Pair
    <3>6. End(r)[<<Len(r) + 1, other>>] = Len(r) + 1
      BY <3>2, EndIs
    <3>7. Len(r) + 1 = L + 1 + 1 /\ L + 1 + 1 = L + 2
      BY <1>0
    <3> QED BY <3>1, <3>3, <3>4, <3>5, <3>6, <3>7
  <2> QED BY <1>0, <2>1
<1>2. 0 \in Done
  <2>1. ASSUME NEW i \in 1..L + 1, L + 1 - 0 <= i
        PROVE  Agree(i)
    <3>1. i = L + 1
      BY <1>0, <2>1
    <3> HIDE DEF Agree
    <3> QED BY <1>1, <3>1
  <2> HIDE DEF Agree
  <2> QED BY <2>1
<1>3. ASSUME NEW k \in Nat, k \in Done
      PROVE  k + 1 \in Done
  <2>1. ASSUME NEW i \in 1..L + 1, L + 1 - (k + 1) <= i
        PROVE  Agree(i)
    <3>1. CASE i = L + 1
      <4> HIDE DEF Agree
      <4> QED BY <1>1, <3>1
    <3>2. CASE i # L + 1
      <4>1. i \in 1..L /\ i + 1 \in 1..L + 1 /\ L + 1 - k <= i + 1 /\ i \in 1..Len(r)
        BY <1>0, <2>1, <3>2
      <4>2. Agree(i + 1)
        <5> HIDE DEF Agree
        <5> QED BY <1>3, <4>1
      <4>3. Pair(q, i) => Agree(i + 2)
        <5>1. Pair(q, i) => i + 2 \in 1..L + 1 /\ L + 1 - k <= i + 2
          BY <1>0, <4>1 DEF Pair
        <5> HIDE DEF Agree
        <5> QED BY <1>3, <5>1
      <4>4. q[i] = r[i] /\ (Pair(q, i) <=> Pair(r, i))
        <5>1. q[i] = r[i]
          BY <1>0, <4>1
        <5>2. CASE i = L
          <6>1. r[i + 1] # quote
            BY <1>0, <5>2, MarksDiffer
          <6>2. ~(i < Len(q))
            BY <1>0, <5>2
          <6> QED BY <5>1, <6>1, <6>2 DEF Pair
        <5>3. CASE i # L
          <6>1. i < Len(q) /\ i < Len(r) /\ i + 1 \in 1..L
            BY <1>0, <4>1, <5>3
          <6>2. r[i + 1] = q[i + 1]
            BY <1>0, <6>1
          <6> QED BY <5>1, <6>1, <6>2 DEF Pair
        <5> QED BY <5>1, <5>2, <5>3
      <4>5. ASSUME NEW b \in BOOLEAN
            PROVE  /\ End(q)[<<i, b>>] \in 1..L + 1
                   /\ End(r)[<<i, b>>] = IF End(q)[<<i, b>>] = L + 1 THEN L + 2 ELSE End(q)[<<i, b>>]
        <5> DEFINE other == b # (q[i] = quote)
        <5>1. other \in BOOLEAN
          OBVIOUS
        <5>2. End(q)[<<i, b>>] = IF q[i] \in Comment /\ ~b THEN i
                  ELSE IF Pair(q, i) THEN End(q)[<<i + 2, b>>]
                  ELSE End(q)[<<i + 1, other>>]
          <6>1. EndRule(q, i, b)
            BY <4>1, EndIs
          <6> QED BY <6>1 DEF EndRule
        <5>3. End(r)[<<i, b>>] = IF q[i] \in Comment /\ ~b THEN i
                  ELSE IF Pair(q, i) THEN End(r)[<<i + 2, b>>]
                  ELSE End(r)[<<i + 1, other>>]
          <6>1. EndRule(r, i, b)
            BY <4>1, EndIs
          <6> QED BY <4>4, <6>1 DEF EndRule
        <5> HIDE DEF other
        <5>4. CASE q[i] \in Comment /\ ~b
          <6>1. End(q)[<<i, b>>] = i /\ End(r)[<<i, b>>] = i
            BY <5>2, <5>3, <5>4
          <6> QED BY <3>2, <6>1
        <5>5. CASE ~(q[i] \in Comment /\ ~b) /\ Pair(q, i)
          <6>1. End(q)[<<i, b>>] = End(q)[<<i + 2, b>>] /\ End(r)[<<i, b>>] = End(r)[<<i + 2, b>>]
            BY <5>2, <5>3, <5>5
          <6> QED BY <4>3, <5>5, <6>1
        <5>6. CASE ~(q[i] \in Comment /\ ~b) /\ ~Pair(q, i)
          <6>1. End(q)[<<i, b>>] = End(q)[<<i + 1, other>>] /\ End(r)[<<i, b>>] = End(r)[<<i + 1, other>>]
            BY <5>2, <5>3, <5>6
          <6> QED BY <4>2, <5>1, <6>1
        <5> QED BY <5>4, <5>5, <5>6
      <4> QED BY <4>5
    <3> HIDE DEF Agree
    <3> QED BY <3>1, <3>2
  <2> HIDE DEF Agree
  <2> QED BY <2>1
<1>4. L + 1 \in Done
  <2> HIDE DEF Done
  <2> QED BY <1>0, <1>2, <1>3, NatInductive
<1>5. 1 \in 1..L + 1 /\ L + 1 - (L + 1) <= 1
  BY <1>0
<1> HIDE DEF Agree
<1>6. Agree(1)
  BY <1>4, <1>5
<1> QED BY <1>6 DEF Agree

LEMMA ExtendsIs ==
    ASSUME NEW T, NEW r \in Seq(T), NEW q \in Seq(T), IsJoin(r, q, <<nl>>)
    PROVE  /\ Len(r) = Len(q) + 1 /\ r[Len(q) + 1] = nl /\ (\A i \in 1..Len(q) : r[i] = q[i])
           /\ Len(q) \in Nat /\ Extends(r, q)
<1>1. Len(<<nl>>) = 1 /\ <<nl>>[1] = nl /\ 1 \in 1..Len(<<nl>>) /\ Len(q) \in Nat
  OBVIOUS
<1> QED BY <1>1 DEF IsJoin, Extends

LEMMA StripLineEnd ==
    ASSUME NEW q \in Seq(Tokens), NEW r \in Seq(Tokens), IsJoin(r, q, <<nl>>)
    PROVE  StripTrailing(r) = StripTrailing(q)
<1>1. /\ Len(r) = Len(q) + 1 /\ r[Len(q) + 1] = nl /\ (\A i \in 1..Len(q) : r[i] = q[i])
      /\ Len(q) \in Nat /\ Extends(r, q)
  BY ExtendsIs
<1> DEFINE S == {i \in 0..Len(q) : i = 0 \/ q[i] \notin {blank, nl}}
<1>2. S \in SUBSET Nat /\ S # {} /\ \A i \in S : i <= Len(q)
  <2>1. 0 \in S
    BY <1>1
  <2> QED BY <1>1, <2>1
<1>3. PICK n \in S : \A i \in S : i <= n
  <2> HIDE DEF S
  <2> QED BY <1>1, <1>2, GreatestNat
<1>4. n \in 0..Len(q) /\ n \in 0..Len(r) /\ (n > 0 => q[n] \notin {blank, nl})
  BY <1>1
<1>5. ASSUME NEW i \in n + 1..Len(q)
      PROVE  q[i] \in {blank, nl}
  <2>1. i \in 0..Len(q) /\ ~(i <= n)
    BY <1>1, <1>4
  <2>2. i \notin S
    <3> HIDE DEF S
    <3> QED BY <1>3, <2>1
  <2> QED BY <2>1, <2>2
<1> HIDE DEF S
<1>6. StripTrailing(q) = SubSeq(q, 1, n)
  BY <1>4, <1>5, StripIs
<1>7. StripTrailing(r) = SubSeq(r, 1, n)
  <2>1. n > 0 => r[n] \notin {blank, nl}
    <3>1. n > 0 => n \in 1..Len(q)
      BY <1>1, <1>4
    <3> QED BY <1>1, <1>4, <3>1
  <2>2. ASSUME NEW i \in n + 1..Len(r)
        PROVE  r[i] \in {blank, nl}
    <3>1. CASE i = Len(q) + 1
      BY <1>1, <3>1
    <3>2. CASE i # Len(q) + 1
      <4>1. i \in n + 1..Len(q) /\ i \in 1..Len(q)
        BY <1>1, <1>4, <3>2
      <4>2. r[i] = q[i]
        BY <1>1, <4>1
      <4> QED BY <1>5, <4>1, <4>2
    <3> QED BY <3>1, <3>2
  <2> QED BY <1>4, <2>1, <2>2, StripIs
<1>8. SubSeq(r, 1, n) = SubSeq(q, 1, n)
  <2>1. 1 \in Int /\ n \in Int /\ 1 <= 1 /\ n <= Len(q) /\ 1 <= n + 1
    BY <1>1, <1>4
  <2> QED BY <1>1, <2>1, PartKept
<1> QED BY <1>6, <1>7, <1>8

LEMMA SkipLineEnd ==
    ASSUME NEW s \in Seq(Tokens), NEW u \in Seq(Tokens), IsJoin(u, s, <<nl>>)
    PROVE  /\ SkipLeading(s) \in Seq(Tokens) /\ SkipLeading(u) \in Seq(Tokens)
           /\ IsJoin(SkipLeading(u), SkipLeading(s), <<nl>>)
<1> DEFINE q == SkipLeading(s)
<1> DEFINE r == SkipLeading(u)
<1>1. /\ Len(u) = Len(s) + 1 /\ u[Len(s) + 1] = nl /\ (\A i \in 1..Len(s) : u[i] = s[i])
      /\ Len(s) \in Nat
  BY ExtendsIs
<1>2. q \in Seq(Tokens) /\ \E c \in 0..Len(s) : Skips(s, c)
  BY SkipLeadingIs
<1>3. r \in Seq(Tokens) /\ \E d \in 0..Len(u) : Skips(u, d)
  BY SkipLeadingIs
<1>4. PICK c \in 0..Len(s) : Skips(s, c)
  BY <1>2
<1>5. PICK d \in 0..Len(u) : Skips(u, d)
  BY <1>3
<1>6. /\ \A i \in 1..c : s[i] = blank
      /\ c < Len(s) => s[c + 1] # blank
      /\ Len(q) = Len(s) - c
      /\ \A i \in 1..Len(s) - c : q[i] = s[c + i]
  BY <1>4 DEF Skips
<1>7. /\ \A i \in 1..d : u[i] = blank
      /\ d < Len(u) => u[d + 1] # blank
      /\ Len(r) = Len(u) - d
      /\ \A i \in 1..Len(u) - d : r[i] = u[d + i]
  BY <1>5 DEF Skips
<1> HIDE DEF q, r
<1>8. c = d
  <2>1. ~(d < c)
    <3>1. SUFFICES ASSUME d < c
                   PROVE  FALSE
      OBVIOUS
    <3>2. d + 1 \in 1..c /\ d + 1 \in 1..Len(s) /\ d < Len(u)
      BY <1>1, <3>1
    <3> QED BY <1>1, <1>6, <1>7, <3>2
  <2>2. ~(c < d)
    <3>1. SUFFICES ASSUME c < d
                   PROVE  FALSE
      OBVIOUS
    <3>2. c + 1 \in 1..d
      BY <3>1
    <3>3. CASE c = Len(s)
      <4>1. u[c + 1] = nl /\ u[c + 1] = blank
        BY <1>1, <1>7, <3>2, <3>3
      <4> QED BY <4>1, MarksDiffer
    <3>4. CASE c # Len(s)
      <4>1. c < Len(s) /\ c + 1 \in 1..Len(s)
        BY <1>1, <3>4
      <4> QED BY <1>1, <1>6, <1>7, <3>2, <4>1
    <3> QED BY <3>3, <3>4
  <2> QED BY <1>1, <2>1, <2>2
<1>9. Len(<<nl>>) = 1 /\ <<nl>>[1] = nl
  OBVIOUS
<1>10. Len(r) = Len(q) + 1
  BY <1>1, <1>6, <1>7, <1>8
<1>11. ASSUME NEW i \in 1..Len(q)
       PROVE  r[i] = q[i]
  <2>1. i \in 1..Len(s) - c /\ i \in 1..Len(u) - d /\ c + i \in 1..Len(s)
    BY <1>1, <1>6, <1>8
  <2> QED BY <1>1, <1>6, <1>7, <1>8, <2>1
<1>12. r[Len(q) + 1] = nl
  <2>1. Len(q) + 1 \in 1..Len(u) - d /\ d + (Len(q) + 1) = Len(s) + 1
    BY <1>1, <1>6, <1>8
  <2> QED BY <1>1, <1>7, <2>1
<1>13. IsJoin(r, q, <<nl>>)
  <2>1. \A i \in 1..Len(<<nl>>) : i = 1
    BY <1>9
  <2> QED BY <1>9, <1>10, <1>11, <1>12, <2>1 DEF IsJoin
<1> QED BY <1>2, <1>3, <1>13 DEF q, r

\* A value is the same with the end of its line and without.
LEMMA ValueClosed ==
    ASSUME NEW s \in Seq(Tokens), NEW u \in Seq(Tokens), IsJoin(u, s, <<nl>>)
    PROVE  ValueOf(u) = ValueOf(s)
<1> DEFINE q == SkipLeading(s)
<1> DEFINE r == SkipLeading(u)
<1>1. q \in Seq(Tokens) /\ r \in Seq(Tokens) /\ IsJoin(r, q, <<nl>>)
  BY SkipLineEnd
<1> HIDE DEF q, r
<1>2. /\ Len(r) = Len(q) + 1 /\ Len(q) \in Nat /\ Extends(r, q)
  BY <1>1, ExtendsIs
<1> DEFINE e == End(q)[<<1, FALSE>>]
<1> DEFINE d == End(r)[<<1, FALSE>>]
<1>3. e \in 1..Len(q) + 1 /\ d = IF e = Len(q) + 1 THEN Len(q) + 2 ELSE e
  BY <1>1, EndBeforeLineEnd
<1>4. BeforeComment(q) = SubSeq(q, 1, e - 1) /\ BeforeComment(r) = SubSeq(r, 1, d - 1)
  BY BeforeCommentEnd
<1> HIDE DEF e, d
<1>5. StripTrailing(BeforeComment(r)) = StripTrailing(BeforeComment(q))
  <2>1. CASE e = Len(q) + 1
    <3>1. e - 1 = Len(q) /\ d - 1 = Len(r)
      BY <1>2, <1>3, <2>1
    <3>2. BeforeComment(q) = q /\ BeforeComment(r) = r
      BY <1>1, <1>4, <3>1, WholePart
    <3> QED BY <1>1, <3>2, StripLineEnd
  <2>2. CASE e # Len(q) + 1
    <3>1. 1 \in Int /\ e - 1 \in Int /\ 1 <= 1 /\ e - 1 <= Len(q) /\ 1 <= e - 1 + 1 /\ d = e
      BY <1>2, <1>3, <2>2
    <3>2. SubSeq(r, 1, e - 1) = SubSeq(q, 1, e - 1)
      BY <1>1, <1>2, <3>1, PartKept, ZenonT(60)
    <3> QED BY <1>4, <3>1, <3>2
  <2> QED BY <2>1, <2>2
<1> QED BY <1>5, ValueOfIs DEF q, r

\* The end of a last line, or a blank line, changes nothing for a reader.
LEMMA Closing ==
    ASSUME NEW g \in Seq(Tokens), NEW f \in Seq(Tokens), IsJoin(g, f, <<nl>>)
    PROVE  Same(g, f, {})
<1> DEFINE F == Len(f)
<1>1. F \in Nat /\ Len(g) = F + 1 /\ g[F + 1] = nl /\ Extends(g, f) /\ \A i \in 1..F : g[i] = f[i]
  BY ExtendsIs
<1>2. ASSUME NEW t \in Names
      PROVE  LinesWith(g, t) = LinesWith(f, t)
  <2>1. /\ LinesWith(f, t) \subseteq LinesWith(g, t)
        /\ \A p \in LinesWith(g, t) : p <= F => p \in LinesWith(f, t)
        /\ LinesWith(g, t) \subseteq 1..Len(g)
    BY <1>1, LinesKept
  <2>2. ASSUME NEW p \in LinesWith(g, t)
        PROVE  p <= F
    <3>1. g[p] = t /\ p \in 1..Len(g)
      BY <2>1 DEF LinesWith
    <3>2. p # F + 1
      BY <1>1, <3>1, NamesAreNames
    <3> QED BY <1>1, <3>1, <3>2
  <2> QED BY <2>1, <2>2
<1>3. ASSUME NEW h \in Headers, NEW k \in Keys
      PROVE  Candidates(g, h, k) = Candidates(f, h, k)
  <2>1. Candidates(g, h, k) \subseteq LinesWith(g, k) /\ Candidates(f, h, k) \subseteq LinesWith(f, k)
        /\ LinesWith(g, k) = LinesWith(f, k) /\ LinesWith(f, k) \subseteq 1..F
    BY <1>1, <1>2, CandidatesIn, LinesKept DEF Names
  <2>2. \A p \in 1..F : p \in Candidates(g, h, k) <=> p \in Candidates(f, h, k)
    BY <1>1, CandidatesKept
  <2> QED BY <2>1, <2>2
<1>4. ASSUME NEW h \in Headers
      PROVE  Within(g, h) <=> Within(f, h)
  <2>1. ASSUME NEW s \in 1..F
        PROVE  /\ FirstOf(g, h, s) <=> FirstOf(f, h, s)
               /\ NoHeader(g, s + 1, Len(g)) <=> NoHeader(f, s + 1, F)
    <3>1. FirstOf(g, h, s) <=> FirstOf(f, h, s)
      BY <1>1, FirstKept
    <3>2. NoHeader(g, s + 1, F) <=> NoHeader(f, s + 1, F)
      <4>1. s + 1 \in Nat \ {0} /\ F \in Int /\ F <= F
        BY <1>1
      <4> QED BY <1>1, <4>1, NoHeaderKept
    <3>3. NoHeader(g, s + 1, Len(g)) <=> NoHeader(g, s + 1, F)
      <4>1. \A q \in s + 1..Len(g) : q \in s + 1..F \/ q = F + 1
        BY <1>1
      <4>2. \A q \in s + 1..F : q \in s + 1..Len(g)
        BY <1>1
      <4>3. g[F + 1] \notin Headers
        BY <1>1, NamesAreNames DEF Names
      <4> QED BY <4>1, <4>2, <4>3 DEF NoHeader
    <3> QED BY <3>1, <3>2, <3>3
  <2>2. ASSUME NEW s, FirstOf(g, h, s) \/ FirstOf(f, h, s)
        PROVE  s \in 1..F
    <3>1. LinesWith(g, h) = LinesWith(f, h) /\ LinesWith(f, h) \subseteq 1..F
      BY <1>1, <1>2, LinesKept DEF Names
    <3> QED BY <2>2, <3>1 DEF FirstOf
  <2>3. \A s \in 1..F : s \in DOMAIN f /\ s \in DOMAIN g
    BY <1>1
  <2> QED BY <2>1, <2>2, <2>3 DEF Within
<1>5. ASSUME NEW h \in Headers, NEW k \in Keys, Has(f, h, k)
      PROVE  Get(g, h, k) = Get(f, h, k)
  <2>1. PICK p \in Candidates(f, h, k) :
             /\ \A q \in Candidates(f, h, k) : p <= q
             /\ Get(f, h, k) = ValueOf(SubSeq(f, p + 1, EndOfLine(f, p)))
    BY <1>5, GetIs
  <2>2. Get(g, h, k) = ValueOf(SubSeq(g, p + 1, EndOfLine(g, p)))
    BY <1>3, <2>1, GetOfFirst
  <2>3. p \in 1..F /\ p \in DOMAIN f /\ p \in DOMAIN g
    BY <1>1, CandidatesIn
  <2> DEFINE e == EndOfLine(f, p)
  <2>4. e \in p..F /\ (e = F \/ f[e] = nl) /\ \A i \in p..e - 1 : f[i] # nl
    BY <2>3, EndOfLineIs
  <2>5. CASE f[e] = nl
    <3>1. SubSeq(g, p + 1, EndOfLine(g, p)) = SubSeq(f, p + 1, EndOfLine(f, p))
      BY <1>1, <2>3, <2>5, EndOfLineKept
    <3> QED BY <2>1, <2>2, <3>1
  <2>6. CASE f[e] # nl
    <3>1. e = F
      BY <2>4, <2>6
    <3>2. EndOfLine(g, p) = F + 1
      <4> DEFINE d == EndOfLine(g, p)
      <4>1. d \in p..Len(g) /\ (d = Len(g) \/ g[d] = nl)
        BY <2>3, EndOfLineIs
      <4> HIDE DEF d, e
      <4>2. d # F
        <5>1. g[F] = f[F] /\ Len(g) # F
          BY <1>1, <2>3
        <5> QED BY <2>6, <3>1, <4>1, <5>1
      <4>3. ~(d < F)
        <5>1. SUFFICES ASSUME d < F
                       PROVE  FALSE
          OBVIOUS
        <5>2. d \in p..e - 1 /\ d \in 1..F /\ d # Len(g)
          BY <1>1, <2>3, <3>1, <4>1, <5>1
        <5> QED BY <1>1, <2>4, <4>1, <5>2
      <4>4. d = F + 1
        BY <1>1, <2>3, <4>1, <4>2, <4>3
      <4> QED BY <4>4 DEF d
    <3> DEFINE s == SubSeq(f, p + 1, F)
    <3> DEFINE u == SubSeq(g, p + 1, F + 1)
    <3>3. p + 1 \in Int /\ F \in Int /\ 1 <= p + 1 /\ F <= Len(f) /\ p + 1 <= F + 1
      BY <1>1, <2>3
    <3>4. s \in Seq(Tokens) /\ Len(s) = F - (p + 1) + 1
          /\ \A i \in 1..F - (p + 1) + 1 : s[i] = f[p + 1 + i - 1]
      BY <3>3, PartTyped
    <3>5. F + 1 \in Int /\ F + 1 <= Len(g) /\ p + 1 <= F + 1 + 1
      BY <1>1, <3>3
    <3>6. u \in Seq(Tokens) /\ Len(u) = F + 1 - (p + 1) + 1
          /\ \A i \in 1..F + 1 - (p + 1) + 1 : u[i] = g[p + 1 + i - 1]
      BY <3>3, <3>5, PartTyped
    <3> HIDE DEF s, u, e, F
    <3>7. Len(u) = Len(s) + 1 /\ Len(s) \in Nat
      BY <1>1, <2>3, <3>4, <3>6
    <3>8. ASSUME NEW i \in 1..Len(s)
          PROVE  u[i] = s[i]
      <4>1. i \in Int /\ 1 <= i /\ i <= Len(s) /\ Len(s) = F - (p + 1) + 1
        BY <3>4, <3>7
      <4>2. p \in Int /\ 1 <= p /\ F \in Int
        BY <1>1, <2>3
      <4>3. i \in 1..F - (p + 1) + 1 /\ i \in 1..F + 1 - (p + 1) + 1 /\ p + 1 + i - 1 \in 1..F
        BY <4>1, <4>2
      <4> QED BY <1>1, <3>4, <3>6, <4>3
    <3>9. u[Len(s) + 1] = nl
      <4>1. Len(s) + 1 \in 1..F + 1 - (p + 1) + 1 /\ p + 1 + (Len(s) + 1) - 1 = F + 1
        BY <1>1, <2>3, <3>4
      <4> QED BY <1>1, <3>6, <4>1
    <3>10. IsJoin(u, s, <<nl>>)
      <4>1. Len(<<nl>>) = 1 /\ <<nl>>[1] = nl
        OBVIOUS
      <4>2. \A i \in 1..Len(<<nl>>) : i = 1
        BY <4>1
      <4> QED BY <3>7, <3>8, <3>9, <4>1, <4>2 DEF IsJoin
    <3>11. ValueOf(u) = ValueOf(s)
      BY <3>4, <3>6, <3>10, ValueClosed
    <3> QED BY <2>1, <2>2, <3>1, <3>2, <3>11 DEF s, u, e
  <2> QED BY <2>5, <2>6
<1>6. ASSUME NEW h \in Headers, NEW k \in Keys
      PROVE  (Has(g, h, k) <=> Has(f, h, k)) /\ Get(g, h, k) = Get(f, h, k)
  <2>1. Has(g, h, k) <=> Has(f, h, k)
    BY <1>3 DEF Has
  <2> QED BY <1>5, <2>1, GetOfNone
<1>7. ASSUME NEW h \in Headers
      PROVE  Sect(g, h) <=> Sect(f, h)
  BY <1>2 DEF Sect, Names
<1> QED BY <1>4, <1>6, <1>7 DEF Same

\* The first line of the entry is the last of f, and has no end.
InCut(f, h, k, p) ==
    p \in Candidates(f, h, k) /\ f[EndOfLine(f, p)] # nl

\* A line belongs to one entry.
LEMMA OneEntry ==
    ASSUME NEW f \in Seq(Tokens), NEW h \in Headers, NEW i \in Headers, NEW k \in Keys, NEW l \in Keys,
           NEW p, InCut(f, h, k, p), NEW q, InCut(f, i, l, q)
    PROVE  h = i /\ k = l
<1>1. p \in LinesWith(f, k) /\ q \in LinesWith(f, l) /\ LinesWith(f, k) \subseteq 1..Len(f)
      /\ LinesWith(f, l) \subseteq 1..Len(f) /\ Len(f) \in Nat
  <2>1. p \in LinesWith(f, k) /\ q \in LinesWith(f, l)
    BY CandidatesIn DEF InCut
  <2> QED BY <2>1 DEF LinesWith
<1>2. f[p] = k /\ Starts(f, p) /\ f[q] = l /\ Starts(f, q) /\ p \in 1..Len(f) /\ q \in 1..Len(f)
  BY <1>1 DEF LinesWith
<1>3. ASSUME NEW r \in 1..Len(f), f[EndOfLine(f, r)] # nl
      PROVE  \A j \in r..Len(f) : f[j] # nl
  <2>1. r \in DOMAIN f
    OBVIOUS
  <2>2. /\ EndOfLine(f, r) \in r..Len(f)
        /\ EndOfLine(f, r) = Len(f) \/ f[EndOfLine(f, r)] = nl
        /\ \A j \in r..EndOfLine(f, r) - 1 : f[j] # nl
    BY <2>1, EndOfLineIs
  <2>3. EndOfLine(f, r) = Len(f)
    BY <1>3, <2>2
  <2>4. ASSUME NEW j \in r..Len(f)
        PROVE  f[j] # nl
    <3>1. j = Len(f) \/ j \in r..Len(f) - 1
      BY <1>1
    <3> QED BY <1>3, <2>2, <2>3, <3>1
  <2> QED BY <2>4
<1>4. ASSUME NEW r \in 1..Len(f), NEW t \in 1..Len(f), r < t, Starts(f, t), f[r] # blank,
             \A j \in r..Len(f) : f[j] # nl
      PROVE  FALSE
  <2>1. t # 1 /\ t - 1 \in r..Len(f)
    BY <1>1, <1>4
  <2>2. PICK b \in 1..t - 1 : (b = 1 \/ f[b - 1] = nl) /\ \A j \in b..t - 1 : f[j] = blank
    BY <1>4, <2>1 DEF Starts
  <2>3. b <= r
    <3>1. SUFFICES ASSUME r < b
                   PROVE  FALSE
      BY <1>1, <2>2
    <3>2. b - 1 \in r..Len(f) /\ b # 1
      BY <1>1, <2>2, <3>1
    <3> QED BY <1>4, <2>2, <3>2
  <2>4. r \in b..t - 1
    BY <1>1, <1>4, <2>3
  <2> QED BY <1>4, <2>2, <2>4
<1>5. k # blank /\ l # blank
  BY NamesAreNames DEF Names
<1>6. (\A j \in p..Len(f) : f[j] # nl) /\ (\A j \in q..Len(f) : f[j] # nl)
  BY <1>2, <1>3 DEF InCut
<1>7. p = q
  <2>1. ~(p < q)
    BY <1>2, <1>4, <1>5, <1>6
  <2>2. ~(q < p)
    BY <1>2, <1>4, <1>5, <1>6
  <2> QED BY <1>2, <2>1, <2>2
<1>8. PICK s \in DOMAIN f : FirstOf(f, h, s) /\ s < p /\ NoHeader(f, s + 1, p - 1)
  BY CandidateIs DEF InCut
<1>9. PICK t \in DOMAIN f : FirstOf(f, i, t) /\ t < q /\ NoHeader(f, t + 1, q - 1)
  BY CandidateIs DEF InCut
<1>10. f[s] = h /\ Starts(f, s) /\ f[t] = i /\ Starts(f, t)
  BY <1>8, <1>9 DEF FirstOf, LinesWith
<1>11. s \in 1..Len(f) /\ t \in 1..Len(f)
  OBVIOUS
<1>12. ~(s < t)
  <2>1. s < t => t \in s + 1..p - 1
    BY <1>2, <1>7, <1>9, <1>11
  <2> QED BY <1>8, <1>10, <2>1 DEF NoHeader
<1>13. ~(t < s)
  <2>1. t < s => s \in t + 1..q - 1
    BY <1>2, <1>7, <1>8, <1>11
  <2> QED BY <1>9, <1>10, <2>1 DEF NoHeader
<1>14. s = t
  BY <1>11, <1>12, <1>13
<1> QED BY <1>2, <1>7, <1>10, <1>14

\* Of a file that is cut off somewhere, a reader finds an entry as it was or not
\* at all, but for one, in whose line the cut is.
LEMMA CutEntry ==
    ASSUME NEW d \in Seq(Tokens), NEW f \in Seq(Tokens), Extends(d, f), NEW some \in Headers \X Keys
    PROVE  \E cut \in Headers \X Keys : \A h \in Headers, k \in Keys :
             <<h, k>> # cut => Get(f, h, k) \in {Get(d, h, k), Absent}
<1>1. ASSUME NEW h \in Headers, NEW k \in Keys, \A p : ~InCut(f, h, k, p)
      PROVE  Get(f, h, k) \in {Get(d, h, k), Absent}
  <2>1. CASE ~Has(f, h, k)
    BY <2>1, GetOfNone
  <2>2. CASE Has(f, h, k)
    <3>1. PICK p \in Candidates(f, h, k) :
             /\ \A q \in Candidates(f, h, k) : p <= q
             /\ Get(f, h, k) = ValueOf(SubSeq(f, p + 1, EndOfLine(f, p)))
      BY <2>2, GetIs
    <3>2. p \in 1..Len(f) /\ Len(f) \in Nat /\ Candidates(d, h, k) \subseteq 1..Len(d) /\ Len(d) \in Nat
      BY CandidatesIn
    <3>3. p \in Candidates(d, h, k)
      BY <3>2, CandidatesKept
    <3>4. ASSUME NEW q \in Candidates(d, h, k)
          PROVE  p <= q
      <4>1. CASE q <= Len(f)
        <5>1. q \in 1..Len(f)
          BY <3>2, <4>1
        <5>2. q \in Candidates(f, h, k)
          BY <5>1, CandidatesKept
        <5> QED BY <3>1, <5>2
      <4>2. CASE ~(q <= Len(f))
        BY <3>2, <4>2
      <4> QED BY <4>1, <4>2
    <3>5. f[EndOfLine(f, p)] = nl
      BY <1>1 DEF InCut
    <3>6. SubSeq(d, p + 1, EndOfLine(d, p)) = SubSeq(f, p + 1, EndOfLine(f, p))
      BY <3>2, <3>5, EndOfLineKept
    <3>7. Get(d, h, k) = ValueOf(SubSeq(d, p + 1, EndOfLine(d, p)))
      BY <3>3, <3>4, GetOfFirst
    <3> QED BY <3>1, <3>6, <3>7
  <2> QED BY <2>1, <2>2
<1>2. CASE \E h \in Headers, k \in Keys : \E p : InCut(f, h, k, p)
  <2>1. PICK i \in Headers, l \in Keys : \E p : InCut(f, i, l, p)
    BY <1>2
  <2>2. PICK q : InCut(f, i, l, q)
    BY <2>1
  <2>3. ASSUME NEW h \in Headers, NEW k \in Keys, <<h, k>> # <<i, l>>
        PROVE  Get(f, h, k) \in {Get(d, h, k), Absent}
    <3>1. ASSUME NEW p, InCut(f, h, k, p)
          PROVE  FALSE
      BY <2>2, <2>3, <3>1, OneEntry
    <3> QED BY <1>1, <3>1
  <2>4. <<i, l>> \in Headers \X Keys
    OBVIOUS
  <2> QED BY <2>3, <2>4
<1>3. CASE ~\E h \in Headers, k \in Keys : \E p : InCut(f, h, k, p)
  BY <1>1, <1>3
<1> QED BY <1>2, <1>3

-----------------------------------------------------------------------------
(* The invariant of ini_puts.                                               *)

\* A piece that is still to be written.
Piece(o, i) == IF i \in DOMAIN o THEN o[i] ELSE <<>>

\* The pieces that are still to be written, at most four, as one.
Flat(o) == Piece(o, 1) \o (Piece(o, 2) \o (Piece(o, 3) \o Piece(o, 4)))

\* What an earlier put has left lies behind what this one has written.
Left == IF pc \in Rewriting THEN Len(temp) # wpos - 1 ELSE temp # Absent

\* One fault at most: either a card was full, or a read of a copy failed, or a put
\* was cut off.
FaultInv ==
    /\ full => faults = MaxFaults
    /\ interrupted => faults = MaxFaults /\ ~full
    /\ short => faults = MaxFaults /\ ~full /\ ~interrupted
    /\ pc = "open" => ~full /\ ~short
    /\ pc \in {"idle", "open"} => rpos = 1

\* A last line without an end and something behind it never come together.
WholeInv ==
    /\ pc # "rename" /\ (faults < MaxFaults \/ Left) => file = Absent \/ Closed(file)
    /\ pc # "rename" /\ Left => interrupted
    /\ pc = "rename" => file = Absent /\ (faults < MaxFaults => Closed(temp))

\* The file that a put makes when there is none.
SectionLine == <<Slide, nl>>

NewFile(k, v) == SectionLine \o LineOf(k, v)

\* A new file is what was written of it.
CreateInv ==
    pc = "create" =>
        /\ wpos = Len(file) + 1
        /\ full => Extends(NewFile(arg[1], arg[2]), file)
        /\ ~full => \/ file = <<>> /\ out = <<SectionLine, LineOf(arg[1], arg[2])>>
                    \/ file = SectionLine /\ out = <<LineOf(arg[1], arg[2])>>
                    \/ file = NewFile(arg[1], arg[2]) /\ out = <<>>

\* The part of the file that has been read.
Past == SubSeq(file, 1, rpos - 1)

\* d is what the temporary file holds once everything is written, or would hold
\* if the card were not full.
Draft(d) ==
    IF full THEN Extends(d, temp) ELSE Len(out) <= 4 /\ d = SubSeq(temp, 1, wpos - 1) \o Flat(out)

\* What has to be in it in each loop.
Progress(a, d) ==
    /\ pc = "section" => Same(a, d, {}) /\ ~Sect(a, Slide)
    /\ pc = "key" => Same(a, d, {}) /\ Within(a, Slide) /\ ~Has(a, Slide, arg[1])
    /\ pc = "rest" => /\ Same(a, d, {<<Slide, arg[1]>>})
                      /\ Has(d, Slide, arg[1]) /\ Get(d, Slide, arg[1]) = arg[2]
    /\ pc = "remove" => \A h \in Headers, k \in Keys :
            Get(d, h, k) = IF <<h, k>> = <<Slide, arg[1]>> THEN arg[2] ELSE Get(a, h, k)

\* The loops of the rewriting: the temporary file holds, or will hold, what has
\* been read of the file, with what the put changes of it.
CopyInv ==
    pc \in Rewriting =>
        /\ rpos <= Len(file) + 1
        /\ pc = "remove" /\ ~short => rpos = Len(file) + 1
        /\ ~AtEnd => Closed(Past)
        /\ \E d \in Seq(Tokens) : Draft(d) /\ (Closed(Past) => Closed(d)) /\ Progress(Past, d)

\* The inductive invariant.
PutInv == TypeInv /\ FaultInv /\ WholeInv /\ CreateInv /\ CopyInv

LEMMA FlatNone == Flat(<<>>) = <<>>
<1>1. /\ Piece(<<>>, 1) = <<>> /\ Piece(<<>>, 2) = <<>> /\ Piece(<<>>, 3) = <<>> /\ Piece(<<>>, 4) = <<>>
  BY DEF Piece
<1> QED BY <1>1 DEF Flat

LEMMA Flat1 ==
    ASSUME NEW a \in Seq(Tokens)
    PROVE  Flat(<<a>>) = a
<1>1. a \o <<>> = a /\ <<>> \o <<>> = <<>>
  OBVIOUS
<1>2. /\ Piece(<<a>>, 1) = a /\ Piece(<<a>>, 2) = <<>> /\ Piece(<<a>>, 3) = <<>> /\ Piece(<<a>>, 4) = <<>>
  BY DEF Piece
<1> QED BY <1>1, <1>2 DEF Flat

LEMMA Flat2 ==
    ASSUME NEW a \in Seq(Tokens), NEW b \in Seq(Tokens)
    PROVE  Flat(<<a, b>>) = a \o b
<1>1. b \o <<>> = b /\ <<>> \o <<>> = <<>>
  OBVIOUS
<1>2. /\ Piece(<<a, b>>, 1) = a /\ Piece(<<a, b>>, 2) = b /\ Piece(<<a, b>>, 3) = <<>>
      /\ Piece(<<a, b>>, 4) = <<>>
  BY DEF Piece
<1> QED BY <1>1, <1>2 DEF Flat

LEMMA Flat3 ==
    ASSUME NEW a \in Seq(Tokens), NEW b \in Seq(Tokens), NEW c \in Seq(Tokens)
    PROVE  Flat(<<a, b, c>>) = a \o (b \o c)
<1>1. c \o <<>> = c
  OBVIOUS
<1>2. /\ Piece(<<a, b, c>>, 1) = a /\ Piece(<<a, b, c>>, 2) = b /\ Piece(<<a, b, c>>, 3) = c
      /\ Piece(<<a, b, c>>, 4) = <<>>
  BY DEF Piece
<1> QED BY <1>1, <1>2 DEF Flat

\* What four pieces are as one.
Chain(o, a, b, c, e) == Flat(o) = a \o (b \o (c \o e))

LEMMA Flat4 ==
    ASSUME NEW a \in Seq(Tokens), NEW b \in Seq(Tokens), NEW c \in Seq(Tokens), NEW e \in Seq(Tokens)
    PROVE  Chain(<<a, b, c, e>>, a, b, c, e)
<1>1. /\ Piece(<<a, b, c, e>>, 1) = a /\ Piece(<<a, b, c, e>>, 2) = b
      /\ Piece(<<a, b, c, e>>, 3) = c /\ Piece(<<a, b, c, e>>, 4) = e
  BY DEF Piece
<1> QED BY <1>1 DEF Flat, Chain

LEMMA FlatTyped ==
    ASSUME NEW o \in Seq(Seq(Tokens))
    PROVE  Flat(o) \in Seq(Tokens)
<1>1. ASSUME NEW i
      PROVE  Piece(o, i) \in Seq(Tokens)
  <2>1. <<>> \in Seq(Tokens)
    OBVIOUS
  <2> QED BY <2>1 DEF Piece
<1>2. ASSUME NEW a \in Seq(Tokens), NEW b \in Seq(Tokens)
      PROVE  a \o b \in Seq(Tokens)
  BY ConcatProperties
<1> QED BY <1>1, <1>2 DEF Flat

LEMMA FlatHead ==
    ASSUME NEW o \in Seq(Seq(Tokens)), o # <<>>, Len(o) <= 4
    PROVE  /\ Flat(o) = Head(o) \o Flat(Tail(o))
           /\ Head(o) \in Seq(Tokens) /\ Tail(o) \in Seq(Seq(Tokens)) /\ Flat(Tail(o)) \in Seq(Tokens)
           /\ Len(Tail(o)) <= 4
<1> DEFINE t == Tail(o)
<1>1. t \in Seq(Seq(Tokens)) /\ Head(o) \in Seq(Tokens) /\ Len(t) = Len(o) - 1 /\ Len(o) \in Nat
      /\ Head(o) = o[1] /\ \A i \in 1..Len(o) - 1 : t[i] = o[i + 1]
  OBVIOUS
<1> HIDE DEF t
<1>2. ASSUME NEW i \in {1, 2, 3, 4}
      PROVE  Piece(t, i) = Piece(o, i + 1)
  <2>1. DOMAIN t = 1..Len(o) - 1 /\ DOMAIN o = 1..Len(o)
    BY <1>1
  <2>2. i \in DOMAIN t <=> i + 1 \in DOMAIN o
    BY <1>1, <2>1
  <2>3. i \in DOMAIN t => t[i] = o[i + 1]
    BY <1>1, <2>1
  <2> QED BY <2>2, <2>3 DEF Piece
<1>3. Piece(o, 5) = <<>> /\ Piece(o, 1) = Head(o)
  <2>1. 5 \notin DOMAIN o /\ 1 \in DOMAIN o
    <3>1. Len(o) # 0
      OBVIOUS
    <3> QED BY <1>1, <3>1
  <2> QED BY <1>1, <2>1 DEF Piece
<1>4. Piece(t, 1) = Piece(o, 2) /\ Piece(t, 2) = Piece(o, 3) /\ Piece(t, 3) = Piece(o, 4)
      /\ Piece(t, 4) = <<>>
  <2>1. 1 + 1 = 2 /\ 2 + 1 = 3 /\ 3 + 1 = 4 /\ 4 + 1 = 5
    OBVIOUS
  <2> QED BY <1>2, <1>3, <2>1
<1>5. Piece(o, 4) \o <<>> = Piece(o, 4)
  <2>1. Piece(o, 4) \in Seq(Tokens)
    BY DEF Piece
  <2> QED BY <2>1
<1>6. Flat(o) = Head(o) \o Flat(t)
  BY <1>3, <1>4, <1>5 DEF Flat
<1>7. Flat(t) \in Seq(Tokens)
  BY <1>1, FlatTyped
<1>8. Len(t) <= 4
  BY <1>1
<1> QED BY <1>1, <1>6, <1>7, <1>8 DEF t

\* What the loops have in common: a line is read.
LEMMA LineRead ==
    ASSUME TypeInv, pc \in Rewriting, Advance, rpos <= Len(file) + 1, Closed(Past)
    PROVE  /\ AddsLine(Past', Past, Line(file, rpos))
           /\ rpos' <= Len(file') + 1
           /\ AtEnd' \/ Closed(Past')
           /\ Read = SkipLeading(Line(file, rpos))
           /\ Effect(Past', Past, Read)
<1> DEFINE L == Line(file, rpos)
<1> DEFINE e == EndOfLine(file, rpos)
<1>1. file \in Seq(Tokens) /\ rpos \in Nat \ {0} /\ rpos \in DOMAIN file /\ Len(file) \in Nat /\ file' = file
  <2>1. file \in Seq(Tokens) /\ file' = file
    BY DEF TypeInv, Advance, disk
  <2> QED BY <2>1, AdvanceTyped DEF TypeInv, TypeOK
<1>2. /\ L \in Seq(Tokens) /\ Len(L) = e - rpos + 1
      /\ \A i \in 1..Len(L) : L[i] = file[rpos + i - 1]
  BY <1>1, LineIs
<1>3. e \in rpos..Len(file) /\ (e = Len(file) \/ file[e] = nl) /\ \A i \in rpos..e - 1 : file[i] # nl
  BY <1>1, EndOfLineIs
<1>4. rpos' = rpos + Len(L)
  BY DEF Advance
<1> HIDE DEF L, e
<1>5. rpos' = e + 1 /\ rpos' - 1 = e /\ rpos - 1 \in Nat /\ rpos - 1 <= Len(file)
  BY <1>1, <1>2, <1>3, <1>4
<1> DEFINE a == Past
<1> DEFINE b == SubSeq(file, 1, e)
<1>6. a \in Seq(Tokens) /\ Len(a) = rpos - 1 /\ \A i \in 1..rpos - 1 : a[i] = file[i]
  <2>1. 1 \in Int /\ rpos - 1 \in Int /\ 1 <= 1 /\ rpos - 1 <= Len(file) /\ 1 <= rpos - 1 + 1
    BY <1>1, <1>5
  <2>2. /\ SubSeq(file, 1, rpos - 1) \in Seq(Tokens)
        /\ Len(SubSeq(file, 1, rpos - 1)) = rpos - 1 - 1 + 1
        /\ \A i \in 1..rpos - 1 - 1 + 1 : SubSeq(file, 1, rpos - 1)[i] = file[1 + i - 1]
    BY <1>1, <2>1, PartTyped
  <2>3. rpos - 1 - 1 + 1 = rpos - 1 /\ \A i \in 1..rpos - 1 : 1 + i - 1 = i
    BY <1>1
  <2> QED BY <2>2, <2>3 DEF Past
<1>7. b \in Seq(Tokens) /\ Len(b) = e /\ \A i \in 1..e : b[i] = file[i]
  <2>1. 1 \in Int /\ e \in Int /\ 1 <= 1 /\ e <= Len(file) /\ 1 <= e + 1
    BY <1>1, <1>3
  <2>2. /\ SubSeq(file, 1, e) \in Seq(Tokens)
        /\ Len(SubSeq(file, 1, e)) = e - 1 + 1
        /\ \A i \in 1..e - 1 + 1 : SubSeq(file, 1, e)[i] = file[1 + i - 1]
    BY <1>1, <2>1, PartTyped
  <2>3. e - 1 + 1 = e /\ \A i \in 1..e : 1 + i - 1 = i
    BY <1>1, <1>3
  <2> QED BY <2>2, <2>3
<1>8. Past' = b
  BY <1>1, <1>5 DEF Past
<1> HIDE DEF a, b
<1>9. IsJoin(b, a, L)
  <2>1. Len(b) = Len(a) + Len(L)
    BY <1>1, <1>2, <1>3, <1>6, <1>7
  <2>2. ASSUME NEW i \in 1..Len(a)
        PROVE  b[i] = a[i]
    <3>1. i \in 1..rpos - 1 /\ i \in 1..e
      BY <1>1, <1>3, <1>6
    <3> QED BY <1>6, <1>7, <3>1
  <2>3. ASSUME NEW i \in 1..Len(L)
        PROVE  b[Len(a) + i] = L[i]
    <3>1. Len(a) + i = rpos + i - 1 /\ Len(a) + i \in 1..e
      BY <1>1, <1>2, <1>3, <1>6
    <3> QED BY <1>2, <1>7, <3>1
  <2> QED BY <2>1, <2>2, <2>3 DEF IsJoin
<1>10. IsLine(L)
  <2>1. Len(L) # 0
    BY <1>1, <1>2, <1>3
  <2>2. ASSUME NEW i \in 1..Len(L) - 1
        PROVE  L[i] # nl
    <3>1. i \in 1..Len(L) /\ rpos + i - 1 \in rpos..e - 1
      BY <1>1, <1>2, <1>3
    <3> QED BY <1>2, <1>3, <3>1
  <2> QED BY <1>2, <2>1, <2>2 DEF IsLine
<1>11. AddsLine(b, a, L)
  BY <1>2, <1>6, <1>7, <1>9, <1>10 DEF AddsLine, a
<1>12. rpos' <= Len(file') + 1
  BY <1>1, <1>3, <1>5
<1>13. AtEnd' \/ Closed(b)
  <2>1. CASE e = Len(file)
    BY <1>1, <1>5, <2>1 DEF AtEnd
  <2>2. CASE file[e] = nl
    <3>1. b[Len(b)] = nl
      BY <1>1, <1>3, <1>7, <2>2
    <3> QED BY <3>1 DEF Closed
  <2> QED BY <1>3, <2>1, <2>2
<1>14. Read = SkipLeading(L)
  BY DEF Read, L
<1>15. Effect(b, a, Read)
  BY <1>11, <1>14, EffectOfLine
<1> QED BY <1>8, <1>11, <1>12, <1>13, <1>14, <1>15 DEF a, L

\* What is left of a line when its first blanks are skipped is a line.
LEMMA RestOfLine ==
    ASSUME NEW L \in Seq(Tokens), IsLine(L), NEW R, R = SkipLeading(L)
    PROVE  /\ R \in Seq(Tokens)
           /\ R # <<>> => IsLine(R) /\ R[1] # blank /\ SkipLeading(R) = R /\ R[Len(R)] = L[Len(L)]
           /\ R = <<>> => L[Len(L)] = blank
<1>1. PICK c \in 0..Len(L) : Skips(L, c)
  BY SkipLeadingIs
<1>2. R \in Seq(Tokens) /\ Len(L) \in Nat /\ Len(R) \in Nat /\ Len(L) # 0
  BY SkipLeadingIs DEF IsLine
<1>3. /\ \A i \in 1..c : L[i] = blank
      /\ c < Len(L) => L[c + 1] # blank
      /\ Len(R) = Len(L) - c
      /\ \A i \in 1..Len(L) - c : R[i] = L[c + i]
  BY <1>1 DEF Skips
<1>4. ASSUME R # <<>>
      PROVE  IsLine(R) /\ R[1] # blank /\ R[Len(R)] = L[Len(L)]
  <2>1. Len(R) # 0
    BY <1>2, <1>4
  <2>2. 1 \in 1..Len(L) - c /\ c < Len(L) /\ Len(R) \in 1..Len(L) - c /\ c + Len(R) = Len(L)
    BY <1>2, <1>3, <2>1
  <2>3. ASSUME NEW i \in 1..Len(R) - 1
        PROVE  R[i] # nl
    <3>1. i \in 1..Len(L) - c /\ c + i \in 1..Len(L) - 1
      BY <1>2, <1>3
    <3> QED BY <1>3, <3>1 DEF IsLine
  <2>4. R[1] = L[c + 1] /\ R[Len(R)] = L[Len(L)]
    BY <1>3, <2>2
  <2> QED BY <1>3, <1>4, <2>2, <2>3, <2>4 DEF IsLine
<1>5. ASSUME R = <<>>
      PROVE  L[Len(L)] = blank
  <2>1. c = Len(L)
    BY <1>2, <1>3, <1>5
  <2> QED BY <1>2, <1>3, <2>1
<1>6. R # <<>> => SkipLeading(R) = R
  BY <1>2, <1>4, SkipNothing
<1> QED BY <1>2, <1>4, <1>5, <1>6

\* The groups of three pieces make no difference.
Associate(x, y, z) == x \o (y \o z) = (x \o y) \o z

LEMMA Regroup ==
    ASSUME NEW x \in Seq(Tokens), NEW y \in Seq(Tokens), NEW z \in Seq(Tokens)
    PROVE  Associate(x, y, z)
<1>1. x \o (y \o z) = (x \o y) \o z
  BY ConcatAssociative, SMTT(30)
<1> QED BY <1>1 DEF Associate

\* The pieces of the put after d are f and then the rest.
Pasted(f, d, p, q, n, m, R) == d \o Flat(<<p, q, m, R>>) = f \o R

LEMMA Pieces ==
    ASSUME NEW d \in Seq(Tokens), NEW p \in Seq(Tokens), NEW q \in Seq(Tokens), NEW n \in Seq(Tokens),
           NEW R \in Seq(Tokens), NEW m \in Seq(Tokens), m = n \o n,
           NEW f, f = (d \o (p \o (q \o n))) \o n
    PROVE  Pasted(f, d, p, q, n, m, R)
<1> DEFINE y == q \o n
<1> DEFINE x == p \o y
<1> DEFINE w == n \o R
<1> DEFINE e == d \o x
<1>1. y \in Seq(Tokens) /\ x \in Seq(Tokens) /\ w \in Seq(Tokens) /\ e \in Seq(Tokens)
  BY ConcatProperties
<1>2. Flat(<<p, q, m, R>>) = p \o (q \o (m \o R))
  <2>1. Chain(<<p, q, m, R>>, p, q, m, R)
    BY Flat4, Zenon
  <2> QED BY <2>1 DEF Chain
<1> HIDE DEF x, y, w, e
<1>3. Associate(n, n, R)
  BY Regroup, Zenon
<1>4. Associate(q, n, w)
  BY <1>1, Regroup, Zenon
<1>5. Associate(p, y, w)
  BY <1>1, Regroup, Zenon
<1>6. Associate(d, x, w)
  BY <1>1, Regroup, Zenon
<1>7. Associate(e, n, R)
  BY <1>1, Regroup, Zenon
<1>8. m \o R = n \o w
  BY <1>3 DEF Associate, w
<1>9. q \o (m \o R) = y \o w
  BY <1>4, <1>8 DEF Associate, y
<1>10. Flat(<<p, q, m, R>>) = x \o w
  BY <1>2, <1>5, <1>9 DEF Associate, x
<1>11. d \o Flat(<<p, q, m, R>>) = e \o w
  BY <1>6, <1>10 DEF Associate, e
<1>12. e \o w = (e \o n) \o R
  BY <1>7 DEF Associate, w
<1> QED BY <1>11, <1>12, Zenon DEF e, x, y, Pasted

LEMMA TwoEnds == <<nl, nl>> = <<nl>> \o <<nl>>
<1>1. ASSUME NEW c
      PROVE  <<c, c>> = <<c>> \o <<c>>
  OBVIOUS
<1> QED BY <1>1, Zenon

LEMMA AddOne ==
    ASSUME NEW f \in Seq(Tokens), Closed(f), NEW R \in Seq(Tokens), IsLine(R), SkipLeading(R) = R,
           NEW g, g = f \o R
    PROVE  /\ g \in Seq(Tokens) /\ Effect(g, f, R) /\ Extends(g, f)
           /\ R[Len(R)] = nl => Closed(g)
<1>1. g \in Seq(Tokens) /\ IsJoin(g, f, R)
  BY JoinedIs
<1>2. Effect(g, f, R)
  <2>1. AddsLine(g, f, R)
    BY <1>1 DEF AddsLine
  <2> QED BY <2>1, EffectOfLine
<1>3. Extends(g, f)
  BY <1>1, ExtendsJoin
<1>4. ASSUME R[Len(R)] = nl
      PROVE  Closed(g)
  <2>1. Len(R) # 0 /\ Len(R) \in Nat /\ Len(f) \in Nat
    BY DEF IsLine
  <2>2. Len(R) \in 1..Len(R) /\ Len(g) = Len(f) + Len(R)
    BY <1>1, <2>1 DEF IsJoin
  <2>3. g[Len(g)] = R[Len(R)]
    BY <1>1, <2>2 DEF IsJoin
  <2> QED BY <1>4, <2>3 DEF Closed
<1> QED BY <1>1, <1>2, <1>3, <1>4

LEMMA AddEnd ==
    ASSUME NEW f \in Seq(Tokens), NEW g, g = f \o <<nl>>
    PROVE  g \in Seq(Tokens) /\ Same(g, f, {}) /\ Extends(g, f) /\ Closed(g)
<1>1. <<nl>> \in Seq(Tokens)
  BY MarksAreTokens
<1>2. g \in Seq(Tokens) /\ IsJoin(g, f, <<nl>>)
  BY <1>1, JoinedIs
<1>3. Len(g) = Len(f) + 1 /\ g[Len(f) + 1] = nl /\ Extends(g, f)
  BY <1>2, ExtendsIs
<1>4. Closed(g)
  BY <1>3 DEF Closed
<1> QED BY <1>2, <1>3, <1>4, Closing

\* g is f with the key k in its section h.
KeyAdded(g, f, h, k, v) ==
    /\ g \in Seq(Tokens) /\ Closed(g) /\ Extends(g, f)
    /\ Same(g, f, {<<h, k>>}) /\ Has(g, h, k) /\ Get(g, h, k) = v

LEMMA AddKey ==
    ASSUME NEW f \in Seq(Tokens), Closed(f), NEW h \in Headers, NEW k \in Keys, Within(f, h),
           ~Has(f, h, k), NEW v \in Values, v \in Putable(Tokens), NEW g, g = f \o LineOf(k, v)
    PROVE  KeyAdded(g, f, h, k, v)
<1> DEFINE K == LineOf(k, v)
<1>1. /\ K \in Seq(Tokens) /\ IsLine(K) /\ K[Len(K)] = nl /\ SkipLeading(K) = K /\ Opens(K, {k})
      /\ ValueOf(SubSeq(K, 2, Len(K))) = v
  BY LineOfKey
<1>2. g = f \o K
  OBVIOUS
<1> HIDE DEF K
<1>3. g \in Seq(Tokens) /\ Effect(g, f, K) /\ Extends(g, f) /\ Closed(g)
  BY <1>1, <1>2, AddOne
<1>4. /\ Same(g, f, {<<h, k>>}) /\ Has(g, h, k)
      /\ Get(g, h, k) = ValueOf(SubSeq(K, 2, Len(K)))
  <2>1. KeyRead(g, f, K, h, k)
    BY <1>1, <1>3, KeyInSection
  <2> QED BY <2>1 DEF KeyRead
<1> QED BY <1>1, <1>3, <1>4 DEF KeyAdded

\* A line is copied: a reader cannot tell apart what was read and its copy.
LEMMA CopyStep ==
    ASSUME NEW b, NEW a, NEW L, AddsLine(b, a, L), NEW R, R = SkipLeading(L), NEW apart, NEW E,
           NEW d \in Seq(Tokens), Closed(d), Same(a, d, E), NEW c, c = d \o Flat(Copy(R, apart))
    PROVE  /\ c \in Seq(Tokens) /\ Same(b, c, E) /\ Extends(c, d)
           /\ Closed(b) => Closed(c)
<1>1. L \in Seq(Tokens) /\ IsLine(L) /\ Effect(b, a, R)
  BY EffectOfLine DEF AddsLine
<1>2. /\ R \in Seq(Tokens)
      /\ R # <<>> => IsLine(R) /\ R[1] # blank /\ SkipLeading(R) = R /\ R[Len(R)] = L[Len(L)]
  BY <1>1, RestOfLine
<1>3. Closed(b) => L[Len(L)] = nl
  <2>1. b \in Seq(Tokens) /\ IsJoin(b, a, L) /\ L # <<>> /\ a \in Seq(Tokens)
    BY <1>1 DEF AddsLine, IsLine
  <2>2. Len(L) \in 1..Len(L) /\ Len(a) \in Nat /\ Len(b) = Len(a) + Len(L)
    <3>1. Len(L) # 0 /\ Len(L) \in Nat /\ Len(a) \in Nat
      BY <1>1, <2>1
    <3> QED BY <2>1, <3>1 DEF IsJoin
  <2>3. b[Len(b)] = L[Len(L)] /\ b # <<>>
    <3>1. b[Len(a) + Len(L)] = L[Len(L)]
      BY <2>1, <2>2 DEF IsJoin
    <3>2. Len(b) # 0
      BY <2>2
    <3> QED BY <2>1, <2>2, <3>1, <3>2
  <2> QED BY <2>3 DEF Closed
<1>4. CASE Blank(R)
  <2>1. Flat(Copy(R, apart)) = <<>>
    BY <1>1, <1>4, FlatNone DEF Copy
  <2>2. c = d
    BY <2>1
  <2>3. ~Opens(R, Names)
    BY <1>4 DEF Opens
  <2>4. Same(b, a, E)
    BY <1>1, <2>3, MuteLine, SameButFor
  <2>5. Same(b, d, E)
    BY <2>4, SameTrans
  <2>6. Extends(d, d)
    <3>1. Len(d) \in Nat
      OBVIOUS
    <3> QED BY <3>1 DEF Extends
  <2> QED BY <2>2, <2>5, <2>6
<1>5. CASE ~Blank(R)
  <2>1. R # <<>>
    BY <1>5 DEF Blank
  <2>2. <<nl>> \in Seq(Tokens)
    BY MarksAreTokens
  <2>3. CASE Opens(R, Headers) /\ apart
    <3>1. Flat(Copy(R, apart)) = <<nl>> \o R
      <4>1. Copy(R, apart) = <<<<nl>>, R>>
        BY <1>5, <2>3 DEF Copy
      <4> DEFINE n == <<nl>>
      <4>2. Copy(R, apart) = <<n, R>> /\ n \in Seq(Tokens)
        BY <2>2, <4>1
      <4>3. SUFFICES Flat(Copy(R, apart)) = n \o R
        OBVIOUS
      <4> HIDE DEF n
      <4> QED BY <1>2, <4>2, Flat2
    <3> DEFINE e == d \o <<nl>>
    <3>2. e \in Seq(Tokens) /\ Same(e, d, {}) /\ Extends(e, d) /\ Closed(e)
      BY AddEnd
    <3>3. c = e \o R
      BY <1>2, <2>2, <3>1, ConcatAssociative, SMTT(30)
    <3> HIDE DEF e
    <3>4. c \in Seq(Tokens) /\ Effect(c, e, R) /\ Extends(c, e) /\ (R[Len(R)] = nl => Closed(c))
      BY <1>2, <2>1, <3>2, <3>3, AddOne
    <3>5. Same(a, e, E)
      BY <3>2, SameButFor, SameBack, SameTrans
    <3>6. Same(b, c, E)
      BY <1>1, <3>4, <3>5, SameStep
    <3>7. Extends(c, d)
      <4>1. Len(d) \in Nat /\ Len(e) \in Nat /\ Len(c) \in Nat
        BY <3>2, <3>4
      <4> QED BY <3>2, <3>4, <4>1 DEF Extends
    <3> QED BY <1>2, <1>3, <2>1, <3>4, <3>6, <3>7
  <2>4. CASE ~(Opens(R, Headers) /\ apart)
    <3>1. Flat(Copy(R, apart)) = R
      <4>1. Copy(R, apart) = <<R>>
        BY <1>5, <2>4 DEF Copy
      <4> QED BY <1>2, <4>1, Flat1
    <3>2. c = d \o R
      BY <3>1
    <3>3. c \in Seq(Tokens) /\ Effect(c, d, R) /\ Extends(c, d) /\ (R[Len(R)] = nl => Closed(c))
      BY <1>2, <2>1, <3>2, AddOne
    <3>4. Same(b, c, E)
      BY <1>1, <3>3, SameStep
    <3> QED BY <1>2, <1>3, <2>1, <3>3, <3>4
  <2> QED BY <2>3, <2>4
<1> QED BY <1>4, <1>5

\* c is d with the key k in its section h, in the place of a line that b holds.
KeyMoved(b, c, d, h, k, v) ==
    /\ c \in Seq(Tokens) /\ Extends(c, d) /\ (Closed(b) => Closed(c))
    /\ Same(b, c, {<<h, k>>}) /\ Has(c, h, k) /\ Get(c, h, k) = v

\* The key is put in the place of its line.
LEMMA ReplaceStep ==
    ASSUME NEW b, NEW a, NEW L, AddsLine(b, a, L), NEW R, R = SkipLeading(L),
           NEW h \in Headers, NEW k \in Keys, NEW v \in Values, v \in Putable(Tokens),
           Opens(R, {k}), Within(a, h), ~Has(a, h, k),
           NEW d \in Seq(Tokens), Closed(d), Same(a, d, {}), NEW c, c = d \o LineOf(k, v)
    PROVE  KeyMoved(b, c, d, h, k, v)
<1>1. a \in Seq(Tokens) /\ b \in Seq(Tokens) /\ Effect(b, a, R)
  BY EffectOfLine DEF AddsLine
<1>2. Within(d, h) /\ ~Has(d, h, k)
  <2>1. <<h, k>> \notin {}
    OBVIOUS
  <2> QED BY <2>1 DEF Same
<1>3. c \in Seq(Tokens) /\ Closed(c) /\ Extends(c, d)
      /\ Same(c, d, {<<h, k>>}) /\ Has(c, h, k) /\ Get(c, h, k) = v
  <2>1. KeyAdded(c, d, h, k, v)
    BY <1>2, AddKey
  <2> QED BY <2>1 DEF KeyAdded
<1>4. Same(b, a, {<<h, k>>})
  <2>1. KeyRead(b, a, R, h, k)
    BY <1>1, KeyInSection
  <2> QED BY <2>1 DEF KeyRead
<1>5. Same(a, d, {<<h, k>>}) /\ Same(d, c, {<<h, k>>})
  BY <1>3, SameButFor, SameBack
<1>6. Same(a, c, {<<h, k>>})
  BY <1>5, SameTrans
<1>7. Same(b, c, {<<h, k>>})
  BY <1>4, <1>6, SameTrans
<1> QED BY <1>3, <1>7 DEF KeyMoved

\* The key is put at the end of its section.
LEMMA InsertStep ==
    ASSUME NEW b, NEW a, NEW L, AddsLine(b, a, L), NEW R, R = SkipLeading(L),
           NEW h \in Headers, NEW k \in Keys, NEW v \in Values, v \in Putable(Tokens),
           Opens(R, Headers), Within(a, h), ~Has(a, h, k),
           NEW d \in Seq(Tokens), Closed(d), Same(a, d, {}),
           NEW c, c = d \o Flat(<<<<k>>, Quoted(v), <<nl, nl>>, R>>)
    PROVE  KeyMoved(b, c, d, h, k, v)
<1>1. L \in Seq(Tokens) /\ IsLine(L) /\ Effect(b, a, R) /\ R # <<>>
  BY EffectOfLine DEF AddsLine, Opens, Blank
<1>2. R \in Seq(Tokens) /\ IsLine(R) /\ R[1] # blank /\ SkipLeading(R) = R /\ R[Len(R)] = L[Len(L)]
  BY <1>1, RestOfLine
<1>3. Within(d, h) /\ ~Has(d, h, k)
  <2>1. <<h, k>> \notin {}
    OBVIOUS
  <2> QED BY <2>1 DEF Same
<1> DEFINE e == d \o LineOf(k, v)
<1> DEFINE f == e \o <<nl>>
<1>4. e \in Seq(Tokens) /\ Closed(e) /\ Extends(e, d)
      /\ Same(e, d, {<<h, k>>}) /\ Has(e, h, k) /\ Get(e, h, k) = v
  <2>1. KeyAdded(e, d, h, k, v)
    BY <1>3, AddKey
  <2> QED BY <2>1 DEF KeyAdded
<1>5. /\ f \in Seq(Tokens) /\ Same(f, e, {}) /\ Extends(f, e) /\ Closed(f)
  <2> HIDE DEF e
  <2> QED BY <1>4, AddEnd
<1>6. c = f \o R
  <2> DEFINE n == <<nl>>
  <2> DEFINE m == <<nl, nl>>
  <2> DEFINE p == <<k>>
  <2> DEFINE q == Quoted(v)
  <2>1. p \in Seq(Tokens) /\ n \in Seq(Tokens) /\ m \in Seq(Tokens)
    <3>1. k \in Tokens /\ nl \in Tokens
      BY MarksAreTokens DEF Tokens
    <3> QED BY <3>1
  <2>2. q \in Seq(Tokens)
    BY QuotedHasNoEnd
  <2>3. m = n \o n
    BY TwoEnds
  <2>4. f = (d \o (p \o (q \o n))) \o n
    BY DEF LineOf
  <2>5. c = d \o Flat(<<p, q, m, R>>) /\ R \in Seq(Tokens)
    BY <1>2
  <2> HIDE DEF n, m, p, q, e, f
  <2>6. Pasted(f, d, p, q, n, m, R)
    BY <2>1, <2>2, <2>3, <2>4, <2>5, Pieces, Zenon
  <2> QED BY <2>5, <2>6, Zenon DEF Pasted
<1> HIDE DEF e, f
<1>7. c \in Seq(Tokens) /\ Effect(c, f, R) /\ Extends(c, f) /\ (R[Len(R)] = nl => Closed(c))
  BY <1>2, <1>5, <1>6, AddOne
<1>8. Same(a, f, {<<h, k>>})
  <2>1. Same(a, d, {<<h, k>>}) /\ Same(d, e, {<<h, k>>}) /\ Same(e, f, {<<h, k>>})
    BY <1>4, <1>5, SameButFor, SameBack
  <2>2. Same(a, e, {<<h, k>>})
    BY <2>1, SameTrans
  <2> QED BY <2>1, <2>2, SameTrans
<1>9. Same(b, c, {<<h, k>>})
  BY <1>1, <1>7, <1>8, SameStep
<1>10. Has(c, h, k) /\ Get(c, h, k) = v
  <2>1. Has(f, h, k) /\ Get(f, h, k) = v
    BY <1>4, <1>5, GetKept
  <2> QED BY <1>5, <1>7, <2>1, GetKept
<1>11. Extends(c, d)
  <2>1. Len(d) \in Nat /\ Len(e) \in Nat /\ Len(f) \in Nat /\ Len(c) \in Nat
    BY <1>4, <1>5, <1>7
  <2> QED BY <1>4, <1>5, <1>7, <2>1 DEF Extends
<1>12. Closed(b) => Closed(c)
  <2>1. SUFFICES ASSUME Closed(b)
                 PROVE  L[Len(L)] = nl
    BY <1>2, <1>7
  <2>2. b \in Seq(Tokens) /\ IsJoin(b, a, L) /\ L # <<>> /\ a \in Seq(Tokens)
    BY <1>1 DEF AddsLine, IsLine
  <2>3. Len(L) \in 1..Len(L) /\ Len(a) \in Nat /\ Len(b) = Len(a) + Len(L)
    <3>1. Len(L) # 0 /\ Len(L) \in Nat /\ Len(a) \in Nat
      BY <1>1, <2>2
    <3> QED BY <2>2, <3>1 DEF IsJoin
  <2>4. b[Len(b)] = L[Len(L)] /\ b # <<>>
    <3>1. b[Len(a) + Len(L)] = L[Len(L)]
      BY <2>2, <2>3 DEF IsJoin
    <3>2. Len(b) # 0
      BY <2>3
    <3> QED BY <2>2, <2>3, <3>1, <3>2
  <2> QED BY <2>1, <2>4 DEF Closed
<1> QED BY <1>7, <1>9, <1>10, <1>11, <1>12 DEF KeyMoved

\* c holds the value v of the key k, and else what a holds.
Updated(c, a, k, v) ==
    \A h \in Headers, j \in Keys :
        Get(c, h, j) = IF <<h, j>> = <<Slide, k>> THEN v ELSE Get(a, h, j)

LEMMA SameUpdated ==
    ASSUME NEW a, NEW c, NEW k, NEW v, Same(a, c, {<<Slide, k>>}), Get(c, Slide, k) = v
    PROVE  Updated(c, a, k, v)
<1>1. ASSUME NEW h \in Headers, NEW j \in Keys, <<h, j>> # <<Slide, k>>
      PROVE  Get(c, h, j) = Get(a, h, j)
  <2>1. <<h, j>> \notin {<<Slide, k>>}
    BY <1>1
  <2> QED BY <2>1 DEF Same
<1>2. ASSUME NEW h \in Headers, NEW j \in Keys, <<h, j>> = <<Slide, k>>
      PROVE  Get(c, h, j) = v
  BY <1>2
<1> QED BY <1>1, <1>2 DEF Updated

LEMMA Header ==
    /\ SectionLine \in Seq(Tokens) /\ IsLine(SectionLine) /\ SkipLeading(SectionLine) = SectionLine
    /\ SectionLine[Len(SectionLine)] = nl
    /\ Opens(SectionLine, {Slide}) /\ Opens(SectionLine, Headers)
    /\ \A k \in Keys : ~Opens(SectionLine, {k})
    /\ \A h \in Headers : Opens(SectionLine, {h}) => h = Slide
<1>1. Slide \in Headers /\ Slide \in Names /\ Slide # nl /\ Slide # blank /\ Slide \notin Keys
  BY TokensAssumption, NamesAreNames DEF Names
<1>2. Len(SectionLine) = 2 /\ SectionLine[1] = Slide /\ SectionLine[2] = nl
  BY DEF SectionLine
<1>3. SectionLine \in Seq(Tokens)
  <2>1. Slide \in Tokens /\ nl \in Tokens
    BY MarksAreTokens
  <2> QED BY <2>1 DEF SectionLine
<1>4. IsLine(SectionLine)
  <2>1. \A i \in 1..Len(SectionLine) - 1 : i = 1
    BY <1>2
  <2>2. SectionLine # <<>>
    BY <1>2
  <2> QED BY <1>1, <1>2, <2>1, <2>2 DEF IsLine
<1>5. SkipLeading(SectionLine) = SectionLine
  BY <1>1, <1>2, <1>3, SkipNothing
<1>6. ~Blank(SectionLine)
  <2>1. SectionLine # <<>> /\ SectionLine # <<nl>>
    BY <1>2
  <2> QED BY <2>1 DEF Blank
<1> QED BY <1>1, <1>2, <1>3, <1>4, <1>5, <1>6 DEF Opens

LEMMA HasSect ==
    ASSUME NEW e, NEW h, ~Sect(e, h), NEW k
    PROVE  ~Has(e, h, k)
<1>1. SUFFICES ASSUME NEW p \in Candidates(e, h, k)
               PROVE  FALSE
  BY DEF Has
<1>2. PICK s \in DOMAIN e : FirstOf(e, h, s)
  BY <1>1, CandidateIs
<1> QED BY <1>2 DEF FirstOf, Sect

\* The section and the key are added to a file without that section.
LEMMA AddSection ==
    ASSUME NEW e \in Seq(Tokens), Closed(e), ~Sect(e, Slide), NEW k \in Keys, NEW v \in Values,
           v \in Putable(Tokens), NEW f, f = e \o SectionLine, NEW c, c = f \o LineOf(k, v)
    PROVE  /\ f \in Seq(Tokens) /\ c \in Seq(Tokens) /\ Closed(c) /\ Extends(f, e) /\ Extends(c, f)
           /\ \A h \in Headers, j \in Keys : Get(f, h, j) = Get(e, h, j)
           /\ Updated(c, e, k, v)
<1>1. f \in Seq(Tokens) /\ Effect(f, e, SectionLine) /\ Extends(f, e) /\ Closed(f)
  <2> DEFINE S == SectionLine
  <2>1. S \in Seq(Tokens) /\ IsLine(S) /\ SkipLeading(S) = S /\ S[Len(S)] = nl /\ f = e \o S
    BY Header
  <2> HIDE DEF S
  <2>2. f \in Seq(Tokens) /\ Effect(f, e, S) /\ Extends(f, e) /\ (S[Len(S)] = nl => Closed(f))
    BY <2>1, AddOne
  <2> QED BY <2>1, <2>2 DEF S
<1>2. Slide \in Headers
  BY TokensAssumption
<1>3. Within(f, Slide)
  <2>1. Within(f, Slide) <=> (IF Opens(SectionLine, Headers) THEN Opens(SectionLine, {Slide}) /\ ~Sect(e, Slide)
                              ELSE Within(e, Slide))
    BY <1>1, <1>2 DEF Effect
  <2> QED BY <2>1, Header
<1>4. ASSUME NEW h \in Headers, NEW j \in Keys
      PROVE  (Has(f, h, j) <=> Has(e, h, j)) /\ Get(f, h, j) = Get(e, h, j)
  <2>1. Has(f, h, j) <=> (Has(e, h, j) \/ (Opens(SectionLine, {j}) /\ Within(e, h)))
    BY <1>1 DEF Effect
  <2>2. Has(f, h, j) <=> Has(e, h, j)
    BY <2>1, Header
  <2>3. CASE Has(e, h, j)
    BY <1>1, <2>2, <2>3 DEF Effect
  <2>4. CASE ~Has(e, h, j)
    BY <2>2, <2>4, GetOfNone
  <2> QED BY <2>2, <2>3, <2>4
<1>5. ~Has(f, Slide, k)
  <2>1. ~Has(e, Slide, k)
    BY HasSect
  <2> QED BY <1>2, <1>4, <2>1
<1>6. KeyAdded(c, f, Slide, k, v)
  BY <1>1, <1>2, <1>3, <1>5, AddKey
<1>7. Updated(c, f, k, v)
  <2>1. Same(f, c, {<<Slide, k>>}) /\ Get(c, Slide, k) = v
    BY <1>6, SameBack DEF KeyAdded
  <2> QED BY <2>1, SameUpdated
<1>8. Updated(c, e, k, v)
  BY <1>4, <1>7 DEF Updated
<1> QED BY <1>1, <1>4, <1>6, <1>8 DEF KeyAdded

LEMMA SameGets ==
    ASSUME NEW a, NEW e, Same(a, e, {}), NEW c, NEW k, NEW v, Updated(c, e, k, v)
    PROVE  Updated(c, a, k, v)
<1>1. ASSUME NEW h \in Headers, NEW j \in Keys
      PROVE  Get(e, h, j) = Get(a, h, j)
  <2>1. <<h, j>> \notin {}
    OBVIOUS
  <2> QED BY <2>1 DEF Same
<1> QED BY <1>1 DEF Updated

LEMMA ExtendsTrans ==
    ASSUME NEW a \in Seq(Tokens), NEW b \in Seq(Tokens), NEW c \in Seq(Tokens), Extends(c, b), Extends(b, a)
    PROVE  Extends(c, a)
<1>1. Len(a) \in Nat /\ Len(b) \in Nat /\ Len(c) \in Nat
  OBVIOUS
<1> QED BY <1>1 DEF Extends

\* At the end of the file without the key.
LEMMA AppendKey ==
    ASSUME NEW a, NEW k \in Keys, NEW v \in Values, v \in Putable(Tokens),
           Within(a, Slide), ~Has(a, Slide, k),
           NEW d \in Seq(Tokens), Same(a, d, {}),
           NEW c, c = d \o Flat(<<<<nl>>, LineOf(k, v)>>)
    PROVE  c \in Seq(Tokens) /\ Closed(c) /\ Extends(c, d) /\ Updated(c, a, k, v)
<1> DEFINE n == <<nl>>
<1> DEFINE K == LineOf(k, v)
<1> DEFINE e == d \o n
<1>1. n \in Seq(Tokens) /\ K \in Seq(Tokens)
  <2>1. K \in Seq(Tokens)
    BY LineOfKey
  <2>2. nl \in Tokens
    BY MarksAreTokens
  <2> QED BY <2>1, <2>2
<1>2. e \in Seq(Tokens) /\ Same(e, d, {}) /\ Extends(e, d) /\ Closed(e)
  BY AddEnd
<1>3. c = e \o K
  <2>1. c = d \o Flat(<<n, K>>)
    OBVIOUS
  <2> HIDE DEF n, K
  <2>2. Flat(<<n, K>>) = n \o K
    BY <1>1, Flat2
  <2>3. Associate(d, n, K)
    BY <1>1, Regroup
  <2> QED BY <2>1, <2>2, <2>3 DEF Associate
<1>4. c = e \o LineOf(k, v)
  BY <1>3
<1> HIDE DEF n, K, e
<1>5. Slide \in Headers
  BY TokensAssumption
<1>6. Same(a, e, {})
  BY <1>2, SameBack, SameTrans
<1>7. Within(e, Slide) /\ ~Has(e, Slide, k)
  <2>1. <<Slide, k>> \notin {}
    OBVIOUS
  <2> QED BY <1>5, <1>6, <2>1 DEF Same
<1>8. KeyAdded(c, e, Slide, k, v)
  BY <1>2, <1>4, <1>5, <1>7, AddKey
<1>9. Updated(c, e, k, v)
  <2>1. Same(e, c, {<<Slide, k>>}) /\ Get(c, Slide, k) = v
    BY <1>8, SameBack DEF KeyAdded
  <2> QED BY <2>1, SameUpdated
<1>10. Updated(c, a, k, v)
  BY <1>6, <1>9, SameGets
<1>11. c \in Seq(Tokens) /\ Closed(c) /\ Extends(c, e)
  BY <1>8 DEF KeyAdded
<1> QED BY <1>2, <1>10, <1>11, ExtendsTrans

\* At the end of the file without the section.
LEMMA AppendSection ==
    ASSUME NEW a, NEW k \in Keys, NEW v \in Values, v \in Putable(Tokens), ~Sect(a, Slide),
           NEW d \in Seq(Tokens), Same(a, d, {}),
           NEW c, c = d \o Flat(<<<<nl>>, SectionLine, LineOf(k, v)>>)
    PROVE  c \in Seq(Tokens) /\ Closed(c) /\ Extends(c, d) /\ Updated(c, a, k, v)
<1> DEFINE n == <<nl>>
<1> DEFINE S == SectionLine
<1> DEFINE K == LineOf(k, v)
<1> DEFINE e == d \o n
<1> DEFINE f == e \o S
<1>1. n \in Seq(Tokens) /\ K \in Seq(Tokens) /\ S \in Seq(Tokens)
  <2>1. K \in Seq(Tokens)
    BY LineOfKey
  <2>2. nl \in Tokens
    BY MarksAreTokens
  <2>3. S \in Seq(Tokens)
    BY Header
  <2> QED BY <2>1, <2>2, <2>3
<1>2. e \in Seq(Tokens) /\ Same(e, d, {}) /\ Extends(e, d) /\ Closed(e)
  BY AddEnd
<1>3. c = f \o K
  <2>1. c = d \o Flat(<<n, S, K>>)
    OBVIOUS
  <2> HIDE DEF n, K, S
  <2>2. Flat(<<n, S, K>>) = n \o (S \o K)
    BY <1>1, Flat3
  <2>3. S \o K \in Seq(Tokens)
    BY <1>1, ConcatProperties
  <2> DEFINE w == S \o K
  <2> HIDE DEF w, e
  <2>4. Associate(d, n, w)
    BY <1>1, <2>3, Regroup DEF w
  <2>5. Associate(e, S, K)
    BY <1>1, <1>2, Regroup
  <2>6. c = e \o w
    BY <2>1, <2>2, <2>4 DEF Associate, w, e
  <2> QED BY <2>5, <2>6 DEF Associate, w
<1>4. c = f \o LineOf(k, v) /\ f = e \o SectionLine
  BY <1>3
<1> HIDE DEF n, K, S, e, f
<1>5. Same(a, e, {})
  BY <1>2, SameBack, SameTrans
<1>6. ~Sect(e, Slide)
  BY <1>5, TokensAssumption DEF Same
<1>7. /\ f \in Seq(Tokens) /\ c \in Seq(Tokens) /\ Closed(c) /\ Extends(f, e) /\ Extends(c, f)
      /\ Updated(c, e, k, v)
  BY <1>2, <1>4, <1>6, AddSection
<1>8. Updated(c, a, k, v)
  BY <1>5, <1>7, SameGets
<1>9. Extends(c, e)
  BY <1>2, <1>7, ExtendsTrans
<1> QED BY <1>2, <1>7, <1>8, <1>9, ExtendsTrans

\* A file without a line that starts with a name.
LEMMA NoKeysIn ==
    ASSUME NEW f, \A i \in DOMAIN f : f[i] \notin Keys
    PROVE  \A h \in Headers, k \in Keys : Get(f, h, k) = Absent /\ ~Has(f, h, k)
<1>1. ASSUME NEW h \in Headers, NEW k \in Keys
      PROVE  ~Has(f, h, k)
  BY DEF Has, Candidates, LinesWith
<1> QED BY <1>1, GetOfNone

LEMMA AbsentHasNothing ==
    \A h \in Headers, k \in Keys : Get(Absent, h, k) = Absent
<1>1. \A i \in DOMAIN Absent : Absent[i] = "absent"
  BY DEF Absent
<1>2. "absent" \notin Keys
  BY NamesAreNames
<1> QED BY <1>1, <1>2, NoKeysIn

LEMMA NotAToken == "absent" \notin Tokens
<1> QED BY NamesAreNames DEF Tokens, Names, Comment, nl, quote, escape, blank

LEMMA AbsentIsNone == Absent \notin Seq(Tokens)
<1>1. SUFFICES ASSUME Absent \in Seq(Tokens)
               PROVE  FALSE
  OBVIOUS
<1>2. Absent[1] = "absent" /\ Len(Absent) = 1
  BY DEF Absent
<1>3. "absent" \in Tokens
  <2>1. ASSUME NEW s \in Seq(Tokens), Len(s) = 1
        PROVE  s[1] \in Tokens
    <3>1. 1 \in 1..Len(s)
      BY <2>1
    <3>2. \A i \in 1..Len(s) : s[i] \in Tokens
      BY ElementOfSeq
    <3> QED BY <3>1, <3>2
  <2> QED BY <1>1, <1>2, <2>1
<1> QED BY <1>3, NotAToken

LEMMA EmptyHasNothing ==
    /\ \A h \in Headers, k \in Keys : Get(<<>>, h, k) = Absent
    /\ \A h \in Headers : ~Sect(<<>>, h) /\ ~Within(<<>>, h)
<1>1. \A i \in DOMAIN <<>> : FALSE
  OBVIOUS
<1>2. \A h \in Headers : ~Sect(<<>>, h) /\ ~Within(<<>>, h)
  BY <1>1 DEF Sect, Within, LinesWith
<1>3. \A h \in Headers, k \in Keys : Get(<<>>, h, k) = Absent
  <2>1. \A i \in DOMAIN <<>> : <<>>[i] \notin Keys
    BY <1>1
  <2> QED BY <2>1, NoKeysIn
<1> QED BY <1>2, <1>3

LEMMA PutInit == Careful /\ Init => PutInv
<1> SUFFICES ASSUME Careful, Init
             PROVE  PutInv
  OBVIOUS
<1>1. TypeInv
  BY TypeInit
<1>2. full = FALSE /\ interrupted = FALSE /\ short = FALSE /\ pc = "idle" /\ rpos = 1 /\ temp = Absent
  BY DEF Init
<1>3. faults < MaxFaults => file \in FragileFiles
  <2>1. MaxFaults \in Nat
    BY DEF Careful
  <2>2. file \notin FragileFiles => faults = MaxFaults
    BY DEF Init
  <2> QED BY <2>1, <2>2
<1>4. WholeInv
  <2>1. ~Left
    BY <1>2 DEF Left, Rewriting
  <2>2. faults < MaxFaults => file = Absent \/ Closed(file)
    BY <1>3 DEF Careful
  <2> QED BY <1>2, <2>1, <2>2 DEF WholeInv
<1>5. FaultInv /\ CreateInv /\ CopyInv
  BY <1>2 DEF FaultInv, CreateInv, CopyInv, Rewriting
<1> QED BY <1>1, <1>4, <1>5 DEF PutInv

LEMMA OneFault ==
    ASSUME Careful, PutInv
    PROVE  /\ full \in BOOLEAN /\ faults \in Nat /\ MaxFaults \in Nat
           /\ full => faults = MaxFaults /\ ~interrupted
           /\ faults < MaxFaults => ~full /\ ~interrupted /\ ~short /\ faults + 1 = MaxFaults
           /\ short => ~full /\ ~interrupted
<1>1. full \in BOOLEAN /\ faults \in 0..MaxFaults /\ FaultInv
  BY DEF PutInv, TypeInv, TypeOK
<1>2. MaxFaults = 0 \/ MaxFaults = 1
  BY DEF Careful
<1>3. full => faults = MaxFaults
  BY <1>1 DEF FaultInv
<1>4. interrupted => faults = MaxFaults /\ ~full
  BY <1>1 DEF FaultInv
<1>5. short => faults = MaxFaults /\ ~full /\ ~interrupted
  BY <1>1 DEF FaultInv
<1>6. faults < MaxFaults => faults # MaxFaults /\ faults + 1 = MaxFaults
  BY <1>1, <1>2
<1>7. faults \in Nat /\ MaxFaults \in Nat
  BY <1>1, <1>2
<1> QED BY <1>1, <1>3, <1>4, <1>5, <1>6, <1>7

\* The loops leave the files and the faults as they are.
LEMMA LoopKeeps ==
    ASSUME PutInv, pc \in Rewriting, pc' \in Rewriting,
           UNCHANGED <<file, temp, wpos, full, faults, interrupted, short>>
    PROVE  FaultInv' /\ WholeInv' /\ CreateInv'
<1>1. Left' = Left
  BY DEF Left
<1>2. pc # "rename" /\ pc' # "rename" /\ pc' # "create" /\ pc' # "idle" /\ pc' # "open"
  BY DEF Rewriting
<1>3. FaultInv'
  BY <1>2 DEF PutInv, FaultInv
<1>4. WholeInv'
  BY <1>1, <1>2 DEF PutInv, WholeInv
<1> QED BY <1>2, <1>3, <1>4 DEF CreateInv

\* A read that fails is the only fault.
LEMMA ReadFailsKeeps ==
    ASSUME Careful, PutInv, ReadFails, pc \in Rewriting, pc' \in Rewriting,
           UNCHANGED <<file, temp, wpos, full, interrupted>>
    PROVE  FaultInv' /\ WholeInv' /\ CreateInv'
<1>1. Left' = Left
  BY DEF Left
<1>2. pc # "rename" /\ pc' # "rename" /\ pc' # "create" /\ pc' # "idle" /\ pc' # "open"
  BY DEF Rewriting
<1>3. ~full /\ ~interrupted /\ faults < MaxFaults /\ faults' = MaxFaults
  BY OneFault DEF ReadFails
<1>4. FaultInv'
  BY <1>2, <1>3 DEF FaultInv
<1>5. WholeInv'
  BY <1>1, <1>2, <1>3 DEF PutInv, WholeInv
<1> QED BY <1>2, <1>4, <1>5 DEF CreateInv

\* What is written next comes behind what was to be written.
LEMMA DraftGrows ==
    ASSUME temp \in Seq(Tokens), wpos \in 1..Len(temp) + 1, NEW d \in Seq(Tokens), Draft(d), out = <<>>, Len(out') <= 4,
           UNCHANGED <<temp, wpos, full>>,
           NEW c \in Seq(Tokens), c = d \o Flat(out'), Extends(c, d)
    PROVE  Draft(c)'
<1>1. CASE full
  <2>1. Extends(c, temp)
    BY <1>1, ExtendsTrans DEF Draft
  <2>2. full' /\ temp' = temp
    BY <1>1
  <2> QED BY <2>1, <2>2 DEF Draft
<1>2. CASE ~full
  <2>1. d = SubSeq(temp, 1, wpos - 1) \o Flat(<<>>)
    BY <1>2 DEF Draft
  <2>2. SubSeq(temp, 1, wpos - 1) \in Seq(Tokens)
    <3>1. wpos - 1 \in Int /\ 1 <= 1 /\ wpos - 1 <= Len(temp) /\ 1 <= wpos - 1 + 1 /\ 1 \in Int
      OBVIOUS
    <3> QED BY <3>1, PartTyped
  <2>3. d = SubSeq(temp, 1, wpos - 1)
    <3>1. ASSUME NEW s \in Seq(Tokens)
          PROVE  s \o <<>> = s
      OBVIOUS
    <3> QED BY <2>1, <2>2, <3>1, FlatNone
  <2>4. c = SubSeq(temp', 1, wpos' - 1) \o Flat(out')
    BY <2>3
  <2>5. ~full'
    BY <1>2
  <2> QED BY <2>4, <2>5 DEF Draft
<1> QED BY <1>1, <1>2

\* A line was read, and what is written of it goes into the draft.
LEMMA ReadStep ==
    ASSUME PutInv, pc \in Rewriting, out = <<>>, Advance, pc' \in {"section", "key", "rest"},
           NEW d \in Seq(Tokens), Draft(d), Len(out') <= 4,
           NEW c \in Seq(Tokens), c = d \o Flat(out'), Extends(c, d),
           Closed(Past') => Closed(c), Progress(Past, c)'
    PROVE  FaultInv' /\ WholeInv' /\ CreateInv' /\ CopyInv'
<1>1. UNCHANGED <<file, temp, wpos, full, faults, interrupted, short>>
  BY DEF Advance, disk, history
<1>2. pc' \in Rewriting
  BY DEF Rewriting
<1>3. FaultInv' /\ WholeInv' /\ CreateInv'
  BY <1>1, <1>2, LoopKeeps
<1>4. Draft(c)'
  <2>1. temp \in Seq(Tokens) /\ wpos \in 1..Len(temp) + 1
    BY DEF PutInv, TypeInv, TypeOK
  <2> QED BY <1>1, <2>1, DraftGrows
<1>5. rpos' <= Len(file') + 1 /\ (AtEnd' \/ Closed(Past'))
  <2>1. rpos <= Len(file) + 1 /\ TypeInv /\ Closed(Past)
    BY DEF PutInv, CopyInv, Advance
  <2> QED BY <2>1, LineRead
<1>6. CopyInv'
  <2>1. (Closed(Past) => Closed(c))'
    OBVIOUS
  <2> QED BY <1>4, <1>5, <2>1 DEF CopyInv
<1> QED BY <1>3, <1>6

LEMMA CopyIsShort ==
    ASSUME NEW R \in Seq(Tokens), NEW apart
    PROVE  Len(Copy(R, apart)) <= 4 /\ Copy(R, apart) \in Seq(Seq(Tokens))
<1>1. Len(<<>>) = 0 /\ Len(<<R>>) = 1 /\ Len(<<<<nl>>, R>>) = 2
  OBVIOUS
<1>2. Len(Copy(R, apart)) <= 4
  BY <1>1 DEF Copy
<1> QED BY <1>2, CopyTyped

\* What the loops know before they read a line.
LEMMA BeforeLine ==
    ASSUME PutInv, pc \in Rewriting, Advance
    PROVE  /\ TypeInv /\ AddsLine(Past', Past, Line(file, rpos)) /\ Read = SkipLeading(Line(file, rpos))
           /\ Effect(Past', Past, Read) /\ Read \in Seq(Tokens)
           /\ \E d \in Seq(Tokens) : Draft(d) /\ Closed(d) /\ Progress(Past, d)
<1>1. TypeInv /\ rpos <= Len(file) + 1 /\ Closed(Past)
  BY DEF PutInv, CopyInv, Advance
<1>2. /\ AddsLine(Past', Past, Line(file, rpos)) /\ Read = SkipLeading(Line(file, rpos))
      /\ Effect(Past', Past, Read)
  BY <1>1, LineRead
<1>3. Read \in Seq(Tokens)
  BY <1>1, AdvanceTyped
<1>4. \E d \in Seq(Tokens) : Draft(d) /\ Closed(d) /\ Progress(Past, d)
  BY <1>1 DEF PutInv, CopyInv
<1> QED BY <1>1, <1>2, <1>3, <1>4

LEMMA ArgTyped ==
    ASSUME TypeInv, pc # "idle"
    PROVE  arg[1] \in Puts /\ arg[1] \in Keys /\ arg[2] \in Values
<1>1. arg \in Puts \X Values
  BY DEF TypeInv
<1> QED BY <1>1, TokensAssumption

LEMMA InFirstLoop ==
    ASSUME Careful, PutInv, FindSection
    PROVE  FaultInv' /\ WholeInv' /\ CreateInv' /\ CopyInv'
<1>1. pc = "section" /\ out = <<>> /\ Advance /\ arg' = arg /\ pc \in Rewriting
  BY DEF FindSection, Reading, Advance, Rewriting
<1>2. /\ TypeInv /\ AddsLine(Past', Past, Line(file, rpos)) /\ Read = SkipLeading(Line(file, rpos))
      /\ Effect(Past', Past, Read) /\ Read \in Seq(Tokens)
  BY <1>1, BeforeLine
<1>3. PICK d \in Seq(Tokens) : Draft(d) /\ Closed(d) /\ Progress(Past, d)
  BY <1>1, BeforeLine
<1>4. Same(Past, d, {}) /\ ~Sect(Past, Slide)
  BY <1>1, <1>3 DEF Progress
<1>5. out' = Copy(Read, copied)
  BY DEF FindSection
<1>6. PICK c : c = d \o Flat(out')
  OBVIOUS
<1>7. c \in Seq(Tokens) /\ Same(Past', c, {}) /\ Extends(c, d) /\ (Closed(Past') => Closed(c))
  BY <1>2, <1>3, <1>4, <1>5, <1>6, CopyStep
<1>8. Len(out') <= 4
  BY <1>2, <1>5, CopyIsShort
<1>9. CASE Opens(Read, {Slide})
  <2>1. pc' = "key"
    BY <1>9 DEF FindSection
  <2>2. Slide \in Headers /\ arg[1] \in Keys
    BY <1>1, <1>2, ArgTyped, TokensAssumption
  <2>3. Opens(Read, Headers) /\ ~Opens(Read, {arg[1]})
    BY <1>9, <2>2, TokensAssumption DEF Opens
  <2>4. Within(Past', Slide)
    <3>1. Within(Past', Slide) <=> (IF Opens(Read, Headers) THEN Opens(Read, {Slide}) /\ ~Sect(Past, Slide)
                                    ELSE Within(Past, Slide))
      BY <1>2, <2>2 DEF Effect
    <3> QED BY <1>4, <1>9, <2>3, <3>1
  <2>5. ~Has(Past', Slide, arg[1])
    <3>1. ~Has(Past, Slide, arg[1])
      BY <1>4, HasSect
    <3>2. Has(Past', Slide, arg[1]) <=> (Has(Past, Slide, arg[1]) \/ (Opens(Read, {arg[1]}) /\ Within(Past, Slide)))
      BY <1>2, <2>2 DEF Effect
    <3> QED BY <2>3, <3>1, <3>2
  <2>6. Progress(Past, c)'
    BY <1>1, <1>7, <2>1, <2>4, <2>5 DEF Progress
  <2>7. pc' \in {"section", "key", "rest"}
    BY <2>1
  <2> QED BY <1>1, <1>3, <1>6, <1>7, <1>8, <2>6, <2>7, ReadStep
<1>10. CASE ~Opens(Read, {Slide})
  <2>1. pc' = "section"
    BY <1>10 DEF FindSection
  <2>2. ~Sect(Past', Slide)
    <3>1. Sect(Past', Slide) <=> (Sect(Past, Slide) \/ Opens(Read, {Slide}))
      BY <1>2, TokensAssumption DEF Effect
    <3> QED BY <1>4, <1>10, <3>1
  <2>3. Progress(Past, c)'
    BY <1>7, <2>1, <2>2 DEF Progress
  <2>4. pc' \in {"section", "key", "rest"}
    BY <2>1
  <2> QED BY <1>1, <1>3, <1>6, <1>7, <1>8, <2>3, <2>4, ReadStep
<1> QED BY <1>9, <1>10

LEMMA InSecondLoop ==
    ASSUME Careful, PutInv, FindKey
    PROVE  FaultInv' /\ WholeInv' /\ CreateInv' /\ CopyInv'
<1>1. pc = "key" /\ out = <<>> /\ Advance /\ arg' = arg /\ pc \in Rewriting
  BY DEF FindKey, Reading, Advance, Rewriting
<1>2. /\ TypeInv /\ AddsLine(Past', Past, Line(file, rpos)) /\ Read = SkipLeading(Line(file, rpos))
      /\ Effect(Past', Past, Read) /\ Read \in Seq(Tokens)
  BY <1>1, BeforeLine
<1>3. PICK d \in Seq(Tokens) : Draft(d) /\ Closed(d) /\ Progress(Past, d)
  BY <1>1, BeforeLine
<1>4. Same(Past, d, {}) /\ Within(Past, Slide) /\ ~Has(Past, Slide, arg[1])
  BY <1>1, <1>3 DEF Progress
<1>5. PICK k : k = arg[1]
  OBVIOUS
<1>6. PICK v : v = arg[2]
  OBVIOUS
<1>7. Slide \in Headers /\ k \in Keys /\ v \in Values /\ v \in Putable(Tokens)
  BY <1>1, <1>2, <1>5, <1>6, ArgTyped, TokensAssumption DEF Careful
<1>8. PICK c : c = d \o Flat(out')
  OBVIOUS
<1>9. PICK R : R = Read
  OBVIOUS
<1>10. CASE Opens(Read, {arg[1]}) /\ out' = <<KeyLine>> /\ pc' = "rest"
  <2>1. Flat(out') = LineOf(k, v)
    <3>1. LineOf(k, v) \in Seq(Tokens)
      BY <1>7, LineOfKey
    <3>2. out' = <<LineOf(k, v)>>
      BY <1>5, <1>6, <1>10 DEF KeyLine, LineOf
    <3> QED BY <3>1, <3>2, Flat1
  <2>2. KeyMoved(Past', c, d, Slide, k, v)
    BY <1>2, <1>3, <1>4, <1>5, <1>7, <1>8, <1>10, <2>1, ReplaceStep
  <2>3. Progress(Past, c)'
    BY <1>1, <1>5, <1>6, <1>10, <2>2 DEF Progress, KeyMoved
  <2>4. Len(out') <= 4 /\ pc' \in {"section", "key", "rest"}
    BY <1>10
  <2> QED BY <1>1, <1>3, <1>8, <2>2, <2>3, <2>4, ReadStep DEF KeyMoved
<1>11. CASE /\ Opens(Read, Headers) /\ pc' = "rest"
            /\ out' = <<<<arg[1]>>, Quoted(arg[2]), <<nl, nl>>, Read>>
  <2>1. c = d \o Flat(<<<<k>>, Quoted(v), <<nl, nl>>, R>>)
    BY <1>5, <1>6, <1>8, <1>9, <1>11
  <2>2. KeyMoved(Past', c, d, Slide, k, v)
    BY <1>2, <1>3, <1>4, <1>5, <1>7, <1>9, <1>11, <2>1, InsertStep
  <2>3. Progress(Past, c)'
    BY <1>1, <1>5, <1>6, <1>11, <2>2 DEF Progress, KeyMoved
  <2>4. Len(out') <= 4 /\ pc' \in {"section", "key", "rest"}
    BY <1>11
  <2> QED BY <1>1, <1>3, <1>8, <2>2, <2>3, <2>4, ReadStep DEF KeyMoved
<1>12. CASE ~Opens(Read, Headers \cup {arg[1]}) /\ out' = Copy(Read, FALSE) /\ pc' = pc
  <2>1. c \in Seq(Tokens) /\ Same(Past', c, {}) /\ Extends(c, d) /\ (Closed(Past') => Closed(c))
    BY <1>2, <1>3, <1>4, <1>8, <1>12, CopyStep
  <2>2. ~Opens(Read, Headers) /\ ~Opens(Read, {k})
    BY <1>5, <1>12 DEF Opens
  <2>3. Within(Past', Slide) /\ ~Has(Past', Slide, k)
    <3>1. Within(Past', Slide) <=> (IF Opens(Read, Headers) THEN Opens(Read, {Slide}) /\ ~Sect(Past, Slide)
                                    ELSE Within(Past, Slide))
      BY <1>2, <1>7 DEF Effect
    <3>2. Has(Past', Slide, k) <=> (Has(Past, Slide, k) \/ (Opens(Read, {k}) /\ Within(Past, Slide)))
      BY <1>2, <1>7 DEF Effect
    <3> QED BY <1>4, <1>5, <2>2, <3>1, <3>2
  <2>4. Progress(Past, c)'
    BY <1>1, <1>5, <1>12, <2>1, <2>3 DEF Progress
  <2>5. Len(out') <= 4 /\ pc' \in {"section", "key", "rest"}
    BY <1>1, <1>2, <1>12, CopyIsShort
  <2> QED BY <1>1, <1>3, <1>8, <2>1, <2>4, <2>5, ReadStep
<1> QED BY <1>10, <1>11, <1>12 DEF FindKey

LEMMA InThirdLoop ==
    ASSUME Careful, PutInv, CopyRest
    PROVE  FaultInv' /\ WholeInv' /\ CreateInv' /\ CopyInv'
<1>1. pc = "rest" /\ out = <<>> /\ Advance /\ arg' = arg /\ pc' = "rest" /\ pc \in Rewriting
      /\ out' = Copy(Read, TRUE)
  BY DEF CopyRest, Reading, Advance, Rewriting
<1>2. /\ TypeInv /\ AddsLine(Past', Past, Line(file, rpos)) /\ Read = SkipLeading(Line(file, rpos))
      /\ Effect(Past', Past, Read) /\ Read \in Seq(Tokens)
  BY <1>1, BeforeLine
<1>3. PICK d \in Seq(Tokens) : Draft(d) /\ Closed(d) /\ Progress(Past, d)
  BY <1>1, BeforeLine
<1>4. PICK k : k = arg[1]
  OBVIOUS
<1>5. Same(Past, d, {<<Slide, k>>}) /\ Has(d, Slide, k) /\ Get(d, Slide, k) = arg[2]
  BY <1>1, <1>3, <1>4 DEF Progress
<1>6. PICK c : c = d \o Flat(out')
  OBVIOUS
<1>7. c \in Seq(Tokens) /\ Same(Past', c, {<<Slide, k>>}) /\ Extends(c, d) /\ (Closed(Past') => Closed(c))
  BY <1>1, <1>2, <1>3, <1>5, <1>6, CopyStep
<1>8. Has(c, Slide, k) /\ Get(c, Slide, k) = arg[2]
  BY <1>3, <1>5, <1>7, GetKept
<1>9. Progress(Past, c)'
  BY <1>1, <1>4, <1>7, <1>8 DEF Progress
<1>10. Len(out') <= 4 /\ pc' \in {"section", "key", "rest"}
  BY <1>1, <1>2, CopyIsShort
<1> QED BY <1>1, <1>3, <1>6, <1>7, <1>9, <1>10, ReadStep

LEMMA AtTheEnd ==
    ASSUME Careful, PutInv, EndOfFile \/ ReadFails
    PROVE  FaultInv' /\ WholeInv' /\ CreateInv' /\ CopyInv'
<1>1. /\ pc \in {"section", "key", "rest"} /\ pc \in Rewriting /\ out = <<>> /\ pc' = "remove"
      /\ arg' = arg /\ pc' \in Rewriting /\ rpos' = rpos /\ NoLine
      /\ UNCHANGED <<file, temp, wpos, full, interrupted>>
  BY DEF EndOfFile, ReadFails, NoLine, Reading, Rewriting, disk, history
<1>2. /\ TypeInv /\ rpos <= Len(file) + 1 /\ rpos \in Nat /\ file \in Seq(Tokens)
      /\ ~AtEnd => Closed(Past)
  BY <1>1 DEF PutInv, CopyInv, TypeInv, TypeOK
<1>3. PICK d \in Seq(Tokens) : Draft(d) /\ (Closed(Past) => Closed(d)) /\ Progress(Past, d)
  BY <1>1 DEF PutInv, CopyInv
<1>4. PICK k : k = arg[1]
  OBVIOUS
<1>5. PICK v : v = arg[2]
  OBVIOUS
<1>6. k \in Keys /\ v \in Values /\ v \in Putable(Tokens)
  BY <1>1, <1>2, <1>4, <1>5, ArgTyped DEF Careful
<1>7. KeyLine = LineOf(k, v)
  BY <1>4, <1>5 DEF KeyLine, LineOf
<1>8. PICK c : c = d \o Flat(out')
  OBVIOUS
<1>9. Past' = Past /\ AtEnd' = AtEnd
  BY <1>1 DEF Past, AtEnd
<1>10. /\ c \in Seq(Tokens) /\ Extends(c, d) /\ (Closed(Past) => Closed(c)) /\ Updated(c, Past, k, v)
       /\ Len(out') <= 4
  <2>1. CASE Reading("section") /\ out' = <<<<nl>>, <<Slide, nl>>, KeyLine>>
    <3>1. Same(Past, d, {}) /\ ~Sect(Past, Slide)
      BY <1>3, <2>1 DEF Progress, Reading
    <3>2. c = d \o Flat(<<<<nl>>, SectionLine, LineOf(k, v)>>)
      BY <1>7, <1>8, <2>1 DEF SectionLine
    <3>3. Len(out') <= 4
      BY <2>1
    <3> QED BY <1>6, <3>1, <3>2, <3>3, AppendSection
  <2>2. CASE Reading("key") /\ out' = <<<<nl>>, KeyLine>>
    <3>1. Same(Past, d, {}) /\ Within(Past, Slide) /\ ~Has(Past, Slide, k)
      BY <1>3, <1>4, <2>2 DEF Progress, Reading
    <3>2. c = d \o Flat(<<<<nl>>, LineOf(k, v)>>)
      BY <1>7, <1>8, <2>2
    <3>3. Len(out') <= 4
      BY <2>2
    <3> QED BY <1>6, <3>1, <3>2, <3>3, AppendKey
  <2>3. CASE Reading("rest") /\ out' = <<>>
    <3>1. Same(Past, d, {<<Slide, k>>}) /\ Get(d, Slide, k) = v
      BY <1>3, <1>4, <1>5, <2>3 DEF Progress, Reading
    <3>2. c = d
      <4>1. d \o <<>> = d
        OBVIOUS
      <4> QED BY <1>8, <2>3, <4>1, FlatNone
    <3>3. Updated(c, Past, k, v)
      BY <3>1, <3>2, SameUpdated
    <3>4. Extends(d, d) /\ Len(out') <= 4
      <4>1. Len(d) \in Nat
        OBVIOUS
      <4> QED BY <2>3, <4>1 DEF Extends
    <3> QED BY <1>3, <3>2, <3>3, <3>4
  <2> QED BY <1>1, <2>1, <2>2, <2>3 DEF NoLine
<1>11. Progress(Past, c)'
  BY <1>1, <1>4, <1>5, <1>9, <1>10 DEF Progress, Updated
<1>12. Draft(c)'
  <2>1. temp \in Seq(Tokens) /\ wpos \in 1..Len(temp) + 1
    BY <1>1, <1>2 DEF TypeInv, TypeOK
  <2> QED BY <1>1, <1>3, <1>8, <1>10, <2>1, DraftGrows
<1>13. CopyInv'
  <2>1. rpos' <= Len(file') + 1 /\ (~short' => rpos' = Len(file') + 1)
    <3>1. CASE EndOfFile
      <4>1. rpos > Len(file)
        BY <3>1 DEF EndOfFile, AtEnd
      <4> QED BY <1>1, <1>2, <4>1
    <3>2. CASE ReadFails
      BY <1>1, <1>2, <3>2 DEF ReadFails
    <3> QED BY <3>1, <3>2
  <2>2. (Closed(Past) => Closed(c))'
    BY <1>9, <1>10
  <2>3. ~AtEnd' => Closed(Past')
    BY <1>2, <1>9
  <2> QED BY <1>10, <1>11, <1>12, <2>1, <2>2, <2>3 DEF CopyInv
<1>14. FaultInv' /\ WholeInv' /\ CreateInv'
  <2>1. CASE EndOfFile
    BY <1>1, <2>1, LoopKeeps DEF EndOfFile, history
  <2>2. CASE ReadFails
    BY <1>1, <2>2, ReadFailsKeeps
  <2> QED BY <2>1, <2>2
<1> QED BY <1>13, <1>14

-----------------------------------------------------------------------------
(* Writing a piece.                                                         *)

\* A piece that is written whole is behind what was written before.
LEMMA OverwriteWhole ==
    ASSUME NEW f \in Seq(Tokens), NEW piece \in Seq(Tokens), NEW p \in 1..Len(f) + 1,
           NEW n, n = Len(piece)
    PROVE  SubSeq(Overwrite(f, p, piece, n), 1, p + n - 1) = SubSeq(f, 1, p - 1) \o piece
<1> DEFINE a == SubSeq(f, 1, p - 1)
<1> DEFINE c == SubSeq(f, p + n, Len(f))
<1> DEFINE u == a \o piece
<1> DEFINE w == Overwrite(f, p, piece, n)
<1>1. a \in Seq(Tokens) /\ Len(a) = p - 1
  <2>1. 1 <= 1 /\ p - 1 <= Len(f) /\ 1 <= p - 1 + 1 /\ p - 1 \in Int /\ p - 1 - 1 + 1 = p - 1
    OBVIOUS
  <2> QED BY <2>1, PartTyped
<1>2. c \in Seq(Tokens)
  <2>1. p + n \in Int /\ Len(f) \in Int /\ 1 <= p + n
    OBVIOUS
  <2>2. CASE p + n <= Len(f) + 1
    <3>1. Len(f) <= Len(f)
      OBVIOUS
    <3> QED BY <2>1, <2>2, <3>1, PartTyped
  <2>3. CASE p + n > Len(f) + 1
    <3>1. c = <<>>
      BY <2>1, <2>3
    <3> QED BY <3>1
  <2> QED BY <2>1, <2>2, <2>3
<1>3. w = u \o c
  <2>1. SubSeq(piece, 1, n) = piece
    BY WholePart
  <2> QED BY <2>1 DEF Overwrite
<1> HIDE DEF a, c, w
<1>4. u \in Seq(Tokens) /\ Len(u) = p - 1 + n
  <2>1. Len(u) = Len(a) + Len(piece) /\ u \in Seq(Tokens)
    BY <1>1, ConcatProperties
  <2> QED BY <1>1, <2>1
<1> HIDE DEF u
<1>5. w \in Seq(Tokens) /\ Extends(w, u)
  <2>1. w \in Seq(Tokens) /\ IsJoin(w, u, c)
    BY <1>2, <1>3, <1>4, JoinedIs
  <2> QED BY <1>2, <1>4, <2>1, ExtendsJoin
<1>6. SubSeq(w, 1, Len(u)) = SubSeq(u, 1, Len(u))
  <2>1. 1 \in Int /\ Len(u) \in Int /\ 1 <= 1 /\ Len(u) <= Len(u) /\ 1 <= Len(u) + 1
    BY <1>4
  <2> QED BY <1>4, <1>5, <2>1, PartKept
<1>7. SubSeq(u, 1, Len(u)) = u
  BY <1>4, WholePart
<1>8. p + n - 1 = Len(u)
  BY <1>4
<1> QED BY <1>6, <1>7, <1>8 DEF u, w, a

\* g is f and the first n tokens of piece.
Appended(g, f, piece, n) ==
    /\ g = f \o SubSeq(piece, 1, n)
    /\ n = 0 => g = f
    /\ n = Len(piece) => g = f \o piece

\* At the end of the file nothing is overwritten.
LEMMA OverwriteEnd ==
    ASSUME NEW f \in Seq(Tokens), NEW piece \in Seq(Tokens), NEW p, p = Len(f) + 1, NEW n \in 0..Len(piece)
    PROVE  Appended(Overwrite(f, p, piece, n), f, piece, n)
<1> DEFINE b == SubSeq(piece, 1, n)
<1> DEFINE c == SubSeq(f, p + n, Len(f))
<1>1. SubSeq(f, 1, p - 1) = f
  <2>1. p - 1 = Len(f)
    OBVIOUS
  <2> QED BY <2>1, WholePart
<1>2. c = <<>>
  <2>1. p + n \in Int /\ Len(f) \in Int /\ Len(f) < p + n
    OBVIOUS
  <2> QED BY <2>1
<1>3. b \in Seq(Tokens)
  <2>1. 1 <= 1 /\ n <= Len(piece) /\ 1 <= n + 1 /\ n \in Int /\ 1 \in Int
    OBVIOUS
  <2> QED BY <2>1, PartTyped
<1>4. Overwrite(f, p, piece, n) = (f \o b) \o <<>>
  BY <1>1, <1>2 DEF Overwrite
<1> HIDE DEF b, c
<1>5. ASSUME NEW s \in Seq(Tokens)
      PROVE  s \o <<>> = s
  OBVIOUS
<1>6. f \o b \in Seq(Tokens)
  BY <1>3, ConcatProperties
<1>7. Overwrite(f, p, piece, n) = f \o b
  BY <1>4, <1>5, <1>6
<1>8. n = 0 => b = <<>>
  BY DEF b
<1>9. n = Len(piece) => b = piece
  BY WholePart DEF b
<1>10. n = 0 => f \o b = f
  BY <1>5, <1>8
<1>11. n = Len(piece) => f \o b = f \o piece
  BY <1>9
<1> QED BY <1>7, <1>10, <1>11 DEF Appended, b

\* d goes on where g is cut.
CutIn(d, g, f, H, F, n) == g \in Seq(Tokens) /\ d \in Seq(Tokens) /\ Extends(d, g)

LEMMA CutPiece ==
    ASSUME NEW f \in Seq(Tokens), NEW H \in Seq(Tokens), NEW F \in Seq(Tokens), NEW n \in 0..Len(H),
           NEW d, d = f \o (H \o F), NEW g, g = f \o SubSeq(H, 1, n)
    PROVE  CutIn(d, g, f, H, F, n)
<1> DEFINE b == SubSeq(H, 1, n)
<1> DEFINE w == H \o F
<1>1. b \in Seq(Tokens) /\ Len(b) = n /\ \A i \in 1..n : b[i] = H[i]
  <2>1. 1 <= 1 /\ n <= Len(H) /\ 1 <= n + 1 /\ n \in Int /\ 1 \in Int
    OBVIOUS
  <2>2. /\ SubSeq(H, 1, n) \in Seq(Tokens)
        /\ Len(SubSeq(H, 1, n)) = n - 1 + 1
        /\ \A i \in 1..n - 1 + 1 : SubSeq(H, 1, n)[i] = H[1 + i - 1]
    BY <2>1, PartTyped
  <2>3. n - 1 + 1 = n /\ \A i \in 1..n : 1 + i - 1 = i
    OBVIOUS
  <2> QED BY <2>2, <2>3
<1>2. w \in Seq(Tokens) /\ IsJoin(w, H, F)
  BY JoinedIs
<1>3. d = f \o w /\ g = f \o b
  OBVIOUS
<1> HIDE DEF b, w
<1>4. d \in Seq(Tokens) /\ IsJoin(d, f, w)
  BY <1>2, <1>3, JoinedIs
<1>5. g \in Seq(Tokens) /\ IsJoin(g, f, b)
  BY <1>1, <1>3, JoinedIs
<1>6. Len(g) = Len(f) + n /\ Len(d) = Len(f) + (Len(H) + Len(F)) /\ Len(f) \in Nat /\ Len(F) \in Nat
      /\ Len(H) \in Nat
  BY <1>1, <1>2, <1>4, <1>5 DEF IsJoin
<1>7. ASSUME NEW i \in 1..Len(g)
      PROVE  d[i] = g[i]
  <2>1. CASE i \in 1..Len(f)
    BY <1>4, <1>5, <2>1 DEF IsJoin
  <2>2. CASE i \notin 1..Len(f)
    <3>1. PICK j \in 1..n : i = Len(f) + j
      <4>1. i - Len(f) \in 1..n /\ i = Len(f) + (i - Len(f))
        BY <1>6, <2>2
      <4> QED BY <4>1
    <3>2. j \in 1..Len(b) /\ j \in 1..Len(w) /\ j \in 1..Len(H)
      <4>1. Len(w) = Len(H) + Len(F)
        BY <1>2 DEF IsJoin
      <4> QED BY <1>1, <1>6, <4>1
    <3>3. d[i] = w[j] /\ g[i] = b[j]
      BY <1>4, <1>5, <3>1, <3>2 DEF IsJoin
    <3>4. w[j] = H[j]
      BY <1>2, <3>2 DEF IsJoin
    <3> QED BY <1>1, <3>1, <3>3, <3>4
  <2> QED BY <2>1, <2>2
<1>8. Len(g) <= Len(d)
  BY <1>6
<1> QED BY <1>4, <1>5, <1>7, <1>8 DEF Extends, CutIn

LEMMA NewFileIs ==
    ASSUME NEW k \in Keys, NEW v \in Values, v \in Putable(Tokens)
    PROVE  /\ NewFile(k, v) \in Seq(Tokens) /\ Closed(NewFile(k, v))
           /\ \A h \in Headers, j \in Keys : Get(SectionLine, h, j) = Absent
           /\ Updated(NewFile(k, v), <<>>, k, v)
<1> DEFINE e == <<>>
<1> DEFINE f == e \o SectionLine
<1> DEFINE c == f \o LineOf(k, v)
<1>1. e \in Seq(Tokens) /\ Closed(e) /\ ~Sect(e, Slide)
  <2>1. Slide \in Headers
    BY TokensAssumption
  <2> QED BY <2>1, EmptyHasNothing DEF Closed
<1>2. f = SectionLine
  <2>1. ASSUME NEW s \in Seq(Tokens)
        PROVE  <<>> \o s = s
    OBVIOUS
  <2> QED BY <2>1, Header
<1>3. c = NewFile(k, v)
  BY <1>2 DEF NewFile
<1> HIDE DEF e
<1>4. /\ f \in Seq(Tokens) /\ c \in Seq(Tokens) /\ Closed(c) /\ Extends(f, e) /\ Extends(c, f)
      /\ \A h \in Headers, j \in Keys : Get(f, h, j) = Get(e, h, j)
      /\ Updated(c, e, k, v)
  BY <1>1, AddSection
<1>5. \A h \in Headers, j \in Keys : Get(e, h, j) = Absent
  BY EmptyHasNothing DEF e
<1> HIDE DEF c, f
<1> QED BY <1>2, <1>3, <1>4, <1>5 DEF e

\* Until a new file is whole it has no settings, and what is missing is next.
LEMMA NewFileGrows ==
    ASSUME Careful, PutInv, pc = "create", ~full,
           NEW k, k = arg[1], NEW v, v = arg[2]
    PROVE  /\ file \in Seq(Tokens) /\ Closed(file) /\ wpos = Len(file) + 1
           /\ NewFile(k, v) = file \o Flat(out) /\ Len(out) <= 4
           /\ out # <<>> => \A h \in Headers, j \in Keys : Get(file, h, j) = Absent
           /\ out = <<>> => file = NewFile(k, v)
           /\ out # <<>> => \/ file \o Head(out) = SectionLine /\ Tail(out) = <<LineOf(k, v)>>
                            \/ file \o Head(out) = NewFile(k, v) /\ Tail(out) = <<>>
<1>1. TypeInv /\ pc # "idle"
  BY DEF PutInv
<1>2. k \in Keys /\ v \in Values /\ v \in Putable(Tokens)
  BY <1>1, ArgTyped DEF Careful
<1>3. PICK K : K = LineOf(k, v)
  OBVIOUS
<1>4. PICK S : S = SectionLine
  OBVIOUS
<1>5. PICK N : N = NewFile(k, v)
  OBVIOUS
<1>6. /\ wpos = Len(file) + 1
      /\ \/ file = <<>> /\ out = <<S, K>>
         \/ file = S /\ out = <<K>>
         \/ file = N /\ out = <<>>
  BY <1>3, <1>4, <1>5 DEF PutInv, CreateInv
<1>7. /\ S \in Seq(Tokens) /\ K \in Seq(Tokens) /\ N \in Seq(Tokens) /\ N = S \o K
      /\ Closed(S) /\ Closed(N)
      /\ \A h \in Headers, j \in Keys : Get(S, h, j) = Absent
  <2>1. S \in Seq(Tokens) /\ Closed(S)
    BY <1>4, Header DEF Closed
  <2>2. K \in Seq(Tokens)
    BY <1>2, <1>3, LineOfKey
  <2>3. N \in Seq(Tokens) /\ Closed(N) /\ \A h \in Headers, j \in Keys : Get(S, h, j) = Absent
    BY <1>2, <1>4, <1>5, NewFileIs
  <2>4. N = S \o K
    BY <1>3, <1>4, <1>5 DEF NewFile
  <2> QED BY <2>1, <2>2, <2>3, <2>4
<1>8. ASSUME NEW s \in Seq(Tokens)
      PROVE  <<>> \o s = s /\ s \o <<>> = s
  OBVIOUS
<1>9. CASE file = <<>> /\ out = <<S, K>>
  <2>1. Flat(out) = S \o K
    BY <1>7, <1>9, Flat2
  <2>2. file \o Flat(out) = N
    BY <1>7, <1>8, <1>9, <2>1
  <2>3. Head(out) = S /\ Tail(out) = <<K>> /\ out # <<>> /\ Len(out) <= 4
    BY <1>9
  <2>4. \A h \in Headers, j \in Keys : Get(file, h, j) = Absent
    BY <1>9, EmptyHasNothing
  <2>5. file \in Seq(Tokens) /\ Closed(file)
    BY <1>9 DEF Closed
  <2>6. file \o Head(out) = S
    BY <1>7, <1>8, <1>9, <2>3
  <2> QED BY <1>3, <1>4, <1>5, <1>6, <2>2, <2>3, <2>4, <2>5, <2>6
<1>10. CASE file = S /\ out = <<K>>
  <2>1. Flat(out) = K
    BY <1>7, <1>10, Flat1
  <2>2. file \o Flat(out) = N
    BY <1>7, <1>10, <2>1
  <2>3. Head(out) = K /\ Tail(out) = <<>> /\ out # <<>> /\ Len(out) <= 4
    BY <1>10
  <2> QED BY <1>3, <1>4, <1>5, <1>6, <1>7, <1>10, <2>2, <2>3
<1>11. CASE file = N /\ out = <<>>
  <2>1. file \o Flat(out) = N
    BY <1>7, <1>8, <1>11, FlatNone
  <2>2. Len(out) <= 4
    BY <1>11
  <2> QED BY <1>3, <1>4, <1>5, <1>6, <1>7, <1>11, <2>1, <2>2
<1> QED BY <1>6, <1>9, <1>10, <1>11

\* How much of the piece is written, and whether the card is full.
Written(n, f) ==
    \/ ~full /\ n = Len(Head(out)) /\ UNCHANGED <<full, faults>>
    \/ ~full /\ n < Len(Head(out)) /\ faults < MaxFaults /\ full' = TRUE /\ faults' = faults + 1
    \/ full /\ UNCHANGED <<full, faults>>
         /\ n = (IF Len(f) - (wpos - 1) < Len(Head(out)) THEN Len(f) - (wpos - 1) ELSE Len(Head(out)))

LEMMA PieceTyped ==
    ASSUME TypeInv, out # <<>>
    PROVE  Head(out) \in Seq(Tokens) /\ Tail(out) \in Seq(Seq(Tokens))
<1>1. out \in Seq(Seq(Tokens))
  BY DEF TypeInv, TypeOK
<1> QED BY <1>1, HeadTailProperties

\* A piece of a new file.
LEMMA WriteNewFile ==
    ASSUME Careful, PutInv, Write, pc = "create"
    PROVE  FaultInv' /\ WholeInv' /\ CreateInv' /\ CopyInv'
<1>1. pc' = "create" /\ out # <<>> /\ out' = Tail(out) /\ temp' = temp /\ arg' = arg
      /\ interrupted' = interrupted /\ rpos' = rpos /\ short' = short
  BY DEF Write, WriteTo
<1>2. PICK n \in 0..Len(Head(out)) :
        Written(n, file) /\ file' = Overwrite(file, wpos, Head(out), n) /\ wpos' = wpos + n
  BY DEF Write, WriteTo, Written
<1>3. TypeInv /\ pc # "idle" /\ Head(out) \in Seq(Tokens) /\ Tail(out) \in Seq(Seq(Tokens))
      /\ file \in Seq(Tokens) /\ CreateInv
  <2>1. TypeInv /\ CreateInv /\ file \in Seq(Tokens)
    BY DEF PutInv, TypeInv
  <2> QED BY <1>1, <2>1, PieceTyped
<1>4. PICK k : k = arg[1]
  OBVIOUS
<1>5. PICK v : v = arg[2]
  OBVIOUS
<1>6. wpos = Len(file) + 1
  BY <1>3 DEF CreateInv
<1>7. PICK H : H = Head(out)
  OBVIOUS
<1>8. Len(H) \in Nat /\ Len(file) \in Nat /\ H \in Seq(Tokens)
  BY <1>3, <1>7
<1>9. /\ file' = file \o SubSeq(H, 1, n)
      /\ n = 0 => file' = file
      /\ n = Len(H) => file' = file \o H
  <2>1. n \in 0..Len(H)
    BY <1>2, <1>7
  <2>2. Appended(Overwrite(file, wpos, H, n), file, H, n)
    BY <1>3, <1>6, <1>8, <2>1, OverwriteEnd
  <2> QED BY <1>2, <1>7, <2>2 DEF Appended
<1>10. CASE ~full /\ n = Len(H) /\ UNCHANGED <<full, faults>>
  <2>1. \/ file' = SectionLine /\ out' = <<LineOf(k, v)>>
        \/ file' = NewFile(k, v) /\ out' = <<>>
    BY <1>1, <1>4, <1>5, <1>7, <1>9, <1>10, NewFileGrows
  <2>2. Closed(file')
    <3>1. Closed(SectionLine)
      BY Header DEF Closed
    <3>2. Closed(NewFile(k, v))
      <4>1. k \in Keys /\ v \in Values /\ v \in Putable(Tokens)
        BY <1>3, <1>4, <1>5, ArgTyped DEF Careful
      <4> QED BY <4>1, NewFileIs
    <3> QED BY <2>1, <3>1, <3>2
  <2>3. wpos' = Len(file') + 1
    <3>1. Len(file') = Len(file) + Len(H)
      BY <1>3, <1>8, <1>9, <1>10, ConcatProperties
    <3> QED BY <1>2, <1>6, <1>8, <1>10, <3>1
  <2>4. CreateInv'
    BY <1>1, <1>4, <1>5, <1>10, <2>1, <2>3 DEF CreateInv
  <2>5. FaultInv'
    BY <1>1, <1>10 DEF PutInv, FaultInv
  <2>6. WholeInv'
    BY <1>1, <1>10, <2>2 DEF PutInv, WholeInv, Left, Rewriting
  <2> QED BY <1>1, <2>4, <2>5, <2>6 DEF CopyInv, Rewriting
<1>11. CASE ~full /\ n < Len(H) /\ faults < MaxFaults /\ full' = TRUE /\ faults' = faults + 1
  <2>1. NewFile(k, v) = file \o Flat(out) /\ Len(out) <= 4
    BY <1>4, <1>5, <1>11, NewFileGrows
  <2>2. Flat(out) = H \o Flat(Tail(out)) /\ Flat(Tail(out)) \in Seq(Tokens)
    <3>1. out \in Seq(Seq(Tokens))
      BY <1>3 DEF TypeInv, TypeOK
    <3> QED BY <1>1, <1>7, <2>1, <3>1, FlatHead
  <2>3. PICK F : F = Flat(Tail(out))
    OBVIOUS
  <2>4. NewFile(k, v) = file \o (H \o F) /\ F \in Seq(Tokens)
    BY <2>1, <2>2, <2>3
  <2>5. n \in 0..Len(H)
    BY <1>2, <1>7
  <2>6. file' \in Seq(Tokens) /\ Extends(NewFile(k, v), file')
    <3>1. PICK g : g = file'
      OBVIOUS
    <3>2. CutIn(NewFile(k, v), g, file, H, F, n)
      BY <1>3, <1>8, <1>9, <2>4, <2>5, <3>1, CutPiece
    <3> QED BY <3>1, <3>2 DEF CutIn
  <2>7. wpos' = Len(file') + 1
    <3>1. Len(file') = Len(file) + n
      <4>1. 1 <= 1 /\ n <= Len(H) /\ 1 <= n + 1 /\ n \in Int /\ 1 \in Int /\ n - 1 + 1 = n
        BY <1>8, <2>5
      <4>2. SubSeq(H, 1, n) \in Seq(Tokens) /\ Len(SubSeq(H, 1, n)) = n - 1 + 1
        BY <1>8, <4>1, PartTyped
      <4> QED BY <1>3, <1>9, <4>1, <4>2, ConcatProperties
    <3> QED BY <1>2, <1>6, <1>8, <2>5, <3>1
  <2>8. CreateInv'
    BY <1>1, <1>4, <1>5, <1>11, <2>6, <2>7 DEF CreateInv
  <2>9. ~interrupted /\ ~short /\ faults' = MaxFaults /\ ~(faults' < MaxFaults) /\ interrupted' = interrupted
    BY <1>1, <1>11, OneFault
  <2>10. FaultInv'
    BY <1>1, <1>11, <2>9 DEF FaultInv
  <2>11. ~Left /\ ~Left'
    <3>1. ~Left
      BY <2>9 DEF PutInv, WholeInv
    <3> QED BY <1>1, <3>1 DEF Left, Rewriting
  <2>12. WholeInv'
    BY <1>1, <2>9, <2>11 DEF WholeInv
  <2> QED BY <1>1, <2>8, <2>10, <2>12 DEF CopyInv, Rewriting
<1>12. CASE full /\ UNCHANGED <<full, faults>>
            /\ n = (IF Len(file) - (wpos - 1) < Len(H) THEN Len(file) - (wpos - 1) ELSE Len(H))
  <2>1. n = 0
    <3>1. Len(file) - (wpos - 1) = 0
      BY <1>6, <1>8
    <3> QED BY <1>8, <1>12, <3>1
  <2>2. file' = file /\ wpos' = wpos
    BY <1>2, <1>6, <1>8, <1>9, <2>1
  <2>3. CreateInv'
    BY <1>1, <1>3, <1>12, <2>2 DEF CreateInv
  <2>4. FaultInv'
    BY <1>1, <1>12 DEF PutInv, FaultInv
  <2>5. WholeInv'
    BY <1>1, <1>12, <2>2 DEF PutInv, WholeInv, Left, Rewriting
  <2> QED BY <1>1, <2>3, <2>4, <2>5 DEF CopyInv, Rewriting
<1> QED BY <1>2, <1>7, <1>10, <1>11, <1>12 DEF Written

\* A piece of the temporary file.
LEMMA WriteTemp ==
    ASSUME Careful, PutInv, Write, pc \in Rewriting
    PROVE  FaultInv' /\ WholeInv' /\ CreateInv' /\ CopyInv'
<1>1. /\ pc' = pc /\ pc # "create" /\ pc # "rename" /\ pc # "idle" /\ pc # "open"
      /\ out # <<>> /\ out' = Tail(out) /\ file' = file /\ arg' = arg
      /\ interrupted' = interrupted /\ rpos' = rpos /\ short' = short
  BY DEF Write, WriteTo, Rewriting
<1>2. PICK n \in 0..Len(Head(out)) :
        Written(n, temp) /\ temp' = Overwrite(temp, wpos, Head(out), n) /\ wpos' = wpos + n
  BY <1>1 DEF Write, WriteTo, Written
<1>3. /\ TypeInv /\ Head(out) \in Seq(Tokens) /\ Tail(out) \in Seq(Seq(Tokens)) /\ out \in Seq(Seq(Tokens))
      /\ temp \in Seq(Tokens) /\ wpos \in 1..Len(temp) + 1 /\ Len(temp) \in Nat
  <2>1. TypeInv /\ temp \in Seq(Tokens) /\ wpos \in Nat \ {0} /\ wpos <= Len(temp) + 1
        /\ out \in Seq(Seq(Tokens))
    BY DEF PutInv, TypeInv, TypeOK
  <2> QED BY <1>1, <2>1, PieceTyped
<1>4. PICK H : H = Head(out)
  OBVIOUS
<1>5. PICK d \in Seq(Tokens) : Draft(d) /\ (Closed(Past) => Closed(d)) /\ Progress(Past, d)
  BY DEF PutInv, CopyInv
<1>6. Len(H) \in Nat /\ H \in Seq(Tokens) /\ n \in 0..Len(H)
  BY <1>2, <1>3, <1>4
<1>7. Past' = Past /\ Progress(Past, d)' /\ AtEnd' = AtEnd
  <2>1. Past' = Past
    BY <1>1 DEF Past
  <2> QED BY <1>1, <1>5, <2>1 DEF Progress, AtEnd
<1>8. SUFFICES FaultInv' /\ WholeInv' /\ Draft(d)'
  <2>1. ASSUME Draft(d)'
        PROVE  CopyInv'
    BY <1>1, <1>5, <1>7, <2>1 DEF PutInv, CopyInv
  <2> QED BY <1>1, <2>1 DEF CreateInv
<1>9. /\ temp' \in Seq(Tokens)
      /\ Len(temp') = (IF wpos - 1 + n > Len(temp) THEN wpos - 1 + n ELSE Len(temp))
  BY <1>2, <1>3, OverwriteIs
<1>10. Left' => Left
  <2>1. SUFFICES ASSUME ~Left
                 PROVE  Len(temp') = wpos' - 1
    BY <1>1 DEF Left
  <2>2. Len(temp) = wpos - 1
    BY <2>1 DEF Left
  <2> QED BY <1>2, <1>3, <1>6, <1>9, <2>2
<1>11. CASE ~full /\ n = Len(H) /\ UNCHANGED <<full, faults>>
  <2>1. FaultInv'
    BY <1>1, <1>11 DEF PutInv, FaultInv
  <2>2. WholeInv'
    BY <1>1, <1>10, <1>11 DEF PutInv, WholeInv
  <2>3. PICK a : a = SubSeq(temp, 1, wpos - 1)
    OBVIOUS
  <2>4. a \in Seq(Tokens)
    <3>1. 1 <= 1 /\ wpos - 1 <= Len(temp) /\ 1 <= wpos - 1 + 1 /\ wpos - 1 \in Int /\ 1 \in Int
      BY <1>3
    <3> QED BY <1>3, <2>3, <3>1, PartTyped
  <2>5. Len(out) <= 4 /\ d = a \o Flat(out)
    BY <1>5, <1>11, <2>3 DEF Draft
  <2>6. Flat(out) = H \o Flat(Tail(out)) /\ Flat(Tail(out)) \in Seq(Tokens) /\ Len(Tail(out)) <= 4
    BY <1>1, <1>3, <1>4, <2>5, FlatHead
  <2>7. PICK F : F = Flat(Tail(out))
    OBVIOUS
  <2>8. d = (a \o H) \o F
    <3>1. Associate(a, H, F)
      BY <1>6, <2>4, <2>6, <2>7, Regroup
    <3>2. d = a \o (H \o F)
      BY <2>5, <2>6, <2>7
    <3> QED BY <3>1, <3>2 DEF Associate
  <2>9. SubSeq(temp', 1, wpos' - 1) = a \o H
    <3>1. SubSeq(Overwrite(temp, wpos, H, n), 1, wpos + n - 1) = a \o H
      BY <1>3, <1>6, <1>11, <2>3, OverwriteWhole, ZenonT(60)
    <3>2. wpos' - 1 = wpos + n - 1
      BY <1>2, <1>3, <1>6
    <3> QED BY <1>2, <1>4, <3>1, <3>2
  <2>10. ~full' /\ Len(out') <= 4 /\ d = SubSeq(temp', 1, wpos' - 1) \o Flat(out')
    BY <1>1, <1>11, <2>6, <2>7, <2>8, <2>9
  <2> QED BY <2>1, <2>2, <2>10 DEF Draft
<1>12. CASE ~full /\ n < Len(H) /\ faults < MaxFaults /\ full' = TRUE /\ faults' = faults + 1
  <2>1. ~interrupted /\ ~short /\ faults' = MaxFaults /\ ~(faults' < MaxFaults) /\ interrupted' = interrupted
    BY <1>1, <1>12, OneFault
  <2>2. FaultInv'
    BY <1>1, <1>12, <2>1 DEF FaultInv
  <2>3. ~Left
    BY <1>1, <2>1 DEF PutInv, WholeInv
  <2>4. WholeInv'
    BY <1>1, <1>10, <2>1, <2>3 DEF WholeInv
  <2>5. wpos = Len(temp) + 1 /\ SubSeq(temp, 1, wpos - 1) = temp
    <3>1. Len(temp) = wpos - 1
      BY <2>3 DEF Left
    <3>2. wpos = Len(temp) + 1
      BY <1>3, <3>1
    <3>3. SubSeq(temp, 1, Len(temp)) = temp
      BY <1>3, WholePart
    <3> QED BY <3>1, <3>2, <3>3
  <2>6. Len(out) <= 4 /\ d = temp \o Flat(out)
    BY <1>5, <1>12, <2>5 DEF Draft
  <2>7. Flat(out) = H \o Flat(Tail(out)) /\ Flat(Tail(out)) \in Seq(Tokens)
    BY <1>1, <1>3, <1>4, <2>6, FlatHead
  <2>8. PICK F : F = Flat(Tail(out))
    OBVIOUS
  <2>9. PICK g : g = temp'
    OBVIOUS
  <2>10. g = temp \o SubSeq(H, 1, n)
    <3>1. Appended(Overwrite(temp, wpos, H, n), temp, H, n)
      BY <1>3, <1>6, <2>5, OverwriteEnd
    <3> QED BY <1>2, <1>4, <2>9, <3>1 DEF Appended
  <2>11. CutIn(d, g, temp, H, F, n)
    <3>1. d = temp \o (H \o F) /\ F \in Seq(Tokens)
      BY <2>6, <2>7, <2>8
    <3> QED BY <1>3, <1>6, <2>10, <3>1, CutPiece
  <2>12. Extends(d, temp') /\ full'
    BY <1>12, <2>9, <2>11 DEF CutIn
  <2> QED BY <2>2, <2>4, <2>12 DEF Draft
<1>13. CASE full /\ UNCHANGED <<full, faults>>
            /\ n = (IF Len(temp) - (wpos - 1) < Len(H) THEN Len(temp) - (wpos - 1) ELSE Len(H))
  <2>1. ~Left
    <3>1. ~interrupted
      BY <1>13, OneFault
    <3> QED BY <1>1, <3>1 DEF PutInv, WholeInv
  <2>2. Len(temp) = wpos - 1
    BY <2>1 DEF Left
  <2>3. n = 0 /\ wpos = Len(temp) + 1
    <3>1. Len(temp) - (wpos - 1) = 0 /\ wpos = Len(temp) + 1
      BY <1>3, <2>2
    <3> QED BY <1>6, <1>13, <3>1
  <2>4. temp' = temp
    <3>1. Appended(Overwrite(temp, wpos, H, n), temp, H, n)
      BY <1>3, <1>6, <2>3, OverwriteEnd
    <3> QED BY <1>2, <1>4, <2>3, <3>1 DEF Appended
  <2>5. FaultInv'
    BY <1>1, <1>13 DEF PutInv, FaultInv
  <2>6. WholeInv'
    BY <1>1, <1>10, <1>13 DEF PutInv, WholeInv
  <2>7. Extends(d, temp') /\ full'
    BY <1>5, <1>13, <2>4 DEF Draft
  <2> QED BY <2>5, <2>6, <2>7 DEF Draft
<1> QED BY <1>2, <1>4, <1>11, <1>12, <1>13 DEF Written

\* A put that returns.
LEMMA ReturnKeeps ==
    ASSUME PutInv, pc \in {"open", "create"}, pc' = "idle", rpos' = 1,
           UNCHANGED <<file, temp, full, faults, interrupted, short>>
    PROVE  FaultInv' /\ WholeInv' /\ CreateInv' /\ CopyInv'
<1>1. Left' = Left
  BY DEF Left, Rewriting
<1>2. WholeInv'
  BY <1>1 DEF PutInv, WholeInv
<1>3. FaultInv'
  BY DEF PutInv, FaultInv
<1> QED BY <1>2, <1>3 DEF CreateInv, CopyInv, Rewriting

LEMMA OpenNewKeeps ==
    ASSUME Careful, PutInv, OpenNew
    PROVE  FaultInv' /\ WholeInv' /\ CreateInv' /\ CopyInv'
<1>1. pc = "open" /\ UNCHANGED <<temp, full, faults, interrupted, short>> /\ file = Absent
  BY DEF OpenNew, history
<1>2. CASE /\ pc' = "create" /\ file' = <<>> /\ out' = <<<<Slide, nl>>, KeyLine>>
           /\ UNCHANGED <<arg, rpos, wpos, copied, result>>
  <2>1. ~full' /\ wpos' = 1 /\ wpos' = Len(file') + 1
    <3>1. ~full /\ wpos = 1
      BY <1>1 DEF PutInv, FaultInv, TypeInv
    <3>2. Len(<<>>) + 1 = 1
      OBVIOUS
    <3> QED BY <1>1, <1>2, <3>1, <3>2
  <2>2. out' = <<SectionLine, LineOf(arg'[1], arg'[2])>>
    BY <1>2 DEF SectionLine, KeyLine, LineOf
  <2>3. CreateInv'
    BY <1>2, <2>1, <2>2 DEF CreateInv
  <2>4. FaultInv'
    BY <1>1, <1>2 DEF PutInv, FaultInv
  <2>5. WholeInv'
    <3>1. Left' = Left
      BY <1>1, <1>2 DEF Left, Rewriting
    <3>2. Closed(file')
      BY <1>2 DEF Closed
    <3> QED BY <1>1, <1>2, <3>1, <3>2 DEF PutInv, WholeInv
  <2> QED BY <1>2, <2>3, <2>4, <2>5 DEF CopyInv, Rewriting
<1>3. CASE Return(0) /\ UNCHANGED file
  BY <1>1, <1>3, ReturnKeeps DEF Return
<1> QED BY <1>2, <1>3 DEF OpenNew

LEMMA OpenTempKeeps ==
    ASSUME Careful, PutInv, OpenTemp
    PROVE  FaultInv' /\ WholeInv' /\ CreateInv' /\ CopyInv'
<1>1. pc = "open" /\ UNCHANGED <<file, full, interrupted, short>> /\ file # Absent
  BY DEF OpenTemp
<1>2. \/ faults' = faults
      \/ faults < MaxFaults /\ faults' = MaxFaults /\ ~interrupted
  BY OneFault DEF OpenTemp
<1>3. ASSUME pc' # "open", pc' \in {"idle", "section"}, pc' = "idle" => rpos' = 1
      PROVE  FaultInv'
  BY <1>1, <1>2, <1>3 DEF PutInv, FaultInv
<1>4. ASSUME Left' => Left, pc' # "rename"
      PROVE  WholeInv'
  BY <1>1, <1>2, <1>4 DEF PutInv, WholeInv
<1>5. CASE /\ pc' = "section" /\ temp' = IF temp = Absent THEN <<>> ELSE temp
           /\ UNCHANGED <<arg, rpos, out, wpos, copied, result>>
  <2>1. ~full' /\ wpos' = 1 /\ rpos' = 1 /\ out' = <<>> /\ file' \in Seq(Tokens) /\ temp' \in Seq(Tokens)
    <3>1. ~full /\ wpos = 1 /\ rpos = 1 /\ out = <<>>
      BY <1>1 DEF PutInv, FaultInv, TypeInv
    <3>2. file \in Seq(Tokens)
      BY <1>1 DEF PutInv, TypeInv, TypeOK
    <3>3. temp' \in Seq(Tokens)
      <4>1. <<>> \in Seq(Tokens) /\ temp \in Seq(Tokens) \cup {Absent}
        BY DEF PutInv, TypeInv, TypeOK
      <4> QED BY <1>5, <4>1
    <3> QED BY <1>1, <1>5, <3>1, <3>2, <3>3
  <2>2. FaultInv'
    BY <1>5, <1>3
  <2>3. WholeInv'
    <3>1. Left' => Left
      <4>1. SUFFICES ASSUME temp = Absent
                     PROVE  Len(temp') = wpos' - 1
        BY <1>1, <1>5 DEF Left, Rewriting
      <4>2. temp' = <<>> /\ Len(<<>>) = 1 - 1
        BY <1>5, <4>1
      <4> QED BY <2>1, <4>2
    <3> QED BY <1>5, <1>4, <3>1
  <2>4. CopyInv'
    <3>1. Past' = <<>>
      <4>1. \A f : SubSeq(f, 1, 1 - 1) = <<>>
        OBVIOUS
      <4> QED BY <2>1, <4>1 DEF Past
    <3>2. <<>> \in Seq(Tokens) /\ Closed(<<>>)
      BY DEF Closed
    <3>3. Draft(<<>>)'
      <4>1. SubSeq(temp', 1, wpos' - 1) = <<>>
        <5>1. \A f : SubSeq(f, 1, 1 - 1) = <<>>
          OBVIOUS
        <5> QED BY <2>1, <5>1
      <4>2. <<>> = SubSeq(temp', 1, wpos' - 1) \o Flat(out')
        BY <2>1, <4>1, FlatNone
      <4>3. Len(out') <= 4
        BY <2>1
      <4> QED BY <2>1, <4>2, <4>3 DEF Draft
    <3>4. Progress(Past, <<>>)'
      <4>1. Same(<<>>, <<>>, {}) /\ ~Sect(<<>>, Slide)
        BY SameSelf, EmptyHasNothing, TokensAssumption
      <4> QED BY <1>5, <3>1, <4>1 DEF Progress
    <3>5. rpos' <= Len(file') + 1
      BY <2>1
    <3> QED BY <1>5, <3>1, <3>2, <3>3, <3>4, <3>5 DEF CopyInv
  <2> QED BY <1>5, <2>2, <2>3, <2>4 DEF CreateInv
<1>6. CASE Return(0) /\ UNCHANGED <<temp, due>>
  <2>1. pc' = "idle" /\ rpos' = 1 /\ temp' = temp
    BY <1>6 DEF Return
  <2>2. Left' = Left
    BY <1>1, <2>1 DEF Left, Rewriting
  <2> QED BY <1>3, <1>4, <2>1, <2>2 DEF CreateInv, CopyInv, Rewriting
<1> QED BY <1>5, <1>6 DEF OpenTemp

\* What the file is replaced by, when everything was written.
LEMMA BeforeRemove ==
    ASSUME Careful, PutInv, pc = "remove", out = <<>>
    PROVE  /\ file \in Seq(Tokens) /\ temp \in Seq(Tokens)
           /\ ~short => Past = file
           /\ \E d \in Seq(Tokens) :
                /\ Updated(d, Past, arg[1], arg[2])
                /\ Closed(Past) => Closed(d)
                /\ full => Extends(d, temp)
                /\ ~full => Extends(temp, d)
                /\ ~full /\ ~Left => temp = d
<1>1. pc \in Rewriting /\ TypeInv /\ CopyInv
  BY DEF PutInv, Rewriting
<1>2. file \in Seq(Tokens) /\ temp \in Seq(Tokens) /\ (~short => rpos = Len(file) + 1) /\ wpos \in 1..Len(temp) + 1
  <2>1. wpos \in Nat \ {0} /\ wpos <= Len(temp) + 1 /\ file \in Seq(Tokens) /\ temp \in Seq(Tokens)
    BY <1>1 DEF TypeInv, TypeOK
  <2>2. ~short => rpos = Len(file) + 1
    BY <1>1 DEF CopyInv
  <2> QED BY <2>1, <2>2
<1>3. ASSUME ~short
      PROVE  Past = file
  <2>1. rpos - 1 = Len(file)
    BY <1>2, <1>3
  <2>2. SubSeq(file, 1, Len(file)) = file
    BY <1>2, WholePart
  <2> QED BY <2>1, <2>2 DEF Past
<1>4. PICK d \in Seq(Tokens) : Draft(d) /\ (Closed(Past) => Closed(d)) /\ Progress(Past, d)
  BY <1>1 DEF CopyInv
<1>5. Updated(d, Past, arg[1], arg[2])
  BY <1>4 DEF Progress, Updated
<1>6. full => Extends(d, temp)
  BY <1>4 DEF Draft
<1>7. ASSUME ~full
      PROVE  Extends(temp, d) /\ (~Left => temp = d)
  <2>1. PICK a : a = SubSeq(temp, 1, wpos - 1)
    OBVIOUS
  <2>2. /\ a \in Seq(Tokens) /\ Len(a) = wpos - 1
        /\ \A i \in 1..wpos - 1 : a[i] = temp[i]
    <3>1. 1 <= 1 /\ wpos - 1 <= Len(temp) /\ 1 <= wpos - 1 + 1 /\ wpos - 1 \in Int /\ 1 \in Int
      BY <1>2
    <3>2. /\ a \in Seq(Tokens) /\ Len(a) = wpos - 1 - 1 + 1
          /\ \A i \in 1..wpos - 1 - 1 + 1 : a[i] = temp[1 + i - 1]
      BY <1>2, <2>1, <3>1, PartTyped
    <3>3. wpos - 1 - 1 + 1 = wpos - 1 /\ \A i \in 1..wpos - 1 : 1 + i - 1 = i
      BY <1>2
    <3> QED BY <3>2, <3>3
  <2>3. d = a
    <3>1. d = a \o <<>>
      BY <1>4, <1>7, <2>1, FlatNone DEF Draft
    <3>2. a \o <<>> = a
      BY <2>2
    <3> QED BY <3>1, <3>2
  <2>4. Extends(temp, d)
    <3>1. Len(d) <= Len(temp)
      BY <1>2, <2>2, <2>3
    <3> QED BY <2>2, <2>3, <3>1 DEF Extends
  <2>5. ~Left => temp = d
    <3>1. SUFFICES ASSUME ~Left
                   PROVE  temp = d
      OBVIOUS
    <3>2. Len(temp) = wpos - 1
      BY <1>1, <3>1 DEF Left
    <3>3. SubSeq(temp, 1, Len(temp)) = temp
      BY <1>2, WholePart
    <3> QED BY <2>1, <2>3, <3>2, <3>3
  <2> QED BY <2>4, <2>5
<1> QED BY <1>2, <1>3, <1>4, <1>5, <1>6, <1>7

\* What was read of the file holds its entries, or does not hold them.
LEMMA PartHolds ==
    ASSUME Careful, PutInv, pc = "remove", short, NEW h, NEW k
    PROVE  Get(Past, h, k) \in {Get(file, h, k), Absent}
<1>1. /\ file \in Seq(Tokens) /\ rpos \in Nat \ {0} /\ rpos <= Len(file) + 1
      /\ ~AtEnd => Closed(Past)
  BY DEF PutInv, CopyInv, TypeInv, TypeOK, Rewriting
<1>2. /\ Past \in Seq(Tokens) /\ Len(Past) = rpos - 1 - 1 + 1
      /\ \A i \in 1..rpos - 1 - 1 + 1 : Past[i] = file[1 + i - 1]
  <2>1. 1 <= 1 /\ rpos - 1 <= Len(file) /\ 1 <= rpos - 1 + 1 /\ rpos - 1 \in Int /\ 1 \in Int
    BY <1>1
  <2> QED BY <1>1, <2>1, PartTyped DEF Past
<1>3. Extends(file, Past)
  <2>1. rpos - 1 - 1 + 1 = rpos - 1 /\ (\A i \in 1..rpos - 1 : 1 + i - 1 = i) /\ rpos - 1 <= Len(file)
    BY <1>1
  <2> QED BY <1>2, <2>1 DEF Extends
<1>4. CASE AtEnd
  <2>1. rpos - 1 = Len(file)
    BY <1>1, <1>4 DEF AtEnd
  <2>2. SubSeq(file, 1, Len(file)) = file
    BY <1>1, WholePart
  <2>3. Past = file
    BY <2>1, <2>2 DEF Past
  <2> QED BY <2>3
<1>5. CASE ~AtEnd
  <2>1. CASE Has(Past, h, k)
    <3>1. Get(file, h, k) = Get(Past, h, k)
      BY <1>1, <1>2, <1>3, <1>5, <2>1, GetKept
    <3> QED BY <3>1
  <2>2. CASE ~Has(Past, h, k)
    BY <2>2, GetOfNone
  <2> QED BY <2>1, <2>2
<1> QED BY <1>4, <1>5

LEMMA RemoveKeeps ==
    ASSUME Careful, PutInv, Remove
    PROVE  FaultInv' /\ WholeInv' /\ CreateInv' /\ CopyInv'
<1>1. /\ pc = "remove" /\ out = <<>> /\ pc' = "rename" /\ file' = Absent /\ temp' = temp
      /\ UNCHANGED <<full, faults, interrupted, short>>
  BY DEF Remove, Goto
<1>2. FaultInv'
  BY <1>1 DEF PutInv, FaultInv
<1>3. ASSUME faults < MaxFaults
      PROVE  Closed(temp)
  <2>1. ~full /\ ~interrupted /\ ~short
    BY <1>3, OneFault
  <2>2. ~Left
    BY <1>1, <2>1 DEF PutInv, WholeInv
  <2>3. PICK d \in Seq(Tokens) : (Closed(file) => Closed(d)) /\ temp = d
    BY <1>1, <2>1, <2>2, BeforeRemove
  <2>4. Closed(file)
    <3>1. file # Absent
      <4>1. pc \in Rewriting
        BY <1>1 DEF Rewriting
      <4>2. file \in Seq(Tokens)
        BY <4>1 DEF PutInv, TypeInv
      <4> QED BY <4>2, AbsentIsNone
    <3> QED BY <1>1, <1>3, <3>1 DEF PutInv, WholeInv
  <2> QED BY <2>3, <2>4
<1>4. WholeInv'
  BY <1>1, <1>3 DEF WholeInv
<1> QED BY <1>1, <1>2, <1>4 DEF CreateInv, CopyInv, Rewriting

LEMMA RenameKeeps ==
    ASSUME Careful, PutInv, Rename
    PROVE  FaultInv' /\ WholeInv' /\ CreateInv' /\ CopyInv'
<1>1. /\ pc = "rename" /\ pc' = "idle" /\ rpos' = 1 /\ file' = temp /\ temp' = Absent
      /\ UNCHANGED <<full, faults, interrupted, short>>
  BY DEF Rename, Return
<1>2. FaultInv'
  BY <1>1 DEF PutInv, FaultInv
<1>3. WholeInv'
  <2>1. ~Left'
    BY <1>1 DEF Left, Rewriting
  <2>2. faults' < MaxFaults => Closed(file')
    BY <1>1 DEF PutInv, WholeInv
  <2> QED BY <1>1, <2>1, <2>2 DEF WholeInv
<1> QED BY <1>1, <1>2, <1>3 DEF CreateInv, CopyInv, Rewriting

LEMMA CrashKeeps ==
    ASSUME Careful, PutInv, Crash
    PROVE  FaultInv' /\ WholeInv' /\ CreateInv' /\ CopyInv'
<1>1. /\ faults < MaxFaults /\ pc' = "idle" /\ rpos' = 1 /\ UNCHANGED <<file, temp, full, short>>
      /\ faults' = faults + 1 /\ interrupted' = TRUE
  BY DEF Crash, Return, disk
<1>2. ~full /\ ~short /\ faults' = MaxFaults
  BY <1>1, OneFault
<1>3. FaultInv'
  BY <1>1, <1>2 DEF FaultInv
<1>4. file = Absent \/ Closed(file)
  BY <1>1 DEF PutInv, WholeInv
<1>5. WholeInv'
  BY <1>1, <1>4 DEF WholeInv
<1> QED BY <1>1, <1>3, <1>5 DEF CreateInv, CopyInv, Rewriting

LEMMA CallKeeps ==
    ASSUME Careful, PutInv, NEW key \in Puts, NEW value \in Values, Call(key, value)
    PROVE  FaultInv' /\ WholeInv' /\ CreateInv' /\ CopyInv'
<1>1. /\ pc = "idle" /\ pc' = "open" /\ full' = FALSE /\ short' = FALSE
      /\ UNCHANGED <<file, temp, rpos, faults, interrupted>>
  BY DEF Call, Goto, disk
<1>2. FaultInv'
  BY <1>1 DEF PutInv, FaultInv
<1>3. WholeInv'
  <2>1. Left' = Left
    BY <1>1 DEF Left, Rewriting
  <2> QED BY <1>1, <2>1 DEF PutInv, WholeInv
<1> QED BY <1>1, <1>2, <1>3 DEF CreateInv, CopyInv, Rewriting

LEMMA StutterKeeps ==
    ASSUME PutInv, UNCHANGED vars
    PROVE  FaultInv' /\ WholeInv' /\ CreateInv' /\ CopyInv'
<1>1. UNCHANGED <<file, temp, pc, arg, rpos, out, wpos, full, faults, interrupted, short>>
  BY DEF vars, disk, call, history
<1>2. FaultInv'
  BY <1>1 DEF PutInv, FaultInv
<1>3. WholeInv'
  BY <1>1 DEF PutInv, WholeInv, Left
<1>4. CreateInv'
  BY <1>1 DEF PutInv, CreateInv
<1>5. CopyInv'
  <2>1. Past' = Past /\ AtEnd' = AtEnd
    BY <1>1 DEF Past, AtEnd
  <2>2. SUFFICES ASSUME pc \in Rewriting
                 PROVE  CopyInv'
    BY <1>1 DEF CopyInv
  <2>3. PICK d \in Seq(Tokens) : Draft(d) /\ (Closed(Past) => Closed(d)) /\ Progress(Past, d)
    BY <2>2 DEF PutInv, CopyInv
  <2>4. Draft(d)' /\ Progress(Past, d)'
    BY <1>1, <2>1, <2>3 DEF Draft, Progress
  <2> QED BY <1>1, <2>1, <2>2, <2>3, <2>4 DEF PutInv, CopyInv
<1> QED BY <1>2, <1>3, <1>4, <1>5

LEMMA PutNext == Careful /\ PutInv /\ [Next]_vars => PutInv'
<1> SUFFICES ASSUME Careful, PutInv, [Next]_vars
             PROVE  PutInv'
  OBVIOUS
<1>1. TypeInv'
  BY TypeNext DEF PutInv
<1>2. SUFFICES FaultInv' /\ WholeInv' /\ CreateInv' /\ CopyInv'
  BY <1>1 DEF PutInv
<1>3. CASE OpenNew
  BY <1>3, OpenNewKeeps
<1>4. CASE OpenSame
  BY <1>4, ReturnKeeps DEF OpenSame, Return, disk, history
<1>5. CASE OpenTemp
  BY <1>5, OpenTempKeeps
<1>6. CASE FindSection
  BY <1>6, InFirstLoop
<1>7. CASE FindKey
  BY <1>7, InSecondLoop
<1>8. CASE CopyRest
  BY <1>8, InThirdLoop
<1>9. CASE EndOfFile \/ ReadFails
  BY <1>9, AtTheEnd
<1>10. CASE Write
  <2>1. pc \in {"create"} \cup Rewriting
    BY <1>10 DEF Write, PutInv, TypeInv, TypeOK, Rewriting
  <2> QED BY <1>10, <2>1, WriteNewFile, WriteTemp
<1>11. CASE Created
  BY <1>11, ReturnKeeps DEF Created, Reading, Return, disk, history
<1>12. CASE Remove
  BY <1>12, RemoveKeeps
<1>13. CASE Rename
  BY <1>13, RenameKeeps
<1>14. CASE Crash
  BY <1>14, CrashKeeps
<1>15. ASSUME NEW key \in Puts, NEW value \in Values, Call(key, value)
       PROVE  FaultInv' /\ WholeInv' /\ CreateInv' /\ CopyInv'
  BY <1>15, CallKeeps
<1>16. CASE UNCHANGED vars
  BY <1>16, StutterKeeps
<1> QED BY <1>3, <1>4, <1>5, <1>6, <1>7, <1>8, <1>9, <1>10, <1>11, <1>12, <1>13, <1>14, <1>15, <1>16
        DEF Next, IniPuts

\* The entries of the store, and the one that a put sets.
Entries == Headers \X Keys

Target == <<Slide, arg[1]>>

\* What the put is to make of an entry.
Asked(e) == IF e = Target THEN arg[2] ELSE Settings(file)[e]

LEMMA SettingsIs ==
    ASSUME NEW f
    PROVE  /\ \A h \in Headers, k \in Keys : Settings(f)[<<h, k>>] = Get(f, h, k)
           /\ \A e \in Entries : Settings(f)[e] = Get(f, e[1], e[2])
           /\ DOMAIN Settings(f) = Entries
BY DEF Settings, Entries

LEMMA SameSettings ==
    ASSUME NEW f, NEW g, \A h \in Headers, k \in Keys : Get(f, h, k) = Get(g, h, k)
    PROVE  Settings(f) = Settings(g)
<1>1. \A e \in Headers \X Keys : Get(f, e[1], e[2]) = Get(g, e[1], e[2])
  OBVIOUS
<1> QED BY <1>1 DEF Settings

\* No entry at all.
Nowhere == [e \in Entries |-> Absent]

LEMMA NoSettingsIn ==
    ASSUME NEW f, \A h \in Headers, k \in Keys : Get(f, h, k) = Absent
    PROVE  Settings(f) = Nowhere
<1>1. \A e \in Headers \X Keys : Get(f, e[1], e[2]) = Absent
  OBVIOUS
<1> QED BY <1>1 DEF Settings, Nowhere, Entries

LEMMA NothingInAbsent == Settings(Absent) = Nowhere
<1> QED BY AbsentHasNothing, NoSettingsIn

LEMMA NothingInEmpty == Settings(<<>>) = Nowhere
<1> QED BY EmptyHasNothing, NoSettingsIn

\* What the new file holds when the old one is removed.
LEMMA Replaced ==
    ASSUME Careful, PutInv, pc = "remove", out = <<>>
    PROVE  /\ ~full /\ ~short => \A e \in Entries :
                Settings(temp)[e] = Asked(e) \/ (Asked(e) = Absent /\ interrupted)
           /\ full \/ short => \E cut \in Entries : \A e \in Entries \ {cut} :
                Settings(temp)[e] \in {Asked(e), Absent}
<1>1. file \in Seq(Tokens) /\ temp \in Seq(Tokens)
  BY BeforeRemove
<1>2. PICK d \in Seq(Tokens) : /\ Updated(d, Past, arg[1], arg[2])
                               /\ Closed(Past) => Closed(d)
                               /\ full => Extends(d, temp)
                               /\ ~full => Extends(temp, d)
                               /\ ~full /\ ~Left => temp = d
  BY BeforeRemove
<1>3. ASSUME ~short, NEW h \in Headers, NEW k \in Keys
      PROVE  Get(d, h, k) = Asked(<<h, k>>)
  <2>1. Past = file
    BY <1>3, BeforeRemove
  <2>2. Get(d, h, k) = IF <<h, k>> = <<Slide, arg[1]>> THEN arg[2] ELSE Get(file, h, k)
    BY <1>2, <2>1 DEF Updated
  <2> QED BY <2>2, SettingsIs DEF Asked, Target
<1>4. ASSUME ~full, ~short, NEW h \in Headers, NEW k \in Keys
      PROVE  \/ Get(temp, h, k) = Asked(<<h, k>>)
             \/ Asked(<<h, k>>) = Absent /\ interrupted
  <2>1. CASE ~Left
    BY <1>2, <1>3, <1>4, <2>1
  <2>2. CASE Left
    <3>1. interrupted /\ Closed(Past)
      <4>1. file # Absent
        BY <1>1, AbsentIsNone
      <4>2. pc # "rename"
        OBVIOUS
      <4>3. Past = file
        BY <1>4, BeforeRemove
      <4> QED BY <2>2, <4>1, <4>2, <4>3 DEF PutInv, WholeInv
    <3>2. CASE Has(d, h, k)
      <4>1. Get(temp, h, k) = Get(d, h, k)
        BY <1>1, <1>2, <1>4, <3>1, <3>2, GetKept
      <4> QED BY <1>3, <1>4, <4>1
    <3>3. CASE ~Has(d, h, k)
      BY <1>3, <1>4, <3>1, <3>3, GetOfNone
    <3> QED BY <3>2, <3>3
  <2> QED BY <2>1, <2>2
<1>5. ASSUME full, ~short
      PROVE  \E cut \in Entries : \A e \in Entries \ {cut} : Settings(temp)[e] \in {Asked(e), Absent}
  <2>1. Target \in Headers \X Keys
    <3>1. TypeInv /\ pc # "idle"
      BY DEF PutInv
    <3> QED BY <3>1, ArgTyped, TokensAssumption DEF Target
  <2>2. PICK cut \in Headers \X Keys : \A h \in Headers, k \in Keys :
           <<h, k>> # cut => Get(temp, h, k) \in {Get(d, h, k), Absent}
    BY <1>1, <1>2, <1>5, <2>1, CutEntry
  <2>3. ASSUME NEW e \in Entries \ {cut}
        PROVE  Settings(temp)[e] \in {Asked(e), Absent}
    <3>1. PICK h \in Headers, k \in Keys : e = <<h, k>>
      BY DEF Entries
    <3>2. Get(temp, h, k) \in {Get(d, h, k), Absent}
      BY <2>2, <2>3, <3>1
    <3>3. Get(d, h, k) = Asked(e) /\ Settings(temp)[e] = Get(temp, h, k)
      BY <1>3, <1>5, <3>1, SettingsIs
    <3> QED BY <3>2, <3>3
  <2> QED BY <2>2, <2>3 DEF Entries
<1>6. ASSUME ~full, ~short, NEW e \in Entries
      PROVE  Settings(temp)[e] = Asked(e) \/ (Asked(e) = Absent /\ interrupted)
  <2>1. PICK h \in Headers, k \in Keys : e = <<h, k>>
    BY DEF Entries
  <2>2. Settings(temp)[e] = Get(temp, h, k)
    BY <2>1, SettingsIs
  <2> QED BY <1>4, <1>6, <2>1, <2>2
<1>7. ASSUME short
      PROVE  \E cut \in Entries : \A e \in Entries \ {cut} : Settings(temp)[e] \in {Asked(e), Absent}
  <2>1. temp = d
    <3>1. ~full /\ ~interrupted
      BY <1>7, OneFault
    <3>2. ~Left
      BY <3>1 DEF PutInv, WholeInv
    <3> QED BY <1>2, <3>1, <3>2
  <2>2. Target \in Entries
    <3>1. TypeInv /\ pc # "idle"
      BY DEF PutInv
    <3> QED BY <3>1, ArgTyped, TokensAssumption DEF Target, Entries
  <2>3. ASSUME NEW e \in Entries \ {Target}
        PROVE  Settings(temp)[e] \in {Asked(e), Absent}
    <3>1. PICK h \in Headers, k \in Keys : e = <<h, k>>
      BY DEF Entries
    <3>2. Get(d, h, k) = Get(Past, h, k)
      <4>1. <<h, k>> # <<Slide, arg[1]>>
        BY <2>3, <3>1 DEF Target
      <4> QED BY <1>2, <4>1 DEF Updated
    <3>3. Get(Past, h, k) \in {Get(file, h, k), Absent}
      BY <1>7, PartHolds
    <3>4. Asked(e) = Get(file, h, k) /\ Settings(temp)[e] = Get(d, h, k)
      BY <2>1, <2>3, <3>1, SettingsIs DEF Asked
    <3> QED BY <3>2, <3>3, <3>4
  <2> QED BY <2>2, <2>3
<1> QED BY <1>5, <1>6, <1>7

-----------------------------------------------------------------------------
(* A crash that loses the file loses nothing.                               *)

\* While the temporary file is written, no new file is due.
RescueInv ==
    /\ RescueCopy
    /\ pc \in Rewriting => due = NoSettings

LEMMA RescueKept ==
    ASSUME RescueInv, UNCHANGED <<temp, due>>, interrupted => interrupted'
    PROVE  RescueCopy'
BY DEF RescueInv, RescueCopy

LEMMA RescueInit == Init => RescueInv
BY DEF Init, RescueInv, RescueCopy, Rewriting

LEMMA RescueNext == Careful /\ PutInv /\ RescueInv /\ [Next]_vars => RescueInv'
<1> SUFFICES ASSUME Careful, PutInv, RescueInv, [Next]_vars
             PROVE  RescueInv'
  OBVIOUS
<1> USE DEF disk, history
<1>1. CASE OpenNew \/ OpenSame
  <2>1. UNCHANGED <<temp, due, interrupted>> /\ pc' \in {"idle", "create"}
    BY <1>1 DEF OpenNew, OpenSame, Return
  <2> QED BY <2>1, RescueKept DEF RescueInv, Rewriting
<1>2. CASE OpenTemp
  <2>1. CASE due' = NoSettings
    BY <2>1 DEF RescueInv, RescueCopy
  <2>2. CASE Return(0) /\ UNCHANGED <<temp, due>>
    <3>1. UNCHANGED interrupted /\ pc' = "idle"
      BY <1>2, <2>2 DEF OpenTemp, Return
    <3> QED BY <2>2, <3>1, RescueKept DEF RescueInv, Rewriting
  <2> QED BY <1>2, <2>1, <2>2 DEF OpenTemp
<1>3. CASE FindSection \/ FindKey \/ CopyRest \/ EndOfFile \/ ReadFails
  <2>1. UNCHANGED <<temp, due, interrupted>> /\ pc \in Rewriting
    BY <1>3 DEF FindSection, FindKey, CopyRest, EndOfFile, ReadFails, NoLine, Advance, Reading, Rewriting
  <2> QED BY <2>1, RescueKept DEF RescueInv
<1>4. CASE Write
  <2>1. UNCHANGED <<due, interrupted, pc>>
    BY <1>4 DEF Write
  <2>2. CASE pc = "create"
    <3>1. temp' = temp
      BY <1>4, <2>2 DEF Write, WriteTo
    <3> QED BY <2>1, <2>2, <3>1, RescueKept DEF RescueInv, Rewriting
  <2>3. CASE pc \in Rewriting
    BY <2>1, <2>3 DEF RescueInv, RescueCopy
  <2>4. pc = "create" \/ pc \in Rewriting
    BY <1>4 DEF Write, PutInv, TypeInv, TypeOK, Rewriting
  <2> QED BY <2>2, <2>3, <2>4
<1>5. CASE Created
  <2>1. UNCHANGED <<temp, due, interrupted>> /\ pc' = "idle"
    BY <1>5 DEF Created, Return
  <2> QED BY <2>1, RescueKept DEF RescueInv, Rewriting
<1>6. CASE Remove
  <2>1. /\ pc = "remove" /\ out = <<>> /\ pc' = "rename" /\ temp' = temp /\ interrupted' = interrupted
        /\ due' = IF full \/ short THEN NoSettings ELSE [Settings(file) EXCEPT ![Target] = arg[2]]
    BY <1>6 DEF Remove, Goto, Target
  <2>2. CASE full \/ short
    <3>1. due' = NoSettings
      BY <2>1, <2>2
    <3> QED BY <3>1 DEF RescueInv, RescueCopy
  <2>3. CASE ~full /\ ~short
    <3>1. ASSUME NEW e \in Entries
          PROVE  due'[e] = Asked(e)
      <4>1. due' = [Settings(file) EXCEPT ![Target] = arg[2]]
        BY <2>1, <2>3
      <4>2. e \in DOMAIN Settings(file)
        BY SettingsIs
      <4> QED BY <4>1, <4>2 DEF Asked
    <3>2. \A e \in Entries : Settings(temp)[e] = Asked(e) \/ (Asked(e) = Absent /\ interrupted)
      BY <2>1, <2>3, Replaced
    <3>3. RescueCopy'
      BY <2>1, <3>1, <3>2 DEF RescueCopy, Entries
    <3> QED BY <2>1, <3>3 DEF RescueInv, Rewriting
  <2> QED BY <2>2, <2>3
<1>7. CASE Rename
  <2>1. due' = NoSettings
    BY <1>7 DEF Rename
  <2> QED BY <2>1 DEF RescueInv, RescueCopy
<1>8. CASE Crash
  <2>1. UNCHANGED <<temp, due>> /\ interrupted' /\ pc' = "idle"
    BY <1>8 DEF Crash, Return
  <2> QED BY <2>1, RescueKept DEF RescueInv, Rewriting
<1>9. ASSUME NEW key \in Puts, NEW value \in Values, Call(key, value)
      PROVE  RescueInv'
  <2>1. UNCHANGED <<temp, due, interrupted>> /\ pc' = "open"
    BY <1>9 DEF Call, Goto
  <2> QED BY <2>1, RescueKept DEF RescueInv, Rewriting
<1>10. CASE UNCHANGED vars
  <2>1. UNCHANGED <<temp, due, interrupted, pc>>
    BY <1>10 DEF vars, call
  <2> QED BY <2>1, RescueKept DEF RescueInv
<1> QED BY <1>1, <1>2, <1>3, <1>4, <1>5, <1>6, <1>7, <1>8, <1>9, <1>10 DEF Next, IniPuts

\* With at most one fault, which does not meet a file whose last line has no end:
\* when a crash comes between the remove and the rename, the temporary file holds
\* every entry until another put opens it (minIni.c:565, 677-680).
THEOREM RescueCopyHolds ==
    ASSUME Careful
    PROVE  Spec => []RescueCopy
<1>1. Init => PutInv /\ RescueInv
  BY PutInit, RescueInit
<1>2. (PutInv /\ RescueInv) /\ [Next]_vars => (PutInv /\ RescueInv)'
  BY PutNext, RescueNext
<1>3. PutInv /\ RescueInv => RescueCopy
  BY DEF RescueInv
<1> QED BY <1>1, <1>2, <1>3, PTL DEF Spec

-----------------------------------------------------------------------------
(* ini_puts implements ConfigStore.                                         *)

\* What ConfigStore remembers of a put, and the new file it may be left with.
Request == IF pc = "idle" THEN <<>> ELSE <<Target, arg[2]>>

Coming == IF pc = "rename" THEN Settings(temp) ELSE <<>>

\* The variables of ConfigStore keep their values.
\* Nothing that ConfigStore sees is changed.
Unmoved == UNCHANGED <<Settings(file), Request, Coming, interrupted, full, short, result>>

LEMMA StoreEmpty == Store!Empty = Nowhere
BY DEF Store!Empty, Nowhere, Entries

LEMMA StoreAsked ==
    ASSUME pc # "idle"
    PROVE  \A e : Store!Asked(e) = Asked(e)
<1>1. Request[1] = Target /\ Request[2] = arg[2]
  BY DEF Request
<1> QED BY <1>1 DEF Store!Asked, Asked, Request, Target

LEMMA StorePending ==
    ASSUME pc # "idle", pc # "rename"
    PROVE  Store!Pending
<1>1. <<Target, arg[2]>> # <<>>
  OBVIOUS
<1> QED BY <1>1 DEF Store!Pending, Store!Nothing, Target

LEMMA SettingsComing ==
    ASSUME NEW f, NEW e \in Entries
    PROVE  Settings(f) # <<>>
<1>1. DOMAIN Settings(f) # {}
  BY SettingsIs
<1>2. DOMAIN <<>> = {}
  OBVIOUS
<1> QED BY <1>1, <1>2

LEMMA TargetIs ==
    ASSUME TypeInv, pc # "idle"
    PROVE  Target \in Entries /\ arg[2] \in Values
BY ArgTyped, TokensAssumption DEF Target, Entries

LEMMA StoreInit == Init => Store!Init
BY DEF Init, Store!Init, Store!Nothing

LEMMA UnmovedIs ==
    ASSUME Unmoved
    PROVE  UNCHANGED Store!vars
BY DEF Unmoved, Store!vars, Request, Coming, Target

LEMMA BeginIs ==
    ASSUME NEW key \in Puts, NEW value \in Values, Call(key, value)
    PROVE  Store!Begin
<1>1. /\ pc = "idle" /\ pc' = "open" /\ arg' = <<key, value>> /\ full' = FALSE /\ short' = FALSE
      /\ UNCHANGED <<file, temp, interrupted, result>>
  BY DEF Call, Goto, disk
<1>2. <<<<Slide, key>>, value>> \in (Headers \X Keys) \X Values
  BY TokensAssumption
<1> QED BY <1>1, <1>2 DEF Store!Begin, Store!Nothing

\* A put that returns before it has changed anything.
LEMMA ReturnIs ==
    ASSUME pc \notin {"idle", "rename"}, NEW r, Return(r), UNCHANGED <<file, full, interrupted, short>>,
           r = 1 => Get(file, Slide, arg[1]) = arg[2] \/ full,
           r \in {0, 1}, TypeInv
    PROVE  Store!Return
<1>1. Store!Pending
  BY StorePending
<1>2. pc' = "idle" /\ result' = r
  BY DEF Return
<1>3. Request' = <<>> /\ Coming' = <<>> /\ Coming = <<>>
  BY <1>2 DEF Request, Coming
<1>4. Settings(file)[Target] = Get(file, Slide, arg[1])
  BY TargetIs, SettingsIs DEF Target
<1>5. Request[1] = Target /\ Request[2] = arg[2]
  BY DEF Request
<1>6. \/ result' = 1 /\ (Settings(file)[Request[1]] = Request[2] \/ full)
     \/ result' = 0
  BY <1>2, <1>4, <1>5
<1> QED BY <1>1, <1>3, <1>6 DEF Store!Return, Store!Nothing, Request, Coming, Target

LEMMA OpenNewIs ==
    ASSUME PutInv, OpenNew
    PROVE  Store!Return \/ Unmoved
<1>1. pc = "open" /\ file = Absent /\ UNCHANGED <<temp, full, interrupted, short>> /\ TypeInv
  BY DEF OpenNew, history, PutInv
<1>2. CASE /\ pc' = "create" /\ file' = <<>> /\ UNCHANGED <<arg, rpos, wpos, copied, result>>
  <2>1. Settings(file') = Settings(file)
    BY <1>1, <1>2, NothingInAbsent, NothingInEmpty
  <2> QED BY <1>1, <1>2, <2>1 DEF Unmoved, Request, Coming, Target
<1>3. CASE Return(0) /\ UNCHANGED file
  BY <1>1, <1>3, ReturnIs
<1> QED BY <1>2, <1>3 DEF OpenNew

LEMMA OpenTempIs ==
    ASSUME PutInv, OpenTemp
    PROVE  Store!Return \/ Unmoved
<1>1. pc = "open" /\ UNCHANGED <<file, full, interrupted, short>> /\ TypeInv
  BY DEF OpenTemp, PutInv
<1>2. CASE pc' = "section" /\ UNCHANGED <<arg, rpos, out, wpos, copied, result>>
  BY <1>1, <1>2 DEF Unmoved, Request, Coming, Target
<1>3. CASE Return(0)
  BY <1>1, <1>3, ReturnIs
<1> QED BY <1>2, <1>3 DEF OpenTemp

LEMMA OpenSameIs ==
    ASSUME PutInv, OpenSame
    PROVE  Store!Return
<1>1. pc = "open" /\ Get(file, Slide, arg[1]) = arg[2] /\ Return(1) /\ UNCHANGED <<file, full, interrupted, short>>
      /\ TypeInv
  BY DEF OpenSame, PutInv, disk, history
<1> QED BY <1>1, ReturnIs

LEMMA CreatedIs ==
    ASSUME Careful, PutInv, Created
    PROVE  Store!Return
<1>1. pc = "create" /\ out = <<>> /\ Return(1) /\ UNCHANGED <<file, full, interrupted, short>> /\ TypeInv
  BY DEF Created, Reading, PutInv, disk, history
<1>2. Get(file, Slide, arg[1]) = arg[2] \/ full
  <2>1. SUFFICES ASSUME ~full
                 PROVE  Get(file, Slide, arg[1]) = arg[2]
    OBVIOUS
  <2>2. PICK k : k = arg[1]
    OBVIOUS
  <2>3. PICK v : v = arg[2]
    OBVIOUS
  <2>4. file = NewFile(k, v)
    BY <1>1, <2>1, <2>2, <2>3, NewFileGrows
  <2>5. k \in Keys /\ v \in Values /\ v \in Putable(Tokens) /\ Slide \in Headers
    BY <1>1, <2>2, <2>3, ArgTyped, TokensAssumption DEF Careful
  <2>6. Updated(file, <<>>, k, v)
    BY <2>4, <2>5, NewFileIs
  <2> QED BY <2>2, <2>3, <2>5, <2>6 DEF Updated
<1> QED BY <1>1, <1>2, ReturnIs

LEMMA LoopIs ==
    ASSUME FindSection \/ FindKey \/ CopyRest \/ EndOfFile
    PROVE  Unmoved
<1>1. /\ pc \in Rewriting /\ pc' \in Rewriting
      /\ UNCHANGED <<file, arg, interrupted, full, short, result>>
  BY DEF FindSection, FindKey, CopyRest, EndOfFile, NoLine, Advance, Reading, Rewriting, disk, history
<1>2. pc # "idle" /\ pc' # "idle" /\ pc # "rename" /\ pc' # "rename"
  BY <1>1 DEF Rewriting
<1> QED BY <1>1, <1>2 DEF Unmoved, Request, Coming, Target

LEMMA ReadFailsIs ==
    ASSUME ReadFails
    PROVE  Store!Fill
<1>1. /\ pc \in Rewriting /\ pc' \in Rewriting /\ short' = TRUE
      /\ UNCHANGED <<file, arg, interrupted, result>>
  BY DEF ReadFails, NoLine, Reading, Rewriting, disk
<1>2. pc # "idle" /\ pc' # "idle" /\ pc # "rename" /\ pc' # "rename"
  BY <1>1 DEF Rewriting
<1>3. Store!Pending
  BY <1>2, StorePending
<1> QED BY <1>1, <1>2, <1>3 DEF Store!Fill, Request, Coming, Target

LEMMA CrashIs ==
    ASSUME Crash
    PROVE  Store!Interrupt
<1>1. pc # "idle" /\ pc' = "idle" /\ result' = result /\ interrupted' = TRUE /\ UNCHANGED <<file, full, short>>
  BY DEF Crash, Return, disk
<1>2. <<Target, arg[2]>> # <<>>
  OBVIOUS
<1> QED BY <1>1, <1>2 DEF Store!Interrupt, Store!Nothing, Target

LEMMA RemoveIs ==
    ASSUME Careful, PutInv, Remove
    PROVE  Store!Vanish
<1>1. /\ pc = "remove" /\ out = <<>> /\ pc' = "rename" /\ file' = Absent
      /\ UNCHANGED <<temp, arg, interrupted, full, short, result>>
  BY DEF Remove, Goto
<1>2. TypeInv /\ Target \in Entries
  BY <1>1, TargetIs DEF PutInv
<1>3. Store!Pending
  BY <1>1, StorePending
<1>4. Coming' = Settings(temp) /\ Settings(temp) # <<>>
  BY <1>1, <1>2, SettingsComing DEF Coming
<1>5. Store!Faithful(Settings(temp)) \/ ((full \/ short) /\ Store!CutOff(Settings(temp)))
  <2>1. \A e : Store!Asked(e) = Asked(e)
    BY <1>1, StoreAsked
  <2>2. CASE full \/ short
    <3>1. \E cut \in Entries : \A e \in Entries \ {cut} : Settings(temp)[e] \in {Asked(e), Absent}
      BY <1>1, <2>2, Replaced
    <3> QED BY <2>1, <2>2, <3>1 DEF Store!CutOff, Entries
  <2>3. CASE ~full /\ ~short
    <3>1. \A e \in Entries : Settings(temp)[e] = Asked(e) \/ (Asked(e) = Absent /\ interrupted)
      BY <1>1, <2>3, Replaced
    <3> QED BY <2>1, <3>1 DEF Store!Faithful, Entries
  <2> QED BY <2>2, <2>3
<1>6. Settings(file') = Store!Empty
  BY <1>1, NothingInAbsent, StoreEmpty
<1>7. Request' = Request
  BY <1>1 DEF Request, Target
<1> QED BY <1>1, <1>3, <1>4, <1>5, <1>6, <1>7
        DEF Store!Vanish, Store!Nothing, Request, Coming, Target

LEMMA RenameIs ==
    ASSUME PutInv, Rename
    PROVE  Store!Appear
<1>1. /\ pc = "rename" /\ pc' = "idle" /\ result' = 1 /\ file' = temp /\ UNCHANGED <<full, interrupted, short>>
  BY DEF Rename, Return
<1>2. Target \in Entries
  BY <1>1, TargetIs DEF PutInv
<1>3. Settings(temp) # <<>>
  BY <1>2, SettingsComing
<1> QED BY <1>1, <1>3 DEF Store!Appear, Store!Nothing

\* What a new file is to hold.
LEMMA NewFileAsked ==
    ASSUME Careful, TypeInv, pc = "create", Settings(file) = Nowhere, NEW e \in Entries
    PROVE  /\ NewFile(arg[1], arg[2]) \in Seq(Tokens)
           /\ Settings(NewFile(arg[1], arg[2]))[e] = Asked(e)
<1>1. PICK k : k = arg[1]
  OBVIOUS
<1>2. PICK v : v = arg[2]
  OBVIOUS
<1>3. k \in Keys /\ v \in Values /\ v \in Putable(Tokens)
  BY <1>1, <1>2, ArgTyped DEF Careful
<1>4. NewFile(k, v) \in Seq(Tokens) /\ Updated(NewFile(k, v), <<>>, k, v)
  BY <1>3, NewFileIs
<1>5. PICK h \in Headers, j \in Keys : e = <<h, j>>
  BY DEF Entries
<1>6. Get(NewFile(k, v), h, j) = IF <<h, j>> = <<Slide, k>> THEN v ELSE Get(<<>>, h, j)
  BY <1>4 DEF Updated
<1>7. Get(<<>>, h, j) = Absent
  BY EmptyHasNothing
<1>8. Settings(NewFile(k, v))[e] = Get(NewFile(k, v), h, j)
  BY <1>5, SettingsIs
<1>9. Asked(e) = IF <<h, j>> = <<Slide, k>> THEN v ELSE Absent
  BY <1>1, <1>2, <1>5 DEF Asked, Target, Nowhere
<1> QED BY <1>1, <1>2, <1>4, <1>6, <1>7, <1>8, <1>9

LEMMA WriteNewIs ==
    ASSUME Careful, PutInv, PutInv', Write, pc = "create"
    PROVE  Store!WriteNew \/ Unmoved
<1>1. /\ pc' = "create" /\ out # <<>> /\ temp' = temp /\ arg' = arg
      /\ interrupted' = interrupted /\ result' = result /\ short' = short
  BY DEF Write, WriteTo
<1>2. PICK n \in 0..Len(Head(out)) :
        Written(n, file) /\ file' = Overwrite(file, wpos, Head(out), n)
  BY DEF Write, WriteTo, Written
<1>3. TypeInv /\ CreateInv /\ CreateInv' /\ file \in Seq(Tokens) /\ file' \in Seq(Tokens)
  BY <1>1 DEF PutInv, TypeInv
<1>4. Request' = Request /\ Coming' = <<>> /\ Coming = <<>>
  BY <1>1 DEF Request, Coming, Target
<1>5. ASSUME Settings(file') = Settings(file), full' = full
      PROVE  Unmoved
  BY <1>1, <1>4, <1>5 DEF Unmoved
<1>6. Store!Pending /\ \A e : Store!Asked(e) = Asked(e)
  BY StorePending, StoreAsked
<1>7. ASSUME Settings(file) = Nowhere, full => full',
             Store!Faithful(Settings(file')) \/ (full' /\ Store!CutOff(Settings(file')))
      PROVE  Store!WriteNew
  BY <1>1, <1>4, <1>6, <1>7, StoreEmpty DEF Store!WriteNew, Request, Coming, Target
<1>8. PICK k : k = arg[1]
  OBVIOUS
<1>9. PICK v : v = arg[2]
  OBVIOUS
<1>10. ~full => Settings(file) = Nowhere
  <2>1. SUFFICES ASSUME ~full
                 PROVE  Settings(file) = Nowhere
    OBVIOUS
  <2>2. \A h \in Headers, j \in Keys : Get(file, h, j) = Absent
    BY <1>1, <1>8, <1>9, <2>1, NewFileGrows
  <2> QED BY <2>2, NoSettingsIn
<1>11. CASE ~full /\ full' = full
  <2>1. file' = <<>> \/ file' = SectionLine \/ file' = NewFile(k, v)
    BY <1>1, <1>3, <1>8, <1>9, <1>11 DEF CreateInv
  <2>2. CASE file' = <<>>
    BY <1>5, <1>10, <1>11, <2>2, NothingInEmpty
  <2>3. CASE file' = SectionLine
    <3>1. k \in Keys /\ v \in Values /\ v \in Putable(Tokens)
      BY <1>3, <1>8, <1>9, ArgTyped DEF Careful
    <3>2. \A h \in Headers, j \in Keys : Get(SectionLine, h, j) = Absent
      BY <3>1, NewFileIs
    <3>3. Settings(SectionLine) = Nowhere
      BY <3>2, NoSettingsIn
    <3> QED BY <1>5, <1>10, <1>11, <2>3, <3>3
  <2>4. CASE file' = NewFile(k, v)
    <3>1. \A e \in Entries : Settings(file')[e] = Asked(e)
      BY <1>3, <1>8, <1>9, <1>10, <1>11, <2>4, NewFileAsked
    <3>2. Store!Faithful(Settings(file'))
      BY <1>6, <3>1 DEF Store!Faithful, Entries
    <3> QED BY <1>7, <1>10, <1>11, <3>2
  <2> QED BY <2>1, <2>2, <2>3, <2>4
<1>12. CASE ~full /\ full' = TRUE
  <2>1. PICK N : N = NewFile(k, v)
    OBVIOUS
  <2>2. PICK g : g = file'
    OBVIOUS
  <2>3. Target \in Headers \X Keys
    BY <1>1, <1>3, TargetIs DEF Entries
  <2>4. N \in Seq(Tokens) /\ g \in Seq(Tokens) /\ Extends(N, g)
    <3>1. Extends(N, g)
      BY <1>1, <1>3, <1>8, <1>9, <1>12, <2>1, <2>2 DEF CreateInv
    <3>2. N \in Seq(Tokens)
      BY <1>3, <1>8, <1>9, <1>10, <1>12, <2>1, <2>3, NewFileAsked DEF Entries
    <3> QED BY <1>3, <2>2, <3>1, <3>2
  <2>5. PICK cut \in Headers \X Keys : \A h \in Headers, j \in Keys :
          <<h, j>> # cut => Get(g, h, j) \in {Get(N, h, j), Absent}
    BY <2>3, <2>4, CutEntry
  <2>6. ASSUME NEW e \in Entries \ {cut}
        PROVE  Settings(g)[e] \in {Asked(e), Absent}
    <3>1. PICK h \in Headers, j \in Keys : e = <<h, j>>
      BY DEF Entries
    <3>2. Get(g, h, j) \in {Get(N, h, j), Absent}
      BY <2>5, <2>6, <3>1
    <3>3. Settings(g)[e] = Get(g, h, j) /\ Settings(N)[e] = Get(N, h, j)
      BY <3>1, SettingsIs
    <3>4. Settings(N)[e] = Asked(e)
      BY <1>3, <1>8, <1>9, <1>10, <1>12, <2>1, NewFileAsked
    <3> QED BY <3>2, <3>3, <3>4
  <2>7. Store!CutOff(Settings(file'))
    BY <1>6, <2>2, <2>5, <2>6 DEF Store!CutOff, Entries
  <2> QED BY <1>7, <1>10, <1>12, <2>7
<1>13. CASE /\ full /\ full' = full
            /\ n = (IF Len(file) - (wpos - 1) < Len(Head(out)) THEN Len(file) - (wpos - 1) ELSE Len(Head(out)))
  <2>1. PICK H : H = Head(out)
    OBVIOUS
  <2>2. H \in Seq(Tokens) /\ Len(H) \in Nat /\ n \in 0..Len(H) /\ Len(file) \in Nat
    <3>1. H \in Seq(Tokens)
      BY <1>1, <1>3, <2>1, PieceTyped
    <3> QED BY <1>2, <1>3, <2>1, <3>1
  <2>3. wpos = Len(file) + 1
    BY <1>3 DEF CreateInv
  <2>4. n = 0
    <3>1. Len(file) - (wpos - 1) = 0
      BY <2>2, <2>3
    <3> QED BY <1>13, <2>1, <2>2, <3>1
  <2>5. Appended(Overwrite(file, wpos, H, n), file, H, n)
    BY <1>3, <2>2, <2>3, OverwriteEnd
  <2>6. file' = file
    BY <1>2, <2>1, <2>4, <2>5 DEF Appended
  <2> QED BY <1>5, <1>13, <2>6
<1> QED BY <1>2, <1>11, <1>12, <1>13 DEF Written

LEMMA WriteIs ==
    ASSUME Careful, PutInv, PutInv', Write
    PROVE  Store!WriteNew \/ Store!Fill \/ Unmoved
<1>1. pc = "create" \/ pc \in Rewriting
  BY DEF Write, PutInv, TypeInv, TypeOK, Rewriting
<1>2. CASE pc \in Rewriting
  <2>1. /\ pc # "create" /\ pc # "idle" /\ pc # "rename" /\ pc' = pc
        /\ UNCHANGED <<file, arg, interrupted, short, result>>
    BY <1>2 DEF Write, WriteTo, Rewriting
  <2>2. Store!Pending
    BY <2>1, StorePending
  <2>3. full' = full \/ full' = TRUE
    BY DEF Write
  <2>4. CASE full' = full
    BY <2>1, <2>4 DEF Unmoved, Request, Coming, Target
  <2>5. CASE full' = TRUE
    BY <2>1, <2>2, <2>5 DEF Store!Fill, Request, Coming, Target
  <2> QED BY <2>3, <2>4, <2>5
<1> QED BY <1>1, <1>2, WriteNewIs

LEMMA StoreStep ==
    ASSUME Careful, PutInv, PutInv', [Next]_vars
    PROVE  [Store!Next]_(Store!vars)
<1>1. CASE OpenNew
  BY <1>1, OpenNewIs, UnmovedIs DEF Store!Next
<1>2. CASE OpenSame
  BY <1>2, OpenSameIs DEF Store!Next
<1>3. CASE OpenTemp
  BY <1>3, OpenTempIs, UnmovedIs DEF Store!Next
<1>4. CASE FindSection \/ FindKey \/ CopyRest \/ EndOfFile
  BY <1>4, LoopIs, UnmovedIs
<1>5. CASE ReadFails
  BY <1>5, ReadFailsIs DEF Store!Next
<1>6. CASE Write
  BY <1>6, WriteIs, UnmovedIs DEF Store!Next
<1>7. CASE Created
  BY <1>7, CreatedIs DEF Store!Next
<1>8. CASE Remove
  BY <1>8, RemoveIs DEF Store!Next
<1>9. CASE Rename
  BY <1>9, RenameIs DEF Store!Next
<1>10. CASE Crash
  BY <1>10, CrashIs DEF Store!Next
<1>11. ASSUME NEW key \in Puts, NEW value \in Values, Call(key, value)
       PROVE  [Store!Next]_(Store!vars)
  BY <1>11, BeginIs DEF Store!Next
<1>12. CASE UNCHANGED vars
  BY <1>12, UnmovedIs DEF Unmoved, Request, Coming, Target, vars, disk, call, history
<1> QED BY <1>1, <1>2, <1>3, <1>4, <1>6, <1>7, <1>8, <1>9, <1>10, <1>11, <1>12, <1>5 DEF Next, IniPuts

\* ini_puts implements ConfigStore: a put sets its key and keeps every other
\* entry, but for what ConfigStore excepts (a full card, a failed read), with at
\* most one fault, which does not meet a file whose last line has no end
\* (minIni.c:526-682).
THEOREM KeepsStoreHolds ==
    ASSUME Careful
    PROVE  Spec => KeepsStore
<1>1. Init => PutInv
  BY PutInit
<1>2. PutInv /\ [Next]_vars => PutInv'
  BY PutNext
<1>3. Init => Store!Init
  BY StoreInit
<1>4. PutInv /\ PutInv' /\ [Next]_vars => [Store!Next]_(Store!vars)
  BY StoreStep
<1> QED BY <1>1, <1>2, <1>3, <1>4, PTL DEF Spec, KeepsStore, Store!Spec
=============================================================================
