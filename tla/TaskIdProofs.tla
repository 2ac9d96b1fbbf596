---------------------------- MODULE TaskIdProofs ----------------------------
(***************************************************************************)
(* Proofs about TaskId: what is hashed for a target determines its address *)
(* and its labels.                                                         *)
(***************************************************************************)
EXTENDS TaskId, TLAPS, FiniteSetTheorems, SequenceTheorems,
        WellFoundedInduction

\* Strings as the program gets them, from JSON and YAML: valid UTF-8, in which
\* the separator cannot occur (the comment on SeparatorByte).
Text == Seq(0 .. SeparatorByte - 1)

\* What TaskID is called with when there are labels at all.
LabelSet ==
  {labels \in UNION {[names -> Text] : names \in SUBSET Text} :
     IsFiniteSet(DOMAIN labels) /\ DOMAIN labels # {}}

\* Induction: a set of naturals that is not empty has a least element.
LEMMA Least ==
  ASSUME NEW T \in SUBSET Nat, T # {}
  PROVE  \E n \in T : \A m \in T : n <= m
<1>1. IsWellFoundedOn(OpToRel(<, Nat), Nat)
  BY NatLessThanWellFounded
<1>2. PICK n \in T : \A m \in T : <<m, n>> \notin OpToRel(<, Nat)
  <2>1. T \subseteq Nat /\ T # {}
    OBVIOUS
  <2> QED BY <1>1, <2>1, WFMin
<1>3. \A m \in T : ~ m < n
  BY <1>2 DEF OpToRel
<1> QED BY <1>3, n \in Nat, \A m \in T : m \in Nat

-----------------------------------------------------------------------------
(* Sorting.                                                                *)

LEMMA TextType ==
  ASSUME NEW s \in Text
  PROVE  /\ Len(s) \in Nat
         /\ DOMAIN s = 1 .. Len(s)
         /\ \A i \in DOMAIN s : s[i] \in Nat /\ s[i] # SeparatorByte
<1>1. s \in Seq(0 .. 254)
  BY DEF Text, SeparatorByte
<1>2. /\ Len(s) \in Nat
      /\ DOMAIN s = 1 .. Len(s)
  BY <1>1, LenProperties
<1>3. \A i \in 1 .. Len(s) : s[i] \in 0 .. 254
  BY <1>1, ElementOfSeq
<1>4. \A i \in DOMAIN s : s[i] \in 0 .. 254
  BY <1>2, <1>3, Zenon
<1>5. \A i \in DOMAIN s : s[i] \in Nat /\ s[i] # SeparatorByte
  BY <1>4 DEF SeparatorByte
<1> QED BY <1>2, <1>5

LEMMA BeforeIrreflexive ==
  ASSUME NEW s \in Text
  PROVE  ~ Before(s, s)
  BY TextType DEF Before

LEMMA BeforeTransitive ==
  ASSUME NEW r \in Text, NEW s \in Text, NEW t \in Text,
         Before(r, s), Before(s, t)
  PROVE  Before(r, t)
<1>1. \A u \in {r, s, t} : /\ Len(u) \in Nat /\ DOMAIN u = 1 .. Len(u)
                           /\ \A i \in DOMAIN u : u[i] \in Nat
  BY TextType
<1>2. PICK i \in DOMAIN s : /\ \A h \in 1 .. i - 1 : h \in DOMAIN r /\ r[h] = s[h]
                            /\ i \in DOMAIN r => r[i] < s[i]
  BY DEF Before
<1>3. PICK j \in DOMAIN t : /\ \A h \in 1 .. j - 1 : h \in DOMAIN s /\ s[h] = t[h]
                            /\ j \in DOMAIN s => s[j] < t[j]
  BY DEF Before
<1>4. CASE i < j
  <2>1. i \in 1 .. j - 1 /\ i \in DOMAIN t
    BY <1>1, <1>4
  <2>2. \A h \in 1 .. i - 1 : h \in DOMAIN r /\ r[h] = t[h]
    BY <1>1, <1>2, <1>3, <1>4
  <2>3. i \in DOMAIN r => r[i] < t[i]
    BY <1>2, <1>3, <2>1
  <2> QED BY <2>1, <2>2, <2>3 DEF Before
<1>5. CASE ~ (i < j)
  <2>1. j \in DOMAIN s
    BY <1>1, <1>5
  <2>2. \A h \in 1 .. j - 1 : h \in DOMAIN r /\ r[h] = t[h]
    BY <1>1, <1>2, <1>3, <1>5
  <2>3. CASE i = j
    <3>1. j \in DOMAIN r => r[j] < t[j]
      BY <1>1, <1>2, <1>3, <2>1, <2>3
    <3> QED BY <2>2, <3>1 DEF Before
  <2>4. CASE j < i
    <3>1. j \in DOMAIN r /\ r[j] = s[j]
      BY <1>1, <1>2, <2>4
    <3>2. r[j] < t[j]
      BY <1>3, <2>1, <3>1
    <3> QED BY <2>2, <3>2 DEF Before
  <2> QED BY <1>1, <1>5, <2>3, <2>4
<1> QED BY <1>4, <1>5

LEMMA BeforeTotal ==
  ASSUME NEW s \in Text, NEW t \in Text, s # t
  PROVE  Before(s, t) \/ Before(t, s)
<1> DEFINE Same(i) == i \in DOMAIN s /\ i \in DOMAIN t /\ s[i] = t[i]
           D == {i \in Nat : (i \in DOMAIN s \/ i \in DOMAIN t) /\ ~ Same(i)}
<1>1. \A u \in {s, t} : /\ Len(u) \in Nat /\ DOMAIN u = 1 .. Len(u)
                        /\ \A i \in DOMAIN u : u[i] \in Nat
  BY TextType
<1>2. D # {}
  <2> SUFFICES ASSUME D = {}
               PROVE  FALSE
    OBVIOUS
  <2>1. \A i \in Nat : i \in DOMAIN s \/ i \in DOMAIN t => Same(i)
    OBVIOUS
  <2>2. Len(s) = Len(t)
    <3>1. Len(s) <= Len(t)
      BY <1>1, <2>1
    <3>2. Len(t) <= Len(s)
      BY <1>1, <2>1
    <3>3. Len(s) \in Nat /\ Len(t) \in Nat
      BY <1>1
    <3> QED BY <3>1, <3>2, <3>3
  <2>3. \A i \in 1 .. Len(s) : s[i] = t[i]
    BY <1>1, <2>1
  <2>4. s \in Seq(Int) /\ t \in Seq(Int)
    BY SeqMonotonic, 0 .. 254 \subseteq Int DEF Text, SeparatorByte
  <2> QED BY <2>2, <2>3, <2>4, SeqEqual
<1>3. PICK i \in D : \A h \in D : i <= h
  <2> D \in SUBSET Nat
    OBVIOUS
  <2> HIDE DEF D
  <2> QED BY <1>2, Least
<1>4. \A h \in 1 .. i - 1 : Same(h)
  BY <1>1, <1>3
<1>5. CASE i \in DOMAIN s /\ i \in DOMAIN t
  BY <1>1, <1>3, <1>4, <1>5 DEF Before
<1>6. CASE i \notin DOMAIN s
  BY <1>3, <1>4, <1>6 DEF Before
<1>7. CASE i \notin DOMAIN t
  BY <1>3, <1>4, <1>7 DEF Before
<1> QED BY <1>5, <1>6, <1>7

\* Every finite set of names has an order sort.Strings can leave it in: a
\* name's place is the number of names that are not after it.
LEMMA Sortable ==
  ASSUME NEW S \in SUBSET Text, IsFiniteSet(S)
  PROVE  \E names \in [1 .. Cardinality(S) -> S] :
           \A i, j \in DOMAIN names : i < j => Before(names[i], names[j])
<1> DEFINE N == Cardinality(S)
           UpTo(x) == {y \in S : y = x \/ Before(y, x)}
           place == [x \in S |-> Cardinality(UpTo(x))]
<1>1. N \in Nat
  BY FS_CardinalityType
<1>2. \A x \in S : /\ IsFiniteSet(UpTo(x))
                   /\ place[x] \in 1 .. N
  <2> TAKE x \in S
  <2>1. UpTo(x) \in SUBSET S /\ x \in UpTo(x)
    OBVIOUS
  <2> HIDE DEF UpTo
  <2>2. IsFiniteSet(UpTo(x)) /\ Cardinality(UpTo(x)) <= N
    BY <2>1, FS_Subset
  <2>3. Cardinality(UpTo(x)) \in Nat /\ Cardinality(UpTo(x)) # 0
    BY <2>1, <2>2, FS_CardinalityType, FS_EmptySet
  <2>4. place[x] = Cardinality(UpTo(x))
    OBVIOUS
  <2> QED BY <1>1, <2>2, <2>3, <2>4
<1>3. ASSUME NEW x \in S, NEW y \in S, Before(x, y)
      PROVE  place[x] < place[y]
  <2>1. UpTo(x) \in SUBSET UpTo(y)
    BY <1>3, BeforeTransitive
  <2>2. y \in UpTo(y) /\ y \notin UpTo(x)
    <3>1. ~ Before(y, x)
      BY <1>3, BeforeTransitive, BeforeIrreflexive
    <3>2. y # x
      BY <1>3, BeforeIrreflexive
    <3> QED BY <3>1, <3>2
  <2>3. place[x] = Cardinality(UpTo(x)) /\ place[y] = Cardinality(UpTo(y))
    OBVIOUS
  <2> HIDE DEF UpTo, place
  <2>4. /\ Cardinality(UpTo(x)) <= Cardinality(UpTo(y))
        /\ Cardinality(UpTo(x)) # Cardinality(UpTo(y))
    BY <1>2, <2>1, <2>2, FS_Subset
  <2> QED BY <1>2, <2>3, <2>4
<1> HIDE DEF UpTo
<1>4. place \in [S -> 1 .. N]
  BY <1>2
<1> HIDE DEF place
<1>5. \A x, y \in S : place[x] = place[y] => x = y
  <2> SUFFICES ASSUME NEW x \in S, NEW y \in S, place[x] = place[y], x # y
               PROVE  FALSE
    OBVIOUS
  <2>1. place[x] \in Nat /\ place[y] \in Nat
    BY <1>1, <1>2
  <2> QED BY <1>3, <2>1, BeforeTotal
<1>6. place \in Surjection(S, 1 .. N)
  <2>1. place \in Injection(S, 1 .. N)
    BY <1>4, <1>5 DEF Injection, IsInjective
  <2>2. IsFiniteSet(1 .. N) /\ Cardinality(1 .. N) = N
    BY <1>1, FS_Interval
  <2> QED BY <2>1, <2>2, FS_Injection
<1>7. \A i \in 1 .. N : \E x \in S : place[x] = i
  BY <1>6 DEF Surjection
<1> DEFINE names == [i \in 1 .. N |-> CHOOSE x \in S : place[x] = i]
<1>8. /\ names \in [1 .. N -> S]
      /\ \A i \in 1 .. N : place[names[i]] = i
  BY <1>7
<1> HIDE DEF names
<1>9. ASSUME NEW i \in 1 .. N, NEW j \in 1 .. N, i < j
      PROVE  Before(names[i], names[j])
  <2>1. names[i] \in S /\ names[j] \in S
    BY <1>8
  <2>2. place[names[i]] = i /\ place[names[j]] = j
    BY <1>8
  <2>3. names[i] # names[j] /\ ~ Before(names[j], names[i])
    BY <1>1, <1>3, <1>9, <2>1, <2>2
  <2> QED BY <2>1, <2>3, BeforeTotal
<1> QED BY <1>8, <1>9

\* LabelNames are the names of all labels, each once.
LEMMA NamesOfLabels ==
  ASSUME NEW labels \in LabelSet
  PROVE  /\ LabelNames(labels) \in Seq(Text)
         /\ DOMAIN labels = {LabelNames(labels)[i] :
                               i \in 1 .. Len(LabelNames(labels))}
         /\ labels \in [DOMAIN labels -> Text]
<1> DEFINE S == DOMAIN labels
           N == Cardinality(S)
           names == LabelNames(labels)
<1>1. S \in SUBSET Text /\ IsFiniteSet(S) /\ labels \in [S -> Text]
  BY DEF LabelSet
<1>2. /\ names \in [1 .. N -> S]
      /\ \A i, j \in DOMAIN names : i < j => Before(names[i], names[j])
  <2> HIDE DEF S
  <2>1. \E n \in [1 .. N -> S] :
          \A i, j \in DOMAIN n : i < j => Before(n[i], n[j])
    BY <1>1, Sortable
  <2> QED BY <2>1 DEF LabelNames, S
<1>3. N \in Nat
  BY <1>1, FS_CardinalityType
<1> HIDE DEF S, names
<1>4. names \in Seq(Text) /\ Len(names) = N
  <2>1. names \in [1 .. N -> Text]
    BY <1>1, <1>2
  <2>2. names \in Seq(Text)
    BY <1>3, <2>1, SeqDef
  <2>3. DOMAIN names = 1 .. N
    BY <1>2
  <2> QED BY <1>3, <2>2, <2>3, LenProperties
<1>5. \A i, j \in 1 .. N : names[i] = names[j] => i = j
  <2> SUFFICES ASSUME NEW i \in 1 .. N, NEW j \in 1 .. N,
                      names[i] = names[j], i < j
               PROVE  FALSE
    BY <1>3
  <2> QED BY <1>1, <1>2, BeforeIrreflexive
<1>6. names \in Surjection(1 .. N, S)
  <2>1. names \in Injection(1 .. N, S)
    BY <1>2, <1>5 DEF Injection, IsInjective
  <2>2. Cardinality(1 .. N) = N
    BY <1>3, FS_Interval
  <2> QED BY <1>1, <2>1, <2>2, FS_Injection
<1>7. S = {names[i] : i \in 1 .. N}
  BY <1>2, <1>6 DEF Surjection
<1> QED BY <1>1, <1>4, <1>7 DEF S, names

-----------------------------------------------------------------------------
(* Separators.                                                             *)

Hashed == Seq(Nat)

\* Nothing was hashed yet, or a separator last.
Closed(h) == h = <<>> \/ h[Len(h)] = SeparatorByte

LEMMA TextIsHashed == Text \subseteq Hashed
<1> SUFFICES ASSUME NEW s \in Text
             PROVE  s \in Hashed
  OBVIOUS
<1>1. s \in Seq(0 .. 254) /\ 0 .. 254 \subseteq Nat
  BY DEF Text, SeparatorByte
<1> QED BY <1>1, SeqMonotonic DEF Hashed

\* A string after a separator can be told from what was hashed before it.
LEMMA CutAtSeparator ==
  ASSUME NEW g \in Hashed, NEW h \in Hashed, Closed(g), Closed(h),
         NEW s \in Text, NEW t \in Text, hashAdd(g, s) = hashAdd(h, t)
  PROVE  g = h /\ s = t
<1>0. g \o s = h \o t
  BY DEF hashAdd
<1>1. s \in Hashed /\ t \in Hashed
  BY TextIsHashed
<1>2. /\ Len(g \o s) = Len(g) + Len(s)
      /\ \A i \in 1 .. Len(g) + Len(s) :
           (g \o s)[i] = IF i <= Len(g) THEN g[i] ELSE s[i - Len(g)]
  BY <1>1, ConcatProperties DEF Hashed
<1>3. /\ Len(h \o t) = Len(h) + Len(t)
      /\ \A i \in 1 .. Len(h) + Len(t) :
           (h \o t)[i] = IF i <= Len(h) THEN h[i] ELSE t[i - Len(h)]
  BY <1>1, ConcatProperties DEF Hashed
<1>4. /\ Len(g) \in Nat /\ Len(h) \in Nat /\ Len(s) \in Nat /\ Len(t) \in Nat
      /\ \A i \in 1 .. Len(s) : s[i] # SeparatorByte
      /\ \A i \in 1 .. Len(t) : t[i] # SeparatorByte
  <2>1. Len(g) \in Nat /\ Len(h) \in Nat
    BY LenProperties DEF Hashed
  <2> QED BY <2>1, TextType
<1>5. Len(g) + Len(s) = Len(h) + Len(t)
  BY <1>0, <1>2, <1>3
<1>6. ~ (Len(g) < Len(h))
  <2> SUFFICES ASSUME Len(g) < Len(h)
               PROVE  FALSE
    OBVIOUS
  <2>1. h # <<>> /\ h[Len(h)] = SeparatorByte
    <3>1. Len(h) # 0
      BY <1>4
    <3>2. h # <<>>
      BY <3>1, EmptySeq
    <3> QED BY <3>2 DEF Closed
  <2>2. Len(h) \in 1 .. Len(g) + Len(s) /\ Len(h) - Len(g) \in 1 .. Len(s)
    BY <1>4, <1>5
  <2>3. (g \o s)[Len(h)] = s[Len(h) - Len(g)]
    BY <1>2, <1>4, <2>2
  <2>4. (h \o t)[Len(h)] = SeparatorByte
    BY <1>3, <1>4, <1>5, <2>1, <2>2
  <2> QED BY <1>0, <1>4, <2>2, <2>3, <2>4
<1>7. ~ (Len(h) < Len(g))
  <2> SUFFICES ASSUME Len(h) < Len(g)
               PROVE  FALSE
    OBVIOUS
  <2>1. g # <<>> /\ g[Len(g)] = SeparatorByte
    <3>1. Len(g) # 0
      BY <1>4
    <3>2. g # <<>>
      BY <3>1, EmptySeq
    <3> QED BY <3>2 DEF Closed
  <2>2. Len(g) \in 1 .. Len(h) + Len(t) /\ Len(g) - Len(h) \in 1 .. Len(t)
    BY <1>4, <1>5
  <2>3. (h \o t)[Len(g)] = t[Len(g) - Len(h)]
    BY <1>3, <1>4, <2>2
  <2>4. (g \o s)[Len(g)] = SeparatorByte
    BY <1>2, <1>4, <1>5, <2>1, <2>2
  <2> QED BY <1>0, <1>4, <2>2, <2>3, <2>4
<1>8. Len(g) = Len(h) /\ Len(s) = Len(t)
  BY <1>4, <1>5, <1>6, <1>7
<1>9. \A i \in 1 .. Len(g) : g[i] = h[i]
  <2> TAKE i \in 1 .. Len(g)
  <2>1. (g \o s)[i] = g[i]
    BY <1>2, <1>4
  <2>2. (h \o t)[i] = h[i]
    BY <1>3, <1>4, <1>8
  <2> QED BY <1>0, <2>1, <2>2
<1>10. \A i \in 1 .. Len(s) : s[i] = t[i]
  <2> TAKE i \in 1 .. Len(s)
  <2>1. Len(g) + i \in 1 .. Len(g) + Len(s) /\ Len(g) + i - Len(g) = i
        /\ ~ (Len(g) + i <= Len(g))
    BY <1>4
  <2>2. (g \o s)[Len(g) + i] = s[i]
    BY <1>2, <2>1
  <2>3. (h \o t)[Len(g) + i] = t[i]
    BY <1>3, <1>8, <2>1
  <2> QED BY <1>0, <2>2, <2>3
<1> QED BY <1>1, <1>8, <1>9, <1>10, SeqEqual DEF Hashed

LEMMA SeparatorCloses ==
  ASSUME NEW h \in Hashed
  PROVE  /\ hashAddByte(h, SeparatorByte) \in Hashed
         /\ hashAddByte(h, SeparatorByte) # <<>>
         /\ Closed(hashAddByte(h, SeparatorByte))
<1>1. SeparatorByte \in Nat
  BY DEF SeparatorByte
<1> QED BY <1>1, AppendProperties DEF hashAddByte, Hashed, Closed

LEMMA SeparatorUndone ==
  ASSUME NEW g \in Hashed, NEW h \in Hashed,
         hashAddByte(g, SeparatorByte) = hashAddByte(h, SeparatorByte)
  PROVE  g = h
<1>1. Append(g, SeparatorByte) = Append(h, SeparatorByte)
  BY DEF hashAddByte
<1>2. SeparatorByte \in Nat /\ g \in Seq(Nat) /\ h \in Seq(Nat)
  BY DEF SeparatorByte, Hashed
<1> HIDE DEF SeparatorByte
<1> QED BY <1>1, <1>2, AppendInjective

LEMMA StringsAreHashed ==
  ASSUME NEW h \in Hashed, NEW s \in Text
  PROVE  hashAdd(h, s) \in Hashed
  BY TextIsHashed, ConcatProperties DEF hashAdd, Hashed

\* The fields of a label.
LEMMA FieldsClose ==
  ASSUME NEW h \in Hashed, NEW name \in Text, NEW value \in Text
  PROVE  /\ Fields(h, name, value) \in Hashed
         /\ Fields(h, name, value) # <<>>
         /\ Closed(Fields(h, name, value))
  BY StringsAreHashed, SeparatorCloses DEF Fields

\* What was hashed for a label determines it, and what was hashed before it.
LEMMA FieldsInjective ==
  ASSUME NEW g \in Hashed, NEW h \in Hashed, Closed(g), Closed(h),
         NEW m \in Text, NEW n \in Text, NEW v \in Text, NEW w \in Text,
         Fields(g, m, v) = Fields(h, n, w)
  PROVE  g = h /\ m = n /\ v = w
<1> DEFINE gm == hashAddByte(hashAdd(g, m), SeparatorByte)
           hn == hashAddByte(hashAdd(h, n), SeparatorByte)
<1>1. /\ gm \in Hashed /\ Closed(gm) /\ hashAdd(gm, v) \in Hashed
      /\ hn \in Hashed /\ Closed(hn) /\ hashAdd(hn, w) \in Hashed
      /\ hashAdd(g, m) \in Hashed /\ hashAdd(h, n) \in Hashed
  BY StringsAreHashed, SeparatorCloses
<1>2. hashAddByte(hashAdd(gm, v), SeparatorByte)
        = hashAddByte(hashAdd(hn, w), SeparatorByte)
  BY DEF Fields
<1>3. hashAdd(gm, v) = hashAdd(hn, w)
  <2> HIDE DEF gm, hn
  <2> QED BY <1>1, <1>2, SeparatorUndone
<1>4. gm = hn /\ v = w
  <2> HIDE DEF gm, hn
  <2> QED BY <1>1, <1>3, CutAtSeparator
<1>5. hashAdd(g, m) = hashAdd(h, n)
  BY <1>1, <1>4, SeparatorUndone
<1>6. g = h /\ m = n
  BY <1>5, CutAtSeparator
<1> QED BY <1>4, <1>6

-----------------------------------------------------------------------------
(* The loop over the labels.                                               *)

\* Names and values that can be hashed.
Labelled(names, labels) ==
  /\ names \in Seq(Text)
  /\ \A i \in 1 .. Len(names) : names[i] \in Text /\ labels[names[i]] \in Text

\* The hash after each turn of the loop, however many names there are.
LEMMA SumsDefined ==
  ASSUME NEW names, NEW labels, Labelled(names, labels)
  PROVE  LET sum == LabelSums(names, labels)
         IN /\ sum[0] = <<>>
            /\ \A i \in 1 .. Len(names) :
                 sum[i] = Fields(sum[i - 1], names[i], labels[names[i]])
            /\ \A i \in 0 .. Len(names) : sum[i] \in Hashed /\ Closed(sum[i])
            /\ \A i \in 1 .. Len(names) : sum[i] # <<>>
<1> DEFINE N == Len(names)
           turn(h, i) == Fields(h, names[i], labels[names[i]])
           Sums(n, f) == f = [i \in 0 .. n |-> IF i = 0 THEN hashNew
                                               ELSE turn(f[i - 1], i)]
           sum == LabelSums(names, labels)
<1>1. N \in Nat
  BY LenProperties DEF Labelled
<1>2. \A n \in 0 .. N : \E f : Sums(n, f)
  <2> DEFINE Bad == {n \in 0 .. N : ~ \E f : Sums(n, f)}
  <2> SUFFICES ASSUME Bad # {}
               PROVE  FALSE
    OBVIOUS
  <2>1. Bad \in SUBSET Nat
    BY <1>1
  <2>2. PICK n \in Bad : \A k \in Bad : n <= k
    <3> HIDE DEF Bad
    <3> QED BY <2>1, Least
  <2> HIDE DEF turn
  <2>3. n # 0
    <3>1. Sums(0, [i \in 0 .. 0 |-> hashNew])
      OBVIOUS
    <3> QED BY <3>1
  <2>4. n \in 0 .. N
    OBVIOUS
  <2>5. n - 1 \in 0 .. N /\ ~ (n <= n - 1)
    BY <1>1, <2>3, <2>4
  <2>6. n - 1 \notin Bad
    <3> HIDE DEF Bad
    <3> QED BY <2>2, <2>5
  <2>7. PICK f : Sums(n - 1, f)
    BY <2>5, <2>6
  <2> DEFINE g == [i \in 0 .. n |-> IF i = n THEN turn(f[n - 1], n) ELSE f[i]]
  <2>8. \A i \in 0 .. n - 1 : f[i] = IF i = 0 THEN hashNew ELSE turn(f[i - 1], i)
    BY <2>7
  <2>9. \A i \in 0 .. n : g[i] = IF i = 0 THEN hashNew ELSE turn(g[i - 1], i)
    <3> TAKE i \in 0 .. n
    <3>1. CASE i = n
      BY <1>1, <2>3, <2>4, <3>1
    <3>2. CASE i # n
      BY <1>1, <2>3, <2>4, <2>8, <3>2
    <3> QED BY <3>1, <3>2
  <2>10. Sums(n, g)
    <3>1. g = [i \in 0 .. n |-> g[i]]
      OBVIOUS
    <3> HIDE DEF g
    <3> QED BY <2>9, <3>1
  <2> QED BY <2>10
<1>3. Sums(N, sum)
  <2>1. \E f : Sums(N, f)
    BY <1>1, <1>2
  <2> QED BY <2>1 DEF LabelSums
<1>4. /\ sum[0] = <<>>
      /\ \A i \in 1 .. N : sum[i] = turn(sum[i - 1], i)
  <2> HIDE DEF sum, turn
  <2>1. \A i \in 0 .. N : sum[i] = IF i = 0 THEN hashNew ELSE turn(sum[i - 1], i)
    BY <1>3
  <2> QED BY <1>1, <2>1 DEF hashNew
<1> HIDE DEF sum
<1>5. \A i \in 0 .. N : sum[i] \in Hashed /\ Closed(sum[i])
  <2> DEFINE Bad == {i \in 0 .. N : ~ (sum[i] \in Hashed /\ Closed(sum[i]))}
  <2> SUFFICES ASSUME Bad # {}
               PROVE  FALSE
    OBVIOUS
  <2>1. Bad \in SUBSET Nat
    BY <1>1
  <2>2. PICK i \in Bad : \A k \in Bad : i <= k
    <3> HIDE DEF Bad
    <3> QED BY <2>1, Least
  <2>3. i # 0
    BY <1>4, EmptySeq DEF Hashed, Closed
  <2>4. i \in 1 .. N /\ i - 1 \in 0 .. N /\ i - 1 \notin Bad
    BY <1>1, <2>2, <2>3
  <2>5. sum[i - 1] \in Hashed /\ names[i] \in Text /\ labels[names[i]] \in Text
    BY <2>4 DEF Labelled
  <2> QED BY <1>4, <2>4, <2>5, FieldsClose
<1>6. \A i \in 1 .. N : sum[i] # <<>>
  <2> TAKE i \in 1 .. N
  <2>1. i - 1 \in 0 .. N
    BY <1>1
  <2>2. sum[i - 1] \in Hashed /\ names[i] \in Text /\ labels[names[i]] \in Text
    BY <1>5, <2>1 DEF Labelled
  <2>3. Fields(sum[i - 1], names[i], labels[names[i]]) # <<>>
    BY <2>2, FieldsClose
  <2>4. sum[i] = Fields(sum[i - 1], names[i], labels[names[i]])
    BY <1>4
  <2> QED BY <2>3, <2>4
<1> QED BY <1>4, <1>5, <1>6 DEF sum

\* Loops that end with the same hash went through the same labels: from the
\* last one on, as the turns can be undone one by one.
LEMMA SumsInjective ==
  ASSUME NEW k, NEW l, Labelled(k, l), NEW m, NEW n, Labelled(m, n),
         LabelSums(k, l)[Len(k)] = LabelSums(m, n)[Len(m)]
  PROVE  /\ Len(k) = Len(m)
         /\ \A i \in 1 .. Len(k) : k[i] = m[i] /\ l[k[i]] = n[m[i]]
<1> DEFINE s == LabelSums(k, l)
           t == LabelSums(m, n)
<1>1. Len(k) \in Nat /\ Len(m) \in Nat
  BY LenProperties DEF Labelled
<1>2. /\ s[0] = <<>>
      /\ \A i \in 1 .. Len(k) : s[i] = Fields(s[i - 1], k[i], l[k[i]])
      /\ \A i \in 0 .. Len(k) : s[i] \in Hashed /\ Closed(s[i])
      /\ \A i \in 1 .. Len(k) : s[i] # <<>>
  BY SumsDefined
<1>3. /\ t[0] = <<>>
      /\ \A i \in 1 .. Len(m) : t[i] = Fields(t[i - 1], m[i], n[m[i]])
      /\ \A i \in 0 .. Len(m) : t[i] \in Hashed /\ Closed(t[i])
      /\ \A i \in 1 .. Len(m) : t[i] # <<>>
  BY SumsDefined
<1>4. s[Len(k)] = t[Len(m)]
  OBVIOUS
<1> HIDE DEF s, t
<1>5. ASSUME NEW i \in 1 .. Len(k), NEW j \in 1 .. Len(m), s[i] = t[j]
      PROVE  s[i - 1] = t[j - 1] /\ k[i] = m[j] /\ l[k[i]] = n[m[j]]
  <2>1. i - 1 \in 0 .. Len(k) /\ j - 1 \in 0 .. Len(m)
    BY <1>1
  <2>2. /\ k[i] \in Text /\ l[k[i]] \in Text
        /\ m[j] \in Text /\ n[m[j]] \in Text
    BY DEF Labelled
  <2>3. Fields(s[i - 1], k[i], l[k[i]]) = Fields(t[j - 1], m[j], n[m[j]])
    BY <1>2, <1>3, <1>5
  <2>4. /\ s[i - 1] \in Hashed /\ Closed(s[i - 1])
        /\ t[j - 1] \in Hashed /\ Closed(t[j - 1])
    BY <1>2, <1>3, <2>1
  <2> QED BY <2>2, <2>3, <2>4, FieldsInjective
<1>6. \A d \in Nat : d <= Len(k) /\ d <= Len(m) => s[Len(k) - d] = t[Len(m) - d]
  <2> DEFINE Bad == {d \in Nat : /\ d <= Len(k) /\ d <= Len(m)
                                 /\ s[Len(k) - d] # t[Len(m) - d]}
  <2> SUFFICES ASSUME Bad # {}
               PROVE  FALSE
    OBVIOUS
  <2>1. PICK d \in Bad : \A c \in Bad : d <= c
    <3>1. Bad \in SUBSET Nat
      OBVIOUS
    <3> HIDE DEF Bad
    <3> QED BY <3>1, Least
  <2>2. d # 0
    BY <1>1, <1>4
  <2>3. d \in Nat /\ d <= Len(k) /\ d <= Len(m)
    OBVIOUS
  <2>4. /\ d - 1 \in Nat /\ ~ (d <= d - 1)
        /\ d - 1 <= Len(k) /\ d - 1 <= Len(m)
    BY <1>1, <2>2, <2>3
  <2>5. d - 1 \notin Bad
    <3> HIDE DEF Bad
    <3> QED BY <2>1, <2>4
  <2>6. s[Len(k) - (d - 1)] = t[Len(m) - (d - 1)]
    BY <2>4, <2>5
  <2>7. /\ Len(k) - (d - 1) \in 1 .. Len(k)
        /\ Len(m) - (d - 1) \in 1 .. Len(m)
        /\ Len(k) - (d - 1) - 1 = Len(k) - d
        /\ Len(m) - (d - 1) - 1 = Len(m) - d
    BY <1>1, <2>2, <2>3
  <2>8. s[Len(k) - d] = t[Len(m) - d]
    BY <1>5, <2>6, <2>7
  <2> QED BY <2>8
<1>7. ~ (Len(k) < Len(m))
  <2> SUFFICES ASSUME Len(k) < Len(m)
               PROVE  FALSE
    OBVIOUS
  <2>1. s[Len(k) - Len(k)] = t[Len(m) - Len(k)]
    BY <1>1, <1>6
  <2>2. Len(k) - Len(k) = 0 /\ Len(m) - Len(k) \in 1 .. Len(m)
    BY <1>1
  <2> QED BY <1>2, <1>3, <2>1, <2>2
<1>8. ~ (Len(m) < Len(k))
  <2> SUFFICES ASSUME Len(m) < Len(k)
               PROVE  FALSE
    OBVIOUS
  <2>1. s[Len(k) - Len(m)] = t[Len(m) - Len(m)]
    BY <1>1, <1>6
  <2>2. Len(m) - Len(m) = 0 /\ Len(k) - Len(m) \in 1 .. Len(k)
    BY <1>1
  <2> QED BY <1>2, <1>3, <2>1, <2>2
<1>9. Len(k) = Len(m)
  BY <1>1, <1>7, <1>8
<1>10. \A i \in 1 .. Len(k) : k[i] = m[i] /\ l[k[i]] = n[m[i]]
  <2> TAKE i \in 1 .. Len(k)
  <2>1. /\ Len(k) - i \in Nat /\ Len(k) - i <= Len(k)
        /\ Len(k) - (Len(k) - i) = i
    BY <1>1
  <2>2. s[i] = t[i]
    BY <1>6, <1>9, <2>1
  <2> QED BY <1>5, <1>9, <2>2
<1> QED BY <1>9, <1>10

\* Targets that are told apart by their address, or by any name or value of
\* their labels, are told apart by what TaskID hashes for them, as long as
\* there are labels and no string contains the separator (TaskID).
THEOREM TaskIdInjective ==
  ASSUME NEW a \in Text, NEW b \in Text,
         NEW l \in LabelSet, NEW m \in LabelSet,
         TaskID(a, l) = TaskID(b, m)
  PROVE  a = b /\ l = m
<1> DEFINE names(labels) == LabelNames(labels)
           sum(labels) == LabelSums(names(labels), labels)[Len(names(labels))]
<1>1. ASSUME NEW labels \in LabelSet
      PROVE  /\ labels # <<>>
             /\ Labelled(names(labels), labels)
             /\ sum(labels) \in Hashed /\ Closed(sum(labels))
  <2>1. labels # <<>>
    BY DEF LabelSet
  <2>2. Labelled(names(labels), labels)
    <3>1. /\ names(labels) \in Seq(Text)
          /\ DOMAIN labels = {names(labels)[i] : i \in 1 .. Len(names(labels))}
          /\ labels \in [DOMAIN labels -> Text]
      BY NamesOfLabels
    <3> HIDE DEF names
    <3>2. \A i \in 1 .. Len(names(labels)) : names(labels)[i] \in Text
      BY <3>1, ElementOfSeq
    <3> QED BY <3>1, <3>2 DEF Labelled
  <2>3. Len(names(labels)) \in 0 .. Len(names(labels))
    BY <2>2, LenProperties DEF Labelled
  <2> HIDE DEF names
  <2> QED BY <2>1, <2>2, <2>3, SumsDefined
<1>2. AddrName \in Text
  BY DEF AddrName, Text, SeparatorByte
<1>3. Fields(sum(l), AddrName, a) = Fields(sum(m), AddrName, b)
  BY <1>1 DEF TaskID
<1> HIDE DEF sum
<1>4. a = b /\ sum(l) = sum(m)
  BY <1>1, <1>2, <1>3, FieldsInjective
<1>5. /\ Len(names(l)) = Len(names(m))
      /\ \A i \in 1 .. Len(names(l)) :
           names(l)[i] = names(m)[i] /\ l[names(l)[i]] = m[names(m)[i]]
  BY <1>1, <1>4, SumsInjective DEF sum
<1>6. /\ DOMAIN l = {names(l)[i] : i \in 1 .. Len(names(l))}
      /\ DOMAIN m = {names(m)[i] : i \in 1 .. Len(names(m))}
      /\ l \in [DOMAIN l -> Text] /\ m \in [DOMAIN m -> Text]
  BY NamesOfLabels
<1> HIDE DEF names
<1>7. DOMAIN l = DOMAIN m
  BY <1>5, <1>6
<1>8. \A x \in DOMAIN l : l[x] = m[x]
  BY <1>5, <1>6
<1>9. l = m
  BY <1>6, <1>7, <1>8
<1> QED BY <1>4, <1>9

=============================================================================
