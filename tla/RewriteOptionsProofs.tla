------------------------ MODULE RewriteOptionsProofs ------------------------
(***************************************************************************)
(* Proofs about RewriteOptions, for any nodes of any depth: what the       *)
(* flattening of nodes and the joining of lists return, and what a map of  *)
(* options does to PageSpeed's options and to the driver factory.          *)
(*                                                                         *)
(* FlattenScalarSequence, FlattenSeq and SetOptionsFromOptionsMap are      *)
(* recursive functions.  That each exists, and what it returns, is proved  *)
(* by induction in the form of statements about sets, which WFMin gives    *)
(* for numbers and RewriteOptionsAssumption for nodes.                     *)
(***************************************************************************)
EXTENDS RewriteOptions, WellFoundedInduction, TLAPS

-----------------------------------------------------------------------------
(* Induction. *)

LEMMA SetInduction ==
  ASSUME NEW T, 0 \in T, \A n \in Nat : n \in T => n + 1 \in T
  PROVE  Nat \subseteq T
<1>1. SUFFICES ASSUME Nat \ T # {} PROVE FALSE
  OBVIOUS
<1>2. PICK m \in Nat \ T : \A k \in Nat \ T : <<k, m>> \notin OpToRel(<, Nat)
  <2>1. Nat \ T \subseteq Nat
    OBVIOUS
  <2> QED
    BY <1>1, <2>1, WFMin, NatLessThanWellFounded
<1>3. \A k \in Nat \ T : ~(k < m)
  <2> TAKE k \in Nat \ T
  <2>1. <<k, m>> \notin {ss \in Nat \X Nat : ss[1] < ss[2]}
    BY <1>2 DEF OpToRel
  <2> QED
    BY <2>1
<1>4. m \in Nat /\ m # 0
  BY <1>2
<1>5. m - 1 \in Nat /\ m - 1 < m /\ m = (m - 1) + 1
  BY <1>4
<1> QED
  BY <1>2, <1>3, <1>5

LEMMA IndexInduction ==
  ASSUME NEW n \in Nat, NEW T, 1 \in T,
         \A i \in 1 .. n : i \in T /\ i + 1 <= n => i + 1 \in T
  PROVE  1 .. n \subseteq T
<1> DEFINE U == {k \in Nat : k \in 1 .. n => k \in T}
<1>1. 0 \in U
  OBVIOUS
<1>2. \A k \in Nat : k \in U => k + 1 \in U
  <2> TAKE k \in Nat
  <2> HAVE k \in U
  <2>1. CASE k = 0
    BY <2>1
  <2>2. CASE k # 0 /\ k + 1 <= n
    <3>1. k \in 1 .. n /\ k \in T
      BY <2>2
    <3> QED
      BY <3>1, <2>2
  <2>3. CASE ~(k + 1 <= n)
    BY <2>3
  <2> QED
    BY <2>1, <2>2, <2>3
<1> HIDE DEF U
<1>3. Nat \subseteq U
  BY <1>1, <1>2, SetInduction
<1> QED
  BY <1>3 DEF U

-----------------------------------------------------------------------------
(* FlattenSeq *)

Concatenated(f, s, n) ==
  [i \in 1 .. n |-> IF i = 1 THEN s[i] ELSE f[i - 1] \o s[i]]

LEMMA ConcatenatedExists ==
  ASSUME NEW s, NEW n \in Nat
  PROVE  \E f : f = Concatenated(f, s, n)
<1> DEFINE T == {k \in Nat : \E f : f = Concatenated(f, s, k)}
<1>1. 0 \in T
  <2> DEFINE f == [i \in 1 .. 0 |-> s]
  <2>1. f = Concatenated(f, s, 0)
    BY DEF Concatenated
  <2> QED
    BY <2>1
<1>2. \A k \in Nat : k \in T => k + 1 \in T
  <2> TAKE k \in Nat
  <2> HAVE k \in T
  <2>1. PICK f : f = Concatenated(f, s, k)
    OBVIOUS
  <2> DEFINE g == [i \in 1 .. k + 1 |-> IF i = 1 THEN s[i] ELSE f[i - 1] \o s[i]]
  <2>2. \A i \in 1 .. k : g[i] = f[i]
    <3> TAKE i \in 1 .. k
    <3>1. f[i] = IF i = 1 THEN s[i] ELSE f[i - 1] \o s[i]
      <4>1. Concatenated(f, s, k)[i] = IF i = 1 THEN s[i] ELSE f[i - 1] \o s[i]
        BY DEF Concatenated
      <4> QED
        BY <2>1, <4>1, Zenon
    <3> QED
      BY <3>1
  <2>3. \A i \in 1 .. k + 1 :
          g[i] = IF i = 1 THEN s[i] ELSE g[i - 1] \o s[i]
    <3> TAKE i \in 1 .. k + 1
    <3>1. CASE i = 1
      BY <3>1
    <3>2. CASE i # 1
      <4>1. i - 1 \in 1 .. k
        BY <3>2
      <4>2. g[i] = f[i - 1] \o s[i]
        BY <3>2
      <4>3. g[i - 1] = f[i - 1]
        BY <2>2, <4>1
      <4> QED
        BY <3>2, <4>2, <4>3
    <3> QED
      BY <3>1, <3>2
  <2>4. g = Concatenated(g, s, k + 1)
    <3> HIDE DEF g
    <3>1. DOMAIN g = 1 .. k + 1 /\ g = [i \in 1 .. k + 1 |-> g[i]]
      BY DEF g
    <3> QED
      BY <2>3, <3>1 DEF Concatenated
  <2> HIDE DEF g
  <2> QED
    BY <2>4
<1> HIDE DEF T
<1>3. n \in T
  BY <1>1, <1>2, SetInduction
<1> QED
  BY <1>3 DEF T

(* The concatenations of the first one, two, three ... of the sequences,   *)
(* the last of which is the flattened sequence.                            *)
LEMMA FlattenPrefixes ==
  ASSUME NEW X, NEW s \in Seq(Seq(X)), Len(s) # 0
  PROVE  \E f \in [1 .. Len(s) -> Seq(X)] :
           /\ f[1] = s[1]
           /\ \A i \in 2 .. Len(s) : f[i] = f[i - 1] \o s[i]
           /\ S!FlattenSeq(s) = f[Len(s)]
<1> DEFINE f == CHOOSE g : g = Concatenated(g, s, Len(s))
<1>0. Len(s) \in Nat /\ 1 \in 1 .. Len(s)
  OBVIOUS
<1>1. f = Concatenated(f, s, Len(s))
  BY <1>0, ConcatenatedExists, Zenon
<1>2. S!FlattenSeq(s) = f[Len(s)]
  BY Zenon DEF S!FlattenSeq, Concatenated
<1> HIDE DEF f
<1>3. \A i \in 1 .. Len(s) : f[i] = IF i = 1 THEN s[i] ELSE f[i - 1] \o s[i]
  <2> TAKE i \in 1 .. Len(s)
  <2>1. Concatenated(f, s, Len(s))[i] = IF i = 1 THEN s[i] ELSE f[i - 1] \o s[i]
    BY DEF Concatenated
  <2> QED
    BY <1>1, <2>1, Zenon
<1>4. f[1] = s[1]
  BY <1>0, <1>3
<1>5. \A i \in 2 .. Len(s) : f[i] = f[i - 1] \o s[i]
  <2> TAKE i \in 2 .. Len(s)
  <2>1. i \in 1 .. Len(s) /\ i # 1
    OBVIOUS
  <2> QED
    BY <1>3, <2>1
<1>6. \A i \in 1 .. Len(s) : f[i] \in Seq(X)
  <2> DEFINE T == {i \in 1 .. Len(s) : f[i] \in Seq(X)}
  <2>1. 1 \in T
    BY <1>0, <1>4
  <2>2. \A i \in 1 .. Len(s) : i \in T /\ i + 1 <= Len(s) => i + 1 \in T
    <3> TAKE i \in 1 .. Len(s)
    <3> HAVE i \in T /\ i + 1 <= Len(s)
    <3>1. i + 1 \in 2 .. Len(s) /\ (i + 1) - 1 = i /\ s[i + 1] \in Seq(X)
      OBVIOUS
    <3>2. f[i + 1] = f[i] \o s[i + 1]
      BY <1>5, <3>1
    <3>3. f[i] \in Seq(X)
      OBVIOUS
    <3>4. f[i + 1] \in Seq(X)
      BY <3>1, <3>2, <3>3
    <3> QED
      BY <3>1, <3>4
  <2> HIDE DEF T
  <2>3. 1 .. Len(s) \subseteq T
    BY <1>0, <2>1, <2>2, IndexInduction
  <2> QED
    BY <2>3 DEF T
<1>7. f = [i \in 1 .. Len(s) |-> f[i]]
  <2>1. f = [i \in 1 .. Len(s) |-> IF i = 1 THEN s[i] ELSE f[i - 1] \o s[i]]
    BY <1>1, Zenon DEF Concatenated
  <2> QED
    BY <1>3, <2>1
<1>8. f \in [1 .. Len(s) -> Seq(X)]
  BY <1>6, <1>7
<1> QED
  BY <1>2, <1>4, <1>5, <1>8

LEMMA FlattenSeqType ==
  ASSUME NEW X, NEW s \in Seq(Seq(X))
  PROVE  S!FlattenSeq(s) \in Seq(X)
<1>1. CASE Len(s) = 0
  <2>1. S!FlattenSeq(s) = s /\ s = << >>
    BY <1>1 DEF S!FlattenSeq
  <2> QED
    BY <2>1
<1>2. CASE Len(s) # 0
  <2>1. Len(s) \in 1 .. Len(s)
    BY <1>2
  <2>2. PICK f \in [1 .. Len(s) -> Seq(X)] : S!FlattenSeq(s) = f[Len(s)]
    BY <1>2, FlattenPrefixes
  <2> QED
    BY <2>1, <2>2
<1> QED
  BY <1>1, <1>2

LEMMA RangeOfConcat ==
  ASSUME NEW X, NEW s \in Seq(X), NEW t \in Seq(X)
  PROVE  S!Range(s \o t) = S!Range(s) \cup S!Range(t)
<1>1. /\ DOMAIN s = 1 .. Len(s) /\ DOMAIN t = 1 .. Len(t)
      /\ DOMAIN (s \o t) = 1 .. Len(s) + Len(t)
      /\ Len(s) \in Nat /\ Len(t) \in Nat
      /\ \A i \in 1 .. Len(s) : (s \o t)[i] = s[i]
  OBVIOUS
<1>2. \A i \in 1 .. Len(t) : (s \o t)[Len(s) + i] = t[i]
  OBVIOUS
<1>3. \A x \in S!Range(s \o t) : x \in S!Range(s) \cup S!Range(t)
  <2> TAKE x \in S!Range(s \o t)
  <2>1. PICK i \in 1 .. Len(s) + Len(t) : x = (s \o t)[i]
    BY <1>1 DEF S!Range
  <2>2. CASE i \in 1 .. Len(s)
    BY <1>1, <2>1, <2>2 DEF S!Range
  <2>3. CASE i \notin 1 .. Len(s)
    <3>1. i - Len(s) \in 1 .. Len(t) /\ i = Len(s) + (i - Len(s))
      BY <1>1, <2>1, <2>3
    <3>2. x = t[i - Len(s)]
      BY <1>2, <2>1, <3>1
    <3> QED
      BY <1>1, <3>1, <3>2 DEF S!Range
  <2> QED
    BY <2>2, <2>3
<1>4. \A x \in S!Range(s) : x \in S!Range(s \o t)
  BY <1>1 DEF S!Range
<1>5. \A x \in S!Range(t) : x \in S!Range(s \o t)
  <2> TAKE x \in S!Range(t)
  <2>1. PICK i \in 1 .. Len(t) : x = t[i]
    BY <1>1 DEF S!Range
  <2>2. Len(s) + i \in 1 .. Len(s) + Len(t)
    BY <1>1, <2>1
  <2> QED
    BY <1>1, <1>2, <2>1, <2>2 DEF S!Range
<1> QED
  BY <1>3, <1>4, <1>5

(* What a flattened sequence lists is what its parts list. *)
LEMMA FlattenSeqRange ==
  ASSUME NEW X, NEW s \in Seq(Seq(X))
  PROVE  S!Range(S!FlattenSeq(s)) =
           UNION {S!Range(s[i]) : i \in 1 .. Len(s)}
<1>1. CASE Len(s) = 0
  <2>1. S!FlattenSeq(s) = s /\ s = << >>
    BY <1>1 DEF S!FlattenSeq
  <2>2. DOMAIN s = {} /\ 1 .. Len(s) = {}
    BY <2>1
  <2> QED
    BY <2>1, <2>2 DEF S!Range
<1>2. CASE Len(s) # 0
  <2>1. PICK f \in [1 .. Len(s) -> Seq(X)] :
          /\ f[1] = s[1]
          /\ \A i \in 2 .. Len(s) : f[i] = f[i - 1] \o s[i]
          /\ S!FlattenSeq(s) = f[Len(s)]
    BY <1>2, FlattenPrefixes
  <2> DEFINE Listing(k) == UNION {S!Range(s[i]) : i \in 1 .. k}
             T == {k \in 1 .. Len(s) : S!Range(f[k]) = Listing(k)}
  <2>0. Len(s) \in Nat /\ 1 \in 1 .. Len(s) /\ Len(s) \in 1 .. Len(s)
    BY <1>2
  <2>2. 1 \in T
    <3>1. Listing(1) = S!Range(s[1])
      OBVIOUS
    <3> QED
      BY <2>0, <2>1, <3>1
  <2>3. \A k \in 1 .. Len(s) : k \in T /\ k + 1 <= Len(s) => k + 1 \in T
    <3> TAKE k \in 1 .. Len(s)
    <3> HAVE k \in T /\ k + 1 <= Len(s)
    <3>1. /\ k + 1 \in 2 .. Len(s) /\ k + 1 \in 1 .. Len(s)
          /\ (k + 1) - 1 = k /\ s[k + 1] \in Seq(X) /\ f[k] \in Seq(X)
      BY <2>1
    <3>2. f[k + 1] = f[k] \o s[k + 1]
      BY <2>1, <3>1
    <3>3. S!Range(f[k + 1]) = S!Range(f[k]) \cup S!Range(s[k + 1])
      BY <3>1, <3>2, RangeOfConcat
    <3>4. Listing(k + 1) = Listing(k) \cup S!Range(s[k + 1])
      <4>1. 1 .. k + 1 = (1 .. k) \cup {k + 1}
        BY <3>1
      <4> QED
        BY <4>1
    <3> QED
      BY <3>1, <3>3, <3>4
  <2> HIDE DEF T
  <2>4. 1 .. Len(s) \subseteq T
    BY <2>0, <2>2, <2>3, IndexInduction
  <2> QED
    BY <2>0, <2>1, <2>4 DEF T
<1> QED
  BY <1>1, <1>2

LEMMA ConcatOne ==
  ASSUME NEW X, NEW s \in Seq(X), NEW x \in X
  PROVE  s \o <<x>> = Append(s, x)
<1>1. /\ s \o <<x>> \in Seq(X) /\ Append(s, x) \in Seq(X)
      /\ Len(s \o <<x>>) = Len(s) + 1 /\ Len(Append(s, x)) = Len(s) + 1
  OBVIOUS
<1>2. \A i \in 1 .. Len(s) + 1 : (s \o <<x>>)[i] = Append(s, x)[i]
  OBVIOUS
<1> QED
  BY <1>1, <1>2

(* A sequence of sequences of one element each flattens to the elements.   *)
LEMMA FlattenSingletons ==
  ASSUME NEW X, NEW e \in Seq(X)
  PROVE  S!FlattenSeq([i \in DOMAIN e |-> <<e[i]>>]) = e
<1> DEFINE s == [i \in DOMAIN e |-> <<e[i]>>]
<1>0. /\ s \in Seq(Seq(X)) /\ Len(s) = Len(e) /\ Len(e) \in Nat
      /\ \A i \in 1 .. Len(e) : s[i] = <<e[i]>> /\ e[i] \in X
  <2>1. DOMAIN e = 1 .. Len(e) /\ Len(e) \in Nat
    OBVIOUS
  <2>2. \A i \in 1 .. Len(e) : e[i] \in X /\ <<e[i]>> \in Seq(X)
    OBVIOUS
  <2> QED
    BY <2>1, <2>2
<1> HIDE DEF s
<1>1. CASE Len(e) = 0
  <2>1. S!FlattenSeq(s) = s /\ s = << >> /\ e = << >>
    BY <1>0, <1>1 DEF S!FlattenSeq
  <2> QED
    BY <2>1 DEF s
<1>2. CASE Len(e) # 0
  <2>1. PICK f \in [1 .. Len(s) -> Seq(X)] :
          /\ f[1] = s[1]
          /\ \A i \in 2 .. Len(s) : f[i] = f[i - 1] \o s[i]
          /\ S!FlattenSeq(s) = f[Len(s)]
    BY <1>0, <1>2, FlattenPrefixes
  <2> DEFINE IsPrefix(k) == Len(f[k]) = k /\ \A i \in 1 .. k : f[k][i] = e[i]
             T == {k \in 1 .. Len(e) : IsPrefix(k)}
  <2>0. 1 \in 1 .. Len(e) /\ Len(e) \in 1 .. Len(e)
    BY <1>0, <1>2
  <2>2. 1 \in T
    <3>1. f[1] = <<e[1]>>
      BY <1>0, <2>0, <2>1
    <3>2. Len(f[1]) = 1 /\ f[1][1] = e[1]
      BY <3>1
    <3>3. \A i \in 1 .. 1 : f[1][i] = e[i]
      BY <3>2
    <3> QED
      BY <2>0, <3>2, <3>3
  <2>3. \A k \in 1 .. Len(e) : k \in T /\ k + 1 <= Len(e) => k + 1 \in T
    <3> TAKE k \in 1 .. Len(e)
    <3> HAVE k \in T /\ k + 1 <= Len(e)
    <3>1. /\ k + 1 \in 2 .. Len(s) /\ k + 1 \in 1 .. Len(e) /\ (k + 1) - 1 = k
          /\ s[k + 1] = <<e[k + 1]>> /\ f[k] \in Seq(X) /\ e[k + 1] \in X
      BY <1>0, <2>1
    <3>2. f[k + 1] = f[k] \o <<e[k + 1]>>
      BY <2>1, <3>1
    <3>3. Len(f[k]) = k /\ \A i \in 1 .. k : f[k][i] = e[i]
      OBVIOUS
    <3>4. Len(f[k + 1]) = k + 1
      BY <3>1, <3>2, <3>3
    <3>5. \A i \in 1 .. k + 1 : f[k + 1][i] = e[i]
      <4> TAKE i \in 1 .. k + 1
      <4>1. CASE i \in 1 .. k
        BY <3>1, <3>2, <3>3, <4>1
      <4>2. CASE i = k + 1
        <5>1. f[k + 1] = Append(f[k], e[k + 1])
          BY <3>1, <3>2, ConcatOne
        <5>2. Append(f[k], e[k + 1])[Len(f[k]) + 1] = e[k + 1]
          BY <3>1
        <5> QED
          BY <3>3, <4>2, <5>1, <5>2
      <4> QED
        BY <3>1, <4>1, <4>2
    <3> QED
      BY <3>1, <3>4, <3>5
  <2> HIDE DEF T
  <2>4. Len(e) \in T
    BY <1>0, <2>0, <2>2, <2>3, IndexInduction
  <2>5. /\ S!FlattenSeq(s) \in Seq(X) /\ Len(S!FlattenSeq(s)) = Len(e)
        /\ \A i \in 1 .. Len(e) : S!FlattenSeq(s)[i] = e[i]
    BY <1>0, <2>0, <2>1, <2>4 DEF T
  <2>6. S!FlattenSeq(s) = e
    BY <2>5
  <2> QED
    BY <2>6 DEF s
<1> QED
  BY <1>1, <1>2

-----------------------------------------------------------------------------
(* FlattenScalarSequence *)

Elements(n) == IF n.type = "sequence" THEN S!Range(n.items) ELSE {}

FlattenStep(f, n) ==
  IF n.type = "sequence"
  THEN S!FlattenSeq([i \in DOMAIN n.items |-> f[n.items[i]]])
  ELSE IF n.type = "scalar" THEN <<n.text>> ELSE << >>

LEMMA NodeTypes ==
  /\ \A n \in YamlNodes :
       \/ n.type = "scalar" /\ n.text \in Text /\ n.text # << >>
       \/ n.type = "sequence" /\ n.items \in Seq(YamlNodes)
       \/ n.type = "other"
  /\ Number \in [Entries -> Int]
  /\ IntMax \in Nat \ {0}
  BY RewriteOptionsAssumption

LEMMA NodeInduction ==
  ASSUME NEW T, \A n \in YamlNodes : Elements(n) \subseteq T => n \in T
  PROVE  YamlNodes \subseteq T
<1> DEFINE C == YamlNodes \ T
<1>1. SUFFICES ASSUME C # {} PROVE FALSE
  OBVIOUS
<1>2. PICK n \in C : n.type = "sequence" => S!Range(n.items) \cap C = {}
  <2>1. C \in SUBSET YamlNodes
    OBVIOUS
  <2> HIDE DEF C
  <2> QED
    BY <1>1, <2>1, RewriteOptionsAssumption
<1>3. Elements(n) \subseteq YamlNodes
  BY NodeTypes DEF Elements, S!Range
<1>4. Elements(n) \subseteq T
  BY <1>2, <1>3 DEF Elements
<1> QED
  BY <1>2, <1>4

LEMMA StepReadsElements ==
  ASSUME NEW n \in YamlNodes, NEW f, NEW g,
         \A m \in Elements(n) : f[m] = g[m]
  PROVE  FlattenStep(f, n) = FlattenStep(g, n)
<1>1. CASE n.type = "sequence"
  <2>1. \A i \in DOMAIN n.items : f[n.items[i]] = g[n.items[i]]
    BY <1>1 DEF Elements, S!Range
  <2>2. [i \in DOMAIN n.items |-> f[n.items[i]]]
          = [i \in DOMAIN n.items |-> g[n.items[i]]]
    BY <2>1
  <2> QED
    BY <1>1, <2>2 DEF FlattenStep
<1>2. CASE n.type = "scalar" \/ n.type = "other"
  BY <1>2 DEF FlattenStep
<1> QED
  BY <1>1, <1>2, NodeTypes

(* A function that satisfies the recursion on some of the nodes.           *)
IsAttempt(g, D) ==
  /\ D \subseteq YamlNodes
  /\ \A n \in D : Elements(n) \subseteq D
  /\ g = [n \in D |-> FlattenStep(g, n)]

LEMMA AttemptValue ==
  ASSUME NEW g, NEW D, IsAttempt(g, D), NEW n \in D
  PROVE  g[n] = FlattenStep(g, n)
<1>1. g = [m \in D |-> FlattenStep(g, m)]
  BY DEF IsAttempt
<1>2. [m \in D |-> FlattenStep(g, m)][n] = FlattenStep(g, n)
  OBVIOUS
<1> QED
  BY <1>1, <1>2, Zenon

LEMMA AttemptsAgree ==
  ASSUME NEW g, NEW D, IsAttempt(g, D), NEW h, NEW E, IsAttempt(h, E)
  PROVE  \A n \in D \cap E : g[n] = h[n]
<1> DEFINE T == {n \in YamlNodes : n \in D \cap E => g[n] = h[n]}
<1>1. \A n \in YamlNodes : Elements(n) \subseteq T => n \in T
  <2> SUFFICES ASSUME NEW n \in YamlNodes, Elements(n) \subseteq T, n \in D \cap E
               PROVE  g[n] = h[n]
    OBVIOUS
  <2>1. \A m \in Elements(n) : g[m] = h[m]
    BY DEF IsAttempt
  <2>2. FlattenStep(g, n) = FlattenStep(h, n)
    BY <2>1, StepReadsElements
  <2>3. g[n] = FlattenStep(g, n) /\ h[n] = FlattenStep(h, n)
    BY AttemptValue
  <2> QED
    BY <2>2, <2>3
<1> HIDE DEF T
<1>2. YamlNodes \subseteq T
  BY <1>1, NodeInduction
<1> QED
  BY <1>2 DEF T, IsAttempt

LEMMA FlattenExists == \E g : g = [n \in YamlNodes |-> FlattenStep(g, n)]
<1> DEFINE IsValue(n, v) == \E D, g : IsAttempt(g, D) /\ n \in D /\ v = g[n]
           V(n) == CHOOSE v : IsValue(n, v)
           T == {n \in YamlNodes : \E v : IsValue(n, v)}
           F == [n \in T |-> V(n)]
<1>1. ASSUME NEW g, NEW D, IsAttempt(g, D), NEW n \in D
      PROVE  n \in T /\ F[n] = g[n]
  <2>1. IsValue(n, g[n])
    BY <1>1
  <2>2. IsValue(n, V(n))
    BY <2>1, Zenon
  <2>3. PICK E, h : IsAttempt(h, E) /\ n \in E /\ V(n) = h[n]
    BY <2>2
  <2>4. V(n) = g[n]
    BY <1>1, <2>3, AttemptsAgree
  <2>5. n \in T
    BY <1>1, <2>1 DEF IsAttempt
  <2> HIDE DEF V, T
  <2> QED
    BY <2>4, <2>5
<1>2. \A n \in T : Elements(n) \subseteq T /\ F[n] = FlattenStep(F, n)
  <2> TAKE n \in T
  <2>1. PICK D, g : IsAttempt(g, D) /\ n \in D
    OBVIOUS
  <2>2. Elements(n) \subseteq D
    BY <2>1 DEF IsAttempt
  <2>3. \A m \in D : m \in T /\ F[m] = g[m]
    BY <1>1, <2>1
  <2> HIDE DEF T, F
  <2>4. n \in YamlNodes
    BY <2>1 DEF IsAttempt
  <2>5. FlattenStep(F, n) = FlattenStep(g, n)
    BY <2>2, <2>3, <2>4, StepReadsElements
  <2>6. g[n] = FlattenStep(g, n)
    BY <2>1, AttemptValue
  <2> QED
    BY <2>1, <2>2, <2>3, <2>5, <2>6
<1>3. \A n \in YamlNodes : Elements(n) \subseteq T => n \in T
  <2> SUFFICES ASSUME NEW n \in YamlNodes, Elements(n) \subseteq T, n \notin T
               PROVE  FALSE
    OBVIOUS
  <2> DEFINE D == T \cup {n}
             g == [m \in D |-> IF m = n THEN FlattenStep(F, n) ELSE F[m]]
  <2>0. T \subseteq YamlNodes
    OBVIOUS
  <2>1. D \subseteq YamlNodes /\ \A m \in D : Elements(m) \subseteq D
    BY <1>2, <2>0
  <2>2. \A m \in T : g[m] = F[m]
    OBVIOUS
  <2>3. \A m \in D : g[m] = FlattenStep(g, m)
    <3> SUFFICES ASSUME NEW m \in D PROVE g[m] = FlattenStep(g, m)
      OBVIOUS
    <3>1. Elements(m) \subseteq T /\ m \in YamlNodes
      BY <1>2, <2>0
    <3>2. \A x \in Elements(m) : g[x] = F[x]
      BY <2>2, <3>1
    <3>3. g[m] = FlattenStep(F, m)
      BY <1>2
    <3> HIDE DEF g, F
    <3>4. FlattenStep(g, m) = FlattenStep(F, m)
      BY <3>1, <3>2, StepReadsElements
    <3> QED
      BY <3>3, <3>4
  <2>4. g = [m \in D |-> g[m]]
    OBVIOUS
  <2> HIDE DEF g
  <2>5. g = [m \in D |-> FlattenStep(g, m)]
    BY <2>3, <2>4
  <2>6. IsAttempt(g, D) /\ n \in D
    BY <2>1, <2>5 DEF IsAttempt
  <2> QED
    BY <1>1, <2>6
<1> HIDE DEF T, F
<1>4. YamlNodes \subseteq T
  BY <1>3, NodeInduction
<1>5. T = YamlNodes /\ F = [n \in T |-> F[n]]
  BY <1>4 DEF T, F
<1>6. F = [n \in YamlNodes |-> FlattenStep(F, n)]
  BY <1>2, <1>5
<1> QED
  BY <1>6

(* FlattenScalarSequence is what its recursion says.                       *)
LEMMA FlattenRecursion ==
  \A n \in YamlNodes :
    FlattenScalarSequence[n] = FlattenStep(FlattenScalarSequence, n)
<1> DEFINE g == CHOOSE f : f = [n \in YamlNodes |-> FlattenStep(f, n)]
<1>1. g = [n \in YamlNodes |-> FlattenStep(g, n)]
  BY FlattenExists, Zenon
<1>2. FlattenScalarSequence = g
  BY Zenon DEF FlattenScalarSequence, FlattenStep
<1> HIDE DEF g
<1> TAKE n \in YamlNodes
<1>3. [m \in YamlNodes |-> FlattenStep(g, m)][n] = FlattenStep(g, n)
  OBVIOUS
<1> QED
  BY <1>1, <1>2, <1>3, Zenon

LEMMA ElementsAreNodes ==
  ASSUME NEW n \in YamlNodes
  PROVE  Elements(n) \subseteq YamlNodes
  BY NodeTypes DEF Elements, S!Range

(* What is flattened is a sequence of texts, whatever nodes it comes from. *)
LEMMA FlattenType == \A n \in YamlNodes : FlattenScalarSequence[n] \in Seq(Text)
<1> DEFINE T == {n \in YamlNodes : FlattenScalarSequence[n] \in Seq(Text)}
<1>1. \A n \in YamlNodes : Elements(n) \subseteq T => n \in T
  <2> SUFFICES ASSUME NEW n \in YamlNodes, Elements(n) \subseteq T
               PROVE  FlattenScalarSequence[n] \in Seq(Text)
    OBVIOUS
  <2>1. FlattenScalarSequence[n] = FlattenStep(FlattenScalarSequence, n)
    BY FlattenRecursion
  <2>2. CASE n.type = "sequence"
    <3> DEFINE s == [i \in DOMAIN n.items |-> FlattenScalarSequence[n.items[i]]]
    <3>1. n.items \in Seq(YamlNodes)
      BY <2>2, NodeTypes
    <3>2. \A i \in DOMAIN n.items : FlattenScalarSequence[n.items[i]] \in Seq(Text)
      BY <2>2 DEF Elements, S!Range
    <3>3. s \in Seq(Seq(Text))
      <4>1. DOMAIN n.items = 1 .. Len(n.items) /\ Len(n.items) \in Nat
        BY <3>1
      <4> QED
        BY <3>2, <4>1
    <3> HIDE DEF s
    <3>4. S!FlattenSeq(s) \in Seq(Text)
      BY <3>3, FlattenSeqType
    <3> QED
      BY <2>1, <2>2, <3>4 DEF FlattenStep, s
  <2>3. CASE n.type = "scalar"
    <3>1. n.text \in Text
      BY <2>3, NodeTypes
    <3>2. <<n.text>> \in Seq(Text)
      BY <3>1
    <3> QED
      BY <2>1, <2>3, <3>2 DEF FlattenStep
  <2>4. CASE n.type = "other"
    BY <2>1, <2>4 DEF FlattenStep
  <2> QED
    BY <2>2, <2>3, <2>4, NodeTypes
<1> HIDE DEF T
<1>2. YamlNodes \subseteq T
  BY <1>1, NodeInduction
<1> QED
  BY <1>2 DEF T

(* What is written plainly is flattened to what is written.                *)
LEMMA FlattenPlain ==
  ASSUME NEW n \in YamlNodes
  PROVE  /\ n.type = "scalar" => FlattenScalarSequence[n] = <<n.text>>
         /\ n.type = "other" => FlattenScalarSequence[n] = << >>
         /\ n.type = "sequence" /\ (\A i \in DOMAIN n.items :
                                       n.items[i].type = "scalar")
            => FlattenScalarSequence[n] = [i \in DOMAIN n.items |-> n.items[i].text]
<1>1. FlattenScalarSequence[n] = FlattenStep(FlattenScalarSequence, n)
  BY FlattenRecursion
<1>2. ASSUME n.type = "sequence",
             \A i \in DOMAIN n.items : n.items[i].type = "scalar"
      PROVE  FlattenScalarSequence[n] = [i \in DOMAIN n.items |-> n.items[i].text]
  <2> DEFINE e == [i \in DOMAIN n.items |-> n.items[i].text]
  <2>1. n.items \in Seq(YamlNodes)
    BY <1>2, NodeTypes
  <2>2. DOMAIN n.items = 1 .. Len(n.items) /\ Len(n.items) \in Nat
    BY <2>1
  <2>3. \A i \in DOMAIN n.items :
          /\ n.items[i] \in YamlNodes /\ n.items[i].text \in Text
          /\ FlattenScalarSequence[n.items[i]] = <<n.items[i].text>>
    <3> TAKE i \in DOMAIN n.items
    <3>1. n.items[i] \in YamlNodes
      BY <2>1, <2>2
    <3>2. FlattenScalarSequence[n.items[i]]
            = FlattenStep(FlattenScalarSequence, n.items[i])
      BY <3>1, FlattenRecursion
    <3> QED
      BY <1>2, <3>1, <3>2, NodeTypes DEF FlattenStep
  <2>4. e \in Seq(Text)
    BY <2>2, <2>3
  <2>5. [i \in DOMAIN n.items |-> FlattenScalarSequence[n.items[i]]]
          = [i \in DOMAIN e |-> <<e[i]>>]
    BY <2>3
  <2> HIDE DEF e
  <2>6. S!FlattenSeq([i \in DOMAIN e |-> <<e[i]>>]) = e
    BY <2>4, FlattenSingletons
  <2> QED
    BY <1>1, <1>2, <2>5, <2>6 DEF FlattenStep, e
<1> QED
  BY <1>1, <1>2 DEF FlattenStep

-----------------------------------------------------------------------------
(* The scalars in a node. *)

IsClosed(C) == \A m \in C : m.type = "sequence" => S!Range(m.items) \subseteq C

LEMMA ScalarsInDef ==
  ASSUME NEW n \in YamlNodes
  PROVE  \A s : s \in ScalarsIn[n] <=>
           /\ s \in YamlNodes /\ s.type = "scalar"
           /\ \A C \in SUBSET YamlNodes : n \in C /\ IsClosed(C) => s \in C
  BY DEF ScalarsIn, IsClosed

LEMMA ScalarsInLeaf ==
  ASSUME NEW n \in YamlNodes, n.type # "sequence"
  PROVE  ScalarsIn[n] = IF n.type = "scalar" THEN {n} ELSE {}
<1>1. {n} \in SUBSET YamlNodes /\ IsClosed({n})
  BY DEF IsClosed
<1>2. \A s \in ScalarsIn[n] : s = n /\ n.type = "scalar"
  BY <1>1, ScalarsInDef
<1>3. n.type = "scalar" => n \in ScalarsIn[n]
  BY ScalarsInDef
<1> QED
  BY <1>2, <1>3

LEMMA ScalarsInSequence ==
  ASSUME NEW n \in YamlNodes, n.type = "sequence"
  PROVE  ScalarsIn[n] = UNION {ScalarsIn[m] : m \in Elements(n)}
<1>1. ASSUME NEW m \in Elements(n), NEW s \in ScalarsIn[m]
      PROVE  s \in ScalarsIn[n]
  <2>1. m \in YamlNodes
    BY ElementsAreNodes
  <2>2. \A C \in SUBSET YamlNodes : n \in C /\ IsClosed(C) => m \in C
    BY DEF IsClosed, Elements
  <2> QED
    BY <1>1, <2>1, <2>2, ScalarsInDef
<1>2. ASSUME NEW s \in ScalarsIn[n], \A m \in Elements(n) : s \notin ScalarsIn[m]
      PROVE  FALSE
  <2> DEFINE Without == {C \in SUBSET YamlNodes : IsClosed(C) /\ s \notin C}
             D == {n} \cup UNION Without
  <2>1. s \in YamlNodes /\ s.type = "scalar" /\ s # n
    BY <1>2, ScalarsInDef
  <2>2. \A m \in Elements(n) : m \in UNION Without
    <3> TAKE m \in Elements(n)
    <3>1. m \in YamlNodes /\ s \notin ScalarsIn[m]
      BY <1>2, ElementsAreNodes
    <3>2. PICK C \in SUBSET YamlNodes : m \in C /\ IsClosed(C) /\ s \notin C
      BY <2>1, <3>1, ScalarsInDef
    <3> QED
      BY <3>2
  <2>3. IsClosed(UNION Without)
    <3> SUFFICES ASSUME NEW m \in UNION Without, m.type = "sequence"
                 PROVE  S!Range(m.items) \subseteq UNION Without
      BY DEF IsClosed
    <3>1. PICK C \in Without : m \in C
      OBVIOUS
    <3>2. S!Range(m.items) \subseteq C
      BY <3>1 DEF IsClosed
    <3> QED
      BY <3>2
  <2>4. D \in SUBSET YamlNodes /\ n \in D
    OBVIOUS
  <2>5. IsClosed(D)
    <3> HIDE DEF Without
    <3> QED
      BY <2>2, <2>3 DEF IsClosed, Elements
  <2>6. s \in D
    BY <1>2, <2>4, <2>5, ScalarsInDef
  <2> QED
    BY <2>1, <2>6
<1> QED
  BY <1>1, <1>2

ListedIn(texts) == UNION {S!Range(texts[i]) : i \in 1 .. Len(texts)}

(* What a list of filters lists, however deep it nests and with whatever   *)
(* is no scalar in between, is what comes out of its flattening, and       *)
(* nothing else (ats_pagespeed_configuration.cpp:41).                      *)
THEOREM FlattenLosesNothing ==
  \A n \in YamlNodes :
    ListedIn(FlattenScalarSequence[n]) =
      UNION {S!Range(s.text) : s \in ScalarsIn[n]}
<1> DEFINE In(n) == UNION {S!Range(s.text) : s \in ScalarsIn[n]}
           T == {n \in YamlNodes : ListedIn(FlattenScalarSequence[n]) = In(n)}
<1>1. \A n \in YamlNodes : Elements(n) \subseteq T => n \in T
  <2> SUFFICES ASSUME NEW n \in YamlNodes, Elements(n) \subseteq T
               PROVE  ListedIn(FlattenScalarSequence[n]) = In(n)
    OBVIOUS
  <2>1. CASE n.type = "scalar"
    <3>1. FlattenScalarSequence[n] = <<n.text>> /\ ScalarsIn[n] = {n}
      BY <2>1, FlattenPlain, ScalarsInLeaf
    <3>2. Len(<<n.text>>) = 1 /\ 1 .. 1 = {1} /\ <<n.text>>[1] = n.text
      OBVIOUS
    <3>3. ListedIn(<<n.text>>) = S!Range(n.text)
      BY <3>2 DEF ListedIn
    <3> QED
      BY <3>1, <3>3
  <2>2. CASE n.type = "other"
    <3>1. FlattenScalarSequence[n] = << >> /\ ScalarsIn[n] = {}
      BY <2>2, FlattenPlain, ScalarsInLeaf
    <3>2. ListedIn(<< >>) = {}
      BY DEF ListedIn
    <3> QED
      BY <3>1, <3>2
  <2>3. CASE n.type = "sequence"
    <3> DEFINE s == [i \in DOMAIN n.items |-> FlattenScalarSequence[n.items[i]]]
    <3>1. /\ n.items \in Seq(YamlNodes) /\ Len(n.items) \in Nat
          /\ DOMAIN n.items = 1 .. Len(n.items)
      BY <2>3, NodeTypes
    <3>2. \A i \in 1 .. Len(n.items) :
            s[i] \in Seq(Text) /\ ListedIn(s[i]) = In(n.items[i])
      <4> TAKE i \in 1 .. Len(n.items)
      <4>1. n.items[i] \in Elements(n) /\ n.items[i] \in YamlNodes
        BY <2>3, <3>1 DEF Elements, S!Range
      <4> HIDE DEF In
      <4> QED
        BY <3>1, <4>1, FlattenType
    <3>3. s \in Seq(Seq(Text)) /\ Len(s) = Len(n.items)
      <4>1. s \in [1 .. Len(n.items) -> Seq(Text)]
        <5> HIDE DEF s
        <5>1. DOMAIN s = 1 .. Len(n.items) /\ s = [i \in DOMAIN s |-> s[i]]
          BY <3>1 DEF s
        <5> QED
          BY <3>2, <5>1
      <4> HIDE DEF s, In
      <4>2. \A N \in Nat : \A X : \A f \in [1 .. N -> X] :
              f \in Seq(X) /\ Len(f) = N
        OBVIOUS
      <4> QED
        BY <3>1, <4>1, <4>2
    <3>4. FlattenScalarSequence[n] = S!FlattenSeq(s)
      BY <2>3, FlattenRecursion DEF FlattenStep
    <3> HIDE DEF s
    <3>5. ListedIn(S!FlattenSeq(s))
            = UNION {ListedIn(s[i]) : i \in 1 .. Len(s)}
      <4>1. S!Range(S!FlattenSeq(s)) = UNION {S!Range(s[i]) : i \in 1 .. Len(s)}
        BY <3>3, FlattenSeqRange
      <4>2. \A t \in Seq(Text) : ListedIn(t) = UNION {S!Range(x) : x \in S!Range(t)}
        BY DEF ListedIn, S!Range
      <4>3. S!FlattenSeq(s) \in Seq(Text) /\ \A i \in 1 .. Len(s) : s[i] \in Seq(Text)
        BY <3>2, <3>3, FlattenSeqType
      <4>4. ListedIn(S!FlattenSeq(s))
              = UNION {S!Range(x) : x \in UNION {S!Range(s[i]) : i \in 1 .. Len(s)}}
        BY <4>1, <4>2, <4>3
      <4>5. \A i \in 1 .. Len(s) : ListedIn(s[i]) = UNION {S!Range(x) : x \in S!Range(s[i])}
        BY <4>2, <4>3
      <4> QED
        BY <4>4, <4>5
    <3>6. In(n) = UNION {In(m) : m \in Elements(n)}
      <4>1. ScalarsIn[n] = UNION {ScalarsIn[m] : m \in Elements(n)}
        BY <2>3, ScalarsInSequence
      <4> QED
        BY <4>1
    <3>7. Elements(n) = {n.items[i] : i \in 1 .. Len(n.items)}
      BY <2>3, <3>1 DEF Elements, S!Range
    <3> HIDE DEF In
    <3> QED
      BY <3>2, <3>3, <3>4, <3>5, <3>6, <3>7
  <2> QED
    BY <2>1, <2>2, <2>3, NodeTypes
<1> HIDE DEF T
<1>2. YamlNodes \subseteq T
  BY <1>1, NodeInduction
<1> QED
  BY <1>2 DEF T

-----------------------------------------------------------------------------
(* SetOptionsFromOptionsMap *)

(* One turn of its loop. *)
Turn(s, given, map, n) ==
  IF Names[n] \notin DOMAIN map THEN s
  ELSE SetOption(s, given, Names[n], Values(Names[n], map[Names[n]]))

Turned(f, settings, given, map, N) ==
  [n \in 0 .. N |-> IF n = 0 THEN settings ELSE Turn(f[n - 1], given, map, n)]

LEMMA TurnedExists ==
  ASSUME NEW settings, NEW given, NEW map, NEW N \in Nat
  PROVE  \E f : f = Turned(f, settings, given, map, N)
<1> DEFINE T == {k \in Nat : \E f : f = Turned(f, settings, given, map, k)}
<1>1. 0 \in T
  <2> DEFINE f == [i \in 0 .. 0 |-> settings]
  <2>1. f = Turned(f, settings, given, map, 0)
    BY DEF Turned
  <2> QED
    BY <2>1
<1>2. \A k \in Nat : k \in T => k + 1 \in T
  <2> TAKE k \in Nat
  <2> HAVE k \in T
  <2>1. PICK f : f = Turned(f, settings, given, map, k)
    OBVIOUS
  <2> DEFINE Value(h, i) ==
               IF i = 0 THEN settings ELSE Turn(h[i - 1], given, map, i)
             g == [i \in 0 .. k + 1 |-> Value(f, i)]
  <2>2. \A i \in 0 .. k : f[i] = Value(f, i)
    <3> TAKE i \in 0 .. k
    <3>1. Turned(f, settings, given, map, k)[i] = Value(f, i)
      BY DEF Turned
    <3> QED
      BY <2>1, <3>1, Zenon
  <2>3. \A i \in 0 .. k : g[i] = f[i]
    <3> HIDE DEF Value
    <3> QED
      BY <2>2
  <2>4. \A i \in 0 .. k + 1 : g[i] = Value(g, i)
    <3> TAKE i \in 0 .. k + 1
    <3>1. g[i] = Value(f, i)
      OBVIOUS
    <3>2. i # 0 => g[i - 1] = f[i - 1]
      <4>1. i # 0 => i - 1 \in 0 .. k
        OBVIOUS
      <4> HIDE DEF g
      <4> QED
        BY <2>3, <4>1
    <3> HIDE DEF g
    <3> QED
      BY <3>1, <3>2
  <2>5. g = [i \in 0 .. k + 1 |-> g[i]]
    OBVIOUS
  <2> HIDE DEF g
  <2>6. g = Turned(g, settings, given, map, k + 1)
    BY <2>4, <2>5 DEF Turned
  <2> QED
    BY <2>6
<1> HIDE DEF T
<1>3. N \in T
  BY <1>1, <1>2, SetInduction
<1> QED
  BY <1>3 DEF T

LEMMA NamesAre ==
  /\ Len(Names) = 7
  /\ Names[1] = "CustomFetchHeader" /\ Names[2] = "DefaultThreadPoolSize"
  /\ Names[3] = "DisableFilters" /\ Names[4] = "EnableFilters"
  /\ Names[5] = "FileCachePath" /\ Names[6] = "UrlValuedAttribute"
  /\ Names[7] = "UseNativeFetcher"
  BY DEF Names

(* The settings after each turn, the last of which are those returned.     *)
LEMMA Turns ==
  ASSUME NEW settings, NEW given, NEW map
  PROVE  \E set :
           /\ set[0] = settings
           /\ \A n \in 1 .. 7 : set[n] = Turn(set[n - 1], given, map, n)
           /\ SetOptionsFromOptionsMap(settings, given, map) = set[7]
<1> DEFINE set == CHOOSE f : f = Turned(f, settings, given, map, Len(Names))
<1>1. set = Turned(set, settings, given, map, Len(Names))
  <2>1. Len(Names) \in Nat
    BY NamesAre
  <2> QED
    BY <2>1, TurnedExists, Zenon
<1>2. SetOptionsFromOptionsMap(settings, given, map) = set[7]
  <2>1. SetOptionsFromOptionsMap(settings, given, map) = set[Len(Names)]
    BY Zenon DEF SetOptionsFromOptionsMap, Turned, Turn
  <2> QED
    BY <2>1, NamesAre, Zenon
<1> HIDE DEF set
<1>3. \A n \in 0 .. 7 :
        set[n] = IF n = 0 THEN settings ELSE Turn(set[n - 1], given, map, n)
  <2> TAKE n \in 0 .. 7
  <2>1. Turned(set, settings, given, map, 7)[n]
          = IF n = 0 THEN settings ELSE Turn(set[n - 1], given, map, n)
    BY DEF Turned
  <2> QED
    BY <1>1, <2>1, NamesAre, Zenon
<1>4. set[0] = settings
  BY <1>3
<1>5. \A n \in 1 .. 7 : set[n] = Turn(set[n - 1], given, map, n)
  <2> TAKE n \in 1 .. 7
  <2>1. n \in 0 .. 7 /\ n # 0
    OBVIOUS
  <2> QED
    BY <1>3, <2>1
<1> QED
  BY <1>2, <1>4, <1>5

LEMMA TypesOfElements ==
  ASSUME NEW v \in Seq(Text)
  PROVE  /\ Len(v) \in Nat /\ DOMAIN v = 1 .. Len(v)
         /\ Len(v) = 0 => v = << >>
         /\ \A i \in 1 .. Len(v) : v[i] \in Text
  OBVIOUS

LEMMA OneText ==
  ASSUME NEW t
  PROVE  Len(<<t>>) = 1 /\ <<t>>[1] = t /\ <<t>> # << >>
  OBVIOUS

LEMMA ListedInOne ==
  ASSUME NEW v, Len(v) = 1
  PROVE  ListedIn(v) = S!Range(v[1])
<1>1. 1 .. Len(v) = {1}
  OBVIOUS
<1> QED
  BY <1>1 DEF ListedIn

(* Joining a list of filters with commas leaves one text, and loses none.  *)
LEMMA ValuesOfFilters ==
  ASSUME NEW name \in FilterLists, NEW v \in Seq(Text)
  PROVE  LET w == Values(name, v)
         IN  \/ Len(w) = 1 /\ w # << >> /\ S!Range(w[1]) = ListedIn(v)
             \/ w = << >> /\ ListedIn(v) = {}
<1>1. CASE Len(v) = 0
  <2>1. v = << >> /\ Values(name, v) = v
    BY <1>1, TypesOfElements DEF Values
  <2>2. ListedIn(<< >>) = {}
    BY DEF ListedIn
  <2> QED
    BY <2>1, <2>2
<1>2. CASE Len(v) = 1
  <2>1. Values(name, v) = v /\ v # << >>
    BY <1>2 DEF Values
  <2> QED
    BY <1>2, <2>1, ListedInOne
<1>3. CASE Len(v) > 1
  <2>1. v # << >>
    BY <1>3
  <2>2. Values(name, v) = <<S!FlattenSeq(v)>>
    BY <1>3, <2>1, Zenon DEF Values, JoinVector
  <2>3. S!Range(S!FlattenSeq(v)) = ListedIn(v)
    BY FlattenSeqRange DEF ListedIn, Text
  <2> QED
    BY <2>2, <2>3, OneText
<1>4. Len(v) = 0 \/ Len(v) = 1 \/ Len(v) > 1
  <2>1. \A n \in Nat : n = 0 \/ n = 1 \/ n > 1
    OBVIOUS
  <2>2. Len(v) \in Nat
    OBVIOUS
  <2> QED
    BY <2>1, <2>2, Zenon
<1> QED
  BY <1>1, <1>2, <1>3, <1>4, Zenon

(* Settings that have the fields of PageSpeed's options and of the driver  *)
(* factory.                                                                *)
IsOptions(o) ==
  o = [FileCachePath |-> o.FileCachePath, EnableFilters |-> o.EnableFilters,
       DisableFilters |-> o.DisableFilters, tuples |-> o.tuples]

IsFactory(f) ==
  f = [DEFAULT_THREAD_POOL_SIZE |-> f.DEFAULT_THREAD_POOL_SIZE,
       use_native_fetcher |-> f.use_native_fetcher]

IsSettings(s) ==
  /\ s = [options |-> s.options, factory |-> s.factory]
  /\ IsOptions(s.options) /\ IsFactory(s.factory)

LEMMA NumValuesAre ==
  /\ NumValues("CustomFetchHeader") = 2 /\ NumValues("UrlValuedAttribute") = 3
  /\ NumValues("EnableFilters") = 1 /\ NumValues("DisableFilters") = 1
  /\ NumValues("FileCachePath") = 1
  /\ NumValues("UseNativeFetcher") = 0 /\ NumValues("DefaultThreadPoolSize") = 0
  /\ \A m : NumValues(m) > 1 <=> m \in {"CustomFetchHeader", "UrlValuedAttribute"}
<1>1. /\ NumValues("CustomFetchHeader") = 2 /\ NumValues("UrlValuedAttribute") = 3
      /\ NumValues("EnableFilters") = 1 /\ NumValues("DisableFilters") = 1
      /\ NumValues("FileCachePath") = 1
      /\ NumValues("UseNativeFetcher") = 0 /\ NumValues("DefaultThreadPoolSize") = 0
  BY DEF NumValues, FilterLists
<1>2. ASSUME NEW m, m \notin {"EnableFilters", "DisableFilters", "FileCachePath",
                              "CustomFetchHeader", "UrlValuedAttribute"}
      PROVE  NumValues(m) = 0
  BY <1>2 DEF NumValues, FilterLists
<1> QED
  BY <1>1, <1>2

WithOptions(s, o) == [s EXCEPT !.options = o]
AddFilters(o, name, filters) == [o EXCEPT ![name] = @ \cup filters]
AddTuples(o, tuples) == [o EXCEPT !.tuples = @ \cup tuples]

(* What one option does: a list of filters adds them, FileCachePath and    *)
(* the options of several values take as many values as they have, and     *)
(* what is for the driver factory does nothing to PageSpeed's options.     *)
LEMMA OneListSet ==
  ASSUME NEW s, IsSettings(s), NEW given \in BOOLEAN,
         NEW name \in FilterLists, NEW v \in Seq(Text)
  PROVE  SetOption(s, given, name, Values(name, v))
           = WithOptions(s, AddFilters(s.options, name, ListedIn(v)))
<1> DEFINE w == Values(name, v)
<1>1. NumValues(name) = 1 /\ name \notin {"UseNativeFetcher", "DefaultThreadPoolSize"}
  BY NumValuesAre DEF FilterLists
<1>2. SetOption(s, given, name, w)
        = [s EXCEPT !.options = ParseAndSetOption(@, name, w)]
  BY <1>1 DEF SetOption
<1>3. ParseAndSetOption(s.options, name, w)
        = [s.options EXCEPT ![name] = @ \cup ListedIn(v)]
  <2>1. CASE Len(w) = 1 /\ w # << >> /\ S!Range(w[1]) = ListedIn(v)
    BY <1>1, <2>1 DEF ParseAndSetOption
  <2>2. CASE w = << >> /\ ListedIn(v) = {}
    <3>1. ParseAndSetOption(s.options, name, w) = s.options
      BY <2>2 DEF ParseAndSetOption
    <3>2. [s.options EXCEPT ![name] = @ \cup {}] = s.options
      BY DEF IsSettings, IsOptions, FilterLists
    <3> QED
      BY <2>2, <3>1, <3>2
  <2> QED
    BY <2>1, <2>2, ValuesOfFilters
<1> QED
  BY <1>2, <1>3 DEF WithOptions, AddFilters

LEMMA OneValueSet ==
  ASSUME NEW s, IsSettings(s), NEW given \in BOOLEAN, NEW v \in Seq(Text)
  PROVE  SetOption(s, given, "FileCachePath", Values("FileCachePath", v))
           = IF Len(v) = 1
             THEN [s EXCEPT !.options = [s.options EXCEPT !.FileCachePath = v[1]]]
             ELSE s
<1>1. Values("FileCachePath", v) = v
  BY DEF Values, FilterLists
<1>2. SetOption(s, given, "FileCachePath", v)
        = [s EXCEPT !.options = ParseAndSetOption(@, "FileCachePath", v)]
  BY DEF SetOption
<1>3. [s EXCEPT !.options = s.options] = s
  BY DEF IsSettings
<1>4. ParseAndSetOption(s.options, "FileCachePath", v)
        = IF Len(v) = 1 THEN [s.options EXCEPT !.FileCachePath = v[1]]
          ELSE s.options
  <2>1. Len(v) = 1 => v # << >>
    OBVIOUS
  <2>2. NumValues("FileCachePath") = 1 /\ "FileCachePath" \notin FilterLists
    BY NumValuesAre DEF FilterLists
  <2>3. CASE Len(v) = 1
    BY <2>1, <2>2, <2>3, Zenon DEF ParseAndSetOption
  <2>4. CASE Len(v) # 1
    BY <2>2, <2>4, Zenon DEF ParseAndSetOption
  <2> QED
    BY <2>3, <2>4
<1> QED
  BY <1>1, <1>2, <1>3, <1>4

LEMMA OneTupleSet ==
  ASSUME NEW s, IsSettings(s), NEW given \in BOOLEAN, NEW v \in Seq(Text),
         NEW name \in {"CustomFetchHeader", "UrlValuedAttribute"}
  PROVE  SetOption(s, given, name, Values(name, v))
           = IF Len(v) = NumValues(name)
             THEN WithOptions(s, AddTuples(s.options, {[name |-> name, values |-> v]}))
             ELSE s
<1>1. Values(name, v) = v
  BY DEF Values, FilterLists
<1>2. SetOption(s, given, name, v)
        = [s EXCEPT !.options = ParseAndSetOption(@, name, v)]
  BY DEF SetOption
<1>3. [s EXCEPT !.options = s.options] = s
  BY DEF IsSettings
<1>4. ParseAndSetOption(s.options, name, v)
        = IF Len(v) = NumValues(name)
          THEN AddTuples(s.options, {[name |-> name, values |-> v]})
          ELSE s.options
  BY NumValuesAre DEF ParseAndSetOption, FilterLists, AddTuples
<1> QED
  BY <1>1, <1>2, <1>3, <1>4 DEF WithOptions

LEMMA OneFactorySettingSet ==
  ASSUME NEW s, IsSettings(s), NEW given \in BOOLEAN, NEW v \in Seq(Text),
         NEW name \in {"UseNativeFetcher", "DefaultThreadPoolSize"}
  PROVE  SetOption(s, given, name, Values(name, v))
           = IF given /\ Len(v) = 1
             THEN [s EXCEPT !.factory =
                     IF name = "UseNativeFetcher"
                     THEN SetNativeFetcher(s.factory, v[1])
                     ELSE SetThreadPoolSize(s.factory, v[1])]
             ELSE s
<1>1. Values(name, v) = v
  BY DEF Values, FilterLists
<1>2. CASE given /\ Len(v) = 1
  BY <1>1, <1>2 DEF SetOption
<1>3. CASE ~(given /\ Len(v) = 1)
  <2>1. SetOption(s, given, name, v)
          = [s EXCEPT !.options = ParseAndSetOption(@, name, v)]
    BY <1>3 DEF SetOption
  <2>2. ParseAndSetOption(s.options, name, v) = s.options
    BY NumValuesAre DEF ParseAndSetOption
  <2>3. [s EXCEPT !.options = s.options] = s
    BY DEF IsSettings
  <2> QED
    BY <1>1, <1>3, <2>1, <2>2, <2>3
<1> QED
  BY <1>2, <1>3

(* What a map of options says: the filters it lists under a name, the      *)
(* texts of an option of one value, those of several.                      *)
IsOptionsMap(map) == \A name \in DOMAIN map : map[name] \in Seq(Text)

ListedFor(map, name) ==
  IF name \in DOMAIN map THEN ListedIn(map[name]) ELSE {}

HasOne(map, name) == name \in DOMAIN map /\ Len(map[name]) = 1

TupleFor(map, name) ==
  IF name \in DOMAIN map /\ Len(map[name]) = NumValues(name)
  THEN {[name |-> name, values |-> map[name]]} ELSE {}

LEMMA TurnOfList ==
  ASSUME NEW s, IsSettings(s), NEW given \in BOOLEAN, NEW map, IsOptionsMap(map),
         NEW n \in {3, 4}
  PROVE  Turn(s, given, map, n)
           = WithOptions(s, AddFilters(s.options, Names[n],
                                       ListedFor(map, Names[n])))
<1>1. Names[n] \in FilterLists
  BY NamesAre DEF FilterLists
<1>2. CASE Names[n] \in DOMAIN map
  <2>1. map[Names[n]] \in Seq(Text)
    BY <1>2 DEF IsOptionsMap
  <2>2. Turn(s, given, map, n)
          = SetOption(s, given, Names[n], Values(Names[n], map[Names[n]]))
    BY <1>2 DEF Turn
  <2>3. ListedFor(map, Names[n]) = ListedIn(map[Names[n]])
    BY <1>2 DEF ListedFor
  <2>4. SetOption(s, given, Names[n], Values(Names[n], map[Names[n]]))
          = WithOptions(s, AddFilters(s.options, Names[n],
                                      ListedIn(map[Names[n]])))
    BY <1>1, <2>1, OneListSet
  <2> QED
    BY <2>2, <2>3, <2>4
<1>3. CASE Names[n] \notin DOMAIN map
  <2>1. AddFilters(s.options, Names[n], {}) = s.options
    BY <1>1 DEF IsSettings, IsOptions, AddFilters
  <2>2. WithOptions(s, s.options) = s
    BY DEF IsSettings, WithOptions
  <2> QED
    BY <1>3, <2>1, <2>2 DEF Turn, ListedFor
<1> QED
  BY <1>2, <1>3

LEMMA TurnOfTuple ==
  ASSUME NEW s, IsSettings(s), NEW given \in BOOLEAN, NEW map, IsOptionsMap(map),
         NEW n \in {1, 6}
  PROVE  Turn(s, given, map, n)
           = WithOptions(s, AddTuples(s.options, TupleFor(map, Names[n])))
<1>1. Names[n] \in {"CustomFetchHeader", "UrlValuedAttribute"}
  BY NamesAre
<1>2. CASE Names[n] \in DOMAIN map /\ Len(map[Names[n]]) = NumValues(Names[n])
  <2>1. map[Names[n]] \in Seq(Text)
    BY <1>2 DEF IsOptionsMap
  <2>2. Turn(s, given, map, n)
          = SetOption(s, given, Names[n], Values(Names[n], map[Names[n]]))
    BY <1>2 DEF Turn
  <2>3. TupleFor(map, Names[n]) = {[name |-> Names[n], values |-> map[Names[n]]]}
    BY <1>2 DEF TupleFor
  <2>4. SetOption(s, given, Names[n], Values(Names[n], map[Names[n]]))
          = IF Len(map[Names[n]]) = NumValues(Names[n])
            THEN WithOptions(s, AddTuples(s.options,
                   {[name |-> Names[n], values |-> map[Names[n]]]}))
            ELSE s
    BY <1>1, <2>1, OneTupleSet
  <2> QED
    BY <1>2, <2>2, <2>3, <2>4
<1>3. CASE ~(Names[n] \in DOMAIN map /\ Len(map[Names[n]]) = NumValues(Names[n]))
  <2>1. AddTuples(s.options, {}) = s.options
    BY DEF IsSettings, IsOptions, AddTuples
  <2>2. WithOptions(s, s.options) = s
    BY DEF IsSettings, WithOptions
  <2>3. Turn(s, given, map, n) = s
    BY <1>1, <1>3, OneTupleSet DEF Turn, IsOptionsMap
  <2>4. TupleFor(map, Names[n]) = {}
    BY <1>3 DEF TupleFor
  <2> QED
    BY <2>1, <2>2, <2>3, <2>4
<1> QED
  BY <1>2, <1>3

LEMMA TurnOfPath ==
  ASSUME NEW s, IsSettings(s), NEW given \in BOOLEAN, NEW map, IsOptionsMap(map)
  PROVE  Turn(s, given, map, 5)
           = IF HasOne(map, "FileCachePath")
             THEN [s EXCEPT !.options = [s.options EXCEPT !.FileCachePath =
                                           map["FileCachePath"][1]]]
             ELSE s
<1>1. Names[5] = "FileCachePath"
  BY NamesAre
<1>2. CASE "FileCachePath" \in DOMAIN map
  BY <1>1, <1>2, OneValueSet DEF Turn, HasOne, IsOptionsMap
<1>3. CASE "FileCachePath" \notin DOMAIN map
  BY <1>1, <1>3 DEF Turn, HasOne
<1> QED
  BY <1>2, <1>3

LEMMA TurnOfFactory ==
  ASSUME NEW s, IsSettings(s), NEW given \in BOOLEAN, NEW map, IsOptionsMap(map),
         NEW n \in {2, 7}
  PROVE  Turn(s, given, map, n)
           = IF given /\ HasOne(map, Names[n])
             THEN [s EXCEPT !.factory =
                     IF n = 7 THEN SetNativeFetcher(s.factory, map[Names[n]][1])
                     ELSE SetThreadPoolSize(s.factory, map[Names[n]][1])]
             ELSE s
<1>1. /\ Names[n] \in {"UseNativeFetcher", "DefaultThreadPoolSize"}
      /\ Names[n] = "UseNativeFetcher" <=> n = 7
  BY NamesAre
<1>2. CASE Names[n] \in DOMAIN map
  BY <1>1, <1>2, OneFactorySettingSet DEF Turn, HasOne, IsOptionsMap
<1>3. CASE Names[n] \notin DOMAIN map
  BY <1>3 DEF Turn, HasOne
<1> QED
  BY <1>2, <1>3

LEMMA FactorySettings ==
  ASSUME NEW f, IsFactory(f), NEW text
  PROVE  LET g == SetNativeFetcher(f, text)
             h == SetThreadPoolSize(f, text)
         IN  /\ IsFactory(g) /\ IsFactory(h)
             /\ g.DEFAULT_THREAD_POOL_SIZE = f.DEFAULT_THREAD_POOL_SIZE
             /\ g.use_native_fetcher =
                  IF text = <<"on">> THEN TRUE
                  ELSE IF text = <<"off">> THEN FALSE ELSE f.use_native_fetcher
             /\ h.use_native_fetcher = f.use_native_fetcher
             /\ h.DEFAULT_THREAD_POOL_SIZE =
                  IF Number[text[1]] > 0 THEN ToInt(Number[text[1]])
                  ELSE f.DEFAULT_THREAD_POOL_SIZE
<1>1. \A b : LET g == [f EXCEPT !.use_native_fetcher = b]
             IN  /\ IsFactory(g) /\ g.use_native_fetcher = b
                 /\ g.DEFAULT_THREAD_POOL_SIZE = f.DEFAULT_THREAD_POOL_SIZE
  BY DEF IsFactory
<1>2. \A k : LET h == [f EXCEPT !.DEFAULT_THREAD_POOL_SIZE = k]
             IN  /\ IsFactory(h) /\ h.DEFAULT_THREAD_POOL_SIZE = k
                 /\ h.use_native_fetcher = f.use_native_fetcher
  BY DEF IsFactory
<1>3. SetNativeFetcher(f, text)
        = IF text = <<"on">> THEN [f EXCEPT !.use_native_fetcher = TRUE]
          ELSE IF text = <<"off">> THEN [f EXCEPT !.use_native_fetcher = FALSE]
          ELSE f
  <2>1. <<"on">> # <<"off">>
    OBVIOUS
  <2> QED
    BY <2>1 DEF SetNativeFetcher
<1>4. SetThreadPoolSize(f, text)
        = IF Number[text[1]] > 0
          THEN [f EXCEPT !.DEFAULT_THREAD_POOL_SIZE = ToInt(Number[text[1]])]
          ELSE f
  BY DEF SetThreadPoolSize
<1>5. <<"on">> # <<"off">>
  OBVIOUS
<1> QED
  BY <1>1, <1>2, <1>3, <1>4, <1>5

(* What turn n does to each field of the settings p, which become q.       *)
FactorySet(p, q, n, given, map) ==
  q.factory =
    IF n = 2 /\ given /\ HasOne(map, "DefaultThreadPoolSize")
    THEN SetThreadPoolSize(p.factory, map["DefaultThreadPoolSize"][1])
    ELSE IF n = 7 /\ given /\ HasOne(map, "UseNativeFetcher")
    THEN SetNativeFetcher(p.factory, map["UseNativeFetcher"][1])
    ELSE p.factory

OptionsSet(p, q, n, map) ==
  /\ q.options.EnableFilters = p.options.EnableFilters \cup
       (IF n = 4 THEN ListedFor(map, "EnableFilters") ELSE {})
  /\ q.options.DisableFilters = p.options.DisableFilters \cup
       (IF n = 3 THEN ListedFor(map, "DisableFilters") ELSE {})
  /\ q.options.tuples = p.options.tuples \cup
       (IF n \in {1, 6} THEN TupleFor(map, Names[n]) ELSE {})
  /\ q.options.FileCachePath =
       IF n = 5 /\ HasOne(map, "FileCachePath")
       THEN map["FileCachePath"][1] ELSE p.options.FileCachePath

LEMMA TurnFields ==
  ASSUME NEW s, IsSettings(s), NEW given \in BOOLEAN, NEW map, IsOptionsMap(map),
         NEW n \in 1 .. 7
  PROVE  LET t == Turn(s, given, map, n)
         IN  /\ IsSettings(t)
             /\ OptionsSet(s, t, n, map)
             /\ FactorySet(s, t, n, given, map)
<1> DEFINE t == Turn(s, given, map, n)
<1> USE DEF OptionsSet, FactorySet
<1>1. CASE n \in {3, 4}
  <2>1. t = WithOptions(s, AddFilters(s.options, Names[n], ListedFor(map, Names[n])))
    BY <1>1, TurnOfList
  <2>2. CASE n = 3
    <3>1. t = WithOptions(s, AddFilters(s.options, "DisableFilters",
                                        ListedFor(map, "DisableFilters")))
      BY <2>1, <2>2, NamesAre
    <3>2. t.factory = s.factory /\ IsSettings(t)
      BY <3>1 DEF WithOptions, AddFilters, IsSettings, IsOptions
    <3>3. /\ t.options.EnableFilters = s.options.EnableFilters
          /\ t.options.DisableFilters
               = s.options.DisableFilters \cup ListedFor(map, "DisableFilters")
          /\ t.options.tuples = s.options.tuples
          /\ t.options.FileCachePath = s.options.FileCachePath
      BY <3>1 DEF WithOptions, AddFilters, IsSettings, IsOptions
    <3> QED
      BY <2>2, <3>2, <3>3
  <2>3. CASE n = 4
    <3>1. t = WithOptions(s, AddFilters(s.options, "EnableFilters",
                                        ListedFor(map, "EnableFilters")))
      BY <2>1, <2>3, NamesAre
    <3> QED
      BY <3>1, <2>3 DEF WithOptions, AddFilters, IsSettings, IsOptions
  <2> QED
    BY <1>1, <2>2, <2>3
<1>2. CASE n \in {1, 6}
  <2>1. t = WithOptions(s, AddTuples(s.options, TupleFor(map, Names[n])))
    BY <1>2, TurnOfTuple
  <2> QED
    BY <1>2, <2>1 DEF WithOptions, AddTuples, IsSettings, IsOptions
<1>3. CASE n = 5
  <2>1. t = IF HasOne(map, "FileCachePath")
            THEN [s EXCEPT !.options = [s.options EXCEPT !.FileCachePath =
                                          map["FileCachePath"][1]]]
            ELSE s
    BY <1>3, TurnOfPath
  <2> QED
    BY <1>3, <2>1 DEF IsSettings, IsOptions
<1>4. CASE n \in {2, 7}
  <2>1. t = IF given /\ HasOne(map, Names[n])
            THEN [s EXCEPT !.factory =
                    IF n = 7 THEN SetNativeFetcher(s.factory, map[Names[n]][1])
                    ELSE SetThreadPoolSize(s.factory, map[Names[n]][1])]
            ELSE s
    BY <1>4, TurnOfFactory
  <2>2. \A text : /\ IsFactory(SetNativeFetcher(s.factory, text))
                  /\ IsFactory(SetThreadPoolSize(s.factory, text))
    BY FactorySettings DEF IsSettings
  <2>3. Names[2] = "DefaultThreadPoolSize" /\ Names[7] = "UseNativeFetcher"
    BY NamesAre
  <2> QED
    BY <1>4, <2>1, <2>2, <2>3 DEF IsSettings
<1> QED
  BY <1>1, <1>2, <1>3, <1>4

(* What all turns do together to the settings s, which become t.           *)
OptionsApplied(s, map, t) ==
  /\ IsSettings(t)
  /\ t.options.EnableFilters =
       s.options.EnableFilters \cup ListedFor(map, "EnableFilters")
  /\ t.options.DisableFilters =
       s.options.DisableFilters \cup ListedFor(map, "DisableFilters")
  /\ t.options.tuples =
       s.options.tuples \cup TupleFor(map, "CustomFetchHeader")
                        \cup TupleFor(map, "UrlValuedAttribute")
  /\ t.options.FileCachePath =
       IF HasOne(map, "FileCachePath") THEN map["FileCachePath"][1]
       ELSE s.options.FileCachePath

FactoryApplied(f, map, g) ==
  /\ g.DEFAULT_THREAD_POOL_SIZE =
       LET size == map["DefaultThreadPoolSize"][1]
       IN  IF HasOne(map, "DefaultThreadPoolSize") /\ Number[size[1]] > 0
           THEN ToInt(Number[size[1]]) ELSE f.DEFAULT_THREAD_POOL_SIZE
  /\ g.use_native_fetcher =
       LET native == map["UseNativeFetcher"][1]
       IN  IF HasOne(map, "UseNativeFetcher") /\ native = <<"on">> THEN TRUE
           ELSE IF HasOne(map, "UseNativeFetcher") /\ native = <<"off">> THEN FALSE
           ELSE f.use_native_fetcher

LEMMA MapApplied ==
  ASSUME NEW s, IsSettings(s), NEW given \in BOOLEAN, NEW map, IsOptionsMap(map)
  PROVE  LET t == SetOptionsFromOptionsMap(s, given, map)
         IN  /\ OptionsApplied(s, map, t)
             /\ IF given THEN FactoryApplied(s.factory, map, t.factory)
                ELSE t.factory = s.factory
<1>1. PICK set :
        /\ set[0] = s
        /\ \A n \in 1 .. 7 : set[n] = Turn(set[n - 1], given, map, n)
        /\ SetOptionsFromOptionsMap(s, given, map) = set[7]
  BY Turns
<1>2. /\ set[1] = Turn(set[0], given, map, 1) /\ set[2] = Turn(set[1], given, map, 2)
      /\ set[3] = Turn(set[2], given, map, 3) /\ set[4] = Turn(set[3], given, map, 4)
      /\ set[5] = Turn(set[4], given, map, 5) /\ set[6] = Turn(set[5], given, map, 6)
      /\ set[7] = Turn(set[6], given, map, 7)
  <2>1. \A n \in 1 .. 7 : set[n] = Turn(set[n - 1], given, map, n)
    BY <1>1
  <2>2. /\ 1 - 1 = 0 /\ 2 - 1 = 1 /\ 3 - 1 = 2 /\ 4 - 1 = 3 /\ 5 - 1 = 4
        /\ 6 - 1 = 5 /\ 7 - 1 = 6
    OBVIOUS
  <2> QED
    BY <2>1, <2>2
<1> DEFINE Fields(p, q, n) ==
      IsSettings(q) /\ OptionsSet(p, q, n, map) /\ FactorySet(p, q, n, given, map)
<1>3. \A p : IsSettings(p) => \A n \in 1 .. 7 : Fields(p, Turn(p, given, map, n), n)
  BY TurnFields, Zenon
<1> HIDE DEF Fields
<1>4. /\ Fields(set[0], set[1], 1) /\ Fields(set[1], set[2], 2)
      /\ Fields(set[2], set[3], 3) /\ Fields(set[3], set[4], 4)
      /\ Fields(set[4], set[5], 5) /\ Fields(set[5], set[6], 6)
      /\ Fields(set[6], set[7], 7)
  <2>0. IsSettings(set[0])
    BY <1>1
  <2>1. Fields(set[0], set[1], 1) /\ IsSettings(set[1])
    BY <2>0, <1>2, <1>3 DEF Fields
  <2>2. Fields(set[1], set[2], 2) /\ IsSettings(set[2])
    BY <2>1, <1>2, <1>3 DEF Fields
  <2>3. Fields(set[2], set[3], 3) /\ IsSettings(set[3])
    BY <2>2, <1>2, <1>3 DEF Fields
  <2>4. Fields(set[3], set[4], 4) /\ IsSettings(set[4])
    BY <2>3, <1>2, <1>3 DEF Fields
  <2>5. Fields(set[4], set[5], 5) /\ IsSettings(set[5])
    BY <2>4, <1>2, <1>3 DEF Fields
  <2>6. Fields(set[5], set[6], 6) /\ IsSettings(set[6])
    BY <2>5, <1>2, <1>3 DEF Fields
  <2>7. Fields(set[6], set[7], 7)
    BY <2>6, <1>2, <1>3
  <2> QED
    BY <2>1, <2>2, <2>3, <2>4, <2>5, <2>6, <2>7
<1>5. IsSettings(set[7])
  BY <1>4 DEF Fields, OptionsSet
<1>6. /\ set[7].options.EnableFilters =
           s.options.EnableFilters \cup ListedFor(map, "EnableFilters")
      /\ set[7].options.DisableFilters =
           s.options.DisableFilters \cup ListedFor(map, "DisableFilters")
  BY <1>1, <1>4 DEF Fields, OptionsSet
<1>7. set[7].options.tuples =
        s.options.tuples \cup TupleFor(map, "CustomFetchHeader")
                         \cup TupleFor(map, "UrlValuedAttribute")
  BY <1>1, <1>4, NamesAre DEF Fields, OptionsSet
<1>8. set[7].options.FileCachePath =
        IF HasOne(map, "FileCachePath") THEN map["FileCachePath"][1]
        ELSE s.options.FileCachePath
  BY <1>1, <1>4 DEF Fields, OptionsSet
<1> DEFINE f == s.factory
           g == IF given /\ HasOne(map, "DefaultThreadPoolSize")
                THEN SetThreadPoolSize(f, map["DefaultThreadPoolSize"][1]) ELSE f
           h == IF given /\ HasOne(map, "UseNativeFetcher")
                THEN SetNativeFetcher(g, map["UseNativeFetcher"][1]) ELSE g
<1>9. set[7].factory = h
  <2>1. \A p, q : \A n \in {1, 3, 4, 5, 6} : Fields(p, q, n) => q.factory = p.factory
    BY DEF Fields, FactorySet
  <2>2. set[1].factory = f
    BY <1>1, <1>4, <2>1
  <2>3. set[2].factory = g
    <3>1. 2 = 2 /\ 2 # 7
      OBVIOUS
    <3>2. set[2].factory = IF given /\ HasOne(map, "DefaultThreadPoolSize")
                           THEN SetThreadPoolSize(set[1].factory,
                                                  map["DefaultThreadPoolSize"][1])
                           ELSE set[1].factory
      BY <1>4, <3>1, Zenon DEF Fields, FactorySet
    <3> QED
      BY <2>2, <3>2, Zenon
  <2>4. set[6].factory = set[2].factory
    BY <1>4, <2>1
  <2>5. set[7].factory = IF given /\ HasOne(map, "UseNativeFetcher")
                         THEN SetNativeFetcher(set[6].factory, map["UseNativeFetcher"][1])
                         ELSE set[6].factory
    <3>1. 7 # 2
      OBVIOUS
    <3> QED
      BY <1>4, <3>1, Zenon DEF Fields, FactorySet
  <2> HIDE DEF g
  <2> QED
    BY <2>3, <2>4, <2>5
<1>10. IsFactory(f) /\ IsFactory(g)
  BY FactorySettings DEF IsSettings
<1>11. /\ g.use_native_fetcher = f.use_native_fetcher
       /\ h.DEFAULT_THREAD_POOL_SIZE = g.DEFAULT_THREAD_POOL_SIZE
  BY <1>10, FactorySettings
<1>12. ~given => h = f
  OBVIOUS
<1>13. given => g.DEFAULT_THREAD_POOL_SIZE =
         LET size == map["DefaultThreadPoolSize"][1]
         IN  IF HasOne(map, "DefaultThreadPoolSize") /\ Number[size[1]] > 0
             THEN ToInt(Number[size[1]]) ELSE f.DEFAULT_THREAD_POOL_SIZE
  BY <1>10, FactorySettings
<1>14. given => h.use_native_fetcher =
         LET native == map["UseNativeFetcher"][1]
         IN  IF HasOne(map, "UseNativeFetcher") /\ native = <<"on">> THEN TRUE
             ELSE IF HasOne(map, "UseNativeFetcher") /\ native = <<"off">>
             THEN FALSE ELSE g.use_native_fetcher
  <2> HIDE DEF g
  <2>1. CASE HasOne(map, "UseNativeFetcher")
    <3> DEFINE native == map["UseNativeFetcher"][1]
    <3>1. SetNativeFetcher(g, native).use_native_fetcher =
            IF native = <<"on">> THEN TRUE
            ELSE IF native = <<"off">> THEN FALSE ELSE g.use_native_fetcher
      BY <1>10, FactorySettings
    <3>2. given => h = SetNativeFetcher(g, native)
      BY <2>1
    <3> QED
      BY <2>1, <3>1, <3>2, Zenon
  <2>2. CASE ~HasOne(map, "UseNativeFetcher")
    <3>1. h = g
      BY <2>2
    <3> QED
      BY <2>2, <3>1
  <2> QED
    BY <2>1, <2>2
<1> HIDE DEF f, g, h
<1>15. given => FactoryApplied(f, map, h)
  BY <1>11, <1>13, <1>14 DEF FactoryApplied
<1>16. OptionsApplied(s, map, set[7])
  BY <1>5, <1>6, <1>7, <1>8 DEF OptionsApplied
<1> QED
  BY <1>1, <1>9, <1>12, <1>15, <1>16, Zenon DEF f

-----------------------------------------------------------------------------
(* From what the file says to what is set. *)

LEMMA OptionsMapType ==
  ASSUME NEW node, node \in [DOMAIN node -> YamlNodes]
  PROVE  IsOptionsMap(ReadOptions(node))
  BY FlattenType DEF IsOptionsMap, ReadOptions

LEMMA ReadListed ==
  ASSUME NEW node, node \in [DOMAIN node -> YamlNodes], NEW name
  PROVE  ListedFor(ReadOptions(node), name) = Listed(node, name)
<1>1. CASE name \in DOMAIN node
  <2>1. node[name] \in YamlNodes
    BY <1>1
  <2>2. name \in DOMAIN ReadOptions(node)
        /\ ReadOptions(node)[name] = FlattenScalarSequence[node[name]]
    BY <1>1 DEF ReadOptions
  <2>3. ListedIn(FlattenScalarSequence[node[name]])
          = UNION {S!Range(s.text) : s \in ScalarsIn[node[name]]}
    BY <2>1, FlattenLosesNothing
  <2> QED
    BY <1>1, <2>2, <2>3 DEF ListedFor, Listed
<1>2. CASE name \notin DOMAIN node
  BY <1>2 DEF ListedFor, Listed, ReadOptions
<1> QED
  BY <1>1, <1>2

(* A value that is not written as a sequence is the one that is set.       *)
LEMMA ReadWritten ==
  ASSUME NEW node, node \in [DOMAIN node -> YamlNodes], NEW name,
         name \in DOMAIN node => node[name].type # "sequence"
  PROVE  /\ HasOne(ReadOptions(node), name) <=> Written(node, name) # << >>
         /\ HasOne(ReadOptions(node), name) =>
              ReadOptions(node)[name][1] = Written(node, name)
<1> DEFINE map == ReadOptions(node)
<1>1. CASE name \notin DOMAIN node
  BY <1>1 DEF HasOne, Written, ReadOptions
<1>2. CASE name \in DOMAIN node /\ node[name].type = "scalar"
  <2>1. node[name] \in YamlNodes /\ node[name].text # << >>
    BY <1>2, NodeTypes
  <2>2. name \in DOMAIN map /\ map[name] = <<node[name].text>>
    BY <1>2, <2>1, FlattenPlain DEF ReadOptions
  <2>3. HasOne(map, name) /\ map[name][1] = node[name].text
    BY <2>2, OneText DEF HasOne
  <2>4. Written(node, name) = node[name].text
    BY <1>2 DEF Written
  <2> QED
    BY <2>1, <2>3, <2>4
<1>3. CASE name \in DOMAIN node /\ node[name].type = "other"
  <2>1. node[name] \in YamlNodes
    BY <1>3
  <2>2. map[name] = << >>
    BY <1>3, <2>1, FlattenPlain DEF ReadOptions
  <2>3. ~HasOne(map, name)
    BY <2>2 DEF HasOne
  <2>4. Written(node, name) = << >>
    BY <1>3 DEF Written
  <2> QED
    BY <2>3, <2>4
<1>4. name \in DOMAIN node => node[name].type = "scalar" \/ node[name].type = "other"
  BY NodeTypes
<1> QED
  BY <1>1, <1>2, <1>3, <1>4

LEMMA PlainIsNoSequence ==
  ASSUME NEW node, IsPlain(node),
         NEW name \in {"FileCachePath", "UseNativeFetcher", "DefaultThreadPoolSize"}
  PROVE  name \in DOMAIN node => node[name].type # "sequence"
<1>1. ~(NumValues(name) > 1) /\ name \notin FilterLists
  BY NumValuesAre DEF FilterLists
<1> QED
  BY <1>1 DEF IsPlain

(* A plain option of several values is set if it has as many as it takes.  *)
LEMMA ReadTuple ==
  ASSUME NEW node, node \in [DOMAIN node -> YamlNodes], IsPlain(node),
         NEW name \in {"CustomFetchHeader", "UrlValuedAttribute"}
  PROVE  TupleFor(ReadOptions(node), name)
           = {tuple \in WrittenTuples(node) : tuple.name = name}
<1> DEFINE map == ReadOptions(node)
           texts == [i \in DOMAIN node[name].items |-> node[name].items[i].text]
           IsWritten(m) == /\ node[m].type = "sequence"
                           /\ NumValues(m) = Len(node[m].items)
                           /\ \A i \in DOMAIN node[m].items :
                                node[m].items[i].type = "scalar"
<1>0. /\ NumValues(name) > 1 /\ NumValues(name) \in {2, 3} /\ name \notin FilterLists
  BY NumValuesAre DEF FilterLists
<1>1. {tuple \in WrittenTuples(node) : tuple.name = name}
        = IF name \in DOMAIN node /\ IsWritten(name)
          THEN {[name |-> name, values |-> texts]} ELSE {}
  BY <1>0 DEF WrittenTuples
<1>2. CASE name \notin DOMAIN node
  BY <1>1, <1>2 DEF TupleFor, ReadOptions
<1>3. CASE name \in DOMAIN node /\ node[name].type = "sequence"
  <2>1. /\ node[name] \in YamlNodes /\ node[name].items \in Seq(YamlNodes)
        /\ \A i \in DOMAIN node[name].items : node[name].items[i].type = "scalar"
    BY <1>0, <1>3, NodeTypes DEF IsPlain
  <2>2. name \in DOMAIN map /\ map[name] = texts
    BY <1>3, <2>1, FlattenPlain DEF ReadOptions
  <2>3. Len(texts) = Len(node[name].items)
    BY <2>1
  <2> QED
    BY <1>1, <1>3, <2>1, <2>2, <2>3 DEF TupleFor
<1>4. CASE name \in DOMAIN node /\ node[name].type # "sequence"
  <2>1. node[name] \in YamlNodes
    BY <1>4
  <2>2. map[name] = << >> \/ map[name] = <<node[name].text>>
    BY <1>4, <2>1, FlattenPlain, NodeTypes DEF ReadOptions
  <2>3. Len(map[name]) # NumValues(name)
    BY <1>0, <2>2, OneText
  <2> QED
    BY <1>1, <1>4, <2>3 DEF TupleFor
<1> QED
  BY <1>2, <1>3, <1>4

LEMMA ReadTuples ==
  ASSUME NEW node, node \in [DOMAIN node -> YamlNodes], IsPlain(node)
  PROVE  TupleFor(ReadOptions(node), "CustomFetchHeader")
           \cup TupleFor(ReadOptions(node), "UrlValuedAttribute")
           = WrittenTuples(node)
<1>1. \A tuple \in WrittenTuples(node) :
        tuple.name \in {"CustomFetchHeader", "UrlValuedAttribute"}
  BY NumValuesAre DEF WrittenTuples
<1> QED
  BY <1>1, ReadTuple

NotNested(node, name) == name \in DOMAIN node => node[name].type # "sequence"

(* What the options of a node do to the options o, which become p.         *)
NodeSets(o, node, p) ==
  /\ \A name \in FilterLists : p[name] = o[name] \cup Listed(node, name)
  /\ IsPlain(node) => p.tuples = o.tuples \cup WrittenTuples(node)
  /\ NotNested(node, "FileCachePath") =>
       p.FileCachePath = IF Written(node, "FileCachePath") # << >>
                         THEN Written(node, "FileCachePath") ELSE o.FileCachePath

LEMMA NodeApplied ==
  ASSUME NEW s, IsSettings(s), NEW given \in BOOLEAN,
         NEW node, node \in [DOMAIN node -> YamlNodes]
  PROVE  LET t == SetOptionsFromOptionsMap(s, given, ReadOptions(node))
         IN  IsSettings(t) /\ NodeSets(s.options, node, t.options)
<1> DEFINE map == ReadOptions(node)
           t == SetOptionsFromOptionsMap(s, given, map)
<1>1. IsOptionsMap(map)
  BY OptionsMapType
<1>2. /\ ListedFor(map, "EnableFilters") = Listed(node, "EnableFilters")
      /\ ListedFor(map, "DisableFilters") = Listed(node, "DisableFilters")
  BY ReadListed
<1>3. IsPlain(node) =>
        TupleFor(map, "CustomFetchHeader") \cup TupleFor(map, "UrlValuedAttribute")
          = WrittenTuples(node)
  BY ReadTuples
<1>4. NotNested(node, "FileCachePath") =>
        /\ HasOne(map, "FileCachePath") <=> Written(node, "FileCachePath") # << >>
        /\ HasOne(map, "FileCachePath") =>
             map["FileCachePath"][1] = Written(node, "FileCachePath")
  BY ReadWritten DEF NotNested
<1> HIDE DEF map
<1>5. /\ IsSettings(t)
      /\ t.options.EnableFilters =
           s.options.EnableFilters \cup ListedFor(map, "EnableFilters")
      /\ t.options.DisableFilters =
           s.options.DisableFilters \cup ListedFor(map, "DisableFilters")
      /\ t.options.tuples =
           s.options.tuples \cup TupleFor(map, "CustomFetchHeader")
                            \cup TupleFor(map, "UrlValuedAttribute")
      /\ t.options.FileCachePath =
           IF HasOne(map, "FileCachePath") THEN map["FileCachePath"][1]
           ELSE s.options.FileCachePath
  <2>1. OptionsApplied(s, map, t)
    BY <1>1, MapApplied
  <2> HIDE DEF t
  <2> QED
    BY <2>1 DEF OptionsApplied
<1> HIDE DEF t
<1>6. \A name \in FilterLists :
        t.options[name] = s.options[name] \cup Listed(node, name)
  BY <1>2, <1>5 DEF FilterLists
<1> QED
  BY <1>3, <1>4, <1>5, <1>6 DEF t, map, NodeSets

(* What the global options make of the driver factory.                     *)
LEMMA NodeSetsFactory ==
  ASSUME NEW s, IsSettings(s), NEW node, node \in [DOMAIN node -> YamlNodes],
         IsPlain(node)
  PROVE  LET t == SetOptionsFromOptionsMap(s, TRUE, ReadOptions(node)).factory
             size == Written(node, "DefaultThreadPoolSize")
             native == Written(node, "UseNativeFetcher")
         IN  /\ t.DEFAULT_THREAD_POOL_SIZE =
                  IF size # << >> /\ Number[size[1]] > 0
                  THEN ToInt(Number[size[1]])
                  ELSE s.factory.DEFAULT_THREAD_POOL_SIZE
             /\ t.use_native_fetcher =
                  IF native = <<"on">> THEN TRUE
                  ELSE IF native = <<"off">> THEN FALSE
                  ELSE s.factory.use_native_fetcher
<1> DEFINE map == ReadOptions(node)
           t == SetOptionsFromOptionsMap(s, TRUE, map).factory
           size == Written(node, "DefaultThreadPoolSize")
           native == Written(node, "UseNativeFetcher")
<1>1. IsOptionsMap(map)
  BY OptionsMapType
<1>2. /\ HasOne(map, "DefaultThreadPoolSize") <=> size # << >>
      /\ HasOne(map, "DefaultThreadPoolSize") => map["DefaultThreadPoolSize"][1] = size
  BY ReadWritten, PlainIsNoSequence
<1>3. /\ HasOne(map, "UseNativeFetcher") <=> native # << >>
      /\ HasOne(map, "UseNativeFetcher") => map["UseNativeFetcher"][1] = native
  BY ReadWritten, PlainIsNoSequence
<1> HIDE DEF map, size, native
<1>4. /\ t.DEFAULT_THREAD_POOL_SIZE =
           (IF HasOne(map, "DefaultThreadPoolSize")
                /\ Number[map["DefaultThreadPoolSize"][1][1]] > 0
            THEN ToInt(Number[map["DefaultThreadPoolSize"][1][1]])
            ELSE s.factory.DEFAULT_THREAD_POOL_SIZE)
      /\ t.use_native_fetcher =
           IF HasOne(map, "UseNativeFetcher") /\ map["UseNativeFetcher"][1] = <<"on">>
           THEN TRUE
           ELSE IF HasOne(map, "UseNativeFetcher") /\ map["UseNativeFetcher"][1] = <<"off">>
           THEN FALSE
           ELSE s.factory.use_native_fetcher
  <2>1. TRUE \in BOOLEAN
    OBVIOUS
  <2>2. FactoryApplied(s.factory, map, t)
    BY <1>1, <2>1, MapApplied
  <2> HIDE DEF t
  <2> QED
    BY <2>2, Zenon DEF FactoryApplied
<1> HIDE DEF t
<1>5. t.DEFAULT_THREAD_POOL_SIZE =
        IF size # << >> /\ Number[size[1]] > 0 THEN ToInt(Number[size[1]])
        ELSE s.factory.DEFAULT_THREAD_POOL_SIZE
  BY <1>2, <1>4
<1>6. t.use_native_fetcher =
        IF native = <<"on">> THEN TRUE
        ELSE IF native = <<"off">> THEN FALSE ELSE s.factory.use_native_fetcher
  <2>1. <<"on">> # << >> /\ <<"off">> # << >>
    OBVIOUS
  <2> QED
    BY <1>3, <1>4, <2>1, Zenon
<1> QED
  BY <1>5, <1>6 DEF t, map, size, native

(* A rule's options do nothing to the driver factory.                      *)
LEMMA FactoryUntouched ==
  ASSUME NEW s, IsSettings(s), NEW node, node \in [DOMAIN node -> YamlNodes]
  PROVE  SetOptionsFromOptionsMap(s, FALSE, ReadOptions(node)).factory = s.factory
<1>1. FALSE \in BOOLEAN /\ IsOptionsMap(ReadOptions(node))
  BY OptionsMapType
<1> QED
  BY <1>1, MapApplied

(* What an int can hold goes through the conversion unchanged.             *)
LEMMA ToIntKeeps ==
  ASSUME NEW n \in Nat, n <= IntMax
  PROVE  ToInt(n) = n
<1> DEFINE m == 2 * (IntMax + 1)
           x == n + IntMax + 1
<1>1. m \in Nat \ {0} /\ x \in 0 .. m - 1
  BY NodeTypes
<1> HIDE DEF m, x
<1>2. x % m = x
  BY <1>1
<1>3. ToInt(n) = x - (IntMax + 1)
  BY <1>2 DEF ToInt, m, x
<1> QED
  BY <1>3, NodeTypes DEF x
=============================================================================
