------------------------ MODULE AndroidConfigRefresh_proofs ------------------------
(***************************************************************************)
(* Theorems about AndroidConfigRefresh, for any rules, names and addresses *)
(* and any number of changes of the snapshot.                              *)
(***************************************************************************)
EXTENDS AndroidConfigRefresh, SequenceTheorems, FiniteSetTheorems,
        WellFoundedInduction, TLAPS

(* Induction, stated about sets: a set that holds 0 and every successor.   *)

LEMMA Induction ==
  ASSUME NEW T, 0 \in T, \A n \in Nat : n \in T => n + 1 \in T
  PROVE  Nat \subseteq T
<1> DEFINE less == OpToRel(<, Nat)
           rest == Nat \ T
<1> SUFFICES ASSUME rest # {} PROVE FALSE OBVIOUS
<1>1. IsWellFoundedOn(less, Nat) BY NatLessThanWellFounded
<1>2. PICK x \in rest : \A y \in rest : <<y, x>> \notin less
  <2> HIDE DEF less
  <2> QED BY <1>1, WFMin
<1>3. \A y \in rest : ~(y < x) BY <1>2 DEF OpToRel
<1> HIDE DEF less
<1>4. x # 0 /\ x - 1 \in Nat OBVIOUS
<1>5. x - 1 \notin rest BY <1>3, <1>4
<1> QED BY <1>4, <1>5

\* A set that holds the empty sequence, and with a sequence every longer one by an element.
LEMMA SeqInduction ==
  ASSUME NEW A, NEW T, <<>> \in T,
         \A s \in Seq(A), e \in A : s \in T => Append(s, e) \in T
  PROVE  Seq(A) \subseteq T
<1> DEFINE lengths == {n \in Nat : \A s \in Seq(A) : Len(s) = n => s \in T}
<1>1. 0 \in lengths
  <2>1. \A s \in Seq(A) : Len(s) = 0 => s = <<>> OBVIOUS
  <2> QED BY <2>1
<1>2. ASSUME NEW n \in Nat, n \in lengths PROVE n + 1 \in lengths
  <2>1. ASSUME NEW s \in Seq(A), Len(s) = n + 1 PROVE s \in T
    <3>0. s # <<>> BY <2>1
    <3>1. PICK t \in Seq(A), e \in A : s = Append(t, e) /\ Len(t) = n
      BY <2>1, <3>0, SequenceEmptyOrAppend, AppendProperties
    <3>2. t \in T BY <1>2, <3>1
    <3> QED BY <3>1, <3>2
  <2> QED BY <2>1
<1>3. Nat \subseteq lengths
  <2> HIDE DEF lengths
  <2> QED BY <1>1, <1>2, Induction
<1> QED BY <1>3

-----------------------------------------------------------------------------
(* Without, one rule at a time.                                            *)

KeptStep(s, D, g, i) ==
    IF i = 0 THEN <<>> ELSE IF s[i] \in D THEN g[i - 1] ELSE Append(g[i - 1], s[i])

\* The recursive function in Without exists.
LEMMA KeptExists ==
  ASSUME NEW A, NEW s \in Seq(A), NEW D, NEW n \in Nat
  PROVE  \E g : g = [i \in 0 .. n |-> KeptStep(s, D, g, i)]
<1> DEFINE T == {m \in Nat : \E g : g = [i \in 0 .. m |-> KeptStep(s, D, g, i)]}
<1>1. 0 \in T
  <2> DEFINE g == [i \in 0 .. 0 |-> <<>>]
  <2>1. g = [i \in 0 .. 0 |-> KeptStep(s, D, g, i)] BY DEF KeptStep
  <2> QED BY <2>1
<1>2. ASSUME NEW m \in Nat, m \in T PROVE m + 1 \in T
  <2>1. PICK g : g = [i \in 0 .. m |-> KeptStep(s, D, g, i)] BY <1>2
  <2> DEFINE h == [i \in 0 .. m + 1 |->
                     IF i = m + 1 THEN KeptStep(s, D, g, m + 1) ELSE g[i]]
  <2>2. \A i \in 0 .. m + 1 : h[i] = KeptStep(s, D, h, i)
    <3> TAKE i \in 0 .. m + 1
    <3>1. CASE i = m + 1 BY <3>1 DEF KeptStep
    <3>2. CASE i # m + 1
      <4>0. i \in 0 .. m /\ h[i] = g[i] BY <3>2
      <4>1. h[i] = KeptStep(s, D, g, i)
        <5> HIDE DEF h
        <5> QED BY <2>1, <4>0
      <4>2. i # 0 => h[i - 1] = g[i - 1] BY <3>2
      <4> QED BY <4>1, <4>2 DEF KeptStep
    <3> QED BY <3>1, <3>2
  <2>3. h = [i \in 0 .. m + 1 |-> KeptStep(s, D, h, i)]
    <3> DEFINE k == [i \in 0 .. m + 1 |-> KeptStep(s, D, h, i)]
    <3>1. \A i \in 0 .. m + 1 : h[i] = k[i] BY <2>2
    <3>2. h = [i \in 0 .. m + 1 |-> h[i]] /\ k = [i \in 0 .. m + 1 |-> k[i]] OBVIOUS
    <3>3. h = k
      <4> HIDE DEF h, k
      <4> QED BY <3>1, <3>2
    <3> QED BY <3>3
  <2> HIDE DEF h
  <2> QED BY <2>3
<1>3. Nat \subseteq T
  <2> HIDE DEF T
  <2> QED BY <1>1, <1>2, Induction
<1> QED BY <1>3

Kept(s, D) == CHOOSE g : g = [i \in 0 .. Len(s) |-> KeptStep(s, D, g, i)]

LEMMA WithoutKept ==
  ASSUME NEW A, NEW s \in Seq(A), NEW D
  PROVE  /\ Without(s, D) = Kept(s, D)[Len(s)]
         /\ \A i \in 0 .. Len(s) : Kept(s, D)[i] = KeptStep(s, D, Kept(s, D), i)
<1>1. Len(s) \in Nat OBVIOUS
<1>2. \E g : g = [i \in 0 .. Len(s) |-> KeptStep(s, D, g, i)]
  BY <1>1, KeptExists
<1>3. Kept(s, D) = [i \in 0 .. Len(s) |-> KeptStep(s, D, Kept(s, D), i)]
  BY <1>2 DEF Kept
<1>4. Without(s, D) = Kept(s, D)[Len(s)]
  BY DEF Without, Kept, KeptStep
<1>5. ASSUME NEW i \in 0 .. Len(s) PROVE Kept(s, D)[i] = KeptStep(s, D, Kept(s, D), i)
  <2> DEFINE k == Kept(s, D)
  <2>1. k = [j \in 0 .. Len(s) |-> KeptStep(s, D, k, j)] BY <1>3
  <2> HIDE DEF k
  <2>2. k[i] = KeptStep(s, D, k, i) BY <2>1
  <2> QED BY <2>2 DEF k
<1> QED BY <1>4, <1>5

\* Without(<<>>, D) is empty, and Without(Append(s, e), D) appends e unless it is dropped.
LEMMA WithoutEmpty == ASSUME NEW D PROVE Without(<<>>, D) = <<>>
<1> DEFINE s == <<>>
<1>1. s \in Seq({}) /\ Len(s) = 0 OBVIOUS
<1> HIDE DEF s
<1>2. Without(s, D) = Kept(s, D)[0] /\ Kept(s, D)[0] = KeptStep(s, D, Kept(s, D), 0)
  <2>1. /\ Without(s, D) = Kept(s, D)[Len(s)]
        /\ \A i \in 0 .. Len(s) : Kept(s, D)[i] = KeptStep(s, D, Kept(s, D), i)
    BY <1>1, WithoutKept
  <2>2. 0 \in 0 .. Len(s) BY <1>1
  <2> QED BY <1>1, <2>1, <2>2
<1>3. Without(s, D) = <<>> BY <1>2 DEF KeptStep
<1> QED BY <1>3 DEF s

LEMMA WithoutAppend ==
  ASSUME NEW A, NEW s \in Seq(A), NEW e \in A, NEW D
  PROVE  Without(Append(s, e), D) =
           IF e \in D THEN Without(s, D) ELSE Append(Without(s, D), e)
<1> DEFINE n == Len(s)
           u == Append(s, e)
           g == Kept(s, D)
           h == Kept(u, D)
<1>1. u \in Seq(A) /\ Len(u) = n + 1 /\ n \in Nat /\ u[n + 1] = e
      /\ \A i \in 1 .. n : u[i] = s[i]
  OBVIOUS
<1>2. /\ Without(s, D) = g[n] /\ Without(u, D) = h[n + 1]
      /\ \A i \in 0 .. n : g[i] = KeptStep(s, D, g, i)
      /\ \A i \in 0 .. n + 1 : h[i] = KeptStep(u, D, h, i)
  <2> HIDE DEF u
  <2> QED BY <1>1, WithoutKept
<1> HIDE DEF u, g, h, n
<1> DEFINE T == {i \in Nat : i <= n => h[i] = g[i]}
<1>3. 0 \in T BY <1>1, <1>2 DEF KeptStep
<1>4. ASSUME NEW i \in Nat, i \in T PROVE i + 1 \in T
  <2>1. CASE i + 1 <= n
    <3>1. h[i] = g[i] /\ u[i + 1] = s[i + 1] BY <1>1, <1>4, <2>1
    <3>2. h[i + 1] = KeptStep(u, D, h, i + 1) /\ g[i + 1] = KeptStep(s, D, g, i + 1)
      BY <1>1, <1>2, <2>1
    <3> QED BY <3>1, <3>2 DEF KeptStep
  <2>2. CASE ~(i + 1 <= n) BY <2>2
  <2> QED BY <2>1, <2>2
<1>5. Nat \subseteq T
  <2> HIDE DEF T
  <2> QED BY <1>3, <1>4, Induction
<1>6. h[n] = g[n] BY <1>1, <1>5
<1>7. h[n + 1] = KeptStep(u, D, h, n + 1) BY <1>1, <1>2
<1>8. h[n + 1] = IF e \in D THEN g[n] ELSE Append(g[n], e)
  BY <1>1, <1>6, <1>7 DEF KeptStep
<1> QED BY <1>2, <1>8 DEF u

-----------------------------------------------------------------------------
(* What Without does, for every sequence.                                  *)

\* It keeps only what is not dropped, ...
LEMMA WithoutType ==
  ASSUME NEW A, NEW D PROVE \A s \in Seq(A) : Without(s, D) \in Seq(A \ D)
<1> DEFINE T == {s \in Seq(A) : Without(s, D) \in Seq(A \ D)}
<1>1. <<>> \in T
  <2>1. <<>> \in Seq(A) /\ <<>> \in Seq(A \ D) OBVIOUS
  <2>2. Without(<<>>, D) = <<>> BY WithoutEmpty
  <2> QED BY <2>1, <2>2
<1>2. ASSUME NEW s \in Seq(A), NEW e \in A, s \in T PROVE Append(s, e) \in T
  <2>1. Without(Append(s, e), D) = IF e \in D THEN Without(s, D) ELSE Append(Without(s, D), e)
    BY WithoutAppend
  <2>2. Without(s, D) \in Seq(A \ D) BY <1>2
  <2>3. Append(s, e) \in Seq(A) OBVIOUS
  <2> QED BY <2>1, <2>2, <2>3
<1>3. Seq(A) \subseteq T
  <2> HIDE DEF T
  <2> QED BY <1>1, <1>2, SeqInduction
<1> QED BY <1>3

LEMMA WithoutSeq ==
  ASSUME NEW A, NEW D, NEW s \in Seq(A) PROVE Without(s, D) \in Seq(A)
<1>1. Without(s, D) \in Seq(A \ D) BY WithoutType
<1> QED BY <1>1, SeqMonotonic

\* ... nothing of what is all dropped, ...
LEMMA WithoutAll ==
  ASSUME NEW D PROVE \A s \in Seq(D) : Without(s, D) = <<>>
<1> DEFINE T == {s \in Seq(D) : Without(s, D) = <<>>}
<1>1. <<>> \in T BY WithoutEmpty
<1>2. ASSUME NEW s \in Seq(D), NEW e \in D, s \in T PROVE Append(s, e) \in T
  <2>1. Without(Append(s, e), D) = Without(s, D) BY WithoutAppend
  <2>2. Append(s, e) \in Seq(D) OBVIOUS
  <2> QED BY <1>2, <2>1, <2>2
<1>3. Seq(D) \subseteq T
  <2> HIDE DEF T
  <2> QED BY <1>1, <1>2, SeqInduction
<1> QED BY <1>3

\* ... nothing only then, ...
LEMMA WithoutNothing ==
  ASSUME NEW A, NEW D
  PROVE  \A s \in Seq(A) : Without(s, D) = <<>> => \A i \in 1 .. Len(s) : s[i] \in D
<1> DEFINE AllIn(s) == \A i \in 1 .. Len(s) : s[i] \in D
           T == {s \in Seq(A) : Without(s, D) = <<>> => AllIn(s)}
<1>1. <<>> \in T OBVIOUS
<1>2. ASSUME NEW s \in Seq(A), NEW e \in A, s \in T PROVE Append(s, e) \in T
  <2>1. Without(Append(s, e), D) = IF e \in D THEN Without(s, D) ELSE Append(Without(s, D), e)
    BY WithoutAppend
  <2>2. Without(s, D) \in Seq(A \ D) BY WithoutType
  <2>3. Append(Without(s, D), e) # <<>> BY <2>2
  <2>4. Append(s, e) \in Seq(A) OBVIOUS
  <2>5. ASSUME Without(Append(s, e), D) = <<>> PROVE AllIn(Append(s, e))
    <3>1. e \in D /\ AllIn(s) BY <1>2, <2>1, <2>3, <2>5
    <3> QED BY <3>1
  <2> QED BY <2>4, <2>5
<1>3. Seq(A) \subseteq T
  <2> HIDE DEF T
  <2> QED BY <1>1, <1>2, SeqInduction
<1> QED BY <1>3

\* ... and everything where nothing is dropped.
LEMMA WithoutNone ==
  ASSUME NEW A, NEW D, A \cap D = {} PROVE \A s \in Seq(A) : Without(s, D) = s
<1> DEFINE T == {s \in Seq(A) : Without(s, D) = s}
<1>1. <<>> \in T BY WithoutEmpty
<1>2. ASSUME NEW s \in Seq(A), NEW e \in A, s \in T PROVE Append(s, e) \in T
  <2>1. Without(Append(s, e), D) = Append(Without(s, D), e) BY WithoutAppend
  <2>2. Append(s, e) \in Seq(A) OBVIOUS
  <2> QED BY <1>2, <2>1, <2>2
<1>3. Seq(A) \subseteq T
  <2> HIDE DEF T
  <2> QED BY <1>1, <1>2, SeqInduction
<1> QED BY <1>3

\* What is put in front is looked at apart.
LEMMA WithoutConcat ==
  ASSUME NEW A, NEW D, NEW s \in Seq(A)
  PROVE  \A t \in Seq(A) : Without(s \o t, D) = Without(s, D) \o Without(t, D)
<1> DEFINE T == {t \in Seq(A) : Without(s \o t, D) = Without(s, D) \o Without(t, D)}
<1>0. Without(s, D) \in Seq(A) BY WithoutSeq
<1>1. <<>> \in T
  <2>1. \A u \in Seq(A) : u \o <<>> = u OBVIOUS
  <2>2. s \o <<>> = s /\ Without(s, D) \o <<>> = Without(s, D) BY <1>0, <2>1
  <2>3. <<>> \in Seq(A) /\ Without(<<>>, D) = <<>> BY WithoutEmpty
  <2> QED BY <2>2, <2>3
<1>2. ASSUME NEW t \in Seq(A), NEW e \in A, t \in T PROVE Append(t, e) \in T
  <2>1. s \o Append(t, e) = Append(s \o t, e) /\ s \o t \in Seq(A) /\ Append(t, e) \in Seq(A)
    OBVIOUS
  <2>2. Without(Append(s \o t, e), D)
          = IF e \in D THEN Without(s \o t, D) ELSE Append(Without(s \o t, D), e)
    <3> DEFINE u == s \o t
    <3>1. u \in Seq(A) BY <2>1
    <3> HIDE DEF u
    <3>2. Without(Append(u, e), D) = IF e \in D THEN Without(u, D) ELSE Append(Without(u, D), e)
      BY <3>1, WithoutAppend
    <3> QED BY <3>2 DEF u
  <2>3. Without(Append(t, e), D) = IF e \in D THEN Without(t, D) ELSE Append(Without(t, D), e)
    BY WithoutAppend
  <2>4. Without(t, D) \in Seq(A) BY WithoutSeq
  <2>5. Without(s, D) \o Append(Without(t, D), e) = Append(Without(s, D) \o Without(t, D), e)
    BY <1>0, <2>4
  <2>6. Without(s \o t, D) = Without(s, D) \o Without(t, D) BY <1>2
  <2>7. Without(s \o Append(t, e), D) = Without(s, D) \o Without(Append(t, e), D)
    BY <2>1, <2>2, <2>3, <2>5, <2>6
  <2> QED BY <2>1, <2>7
<1>3. Seq(A) \subseteq T
  <2> HIDE DEF T
  <2> QED BY <1>1, <1>2, SeqInduction
<1> QED BY <1>3

\* What is all dropped may stand in front.
LEMMA WithoutFront ==
  ASSUME NEW A, NEW D, NEW m \in Seq(A), m \in Seq(D), NEW rest \in Seq(A)
  PROVE  Without(m \o rest, D) = Without(rest, D)
<1>1. Without(m \o rest, D) = Without(m, D) \o Without(rest, D) BY WithoutConcat
<1>2. Without(m, D) = <<>> BY WithoutAll
<1>3. Without(rest, D) \in Seq(A) BY WithoutSeq
<1> QED BY <1>1, <1>2, <1>3, ConcatEmptySeq

\* What has dropped less before makes no difference.
LEMMA WithoutTwice ==
  ASSUME NEW A, NEW D, NEW E, D \subseteq E
  PROVE  \A s \in Seq(A) : Without(Without(s, D), E) = Without(s, E)
<1> DEFINE T == {s \in Seq(A) : Without(Without(s, D), E) = Without(s, E)}
<1>1. <<>> \in T BY WithoutEmpty
<1>2. ASSUME NEW s \in Seq(A), NEW e \in A, s \in T PROVE Append(s, e) \in T
  <2>1. Without(s, D) \in Seq(A) /\ Append(s, e) \in Seq(A) BY WithoutSeq
  <2>2. Without(Append(s, e), D) = IF e \in D THEN Without(s, D) ELSE Append(Without(s, D), e)
    BY WithoutAppend
  <2>3. Without(Append(s, e), E) = IF e \in E THEN Without(s, E) ELSE Append(Without(s, E), e)
    BY WithoutAppend
  <2>4. Without(Append(Without(s, D), e), E)
          = IF e \in E THEN Without(Without(s, D), E) ELSE Append(Without(Without(s, D), E), e)
    BY <2>1, WithoutAppend
  <2>5. Without(Without(s, D), E) = Without(s, E) BY <1>2
  <2> QED BY <2>1, <2>2, <2>3, <2>4, <2>5
<1>3. Seq(A) \subseteq T
  <2> HIDE DEF T
  <2> QED BY <1>1, <1>2, SeqInduction
<1> QED BY <1>3

-----------------------------------------------------------------------------
(* The invariant.                                                          *)

\* The managed rules come first, and none of them again.
InFront(rules, s) ==
    rules = ManagedRules(s) \o Without(rules, ToSet(ManagedRules(s)))

\* A session has sections exactly when it has an engine; between sessions there is none,
\* and only a managed configuration is generated.
EngineHasSections ==
    /\ at = "over" => engine = None
    /\ at # "over" => (engine = None <=> current = NoSections)
    /\ at \in {"hosts", "routing"} => managed /\ engine = None

\* What the engine runs begins with the rules of the sections put in last, and so does
\* what it is about to be given.
RulesInFront ==
    /\ engine # None => InFront(engine.rules, current)
    /\ at = "parse" => InFront(file.rules, next)

\* A generated configuration stays one.
StaysGenerated ==
    managed /\ ~disturbed =>
        /\ at = "parse" => file = Generated(next)
        /\ at \in {"serve", "compare", "render", "write"} /\ engine # None =>
             file = Generated(current) /\ engine = file

RefreshInv == TypeOK /\ EngineHasSections /\ RulesInFront /\ StaysGenerated /\ OwnRulesKept

USE ListsAssumption, RefreshAssumption, NoneIsNoConfig

-----------------------------------------------------------------------------
(* The rules.                                                              *)

LEMMA SeqSet ==
  ASSUME NEW A, NEW s \in Seq(A)
  PROVE  /\ s \in Seq(ToSet(s)) /\ ToSet(s) \subseteq A
         /\ \A x : x \in ToSet(s) <=> \E i \in 1 .. Len(s) : x = s[i]
<1>1. DOMAIN s = 1 .. Len(s) /\ Len(s) \in Nat BY LenProperties
<1>2. \A x : x \in ToSet(s) <=> \E i \in 1 .. Len(s) : x = s[i] BY <1>1 DEF ToSet
<1>3. s \in [1 .. Len(s) -> ToSet(s)] BY <1>1, <1>2, LenProperties
<1>4. s \in Seq(ToSet(s))
  <2> DEFINE S == ToSet(s)
  <2>1. s \in [1 .. Len(s) -> S] BY <1>3
  <2> HIDE DEF S
  <2>2. s \in UNION {[1 .. n -> S] : n \in Nat} BY <1>1, <2>1
  <2>3. s \in Seq(S) BY <2>2, SeqDef
  <2> QED BY <2>3 DEF S
<1>5. ToSet(s) \subseteq A
  <2>1. \A i \in 1 .. Len(s) : s[i] \in A BY ElementOfSeq
  <2> QED BY <1>2, <2>1
<1> QED BY <1>2, <1>4, <1>5

\* The managed rules of one suffix: the suffix's and the fixed ones.
LEMMA ManagedType ==
  ASSUME NEW s, s.suffix \in SuffixRules
  PROVE  /\ ManagedRules(s) \in Seq(Rules) /\ Len(ManagedRules(s)) = 1 + Len(Fixed)
         /\ Len(Fixed) \in Nat
         /\ ManagedRules(s) \in Seq(ToSet(ManagedRules(s)))
         /\ ToSet(ManagedRules(s)) = {s.suffix} \cup ToSet(Fixed)
         /\ ToSet(ManagedRules(s)) \subseteq Managed /\ Managed \subseteq Rules
<1> DEFINE m == ManagedRules(s)
<1>1. <<s.suffix>> \in Seq(Rules) /\ Len(<<s.suffix>>) = 1 BY DEF Rules
<1>2. /\ m \in Seq(Rules) /\ Len(m) = 1 + Len(Fixed)
      /\ \A i \in 1 .. 1 + Len(Fixed) : m[i] = IF i <= 1 THEN s.suffix ELSE Fixed[i - 1]
  BY <1>1, ConcatProperties DEF ManagedRules
<1>3. Len(Fixed) \in Nat BY LenProperties
<1>4. \A x : x \in ToSet(m) <=> x = s.suffix \/ x \in ToSet(Fixed)
  <2>1. \A x : x \in ToSet(Fixed) <=> \E i \in 1 .. Len(Fixed) : x = Fixed[i] BY SeqSet
  <2>2. \A x : x \in ToSet(m) <=> \E i \in 1 .. Len(m) : x = m[i]
    <3> HIDE DEF m
    <3> QED BY <1>2, SeqSet
  <2> TAKE x
  <2>3. ASSUME x \in ToSet(m) PROVE x = s.suffix \/ x \in ToSet(Fixed)
    <3>1. PICK i \in 1 .. 1 + Len(Fixed) : x = m[i] BY <1>2, <2>2, <2>3
    <3>2. i <= 1 \/ i - 1 \in 1 .. Len(Fixed) BY <1>3
    <3> HIDE DEF m
    <3> QED BY <1>2, <2>1, <3>1, <3>2
  <2>4. ASSUME x = s.suffix PROVE x \in ToSet(m)
    <3>1. 1 \in 1 .. Len(m) /\ x = m[1] BY <1>2, <1>3, <2>4
    <3> QED BY <2>2, <3>1
  <2>5. ASSUME x \in ToSet(Fixed) PROVE x \in ToSet(m)
    <3>1. PICK i \in 1 .. Len(Fixed) : x = Fixed[i] BY <2>1, <2>5
    <3>2. i + 1 \in 1 .. Len(m) /\ m[i + 1] = x
      <4> HIDE DEF m
      <4> QED BY <1>2, <1>3, <3>1
    <3> QED BY <2>2, <3>2
  <2> QED BY <2>3, <2>4, <2>5
<1>5. m \in Seq(ToSet(m))
  <2> HIDE DEF m
  <2> QED BY <1>2, SeqSet
<1>6. ToSet(m) = {s.suffix} \cup ToSet(Fixed)
  <2> HIDE DEF m
  <2> QED BY <1>4
<1> QED BY <1>2, <1>3, <1>5, <1>6 DEF Managed, Rules

\* Putting the rules in puts them in front, ...
LEMMA InjectedInFront ==
  ASSUME NEW s, s.suffix \in SuffixRules, NEW rules \in Seq(Rules)
  PROVE  InjectRules(rules, s) \in Seq(Rules) /\ InFront(InjectRules(rules, s), s)
<1> DEFINE m == ManagedRules(s)
           D == ToSet(ManagedRules(s))
           rest == Without(rules, D)
<1>1. m \in Seq(Rules) /\ m \in Seq(D) BY ManagedType
<1>2. rest \in Seq(Rules) BY WithoutSeq
<1>3. InjectRules(rules, s) = m \o rest BY DEF InjectRules
<1> HIDE DEF m, D, rest
<1>4. m \o rest \in Seq(Rules) BY <1>1, <1>2, ConcatProperties
<1>5. Without(m \o rest, D) = Without(rest, D) BY <1>1, <1>2, WithoutFront
<1>6. Without(rest, D) = rest BY WithoutTwice DEF rest
<1> QED BY <1>3, <1>4, <1>5, <1>6 DEF InFront, m, D

LEMMA RemovedType ==
  ASSUME NEW p \in Sections \cup {NoSections}, NEW rules \in Seq(Rules)
  PROVE  RemoveRules(rules, p) \in Seq(Rules)
BY WithoutSeq DEF RemoveRules

\* ... and neither that nor taking them out touches the others.
LEMMA OwnUntouched ==
  ASSUME NEW s \in Sections, NEW p \in Sections \cup {NoSections}, NEW rules \in Seq(Rules)
  PROVE  Own(InjectRules(RemoveRules(rules, p), s)) = Own(rules)
<1> DEFINE m == ManagedRules(s)
           D == ToSet(ManagedRules(s))
           removed == RemoveRules(rules, p)
           rest == Without(removed, D)
<1>0. s.suffix \in SuffixRules BY DEF Sections
<1>1. m \in Seq(Rules) /\ m \in Seq(D) /\ D \subseteq Managed BY <1>0, ManagedType
<1>2. removed \in Seq(Rules) /\ rest \in Seq(Rules) BY RemovedType, WithoutSeq
<1>3. Own(removed) = Own(rules)
  <2>1. CASE p = NoSections BY <2>1 DEF RemoveRules
  <2>2. CASE p # NoSections
    <3>1. p.suffix \in SuffixRules BY <2>2 DEF Sections
    <3>2. ToSet(ManagedRules(p)) \subseteq Managed BY <3>1, ManagedType
    <3> QED BY <2>2, <3>2, WithoutTwice DEF RemoveRules, Own
  <2> QED BY <2>1, <2>2
<1>4. Own(rest) = Own(removed) 
  <2> HIDE DEF removed, D
  <2> QED BY <1>1, <1>2, WithoutTwice DEF Own
<1>5. m \in Seq(Managed) BY <1>1, SeqMonotonic
<1>6. Own(m \o rest) = Own(rest)
  <2> HIDE DEF m, rest
  <2> QED BY <1>1, <1>2, <1>5, WithoutFront DEF Own
<1> QED BY <1>3, <1>4, <1>6 DEF InjectRules

\* Replacing the sections of a generated configuration generates it for the new ones.
LEMMA MatchKept ==
  ASSUME NEW s, s.suffix \in SuffixRules
  PROVE  /\ Without(ManagedRules(s) \o <<Match>>, ToSet(ManagedRules(s))) = <<Match>>
         /\ Without(<<Match>>, ToSet(ManagedRules(s))) = <<Match>>
         /\ ManagedRules(s) \o <<Match>> \in Seq(Rules)
<1> DEFINE m == ManagedRules(s)
           D == ToSet(ManagedRules(s))
<1>1. m \in Seq(Rules) /\ m \in Seq(D) /\ D = {s.suffix} \cup ToSet(Fixed) BY ManagedType
<1>2. <<Match>> \in Seq(Rules) /\ <<Match>> \in Seq({Match}) BY DEF Rules
<1>3. {Match} \cap D = {} BY <1>1
<1> HIDE DEF m, D
<1>4. Without(<<Match>>, D) = <<Match>> BY <1>2, <1>3, WithoutNone
<1>5. Without(m \o <<Match>>, D) = <<Match>>
  <2>1. \A rest \in Seq(Rules) : Without(m \o rest, D) = Without(rest, D)
    BY <1>1, WithoutFront
  <2> QED BY <1>2, <1>4, <2>1
<1>6. m \o <<Match>> \in Seq(Rules) BY <1>1, <1>2, ConcatProperties
<1> QED BY <1>4, <1>5, <1>6 DEF m, D

LEMMA ReplacedIsGenerated ==
  ASSUME NEW s \in Sections, NEW p \in Sections
  PROVE  /\ ReplaceSections(Generated(s), NoSections, s) = Generated(s)
         /\ ReplaceSections(Generated(p), p, s) = Generated(s)
<1>1. s.suffix \in SuffixRules /\ p.suffix \in SuffixRules /\ p # NoSections
      /\ s.hosts \in Hosts /\ p.hosts \in Hosts
  BY DEF Sections, NoSections
<1>2. InjectRules(RemoveRules(Generated(s).rules, NoSections), s) = Generated(s).rules
  BY <1>1, MatchKept DEF Generated, InjectRules, RemoveRules
<1>3. InjectRules(RemoveRules(Generated(p).rules, p), s) = Generated(s).rules
  BY <1>1, MatchKept DEF Generated, InjectRules, RemoveRules
<1>4. InjectHosts(RemoveHosts(s.hosts, NoSections), s) = s.hosts
  BY <1>1 DEF InjectHosts, RemoveHosts, NoSections, NoHosts, Hosts
<1>5. InjectHosts(RemoveHosts(p.hosts, p), s) = s.hosts
  BY <1>1 DEF InjectHosts, RemoveHosts, Hosts
<1> QED BY <1>2, <1>3, <1>4, <1>5 DEF ReplaceSections, Generated

LEMMA RulesFirst ==
  ASSUME NEW s, s.suffix \in SuffixRules, NEW rules \in Seq(Rules), InFront(rules, s)
  PROVE  /\ IsPrefix(ManagedRules(s), rules)
         /\ \A r \in ToSet(ManagedRules(s)) :
              r \notin ToSet(SubSeq(rules, 2 + Len(Fixed), Len(rules)))
<1> DEFINE m == ManagedRules(s)
           D == ToSet(ManagedRules(s))
           rest == Without(rules, D)
           tail == SubSeq(rules, 2 + Len(Fixed), Len(rules))
<1>1. m \in Seq(Rules) /\ Len(m) = 1 + Len(Fixed) /\ Len(Fixed) \in Nat BY ManagedType
<1>2. rest \in Seq(Rules \ D) /\ rest \in Seq(Rules) BY WithoutType, WithoutSeq
<1>3. rules = m \o rest BY DEF InFront
<1> HIDE DEF m, D, rest
<1>4. /\ Len(rules) = Len(m) + Len(rest) /\ Len(rest) \in Nat
      /\ \A i \in 1 .. Len(rules) : rules[i] = IF i <= Len(m) THEN m[i] ELSE rest[i - Len(m)]
  <2>1. Len(m \o rest) = Len(m) + Len(rest) BY <1>1, <1>2, ConcatProperties
  <2>2. \A i \in 1 .. Len(m) + Len(rest) :
          (m \o rest)[i] = IF i <= Len(m) THEN m[i] ELSE rest[i - Len(m)]
    BY <1>1, <1>2, ConcatProperties
  <2>3. Len(rest) \in Nat BY <1>2, LenProperties
  <2> QED BY <1>3, <2>1, <2>2, <2>3
<1>5. IsPrefix(m, rules)
  <2>1. 1 \in 1 .. Len(m) /\ Len(m) \in 1 .. Len(m) BY <1>1
  <2>2. SubSeq(rules, 1, Len(m)) = SubSeq(m, 1, Len(m))
    BY <1>1, <1>2, <1>3, <2>1, SubSeqOfConcat1
  <2>3. Len(m) <= Len(rules) BY <1>1, <1>4
  <2> QED BY <2>2, <2>3 DEF IsPrefix
<1>6. tail \in Seq(Rules \ D)
  <2>1. \A i \in 2 + Len(Fixed) .. Len(rules) : rules[i] \in Rules \ D
    <3> TAKE i \in 2 + Len(Fixed) .. Len(rules)
    <3>1. i \in 1 .. Len(rules) /\ ~(i <= Len(m)) /\ i - Len(m) \in 1 .. Len(rest)
      BY <1>1, <1>4
    <3>2. rest[i - Len(m)] \in Rules \ D BY <1>2, <3>1, ElementOfSeq
    <3> QED BY <1>4, <3>1, <3>2
  <2>2. 2 + Len(Fixed) \in Int /\ Len(rules) \in Int BY <1>1, <1>4
  <2> QED BY <2>1, <2>2, SubSeqProperties
<1>7. ToSet(tail) \subseteq Rules \ D
  <2> HIDE DEF tail
  <2> QED BY <1>6, SeqSet
<1> QED BY <1>5, <1>7 DEF m, D

-----------------------------------------------------------------------------
(* Types.                                                                  *)

\* The preferred address is one of the node's.
LEMMA PreferredType ==
  ASSUME NEW ips \in SUBSET Ips PROVE preferredTailscaleIP(ips) \in ips \cup {None}
<1> DEFINE D == Ips \ ips
           left == Without(IpOrder, D)
<1>1. CASE ips = {} BY <1>1 DEF preferredTailscaleIP
<1>2. CASE ips # {}
  <2>1. left \in Seq(Ips \ D) BY WithoutType
  <2>2. left # <<>>
    <3> SUFFICES ASSUME left = <<>> PROVE FALSE OBVIOUS
    <3>1. \A i \in 1 .. Len(IpOrder) : IpOrder[i] \in D
      <4> HIDE DEF D
      <4> QED BY WithoutNothing
    <3>2. PICK x \in ips : TRUE BY <1>2
    <3>3. \E i \in 1 .. Len(IpOrder) : x = IpOrder[i] BY <3>2, SeqSet DEF Ips
    <3> QED BY <3>1, <3>3
  <2>3. Head(left) \in Ips \ D
    <3> HIDE DEF left
    <3> QED BY <2>1, <2>2, HeadTailProperties
  <2> QED BY <1>2, <2>3 DEF preferredTailscaleIP
<1> QED BY <1>1, <1>2

LEMMA AliasesType ==
  ASSUME NEW hosts \in Hosts, NEW rule PROVE WithAliases(hosts, rule) \in Hosts
<1> DEFINE whole(n) == {m \in Names : hosts[m] # None /\ Short[<<m, rule>>] = n}
           entry(n) == IF hosts[n] = None /\ Cardinality(whole(n)) = 1
                       THEN hosts[CHOOSE m \in whole(n) : TRUE] ELSE hosts[n]
<1>1. ASSUME NEW n \in Names PROVE entry(n) \in Ips \cup {None}
  <2>1. CASE Cardinality(whole(n)) = 1
    <3>1. Cardinality({}) = 0 BY FS_EmptySet
    <3>2. whole(n) # {}
      <4> DEFINE w == whole(n)
      <4>1. Cardinality(w) = 1 BY <2>1
      <4> HIDE DEF w
      <4>2. w = {} => Cardinality(w) = Cardinality({}) OBVIOUS
      <4>3. w # {} BY <3>1, <4>1, <4>2
      <4> QED BY <4>3 DEF w
    <3>3. (CHOOSE m \in whole(n) : TRUE) \in whole(n) BY <3>2
    <3>4. (CHOOSE m \in whole(n) : TRUE) \in Names BY <3>3
    <3> QED BY <3>4 DEF Hosts
  <2>2. CASE Cardinality(whole(n)) # 1 BY <2>2 DEF Hosts
  <2> QED BY <2>1, <2>2
<1>2. WithAliases(hosts, rule) = [n \in Names |-> entry(n)] BY DEF WithAliases
<1> HIDE DEF entry
<1> QED BY <1>1, <1>2 DEF Hosts

LEMMA GeneratedType ==
  ASSUME NEW s \in Sections PROVE Generated(s) \in Configs
<1>1. s.suffix \in SuffixRules /\ s.hosts \in Hosts /\ s.via \in {0, 1} BY DEF Sections
<1>2. ManagedRules(s) \o <<Match>> \in Seq(Rules) BY <1>1, MatchKept
<1> QED BY <1>1, <1>2 DEF Generated, Configs

LEMMA ReplacedType ==
  ASSUME NEW s \in Sections, NEW p \in Sections \cup {NoSections}, NEW c \in Configs
  PROVE  ReplaceSections(c, p, s) \in Configs /\ InFront(ReplaceSections(c, p, s).rules, s)
<1>1. s.suffix \in SuffixRules /\ s.hosts \in Hosts /\ s.via \in {0, 1} BY DEF Sections
<1>2. c.rules \in Seq(Rules) /\ c.hosts \in Hosts BY DEF Configs
<1>3. RemoveRules(c.rules, p) \in Seq(Rules) BY <1>2, RemovedType
<1> DEFINE r == InjectRules(RemoveRules(c.rules, p), s)
           h == InjectHosts(RemoveHosts(c.hosts, p), s)
<1>4. r \in Seq(Rules) /\ InFront(r, s) BY <1>1, <1>3, InjectedInFront
<1>5. h \in Hosts BY <1>1, <1>2 DEF InjectHosts, RemoveHosts, Hosts
<1>6. ReplaceSections(c, p, s) = [rules |-> r, hosts |-> h, via |-> s.via]
  BY DEF ReplaceSections
<1> HIDE DEF r, h
<1> QED BY <1>1, <1>4, <1>5, <1>6 DEF Configs

\* What a read leaves in next.
LEMMA RoutingRead ==
  ASSUME TypeOK, ReadRouting(next')
  PROVE  next' \in Sections /\ changes' \in 0 .. MaxChanges
<1>1. net.suffix \in SuffixRules /\ net.via \in {0, 1} /\ 1 - net.via \in {0, 1}
  BY DEF TypeOK, Sections
<1>2. next \in [suffix : SuffixRules \cup {None}, hosts : Hosts, via : {0, 1, None}]
  BY DEF TypeOK
<1>3. \A r \in SuffixRules, v \in {0, 1} :
        [suffix |-> r, hosts |-> next.hosts, via |-> v] \in Sections
  BY <1>2 DEF Sections
<1>4. next' \in Sections BY <1>1, <1>3, ZenonT(40) DEF ReadRouting
<1>5. changes' \in 0 .. MaxChanges BY DEF ReadRouting, Count, TypeOK
<1> QED BY <1>4, <1>5

LEMMA HostsRead ==
  ASSUME TypeOK, ReadHosts(next')
  PROVE  /\ next' \in [suffix : SuffixRules \cup {None}, hosts : Hosts, via : {0, 1, None}]
         /\ next \in Sections => next' \in Sections
         /\ changes' \in 0 .. MaxChanges
<1>1. WithAliases(net.hosts, net.suffix) \in Hosts /\ WithAliases(net.hosts, Default) \in Hosts
  BY AliasesType DEF TypeOK, Sections
<1>2. NoHosts \in Hosts BY DEF NoHosts, Hosts
<1>3. PICK h \in Hosts : next' = [next EXCEPT !.hosts = h] BY <1>1, <1>2 DEF ReadHosts
<1>4. next' \in [suffix : SuffixRules \cup {None}, hosts : Hosts, via : {0, 1, None}]
  BY <1>3 DEF TypeOK
<1>5. next \in Sections => next' \in Sections BY <1>3 DEF Sections
<1>6. changes' \in 0 .. MaxChanges BY DEF ReadHosts, Count, TypeOK
<1> QED BY <1>4, <1>5, <1>6

-----------------------------------------------------------------------------
(* Every action keeps the invariant.                                       *)

LEMMA InitKeeps == Init => RefreshInv
<1> SUFFICES ASSUME Init PROVE RefreshInv OBVIOUS
<1>1. NoHosts \in Hosts BY DEF NoHosts, Hosts
<1>2. UserRules \in Seq(Rules) /\ UserHosts \in Hosts BY DEF Hosts
<1>3. file \in Configs BY <1>2 DEF Init, Configs
<1>4. net \in Sections BY <1>1 DEF Init, Sections
<1>5. next \in [suffix : SuffixRules \cup {None}, hosts : Hosts, via : {0, 1, None}]
  BY <1>1 DEF Init, NoSections
<1>6. TypeOK
  <2>0. changes = 0 /\ disturbed = FALSE /\ managed \in BOOLEAN BY Zenon DEF Init
  <2>1. changes \in 0 .. MaxChanges BY <2>0
  <2>2. current \in Sections \cup {NoSections} BY DEF Init
  <2> QED BY <1>3, <1>4, <1>5, <2>0, <2>1, <2>2 DEF Init, TypeOK, Place
<1>7. OwnRulesKept BY DEF Init, OwnRulesKept
<1> QED BY <1>6, <1>7 DEF Init, RefreshInv, EngineHasSections, RulesInFront, StaysGenerated

LEMMA SnapshotKeeps == RefreshInv /\ SnapshotChanges => RefreshInv'
<1> SUFFICES ASSUME RefreshInv, SnapshotChanges PROVE RefreshInv' OBVIOUS
<1> USE DEF RefreshInv, SnapshotChanges
<1>1. net' \in Sections
  <2>1. CASE \E n \in Names, ips \in SUBSET Ips :
               net' = [net EXCEPT !.hosts[n] = preferredTailscaleIP(ips)]
    <3>1. PICK n \in Names, ips \in SUBSET Ips :
            net' = [net EXCEPT !.hosts[n] = preferredTailscaleIP(ips)]
      BY <2>1
    <3>2. preferredTailscaleIP(ips) \in Ips \cup {None} BY PreferredType
    <3>3. [net.hosts EXCEPT ![n] = preferredTailscaleIP(ips)] \in Hosts
      BY <3>2 DEF TypeOK, Sections, Hosts
    <3>4. net' = [net EXCEPT !.hosts = [net.hosts EXCEPT ![n] = preferredTailscaleIP(ips)]]
      BY <3>1
    <3> QED BY <3>3, <3>4 DEF TypeOK, Sections
  <2>2. CASE \E s \in SuffixRules : net' = [net EXCEPT !.suffix = s]
    BY <2>2 DEF TypeOK, Sections
  <2> QED BY <2>1, <2>2
<1>2. TypeOK' BY <1>1 DEF TypeOK, Count
<1> QED BY <1>2 DEF EngineHasSections, RulesInFront, StaysGenerated, OwnRulesKept

LEMMA BeginKeeps == RefreshInv /\ Begin => RefreshInv'
<1> SUFFICES ASSUME RefreshInv, Begin PROVE RefreshInv' OBVIOUS
<1> USE DEF RefreshInv, Begin, Goto
<1>1. net \in Sections /\ net' = [net EXCEPT !.via = 1 - net.via] BY DEF TypeOK
<1>2. 1 - net.via \in {0, 1} BY <1>1 DEF Sections
<1>3. net' \in Sections BY <1>1, <1>2 DEF Sections
<1>4. TypeOK' BY <1>3 DEF TypeOK, Place
<1> QED BY <1>4 DEF EngineHasSections, RulesInFront, StaysGenerated, OwnRulesKept, TypeOK, Place

LEMMA GenerateHostsKeeps == RefreshInv /\ GenerateHosts => RefreshInv'
<1> SUFFICES ASSUME RefreshInv, GenerateHosts PROVE RefreshInv' OBVIOUS
<1> USE DEF RefreshInv, GenerateHosts, Goto
<1>1. /\ next' \in [suffix : SuffixRules \cup {None}, hosts : Hosts, via : {0, 1, None}]
      /\ changes' \in 0 .. MaxChanges
  BY HostsRead
<1>2. TypeOK' BY <1>1 DEF TypeOK, Place
<1> QED BY <1>2 DEF EngineHasSections, RulesInFront, StaysGenerated, OwnRulesKept

LEMMA GenerateKeeps == RefreshInv /\ Generate => RefreshInv'
<1> SUFFICES ASSUME RefreshInv, Generate PROVE RefreshInv' OBVIOUS
<1> USE DEF RefreshInv, Generate, Goto
<1>1. next' \in Sections /\ changes' \in 0 .. MaxChanges BY RoutingRead
<1>2. file' \in Configs BY <1>1, GeneratedType
<1>3. next' \in [suffix : SuffixRules \cup {None}, hosts : Hosts, via : {0, 1, None}]
  BY <1>1 DEF Sections
<1>4. TypeOK' BY <1>1, <1>2, <1>3 DEF TypeOK, Place
<1> QED BY <1>4 DEF EngineHasSections, RulesInFront, StaysGenerated, OwnRulesKept

LEMMA GenerateFailsKeeps == RefreshInv /\ GenerateFails => RefreshInv'
<1> SUFFICES ASSUME RefreshInv, GenerateFails PROVE RefreshInv' OBVIOUS
<1> USE DEF RefreshInv, GenerateFails, Goto
<1>1. TypeOK' BY DEF TypeOK, Place, NotReady, Count
<1> QED BY <1>1 DEF EngineHasSections, RulesInFront, StaysGenerated, OwnRulesKept

LEMMA RenderKeeps == RefreshInv /\ Render => RefreshInv'
<1> SUFFICES ASSUME RefreshInv, Render PROVE RefreshInv' OBVIOUS
<1> USE DEF RefreshInv, Render, Goto
<1>1. next' \in Sections /\ changes' \in 0 .. MaxChanges BY RoutingRead
<1>2. next' \in [suffix : SuffixRules \cup {None}, hosts : Hosts, via : {0, 1, None}]
  BY <1>1 DEF Sections
<1>3. TypeOK' BY <1>1, <1>2 DEF TypeOK, Place
<1> QED BY <1>3 DEF EngineHasSections, RulesInFront, StaysGenerated, OwnRulesKept

LEMMA RenderFailsKeeps == RefreshInv /\ RenderFails => RefreshInv'
<1> SUFFICES ASSUME RefreshInv, RenderFails PROVE RefreshInv' OBVIOUS
<1> USE DEF RefreshInv, RenderFails, Goto
<1>1. current # NoSections => engine # None /\ current \in Sections
  BY DEF EngineHasSections, TypeOK
<1>2. TypeOK' BY <1>1 DEF TypeOK, Place, NotReady, Count, Fallback
<1> QED BY <1>2 DEF EngineHasSections, RulesInFront, StaysGenerated, OwnRulesKept, Fallback

LEMMA WriteKeeps == RefreshInv /\ Write => RefreshInv'
<1> SUFFICES ASSUME RefreshInv, Write PROVE RefreshInv' OBVIOUS
<1> USE DEF RefreshInv, Write, Goto
<1>1. next \in Sections /\ current \in Sections \cup {NoSections} /\ file \in Configs
  BY DEF TypeOK
<1>2. /\ next' \in [suffix : SuffixRules \cup {None}, hosts : Hosts, via : {0, 1, None}]
      /\ next' \in Sections /\ changes' \in 0 .. MaxChanges
  BY <1>1, HostsRead
<1>3. file' \in Configs /\ InFront(file'.rules, next') BY <1>1, <1>2, ReplacedType
<1>4. TypeOK' BY <1>2, <1>3 DEF TypeOK, Place
<1>5. EngineHasSections' /\ RulesInFront' BY <1>3 DEF EngineHasSections, RulesInFront
<1>6. StaysGenerated'
  <2> SUFFICES ASSUME managed, ~disturbed' PROVE file' = Generated(next')
    BY DEF StaysGenerated
  <2>1. CASE current = NoSections
    <3>1. file = Generated(next') BY <2>1
    <3> QED BY <1>2, <2>1, <3>1, ReplacedIsGenerated
  <2>2. CASE current # NoSections
    <3>1. current \in Sections /\ engine # None BY <1>1, <2>2 DEF EngineHasSections
    <3>2. file = Generated(current) BY <3>1 DEF StaysGenerated
    <3> QED BY <1>2, <3>1, <3>2, ReplacedIsGenerated
  <2> QED BY <2>1, <2>2
<1>7. OwnRulesKept'
  <2>1. file.rules \in Seq(Rules) BY <1>1 DEF Configs
  <2>2. file'.rules = InjectRules(RemoveRules(file.rules, current), next')
    BY DEF ReplaceSections
  <2>3. Own(InjectRules(RemoveRules(file.rules, current), next')) = Own(file.rules)
    BY <1>1, <1>2, <2>1, OwnUntouched
  <2>4. Own(file'.rules) = Own(file.rules) BY <2>2, <2>3
  <2> QED BY <2>4 DEF OwnRulesKept
<1> QED BY <1>4, <1>5, <1>6, <1>7

LEMMA ApplyKeeps == RefreshInv /\ Apply => RefreshInv'
<1> SUFFICES ASSUME RefreshInv, Apply PROVE RefreshInv' OBVIOUS
<1> USE DEF RefreshInv, Apply, Goto
<1>1. next \in Sections /\ file \in Configs /\ file # None /\ next # NoSections
  BY DEF TypeOK, Sections, NoSections
<1>2. TypeOK' BY <1>1 DEF TypeOK, Place
<1> QED BY <1>1, <1>2 DEF EngineHasSections, RulesInFront, StaysGenerated, OwnRulesKept

LEMMA ParseFailsKeeps == RefreshInv /\ ParseFails => RefreshInv'
<1> SUFFICES ASSUME RefreshInv, ParseFails PROVE RefreshInv' OBVIOUS
<1> USE DEF RefreshInv, ParseFails, Goto
<1>1. current # NoSections => engine # None /\ current \in Sections
  BY DEF EngineHasSections, TypeOK
<1>2. TypeOK' BY <1>1 DEF TypeOK, Place, Count, Fallback
<1> QED BY <1>2 DEF EngineHasSections, RulesInFront, StaysGenerated, OwnRulesKept, Fallback

LEMMA PollKeeps == RefreshInv /\ Poll => RefreshInv'
<1> SUFFICES ASSUME RefreshInv, Poll PROVE RefreshInv' OBVIOUS
<1> USE DEF RefreshInv, Poll, Goto
<1>1. next' \in Sections /\ changes' \in 0 .. MaxChanges BY RoutingRead
<1>2. next' \in [suffix : SuffixRules \cup {None}, hosts : Hosts, via : {0, 1, None}]
  BY <1>1 DEF Sections
<1>3. TypeOK' BY <1>1, <1>2 DEF TypeOK, Place
<1> QED BY <1>3 DEF EngineHasSections, RulesInFront, StaysGenerated, OwnRulesKept

LEMMA CompareKeeps == RefreshInv /\ Compare => RefreshInv'
<1> SUFFICES ASSUME RefreshInv, Compare PROVE RefreshInv' OBVIOUS
<1> USE DEF RefreshInv, Compare, Goto
<1>1. /\ next' \in [suffix : SuffixRules \cup {None}, hosts : Hosts, via : {0, 1, None}]
      /\ changes' \in 0 .. MaxChanges
  BY HostsRead
<1>2. TypeOK' BY <1>1 DEF TypeOK, Place
<1> QED BY <1>2 DEF EngineHasSections, RulesInFront, StaysGenerated, OwnRulesKept

LEMMA EndKeeps == RefreshInv /\ End => RefreshInv'
<1> SUFFICES ASSUME RefreshInv, End PROVE RefreshInv' OBVIOUS
<1> USE DEF RefreshInv, End, Goto
<1>1. TypeOK' BY DEF TypeOK, Place
<1> QED BY <1>1 DEF EngineHasSections, RulesInFront, StaysGenerated, OwnRulesKept

\* The invariant holds in every state of the specification.
THEOREM RefreshInvariant == Spec => []RefreshInv
<1>1. Init => RefreshInv BY InitKeeps
<1>2. RefreshInv /\ [Next]_vars => RefreshInv'
  <2> SUFFICES ASSUME RefreshInv, [Next]_vars PROVE RefreshInv' OBVIOUS
  <2>1. CASE SnapshotChanges BY <2>1, SnapshotKeeps
  <2>2. CASE Begin BY <2>2, BeginKeeps
  <2>3. CASE GenerateHosts BY <2>3, GenerateHostsKeeps
  <2>4. CASE Generate BY <2>4, GenerateKeeps
  <2>5. CASE GenerateFails BY <2>5, GenerateFailsKeeps
  <2>6. CASE Render BY <2>6, RenderKeeps
  <2>7. CASE RenderFails BY <2>7, RenderFailsKeeps
  <2>8. CASE Write BY <2>8, WriteKeeps
  <2>9. CASE Apply BY <2>9, ApplyKeeps
  <2>10. CASE ParseFails BY <2>10, ParseFailsKeeps
  <2>11. CASE Poll BY <2>11, PollKeeps
  <2>12. CASE Compare BY <2>12, CompareKeeps
  <2>13. CASE End BY <2>13, EndKeeps
  <2>14. CASE UNCHANGED vars
    BY <2>14 DEF vars, RefreshInv, TypeOK, EngineHasSections, RulesInFront, StaysGenerated,
                 OwnRulesKept
  <2> QED BY <2>1, <2>2, <2>3, <2>4, <2>5, <2>6, <2>7, <2>8, <2>9, <2>10, <2>11, <2>12,
             <2>13, <2>14 DEF Next, Watcher
<1> QED BY <1>1, <1>2, PTL DEF Spec

-----------------------------------------------------------------------------
(* The theorems.                                                           *)

\* The session's place, the sections and the configurations are what ensureEngineConfig,
\* replaceManagedTailscaleSections and the watcher make them, whatever the lists.
THEOREM RefreshTyped == Spec => []TypeOK
<1>1. RefreshInv => TypeOK BY DEF RefreshInv
<1> QED BY <1>1, RefreshInvariant, PTL

\* Whatever the number of names, suffixes and changes, refreshing a generated configuration
\* comes to the same as generating it again for the current sections.
THEOREM RefreshRegenerates == Spec => []RefreshIsRegeneration
<1>1. RefreshInv => RefreshIsRegeneration
  BY DEF RefreshInv, StaysGenerated, RefreshIsRegeneration
<1> QED BY <1>1, RefreshInvariant, PTL

\* For any rules: replaceManagedTailscaleSections keeps a user's own rules and their order,
\* however often it runs, and the engine has the tailnet's rules first, each of them once.
THEOREM RulesInOrder == Spec => []RulesKeepTheirOrder
<1>1. RefreshInv => TailnetFirst
  <2> SUFFICES ASSUME RefreshInv, engine # None
               PROVE  /\ IsPrefix(ManagedRules(current), engine.rules)
                      /\ \A r \in ToSet(ManagedRules(current)) :
                           r \notin ToSet(SubSeq(engine.rules, 2 + Len(Fixed), Len(engine.rules)))
    BY DEF TailnetFirst
  <2>1. engine \in Configs /\ current \in Sections
    BY DEF RefreshInv, TypeOK, EngineHasSections
  <2>2. engine.rules \in Seq(Rules) /\ current.suffix \in SuffixRules
    BY <2>1 DEF Configs, Sections
  <2>3. InFront(engine.rules, current) BY DEF RefreshInv, RulesInFront
  <2> QED BY <2>2, <2>3, RulesFirst
<1>2. RefreshInv => OwnRulesKept BY DEF RefreshInv
<1>3. RefreshInv => RulesKeepTheirOrder BY <1>1, <1>2 DEF RulesKeepTheirOrder
<1> QED BY <1>3, RefreshInvariant, PTL
=============================================================================
