------------------------ MODULE ReferenceLists_proofs ------------------------
(***************************************************************************)
(* What Without returns, for every list: a list over the same values,     *)
(* none of them x, and without repeats when s has none.  The proofs       *)
(* unfold the recursive function of Without and argue by induction over   *)
(* the prefix length, stated for a set of counterexamples (NatSet-        *)
(* Induction) so that no operator has to be instantiated.                 *)
(***************************************************************************)
EXTENDS ReferenceLists, Functions, SequenceTheorems, WellFoundedInduction,
        TLAPS

(* One iteration of the recursive function of Without.                    *)
FilterStep(s, x, g, i) == IF s[i] # x THEN Append(g, s[i]) ELSE g

(* The recursive function of Without, as the prover reads it: a CHOOSE. *)
FilterFcn(s, x) ==
  CHOOSE f : f = [i \in 0..Len(s) |->
                   IF i = 0 THEN <<>>
                   ELSE IF s[i] # x THEN Append(f[i - 1], s[i]) ELSE f[i - 1]]

(* Without is the last value of that function.                          *)
LEMMA WithoutIsFcn == \A s, x : Without(s, x) = FilterFcn(s, x)[Len(s)]
  BY DEF Without, FilterFcn

(* The order < of the naturals as a relation, for WFMin.                 *)
NatLess == {ss \in Nat \X Nat : ss[1] < ss[2]}

(* < is well-founded on Nat (NatLessThanWellFounded, unfolded).          *)
LEMMA NatLessWF == IsWellFoundedOn(NatLess, Nat)
  BY NatLessThanWellFounded, Zenon DEF OpToRel, NatLess

(* Induction on 0..n, for a set T of counterexamples: if 0 is not one    *)
(* and a counterexample k always has one at k - 1, there is none.  Its   *)
(* least element would contradict the step.                              *)
LEMMA NatSetInduction ==
  ASSUME NEW n \in Nat, NEW T \in SUBSET (0..n), 0 \notin T,
         \A k \in 1..n : k - 1 \notin T => k \notin T
  PROVE  T = {}
<1> SUFFICES ASSUME T # {} PROVE FALSE
  OBVIOUS
<1>0. T \subseteq Nat
  OBVIOUS
<1>1. PICK m \in T : \A y \in T : ~(<<y, m>> \in NatLess)
  BY <1>0, NatLessWF, WFMin, Zenon
<1>2. m \in 1..n /\ m - 1 \in Nat
  OBVIOUS
<1>3. <<m - 1, m>> \in NatLess
  BY <1>2 DEF NatLess
<1>4. m - 1 \notin T
  BY <1>1, <1>3, Zenon
<1>5. QED
  BY <1>2, <1>4

(* g agrees with the recursion of Without on 0..k.                       *)
PartialFilter(s, x, S, g, k) ==
  /\ g \in [0..k -> Seq(S)]
  /\ g[0] = <<>>
  /\ \A i \in 1..k : g[i] = FilterStep(s, x, g[i - 1], i)

(* An iteration keeps a list over S.                                      *)
LEMMA StepType ==
  ASSUME NEW S, NEW s \in Seq(S), NEW x, NEW g \in Seq(S), NEW i \in 1..Len(s)
  PROVE  FilterStep(s, x, g, i) \in Seq(S)
  BY DEF FilterStep

(* For every k up to Len(s) a function agreeing with the recursion on    *)
(* 0..k exists: extend the one for k - 1 by one iteration.               *)
LEMMA PartialExists ==
  ASSUME NEW S, NEW s \in Seq(S), NEW x
  PROVE  \A k \in 0..Len(s) : \E g : PartialFilter(s, x, S, g, k)
<1> DEFINE T == {k \in 0..Len(s) : ~\E g : PartialFilter(s, x, S, g, k)}
<1>1. 0 \notin T
  <2> DEFINE g0 == [i \in 0..0 |-> <<>>]
  <2>1. PartialFilter(s, x, S, g0, 0)
    BY DEF PartialFilter
  <2>2. QED
    BY <2>1
<1>2. ASSUME NEW k \in 1..Len(s), k - 1 \notin T PROVE k \notin T
  <2>1. PICK g : PartialFilter(s, x, S, g, k - 1)
    BY <1>2
  <2> DEFINE h == [i \in 0..k |-> IF i < k THEN g[i] ELSE FilterStep(s, x, g[k - 1], k)]
  <2>2. FilterStep(s, x, g[k - 1], k) \in Seq(S)
    BY <2>1, StepType DEF PartialFilter
  <2>3. h \in [0..k -> Seq(S)]
    BY <2>1, <2>2 DEF PartialFilter
  <2>4. \A i \in 1..k : h[i] = FilterStep(s, x, h[i - 1], i)
    BY <2>1 DEF PartialFilter
  <2>5. h[0] = <<>>
    BY <2>1 DEF PartialFilter
  <2>6. PartialFilter(s, x, S, h, k)
    BY <2>3, <2>4, <2>5 DEF PartialFilter
  <2>7. QED
    BY <2>6
<1>3. Len(s) \in Nat /\ T \in SUBSET (0..Len(s))
  OBVIOUS
<1>4. T = {}
  BY <1>1, <1>2, <1>3, NatSetInduction
<1>5. QED
  BY <1>4

(* The recursive function of Without satisfies its defining equation,   *)
(* so the CHOOSE of FilterFcn picks a function that does.                *)
LEMMA FilterFcnDef ==
  ASSUME NEW S, NEW s \in Seq(S), NEW x
  PROVE  FilterFcn(s, x) =
           [i \in 0..Len(s) |->
              IF i = 0 THEN <<>>
              ELSE IF s[i] # x THEN Append(FilterFcn(s, x)[i - 1], s[i])
                   ELSE FilterFcn(s, x)[i - 1]]
<1>0. Len(s) \in 0..Len(s)
  OBVIOUS
<1>1. PICK g : PartialFilter(s, x, S, g, Len(s))
  BY <1>0, PartialExists
<1>2. g = [i \in 0..Len(s) |->
             IF i = 0 THEN <<>>
             ELSE IF s[i] # x THEN Append(g[i - 1], s[i]) ELSE g[i - 1]]
  <2>1. g \in [0..Len(s) -> Seq(S)]
    BY <1>1 DEF PartialFilter
  <2>2. \A i \in 0..Len(s) :
          g[i] = IF i = 0 THEN <<>>
                 ELSE IF s[i] # x THEN Append(g[i - 1], s[i]) ELSE g[i - 1]
    <3> SUFFICES ASSUME NEW i \in 0..Len(s)
                 PROVE  g[i] = IF i = 0 THEN <<>>
                               ELSE IF s[i] # x THEN Append(g[i - 1], s[i])
                                    ELSE g[i - 1]
      OBVIOUS
    <3>1. CASE i = 0
      BY <1>1, <3>1 DEF PartialFilter
    <3>2. CASE i \in 1..Len(s)
      <4>1. g[i] = FilterStep(s, x, g[i - 1], i)
        BY <1>1, <3>2 DEF PartialFilter
      <4>2. QED
        BY <3>2, <4>1 DEF FilterStep
    <3>3. QED
      BY <3>1, <3>2
  <2>3. QED
    BY <2>1, <2>2
<1>3. \E f : f = [i \in 0..Len(s) |->
                    IF i = 0 THEN <<>>
                    ELSE IF s[i] # x THEN Append(f[i - 1], s[i]) ELSE f[i - 1]]
  BY <1>2
<1>4. QED
  BY <1>3, Zenon DEF FilterFcn

(* Appending v adds v to the values of a list.                           *)
LEMMA RangeAppend ==
  ASSUME NEW S, NEW g \in Seq(S), NEW v \in S
  PROVE  Range(Append(g, v)) = Range(g) \cup {v}
<1>1. /\ DOMAIN Append(g, v) = 1..(Len(g) + 1)
      /\ \A i \in 1..Len(g) : Append(g, v)[i] = g[i]
      /\ Append(g, v)[Len(g) + 1] = v
      /\ DOMAIN g = 1..Len(g)
  BY AppendProperties
<1>2. QED
  BY <1>1 DEF Range

(* Appending a value not yet in a list without repeats keeps it so.       *)
LEMMA AppendKeepsInjective ==
  ASSUME NEW S, NEW g \in Seq(S), NEW v \in S, IsInjective(g), v \notin Range(g)
  PROVE  IsInjective(Append(g, v))
<1>1. /\ DOMAIN Append(g, v) = 1..(Len(g) + 1)
      /\ \A i \in 1..Len(g) : Append(g, v)[i] = g[i]
      /\ Append(g, v)[Len(g) + 1] = v
      /\ DOMAIN g = 1..Len(g)
  BY AppendProperties
<1>2. \A i \in 1..Len(g) : g[i] # v
  BY <1>1 DEF Range
<1>3. SUFFICES ASSUME NEW a \in 1..(Len(g) + 1), NEW b \in 1..(Len(g) + 1),
                      Append(g, v)[a] = Append(g, v)[b]
               PROVE  a = b
  BY <1>1, Zenon DEF IsInjective
<1>4. CASE a \in 1..Len(g) /\ b \in 1..Len(g)
  BY <1>1, <1>3, <1>4 DEF IsInjective
<1>5. CASE a = Len(g) + 1 \/ b = Len(g) + 1
  BY <1>1, <1>2, <1>3, <1>5
<1>6. QED
  BY <1>4, <1>5

(* What the first k iterations have built: a list over S of values of    *)
(* s[1..k] other than x, without repeats when s has none.                 *)
FilterGood(s, x, S, f, k) ==
  /\ f[k] \in Seq(S)
  /\ Range(f[k]) \subseteq {s[j] : j \in 1..k} \ {x}
  /\ IsInjective(s) => IsInjective(f[k])

(* Every function that follows the recursion has FilterGood at Len(s).    *)
LEMMA FilterInduction ==
  ASSUME NEW S, NEW s \in Seq(S), NEW x, NEW f,
         f[0] = <<>>,
         \A i \in 1..Len(s) : f[i] = FilterStep(s, x, f[i - 1], i)
  PROVE  FilterGood(s, x, S, f, Len(s))
<1> DEFINE T == {k \in 0..Len(s) : ~FilterGood(s, x, S, f, k)}
<1>2. 0 \notin T
  <2>1. f[0] = <<>>
    OBVIOUS
  <2>2. f[0] \in Seq(S) /\ Range(f[0]) = {} /\ IsInjective(f[0])
    BY <2>1 DEF Range, IsInjective
  <2>3. QED
    BY <2>2 DEF FilterGood
<1>3. ASSUME NEW k \in 1..Len(s), k - 1 \notin T PROVE k \notin T
  <2>1. FilterGood(s, x, S, f, k - 1)
    BY <1>3
  <2>2. f[k] = IF s[k] # x THEN Append(f[k - 1], s[k]) ELSE f[k - 1]
    BY DEF FilterStep
  <2>3. {s[j] : j \in 1..(k - 1)} \subseteq {s[j] : j \in 1..k}
    OBVIOUS
  <2>4. CASE s[k] = x
    BY <2>1, <2>2, <2>3, <2>4 DEF FilterGood
  <2>5. CASE s[k] # x
    <3>1. f[k] = Append(f[k - 1], s[k]) /\ s[k] \in S /\ f[k - 1] \in Seq(S)
      BY <2>1, <2>2, <2>5 DEF FilterGood
    <3>2. f[k] \in Seq(S)
      BY <3>1
    <3>3. Range(f[k]) \subseteq {s[j] : j \in 1..k} \ {x}
      BY <2>1, <2>3, <2>5, <3>1, RangeAppend DEF FilterGood
    <3>4. ASSUME IsInjective(s) PROVE IsInjective(f[k])
      <4>1. s[k] \notin {s[j] : j \in 1..(k - 1)}
        BY <3>4 DEF IsInjective
      <4>2. IsInjective(f[k - 1]) /\ s[k] \notin Range(f[k - 1])
        BY <2>1, <3>4, <4>1 DEF FilterGood
      <4>3. IsInjective(Append(f[k - 1], s[k]))
        BY <3>1, <4>2, AppendKeepsInjective, Zenon
      <4>4. QED
        BY <3>1, <4>3
    <3>5. QED
      BY <3>2, <3>3, <3>4 DEF FilterGood
  <2>6. QED
    BY <2>4, <2>5
<1>4. T = {}
  <2>1. Len(s) \in Nat /\ T \in SUBSET (0..Len(s))
    OBVIOUS
  <2>2. QED
    BY <1>2, <1>3, <2>1, NatSetInduction
<1>5. QED
  BY <1>4

(* What Without returns: a list over S of values of s other than x, with  *)
(* no repeats when s has none.                                           *)
LEMMA WithoutProperties ==
  ASSUME NEW S, NEW s \in Seq(S), NEW x
  PROVE  /\ Without(s, x) \in Seq(S)
         /\ Range(Without(s, x)) \subseteq Range(s) \ {x}
         /\ IsInjective(s) => IsInjective(Without(s, x))
<1>0. /\ FilterFcn(s, x)[0] = <<>>
      /\ \A i \in 1..Len(s) :
           FilterFcn(s, x)[i] = FilterStep(s, x, FilterFcn(s, x)[i - 1], i)
  <2>1. FilterFcn(s, x)[0] = <<>>
    BY FilterFcnDef
  <2>2. ASSUME NEW i \in 1..Len(s)
        PROVE  FilterFcn(s, x)[i] = FilterStep(s, x, FilterFcn(s, x)[i - 1], i)
    <3>1. i \in 0..Len(s) /\ i # 0
      OBVIOUS
    <3> DEFINE F == FilterFcn(s, x)
               G == [j \in 0..Len(s) |->
                       IF j = 0 THEN <<>>
                       ELSE IF s[j] # x THEN Append(F[j - 1], s[j]) ELSE F[j - 1]]
    <3> SUFFICES F[i] = FilterStep(s, x, F[i - 1], i)
      OBVIOUS
    <3>2. F = G
      BY FilterFcnDef
    <3> HIDE DEF F
    <3>3. G[i] = IF s[i] # x THEN Append(F[i - 1], s[i]) ELSE F[i - 1]
      BY <3>1
    <3>4. QED
      BY <3>2, <3>3 DEF FilterStep
  <2>3. QED
    BY <2>1, <2>2
<1>1. FilterGood(s, x, S, FilterFcn(s, x), Len(s))
  BY <1>0, FilterInduction
<1>2. {s[j] : j \in 1..Len(s)} = Range(s)
  BY DEF Range
<1>3. QED
  BY <1>1, <1>2, WithoutIsFcn DEF FilterGood

(* Without of the empty list is empty: a deleted profile keeps no         *)
(* references when an image is deleted later.                             *)
LEMMA WithoutEmpty ==
  ASSUME NEW x
  PROVE  Without(<<>>, x) = <<>>
<1>1. Without(<<>>, x) \in Seq({})
  BY WithoutProperties, EmptySeq
<1>2. QED
  BY <1>1
=============================================================================
