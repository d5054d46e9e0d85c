------------------------------ MODULE Folding ------------------------------
(***************************************************************************)
(* What is true of any fold over a sequence.  Op is the operator that is   *)
(* folded and Good the invariant of the fold; both are given by the module *)
(* that instantiates this one, whose first argument, p, is whatever the    *)
(* two depend on besides.                                                  *)
(***************************************************************************)
EXTENDS Sequences, Folds, WellFoundedInduction

CONSTANTS
  Op(_, _, _),  \* of p, what the fold has so far, and the next item
  Good(_, _, _) \* of p, the number of items folded, and what the fold has

\* Max of FiniteSetsExt.
Largest(S) == CHOOSE x \in S : \A y \in S : x >= y

\* FoldLeft of SequencesExt, for the operator of p.  Neither module is extended: an instance
\* of this one would bring their definitions along, once for every operator that is folded.
Folded(p, base, s) ==
  MapThenFoldSet(LAMBDA item, x : Op(p, x, item), base, LAMBDA i : s[i], Largest, DOMAIN s)

\* What is true of zero and passes on is true up to any number.
LEMMA UpTo ==
  ASSUME NEW n \in Nat, NEW T, 0 \in T, \A k \in 1..n : k - 1 \in T => k \in T
  PROVE  \A k \in 0..n : k \in T
<1> DEFINE Not == {k \in Nat : k <= n /\ k \notin T}
<1>1. SUFFICES ASSUME Not # {}  PROVE FALSE
  OBVIOUS
<1>2. PICK k \in Not : \A j \in Not : ~(<<j, k>> \in OpToRel(<, Nat))
  BY <1>1, NatLessThanWellFounded, WFMin, Not \subseteq Nat
<1>3. k \in 1..n
  <2>1. k \in Nat /\ k <= n /\ k \notin T
    BY <1>2
  <2> QED  BY <2>1
<1>4. k - 1 \in Nat /\ k - 1 < k /\ k - 1 <= n
  BY <1>3
<1>5. k - 1 \notin Not
  BY <1>2, <1>4 DEF OpToRel
<1> QED  BY <1>2, <1>3, <1>4, <1>5

LEMMA LastOf ==
  ASSUME NEW k \in Nat, k # 0, NEW t \in SUBSET (1..k), k \in t
  PROVE  Largest(t) = k
<1>1. \A x \in t : x \in Nat /\ k >= x
  OBVIOUS
<1>2. \A x \in t : (\A y \in t : x >= y) => x = k
  BY <1>1
<1> QED  BY <1>1, <1>2 DEF Largest

\* f is the fold over any of the places of s.
OnPlaces(f, p, base, s, places) ==
  f = [t \in SUBSET places |-> IF t = {} THEN base ELSE Op(p, f[t \ {Largest(t)}], s[Largest(t)])]

LEMMA FoldExists ==
  ASSUME NEW p, NEW base, NEW C, NEW s \in Seq(C)
  PROVE  \E f : OnPlaces(f, p, base, s, 1..Len(s))
<1> DEFINE T == {k \in Nat : \E f : OnPlaces(f, p, base, s, 1..k)}
<1>1. 0 \in T
  <2>1. OnPlaces([t \in {{}} |-> base], p, base, s, 1..0)
    BY DEF OnPlaces
  <2> QED  BY <2>1
<1>2. ASSUME NEW k \in 1..Len(s), k - 1 \in T  PROVE k \in T
  <2>1. PICK f : OnPlaces(f, p, base, s, 1..(k - 1))
    BY <1>2
  <2> DEFINE g == [t \in SUBSET (1..k) |->
                     IF t = {} THEN base ELSE IF k \in t THEN Op(p, f[t \ {k}], s[k]) ELSE f[t]]
  <2>2. ASSUME NEW t \in SUBSET (1..k), k \notin t  PROVE t \in SUBSET (1..(k - 1)) /\ g[t] = f[t]
    <3>1. t \in SUBSET (1..(k - 1))
      BY <2>2
    <3>2. t = {} => f[t] = base
      BY <2>1, <3>1 DEF OnPlaces
    <3> QED  BY <2>2, <3>1, <3>2
  <2>3. ASSUME NEW t \in SUBSET (1..k), t # {}
        PROVE  g[t] = Op(p, g[t \ {Largest(t)}], s[Largest(t)])
    <3>1. CASE k \in t
      <4>1. Largest(t) = k /\ t \ {k} \in SUBSET (1..k) /\ k \notin t \ {k}
        BY <3>1, LastOf
      <4>2. g[t \ {k}] = f[t \ {k}]
        BY <4>1, <2>2
      <4> QED  BY <2>3, <3>1, <4>1, <4>2
    <3>2. CASE k \notin t
      <4>1. t \in SUBSET (1..(k - 1)) /\ g[t] = f[t]
        BY <2>2, <3>2
      <4>2. f[t] = Op(p, f[t \ {Largest(t)}], s[Largest(t)])
        BY <2>1, <2>3, <4>1 DEF OnPlaces
      <4>3. g[t \ {Largest(t)}] = f[t \ {Largest(t)}]
        BY <2>2, <3>2, t \ {Largest(t)} \in SUBSET (1..k)
      <4> QED  BY <4>1, <4>2, <4>3
    <3> QED  BY <3>1, <3>2
  <2>4. g[{}] = base
    OBVIOUS
  <2>5. OnPlaces(g, p, base, s, 1..k)
    <3> HIDE DEF g
    <3>1. g = [t \in SUBSET (1..k) |-> g[t]]
      BY DEF g
    <3> QED  BY <2>3, <2>4, <3>1 DEF OnPlaces
  <2> QED  BY <2>5
<1> HIDE DEF T
<1>3. Len(s) \in Nat
  OBVIOUS
<1>4. \A k \in 0..Len(s) : k \in T
  BY <1>1, <1>2, <1>3, UpTo
<1> QED  BY <1>3, <1>4 DEF T

\* r has what there is after each of the items.
Unfolds(r, p, base, s) ==
  /\ r[0] = base
  /\ \A k \in 1..Len(s) : r[k] = Op(p, r[k - 1], s[k])
  /\ Folded(p, base, s) = r[Len(s)]

LEMMA Unfolded ==
  ASSUME NEW p, NEW base, NEW C, NEW s \in Seq(C)
  PROVE  \E r : Unfolds(r, p, base, s)
<1> DEFINE f == CHOOSE f : OnPlaces(f, p, base, s, 1..Len(s))
           r == [k \in 0..Len(s) |-> f[1..k]]
<1>1. DOMAIN s = 1..Len(s) /\ Len(s) \in Nat
  OBVIOUS
<1>2. Folded(p, base, s) = f[1..Len(s)]
  BY <1>1 DEF Folded, MapThenFoldSet, OnPlaces
<1>3. OnPlaces(f, p, base, s, 1..Len(s))
  BY FoldExists
<1> HIDE DEF f
<1>4. f[{}] = base
  BY <1>3 DEF OnPlaces
<1>5. ASSUME NEW k \in 1..Len(s)  PROVE f[1..k] = Op(p, f[1..(k - 1)], s[k])
  <2>1. 1..k \in SUBSET (1..Len(s)) /\ 1..k # {} /\ Largest(1..k) = k
    BY <1>1, LastOf, k \in Nat, k # 0, k \in 1..k
  <2>2. (1..k) \ {k} = 1..(k - 1)
    BY <1>1
  <2> QED  BY <1>3, <2>1, <2>2 DEF OnPlaces
<1>6. r[0] = base /\ r[Len(s)] = f[1..Len(s)]
  BY <1>1, <1>4, 1..0 = {}
<1>7. \A k \in 1..Len(s) : r[k] = Op(p, r[k - 1], s[k])
  BY <1>1, <1>5
<1> QED  BY <1>2, <1>6, <1>7 DEF Unfolds

\* What holds at the start and is kept by each item holds at the end.
LEMMA Invariant ==
  ASSUME NEW p, NEW base, NEW C, NEW s \in Seq(C), Good(p, 0, base),
         \A k \in 1..Len(s) : \A x : Good(p, k - 1, x) => Good(p, k, Op(p, x, s[k]))
  PROVE  Good(p, Len(s), Folded(p, base, s))
<1>1. PICK r : Unfolds(r, p, base, s)
  BY Unfolded
<1> DEFINE T == {k \in Nat : Good(p, k, r[k])}
<1>2. Len(s) \in Nat
  OBVIOUS
<1>3. 0 \in T
  BY <1>1 DEF Unfolds
<1>4. ASSUME NEW k \in 1..Len(s), k - 1 \in T  PROVE k \in T
  BY <1>1, <1>4 DEF Unfolds
<1> HIDE DEF T
<1>5. Len(s) \in T
  BY <1>2, <1>3, <1>4, UpTo, Len(s) \in 0..Len(s)
<1> QED  BY <1>1, <1>5 DEF T, Unfolds
=============================================================================
