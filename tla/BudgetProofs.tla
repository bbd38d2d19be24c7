---------------------------- MODULE BudgetProofs ----------------------------
(***************************************************************************)
(* What the budget's verdict rests on: sums over finite sets of requests,  *)
(* and what fits beside what.  The community modules sum by a recursive    *)
(* function; the equations of that function are proved here from the       *)
(* smallest set that would break them.  Queues need one more lemma: what   *)
(* is left of a sequence without one of its elements.                      *)
(***************************************************************************)
EXTENDS MachineBudget, FiniteSetTheorems, SequenceTheorems, WellFoundedInduction, TLAPS

\* Any set of naturals has a least element: this is what the sums are induced on.
LEMMA LeastNat ==
  ASSUME NEW T \in SUBSET Nat, T # {}
  PROVE  \E n \in T : \A m \in T : n <= m
<1> DEFINE R == OpToRel(<, Nat)
<1>1. IsWellFoundedOn(R, Nat)
  BY NatLessThanWellFounded
<1>2. \A m, n \in Nat : m < n => <<m, n>> \in R
  BY DEF OpToRel
<1> HIDE DEF R
<1>3. PICK n \in T : \A m \in T : ~(<<m, n>> \in R)
  BY <1>1, WFMin
<1>4. \A m \in T : ~(m < n)
  BY <1>2, <1>3
<1>. QED  BY <1>4

-----------------------------------------------------------------------------
(* Sums over finite sets.                                                    *)

Sum(w, S) == SumFunctionOnSet(w, S)
Pick(S) == CHOOSE x \in S : TRUE

\* The function the community modules sum with: g[s] is the sum over s.
SumsBelow(w, S, g) ==
  g = [s \in SUBSET S |-> IF s = {} THEN 0 ELSE w[Pick(s)] + g[s \ {Pick(s)}]]

\* A set of finite sets, if not empty, has a smallest.
LEMMA SmallestSet ==
  ASSUME NEW F, F # {}, \A s \in F : IsFiniteSet(s)
  PROVE  \E s \in F : \A t \in F : Cardinality(s) <= Cardinality(t)
<1> DEFINE N == {Cardinality(s) : s \in F}
<1>1. N \in SUBSET Nat /\ N # {}
  BY FS_CardinalityType
<1>2. PICK n \in N : \A m \in N : n <= m
  BY <1>1, LeastNat
<1>. QED  BY <1>2

LEMMA Smaller ==
  ASSUME NEW S, IsFiniteSet(S), NEW x \in S
  PROVE  /\ IsFiniteSet(S \ {x}) /\ Cardinality(S) \in Nat
         /\ Cardinality(S \ {x}) = Cardinality(S) - 1
  BY FS_RemoveElement, FS_CardinalityType

LEMMA Picks == ASSUME NEW S, S # {} PROVE Pick(S) \in S
  BY DEF Pick

\* Two such functions agree on the sets both have.
LEMMA SumsAgree ==
  ASSUME NEW w, NEW S, NEW T, NEW g, NEW h, SumsBelow(w, S, g), SumsBelow(w, T, h),
         NEW U, U \subseteq S, U \subseteq T, IsFiniteSet(U)
  PROVE  g[U] = h[U]
<1> DEFINE F == {s \in SUBSET U : g[s] # h[s]}
<1>1. SUFFICES ASSUME F # {} PROVE FALSE
  OBVIOUS
<1>2. \A s \in F : IsFiniteSet(s)
  BY FS_Subset
<1>3. PICK s \in F : \A t \in F : Cardinality(s) <= Cardinality(t)
  BY <1>1, <1>2, SmallestSet
<1>4. s # {}
  BY DEF SumsBelow
<1> DEFINE t == s \ {Pick(s)}
<1>5. t \in SUBSET U /\ t \in SUBSET S /\ t \in SUBSET T /\ Cardinality(t) < Cardinality(s)
  BY <1>2, <1>4, Picks, Smaller
<1>5a. Cardinality(t) \in Nat /\ Cardinality(s) \in Nat
  BY <1>2, <1>5, FS_Subset, FS_CardinalityType
<1>6. g[t] = h[t]
  BY <1>3, <1>5, <1>5a
<1>7. g[s] = w[Pick(s)] + g[t] /\ h[s] = w[Pick(s)] + h[t]
  BY <1>4 DEF SumsBelow
<1>. QED  BY <1>6, <1>7

LEMMA SumsExist == ASSUME NEW w, NEW S, IsFiniteSet(S) PROVE \E g : SumsBelow(w, S, g)
<1> DEFINE F == {s \in SUBSET S : ~\E g : SumsBelow(w, s, g)}
<1>1. SUFFICES ASSUME F # {} PROVE FALSE
  OBVIOUS
<1>2. \A s \in F : IsFiniteSet(s)
  BY FS_Subset
<1>3. PICK T \in F : \A t \in F : Cardinality(T) <= Cardinality(t)
  BY <1>1, <1>2, SmallestSet
<1> DEFINE G(s) == CHOOSE g : SumsBelow(w, s, g)
<1>4. ASSUME NEW s, s \in SUBSET T, s # T PROVE SumsBelow(w, s, G(s)) /\ IsFiniteSet(s)
  <2>1. IsFiniteSet(T) /\ T \in SUBSET S
    BY <1>2
  <2>2. IsFiniteSet(s) /\ Cardinality(s) <= Cardinality(T) /\ Cardinality(s) # Cardinality(T)
    BY <1>4, <2>1, FS_Subset
  <2>3. Cardinality(s) \in Nat /\ Cardinality(T) \in Nat
    BY <2>1, <2>2, FS_CardinalityType
  <2>4. s \notin F
    BY <1>3, <2>2, <2>3
  <2>5. \E g : SumsBelow(w, s, g)
    BY <1>4, <2>1, <2>4
  <2>. QED  BY <2>2, <2>5
<1> DEFINE h == [s \in SUBSET T |->
                   IF s = {} THEN 0 ELSE w[Pick(s)] + G(s \ {Pick(s)})[s \ {Pick(s)}]]
<1> HIDE DEF G
<1>5. ASSUME NEW s \in SUBSET T, s # T PROVE h[s] = G(s)[s]
  <2>1. CASE s = {}
    BY <1>4, <1>5, <2>1 DEF SumsBelow
  <2>2. CASE s # {}
    <3> DEFINE u == s \ {Pick(s)}
    <3>1. u \in SUBSET T /\ u # T /\ u \in SUBSET s
      BY <1>5
    <3>2. G(s)[s] = w[Pick(s)] + G(s)[u]
      <4>1. SumsBelow(w, s, G(s))
        BY <1>4, <1>5
      <4>2. s \in SUBSET s
        OBVIOUS
      <4>. QED  BY <2>2, <4>1, <4>2 DEF SumsBelow
    <3>3. SumsBelow(w, s, G(s)) /\ SumsBelow(w, u, G(u)) /\ IsFiniteSet(u)
      BY <1>4, <1>5, <3>1
    <3>4. G(s)[u] = G(u)[u]
      BY <3>1, <3>3, SumsAgree
    <3>. QED  BY <2>2, <3>2, <3>4
  <2>. QED  BY <2>1, <2>2
<1>6. ASSUME NEW s \in SUBSET T, s # {}
      PROVE  G(s \ {Pick(s)})[s \ {Pick(s)}] = h[s \ {Pick(s)}]
  <2>1. s \ {Pick(s)} \in SUBSET T /\ s \ {Pick(s)} # T
    BY <1>6, Picks
  <2>. QED  BY <1>5, <2>1
<1>7. SumsBelow(w, T, h)
  BY <1>6 DEF SumsBelow
<1>. QED  BY <1>7

\* The sum over a finite set takes one of its elements after the other.
LEMMA SumEquation ==
  ASSUME NEW w, NEW S, IsFiniteSet(S)
  PROVE  Sum(w, S) = IF S = {} THEN 0 ELSE w[Pick(S)] + Sum(w, S \ {Pick(S)})
<1> DEFINE it(T) == CHOOSE g : SumsBelow(w, T, g)
<1>1. ASSUME NEW T PROVE Sum(w, T) = it(T)[T]
  BY DEF Sum, SumFunctionOnSet, FoldFunctionOnSet, MapThenFoldSet, SumsBelow, Pick
<1>2. ASSUME NEW T, IsFiniteSet(T) PROVE SumsBelow(w, T, it(T))
  BY <1>2, SumsExist
<1> HIDE DEF it
<1>3. CASE S = {}
  <2>1. it(S)[S] = 0 BY <1>2, <1>3 DEF SumsBelow
  <2>. QED BY <1>1, <1>3, <2>1
<1>4. CASE S # {}
  <2> DEFINE T == S \ {Pick(S)}
  <2>1. IsFiniteSet(T) /\ T \subseteq S
    BY FS_Subset
  <2>2. it(S)[S] = w[Pick(S)] + it(S)[T]
    BY <1>2, <1>4 DEF SumsBelow
  <2>3. it(S)[T] = it(T)[T]
    BY <1>2, <2>1, SumsAgree
  <2>. QED  BY <1>1, <1>4, <2>2, <2>3
<1>. QED  BY <1>3, <1>4

LEMMA SumEmpty == ASSUME NEW w PROVE Sum(w, {}) = 0
  BY SumEquation, FS_EmptySet

LEMMA SumNat ==
  ASSUME NEW D, NEW w \in [D -> Nat], NEW S \in SUBSET D, IsFiniteSet(S)
  PROVE  Sum(w, S) \in Nat
<1> DEFINE F == {s \in SUBSET S : Sum(w, s) \notin Nat}
<1>1. SUFFICES ASSUME F # {} PROVE FALSE
  OBVIOUS
<1>2. \A s \in F : IsFiniteSet(s)
  BY FS_Subset
<1>3. PICK s \in F : \A t \in F : Cardinality(s) <= Cardinality(t)
  BY <1>1, <1>2, SmallestSet
<1>4. s # {}
  BY SumEmpty
<1> DEFINE t == s \ {Pick(s)}
<1>5. /\ Pick(s) \in s /\ t \in SUBSET S /\ IsFiniteSet(s)
      /\ Cardinality(t) = Cardinality(s) - 1 /\ Cardinality(s) \in Nat
  BY <1>2, <1>4, Picks, Smaller
<1>6. Sum(w, t) \in Nat
  BY <1>3, <1>5
<1>7. Sum(w, s) = w[Pick(s)] + Sum(w, t)
  BY <1>4, <1>5, SumEquation
<1>. QED  BY <1>5, <1>6, <1>7

\* Any element may be taken out of a sum.
LEMMA SumWithout ==
  ASSUME NEW D, NEW w \in [D -> Nat], NEW S \in SUBSET D, IsFiniteSet(S), NEW x \in S
  PROVE  Sum(w, S) = w[x] + Sum(w, S \ {x})
<1> DEFINE Out(s) == \A y \in s : Sum(w, s) = w[y] + Sum(w, s \ {y})
           F == {s \in SUBSET S : ~Out(s)}
<1>1. SUFFICES ASSUME F # {} PROVE FALSE
  OBVIOUS
<1>2. \A s \in SUBSET S : IsFiniteSet(s) /\ Sum(w, s) \in Nat
  BY FS_Subset, SumNat
<1>3. PICK s \in F : \A t \in F : Cardinality(s) <= Cardinality(t)
  BY <1>1, <1>2, SmallestSet
<1>4. PICK y \in s : Sum(w, s) # w[y] + Sum(w, s \ {y})
  OBVIOUS
<1>5. ASSUME NEW z \in s PROVE Out(s \ {z})
  <2>1. s \ {z} \in SUBSET S /\ IsFiniteSet(s)
    BY <1>2
  <2>2. Cardinality(s \ {z}) = Cardinality(s) - 1 /\ Cardinality(s) \in Nat
    BY <1>5, <2>1, Smaller
  <2>3. s \ {z} \notin F
    BY <1>3, <2>2
  <2>. QED  BY <2>1, <2>3
<1> DEFINE z == Pick(s)
<1>6. z \in s /\ Sum(w, s) = w[z] + Sum(w, s \ {z})
  BY <1>2, <1>4, Picks, SumEquation
<1> HIDE DEF z, F
<1>7. z # y
  BY <1>4, <1>6
<1>8. Sum(w, s \ {z}) = w[y] + Sum(w, (s \ {z}) \ {y})
  BY <1>4, <1>5, <1>6, <1>7
<1>9. Sum(w, s \ {y}) = w[z] + Sum(w, (s \ {y}) \ {z})
  BY <1>4, <1>5, <1>6, <1>7
<1>10. (s \ {y}) \ {z} = (s \ {z}) \ {y}
  OBVIOUS
<1>11. s \in SUBSET S /\ (s \ {z}) \ {y} \in SUBSET S
  BY <1>3 DEF F
<1>12. w[y] \in Nat /\ w[z] \in Nat /\ Sum(w, (s \ {z}) \ {y}) \in Nat
  BY <1>2, <1>6, <1>11
<1>13. Sum(w, s) = w[y] + Sum(w, s \ {y})
  <2> DEFINE rest == Sum(w, (s \ {z}) \ {y})
  <2>1. Sum(w, s) = w[z] + (w[y] + rest)
    BY <1>6, <1>8
  <2>2. Sum(w, s \ {y}) = w[z] + rest
    BY <1>9, <1>10
  <2> HIDE DEF rest
  <2>3. w[z] + (w[y] + rest) = w[y] + (w[z] + rest)
    BY <1>12 DEF rest
  <2>. QED  BY <2>1, <2>2, <2>3
<1>. QED  BY <1>4, <1>13

LEMMA SumMonotone ==
  ASSUME NEW D, NEW w \in [D -> Nat], NEW S \in SUBSET D, IsFiniteSet(S), NEW T \in SUBSET S
  PROVE  Sum(w, T) <= Sum(w, S)
<1> DEFINE F == {s \in SUBSET S : T \subseteq s /\ ~(Sum(w, T) <= Sum(w, s))}
<1>1. SUFFICES ASSUME F # {} PROVE FALSE
  OBVIOUS
<1>2. \A s \in SUBSET S : IsFiniteSet(s) /\ Sum(w, s) \in Nat
  BY FS_Subset, SumNat
<1>3. PICK s \in F : \A t \in F : Cardinality(s) <= Cardinality(t)
  BY <1>1, <1>2, SmallestSet
<1>4. PICK x \in s : x \notin T
  BY <1>2, <1>3
<1>5. /\ s \ {x} \in SUBSET S /\ T \subseteq s \ {x} /\ IsFiniteSet(s)
      /\ Cardinality(s \ {x}) = Cardinality(s) - 1 /\ Cardinality(s) \in Nat
  BY <1>2, <1>3, <1>4, Smaller
<1>6. Sum(w, T) <= Sum(w, s \ {x})
  BY <1>3, <1>5
<1>7. Sum(w, s) = w[x] + Sum(w, s \ {x})
  BY <1>4, <1>5, SumWithout
<1>8. w[x] \in Nat /\ Sum(w, s \ {x}) \in Nat /\ Sum(w, T) \in Nat
  BY <1>2, <1>5
<1>. QED  BY <1>3, <1>6, <1>7, <1>8

-----------------------------------------------------------------------------
(* Sums of claims.                                                           *)

\* The claims of S stay within the budget on both axes.
Fits(S) ==
  /\ BudgetSlots > 0 => SumSlots(S) <= BudgetSlots
  /\ BudgetMB > 0    => SumMB(S) <= BudgetMB

LEMMA ClaimSums ==
  ASSUME NEW S \in SUBSET Request
  PROVE  /\ IsFiniteSet(S)
         /\ SumSlots(S) \in Nat /\ SumMB(S) \in Nat
         /\ \A T \in SUBSET S : SumSlots(T) <= SumSlots(S) /\ SumMB(T) <= SumMB(S)
         /\ \A r \in S : /\ SumSlots(S) = SlotsOf(r) + SumSlots(S \ {r})
                         /\ SumMB(S) = Claim[r].mb + SumMB(S \ {r})
<1> DEFINE slots == [r \in Request |-> SlotsOf(r)]
           mb    == [r \in Request |-> Claim[r].mb]
<1>1. slots \in [Request -> Nat] /\ mb \in [Request -> Nat]
  BY BudgetAssumption DEF ClaimType, SlotsOf
<1>2. IsFiniteSet(S)
  BY BudgetAssumption, FS_Subset
<1>3. \A T : SumSlots(T) = Sum(slots, T) /\ SumMB(T) = Sum(mb, T)
  BY DEF SumSlots, SumMB, Sum
<1>4. \A r \in S : slots[r] = SlotsOf(r) /\ mb[r] = Claim[r].mb
  OBVIOUS
<1> HIDE DEF slots, mb
<1>5. Sum(slots, S) \in Nat /\ Sum(mb, S) \in Nat
  BY <1>1, <1>2, SumNat
<1>6. \A T \in SUBSET S : Sum(slots, T) <= Sum(slots, S) /\ Sum(mb, T) <= Sum(mb, S)
  BY <1>1, <1>2, SumMonotone
<1>7. \A r \in S : /\ Sum(slots, S) = slots[r] + Sum(slots, S \ {r})
                  /\ Sum(mb, S) = mb[r] + Sum(mb, S \ {r})
  BY <1>1, <1>2, SumWithout
<1>. QED  BY <1>2, <1>3, <1>4, <1>5, <1>6, <1>7

\* What fits still fits with less beside it.
LEMMA FewerFit ==
  ASSUME NEW S \in SUBSET Request, NEW T \in SUBSET S
  PROVE  /\ Fits(S) => Fits(T)
         /\ \A r \in Request : FitsBeside(r, S) => FitsBeside(r, T)
<1>1. T \in SUBSET Request /\ SumSlots(T) <= SumSlots(S) /\ SumMB(T) <= SumMB(S)
  BY ClaimSums
<1>2. /\ SumSlots(T) \in Nat /\ SumMB(T) \in Nat /\ SumSlots(S) \in Nat /\ SumMB(S) \in Nat
      /\ BudgetSlots \in Int /\ BudgetMB \in Int
  BY <1>1, ClaimSums, BudgetAssumption
<1>3. \A r \in Request : SlotsOf(r) \in Nat /\ Claim[r].mb \in Nat
  BY BudgetAssumption DEF ClaimType, SlotsOf
<1>. QED  BY <1>1, <1>2, <1>3 DEF Fits, FitsBeside

\* A request fits beside others exactly if they fit together.
LEMMA FitsTogether ==
  ASSUME NEW S \in SUBSET Request, NEW r \in S
  PROVE  Fits(S) <=> FitsBeside(r, S \ {r})
<1>1. /\ SumSlots(S) = SlotsOf(r) + SumSlots(S \ {r})
      /\ SumMB(S) = Claim[r].mb + SumMB(S \ {r})
  BY ClaimSums
<1>2. SumSlots(S \ {r}) \in Nat /\ SumMB(S \ {r}) \in Nat
  BY ClaimSums
<1>3. SlotsOf(r) \in Nat /\ Claim[r].mb \in Nat
  BY BudgetAssumption DEF ClaimType, SlotsOf
<1>. QED  BY <1>1, <1>2, <1>3 DEF Fits, FitsBeside

\* No two of S run one underneath the other.
Unrelated(S) == \A q, r \in S : Claim[q].invocation \notin AncestorsOf(r)

\* Whoever a verdict seated because it fits, fits with any of those it was not
\* underneath.
LEMMA FitsWithOthers ==
  ASSUME NEW r \in Request, NEW held \in SUBSET Request, FitsHeld(r, held),
         NEW S \in SUBSET (held \cup {r}),
         \A q \in S \ {r} : Claim[q].invocation \notin AncestorsOf(r)
  PROVE  Fits(S \cup {r})
<1> DEFINE others == (S \cup {r}) \ {r}
<1>1. others \subseteq held \ Excused(r, held)
  BY DEF Excused
<1>2. FitsBeside(r, others)
  BY <1>1, FewerFit DEF FitsHeld
<1>. QED  BY <1>2, FitsTogether

-----------------------------------------------------------------------------
(* A sequence without its n-th element.                                      *)

LEMMA RemoveProperties ==
  ASSUME NEW S, NEW q \in Seq(S), NEW n \in 1..Len(q)
  PROVE  /\ RemoveAt(q, n) \in Seq(S)
         /\ Len(RemoveAt(q, n)) = Len(q) - 1
         /\ \A i \in 1..(Len(q) - 1) :
              RemoveAt(q, n)[i] = IF i < n THEN q[i] ELSE q[i + 1]
<1> DEFINE front == SubSeq(q, 1, n - 1)
           back  == SubSeq(q, n + 1, Len(q))
<1>1. Len(q) \in Nat /\ \A i \in 1..Len(q) : q[i] \in S
  BY LenProperties, ElementOfSeq
<1>2. /\ front \in Seq(S)
      /\ Len(front) = n - 1
      /\ \A i \in 1..(n - 1) : front[i] = q[i]
  <2>1. \A i \in 1..(n - 1) : q[i] \in S
    BY <1>1
  <2>. QED  BY <1>1, <2>1, SubSeqProperties
<1>3. /\ back \in Seq(S)
      /\ Len(back) = Len(q) - n
      /\ \A i \in 1..(Len(q) - n) : back[i] = q[n + i]
  <2>1. \A i \in (n + 1)..Len(q) : q[i] \in S
    BY <1>1
  <2>. QED  BY <1>1, <2>1, SubSeqProperties
<1> HIDE DEF front, back
<1>4. RemoveAt(q, n) = front \o back
  BY DEF RemoveAt, front, back
<1>5. Len(front) + Len(back) = Len(q) - 1
  BY <1>1, <1>2, <1>3
<1>6. /\ front \o back \in Seq(S)
      /\ Len(front \o back) = Len(front) + Len(back)
      /\ \A i \in 1..(Len(front) + Len(back)) :
           (front \o back)[i] = IF i <= Len(front) THEN front[i] ELSE back[i - Len(front)]
  BY <1>2, <1>3, ConcatProperties
<1>. QED  BY <1>1, <1>2, <1>3, <1>4, <1>5, <1>6
=============================================================================
