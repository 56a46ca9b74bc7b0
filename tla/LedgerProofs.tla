---------------------------- MODULE LedgerProofs ----------------------------
(***************************************************************************)
(* Store keeps the books of Ledger, and its two counters of a minute agree:*)
(* theorems for every set of names and every bound, where nobody deletes,  *)
(* one caller adds and no statement fails.  They rest on facts about sums  *)
(* of a column, which come first.                                          *)
(***************************************************************************)
EXTENDS StoreProofs, SequenceTheorems

(***************************************************************************)
(* Sums.  SumFunctionOnSet is a fold that takes the elements of a set in   *)
(* an order it chooses; over a finite set every order gives the same sum.  *)
(* Each lemma is proved by a counterexample of least cardinality.          *)
(***************************************************************************)
LEMMA LeastNumber ==
    ASSUME NEW T \in SUBSET Nat, T # {}
    PROVE  \E n \in T : \A m \in T : n <= m
<1> DEFINE R == {ss \in Nat \X Nat : ss[1] < ss[2]}
<1>1. IsWellFoundedOn(R, Nat)
  BY NatOrder
<1>2. \E n \in T : \A m \in T : ~ (<<m, n>> \in R)
  <2> HIDE DEF R
  <2> QED BY <1>1, WFMin
<1>3. PICK n \in T : \A m \in T : ~ (<<m, n>> \in R)
  BY <1>2
<1>4. ASSUME NEW m \in T PROVE n <= m
  <2>1. m \in Nat /\ n \in Nat /\ ~ (<<m, n>> \in R)
    BY <1>3
  <2>2. ~ (m < n)
    BY <2>1
  <2> QED BY <2>1, <2>2
<1> QED BY <1>4

\* One step of the fold over the subsets of S.
FoldStep(f, g, s) == IF s = {} THEN 0 ELSE LET x == CHOOSE y \in s : TRUE IN f[x] + g[s \ {x}]
Folds(f, g, S) == g = [s \in SUBSET S |-> FoldStep(f, g, s)]

LEMMA SumIsFold ==
    ASSUME NEW f, NEW S, \E g : Folds(f, g, S)
    PROVE  \E g : Folds(f, g, S) /\ SumFunctionOnSet(f, S) = g[S]
<1> DEFINE G == CHOOSE g : Folds(f, g, S)
<1>1. Folds(f, G, S)
  OBVIOUS
<1>2. SumFunctionOnSet(f, S) = G[S]
  BY DEF SumFunctionOnSet, FoldFunctionOnSet, MapThenFoldSet, Folds, FoldStep
<1> HIDE DEF G
<1> QED BY <1>1, <1>2

LEMMA SmallerSubset ==
    ASSUME NEW S, IsFiniteSet(S), NEW s \in SUBSET S
    PROVE  /\ IsFiniteSet(s) /\ Cardinality(s) \in Nat /\ Cardinality(s) <= Cardinality(S)
           /\ s # {} => Cardinality(s) > 0
           /\ \A x \in s : s \ {x} \in SUBSET S /\ Cardinality(s \ {x}) = Cardinality(s) - 1
<1>1. IsFiniteSet(s) /\ Cardinality(s) <= Cardinality(S)
  BY FS_Subset
<1>2. Cardinality(s) \in Nat
  BY <1>1, FS_CardinalityType
<1>3. s # {} => Cardinality(s) # 0
  BY <1>1, FS_EmptySet
<1>4. \A x \in s : Cardinality(s \ {x}) = Cardinality(s) - 1
  BY <1>1, FS_RemoveElement
<1> QED BY <1>1, <1>2, <1>3, <1>4

\* Over a finite set the fold exists: correct up to a cardinality, it is extended by one.
LEMMA FoldExists ==
    ASSUME NEW f, NEW S, IsFiniteSet(S)
    PROVE  \E g : Folds(f, g, S)
<1> DEFINE UpTo(g, n) == /\ g = [s \in SUBSET S |-> g[s]]
                         /\ \A s \in SUBSET S : Cardinality(s) <= n => g[s] = FoldStep(f, g, s)
           Bad == {n \in Nat : ~ \E g : UpTo(g, n)}
<1>1. Bad = {}
  <2> SUFFICES ASSUME Bad # {} PROVE FALSE
    OBVIOUS
  <2>1. PICK n \in Bad : \A m \in Bad : n <= m
    BY LeastNumber
  <2>2. CASE n = 0
    <3> DEFINE g == [s \in SUBSET S |-> 0]
    <3>1. ASSUME NEW s \in SUBSET S, Cardinality(s) <= 0 PROVE s = {}
      BY <3>1, SmallerSubset
    <3>2. UpTo(g, 0)
      BY <3>1 DEF FoldStep
    <3> HIDE DEF g
    <3> QED BY <2>2, <3>2
  <2>3. CASE n # 0
    <3>1. n - 1 \in Nat /\ ~ (n <= n - 1)
      BY <2>3
    <3>2. PICK g : UpTo(g, n - 1)
      BY <2>1, <3>1
    <3> DEFINE h == [s \in SUBSET S |-> FoldStep(f, g, s)]
    <3>3. ASSUME NEW s \in SUBSET S, Cardinality(s) <= n - 1 PROVE h[s] = g[s]
      BY <3>2, <3>3
    <3>4. ASSUME NEW s \in SUBSET S, Cardinality(s) <= n PROVE h[s] = FoldStep(f, h, s)
      <4>1. h[s] = FoldStep(f, g, s)
        OBVIOUS
      <4>2. CASE s = {}
        BY <4>1, <4>2 DEF FoldStep
      <4>3. CASE s # {}
        <5> DEFINE x == CHOOSE y \in s : TRUE
        <5>1. x \in s
          BY <4>3
        <5>2. s \ {x} \in SUBSET S /\ Cardinality(s \ {x}) <= n - 1
          <6> HIDE DEF x
          <6>1. s \ {x} \in SUBSET S /\ Cardinality(s \ {x}) = Cardinality(s) - 1
            BY <5>1, SmallerSubset
          <6>2. Cardinality(s) \in Nat /\ n \in Nat
            BY SmallerSubset
          <6> QED BY <3>4, <6>1, <6>2
        <5>3. h[s \ {x}] = g[s \ {x}]
          BY <3>3, <5>2
        <5> HIDE DEF h
        <5> QED BY <4>1, <4>3, <5>3 DEF FoldStep
      <4> QED BY <4>2, <4>3
    <3>5. UpTo(h, n)
      BY <3>4
    <3> HIDE DEF h
    <3> QED BY <3>5
  <2> QED BY <2>2, <2>3
<1>2. Cardinality(S) \in Nat
  BY FS_CardinalityType
<1>3. PICK g : UpTo(g, Cardinality(S))
  BY <1>1, <1>2
<1>4. \A s \in SUBSET S : g[s] = FoldStep(f, g, s)
  BY <1>3, SmallerSubset
<1> QED BY <1>3, <1>4 DEF Folds

\* Two folds over two sets agree wherever both are defined.
LEMMA FoldUnique ==
    ASSUME NEW f, NEW S, IsFiniteSet(S), NEW T, NEW g, NEW h, Folds(f, g, S), Folds(f, h, T)
    PROVE  \A s \in (SUBSET S) \cap (SUBSET T) : g[s] = h[s]
<1> DEFINE Both == (SUBSET S) \cap (SUBSET T)
           Bad == {n \in Nat : \E s \in Both : Cardinality(s) = n /\ g[s] # h[s]}
<1>1. Bad = {}
  <2> SUFFICES ASSUME Bad # {} PROVE FALSE
    OBVIOUS
  <2>1. PICK n \in Bad : \A m \in Bad : n <= m
    BY LeastNumber
  <2>2. PICK s \in Both : Cardinality(s) = n /\ g[s] # h[s]
    BY <2>1
  <2>3. g[s] = FoldStep(f, g, s) /\ h[s] = FoldStep(f, h, s)
    <3>1. s \in SUBSET S /\ s \in SUBSET T
      BY <2>2
    <3>2. g[s] = [r \in SUBSET S |-> FoldStep(f, g, r)][s]
      BY DEF Folds
    <3>3. h[s] = [r \in SUBSET T |-> FoldStep(f, h, r)][s]
      BY DEF Folds
    <3> QED BY <3>1, <3>2, <3>3
  <2>4. CASE s = {}
    BY <2>2, <2>3, <2>4 DEF FoldStep
  <2>5. CASE s # {}
    <3> DEFINE x == CHOOSE y \in s : TRUE
    <3>1. x \in s
      BY <2>5
    <3>2. s \ {x} \in Both /\ Cardinality(s \ {x}) = n - 1 /\ n - 1 \in Nat
      <4> HIDE DEF x
      <4>1. s \in SUBSET S /\ s \ {x} \in Both
        BY <2>2
      <4>2. Cardinality(s) \in Nat /\ Cardinality(s) > 0 /\ Cardinality(s \ {x}) = Cardinality(s) - 1
        BY <2>5, <3>1, <4>1, SmallerSubset
      <4> QED BY <2>2, <4>1, <4>2
    <3>3. g[s \ {x}] = h[s \ {x}]
      BY <2>1, <3>2
    <3> QED BY <2>2, <2>3, <2>5, <3>3 DEF FoldStep
  <2> QED BY <2>4, <2>5
<1>2. \A s \in Both : Cardinality(s) \in Nat
  BY SmallerSubset
<1> QED BY <1>1, <1>2

\* The sum of a set is the sum without the element chosen first, and that element.
LEMMA SumUnfolds ==
    ASSUME NEW f, NEW S, IsFiniteSet(S), S # {}
    PROVE  \E x \in S : SumFunctionOnSet(f, S) = f[x] + SumFunctionOnSet(f, S \ {x})
<1> DEFINE x == CHOOSE y \in S : TRUE
           T == S \ {x}
<1>1. x \in S /\ IsFiniteSet(T)
  BY FS_Subset
<1>2. PICK g : Folds(f, g, S) /\ SumFunctionOnSet(f, S) = g[S]
  BY FoldExists, SumIsFold
<1>3. PICK h : Folds(f, h, T) /\ SumFunctionOnSet(f, T) = h[T]
  BY <1>1, FoldExists, SumIsFold
<1>4. g[T] = h[T]
  BY <1>2, <1>3, FoldUnique
<1>5. g[S] = FoldStep(f, g, S)
  BY <1>2 DEF Folds
<1> QED BY <1>1, <1>2, <1>3, <1>4, <1>5 DEF FoldStep

LEMMA SumEmpty == ASSUME NEW f PROVE SumFunctionOnSet(f, {}) = 0
<1>1. PICK g : Folds(f, g, {}) /\ SumFunctionOnSet(f, {}) = g[{}]
  BY FS_EmptySet, FoldExists, SumIsFold
<1> QED BY <1>1 DEF Folds, FoldStep

LEMMA SumType ==
    ASSUME NEW f, NEW S, IsFiniteSet(S), \A x \in S : f[x] \in Nat
    PROVE  SumFunctionOnSet(f, S) \in Nat
<1> DEFINE Bad == {n \in Nat : \E s \in SUBSET S : Cardinality(s) = n
                                                   /\ SumFunctionOnSet(f, s) \notin Nat}
<1>1. Bad = {}
  <2> SUFFICES ASSUME Bad # {} PROVE FALSE
    OBVIOUS
  <2>1. PICK n \in Bad : \A m \in Bad : n <= m
    BY LeastNumber
  <2>2. PICK s \in SUBSET S : Cardinality(s) = n /\ SumFunctionOnSet(f, s) \notin Nat
    BY <2>1
  <2>3. s # {} /\ IsFiniteSet(s)
    <3>1. s # {}
      <4> SUFFICES ASSUME s = {} PROVE FALSE
        OBVIOUS
      <4>1. SumFunctionOnSet(f, s) = 0
        BY SumEmpty
      <4> QED BY <2>2, <4>1
    <3> QED BY <3>1, SmallerSubset
  <2>4. PICK x \in s : SumFunctionOnSet(f, s) = f[x] + SumFunctionOnSet(f, s \ {x})
    BY <2>3, SumUnfolds
  <2>5. s \ {x} \in SUBSET S /\ Cardinality(s \ {x}) = n - 1 /\ n - 1 \in Nat
    BY <2>2, <2>3, SmallerSubset
  <2>6. SumFunctionOnSet(f, s \ {x}) \in Nat
    BY <2>1, <2>5
  <2> QED BY <2>2, <2>4, <2>6
<1> QED BY <1>1, SmallerSubset

\* Any element may be taken out first.
LEMMA SumRemoves ==
    ASSUME NEW f, NEW S, IsFiniteSet(S), \A x \in S : f[x] \in Nat, NEW x \in S
    PROVE  SumFunctionOnSet(f, S) = f[x] + SumFunctionOnSet(f, S \ {x})
<1> DEFINE Sum(s) == SumFunctionOnSet(f, s)
           Wrong(s) == \E y \in s : Sum(s) # f[y] + Sum(s \ {y})
           Bad == {n \in Nat : \E s \in SUBSET S : Cardinality(s) = n /\ Wrong(s)}
<1>1. Bad = {}
  <2> SUFFICES ASSUME Bad # {} PROVE FALSE
    OBVIOUS
  <2>1. PICK n \in Bad : \A m \in Bad : n <= m
    BY LeastNumber
  <2>2. PICK s \in SUBSET S : Cardinality(s) = n /\ Wrong(s)
    BY <2>1
  <2>3. PICK y \in s : Sum(s) # f[y] + Sum(s \ {y})
    BY <2>2
  <2>4. PICK z \in s : Sum(s) = f[z] + Sum(s \ {z})
    BY <2>3, SmallerSubset, SumUnfolds
  <2>5. \A v \in s : s \ {v} \in SUBSET S /\ ~ Wrong(s \ {v})
    <3> SUFFICES ASSUME NEW v \in s PROVE s \ {v} \in SUBSET S /\ ~ Wrong(s \ {v})
      OBVIOUS
    <3>1. s \ {v} \in SUBSET S /\ Cardinality(s \ {v}) = n - 1 /\ n - 1 \in Nat
      BY <2>2, SmallerSubset
    <3> HIDE DEF Wrong
    <3> QED BY <2>1, <3>1
  <2>6. y # z /\ y \in s \ {z} /\ z \in s \ {y}
    BY <2>3, <2>4
  <2>7. Sum(s \ {z}) = f[y] + Sum((s \ {z}) \ {y}) /\ Sum(s \ {y}) = f[z] + Sum((s \ {y}) \ {z})
    BY <2>5, <2>6
  <2>8. (s \ {z}) \ {y} = (s \ {y}) \ {z}
    OBVIOUS
  <2>9. f[y] \in Nat /\ f[z] \in Nat /\ Sum((s \ {z}) \ {y}) \in Nat
    BY SmallerSubset, SumType
  <2>10. PICK c \in Nat : c = Sum((s \ {z}) \ {y})
    BY <2>9
  <2>11. Sum(s \ {z}) = f[y] + c /\ Sum(s \ {y}) = f[z] + c
    BY <2>7, <2>8, <2>10
  <2>12. Sum(s) = f[z] + (f[y] + c) /\ Sum(s) # f[y] + (f[z] + c)
    BY <2>3, <2>4, <2>11
  <2> HIDE DEF Sum
  <2> QED BY <2>9, <2>12
<1> QED BY <1>1, SmallerSubset

\* More summands, or larger ones, make no smaller sum.
LEMMA SumGrows ==
    ASSUME NEW f, NEW g, NEW S, NEW T, IsFiniteSet(T), S \in SUBSET T,
           \A x \in T : g[x] \in Nat, \A x \in S : f[x] \in Nat /\ f[x] <= g[x]
    PROVE  SumFunctionOnSet(f, S) <= SumFunctionOnSet(g, T)
<1> DEFINE Sf(s) == SumFunctionOnSet(f, s)
           Sg(t) == SumFunctionOnSet(g, t)
           Bad == {n \in Nat : \E t \in SUBSET T : Cardinality(t) = n /\ ~ (Sf(S \cap t) <= Sg(t))}
<1>0. \A t \in SUBSET T : IsFiniteSet(t) /\ IsFiniteSet(S \cap t) /\ Sf(S \cap t) \in Nat /\ Sg(t) \in Nat
  <2> SUFFICES ASSUME NEW t \in SUBSET T
               PROVE IsFiniteSet(t) /\ IsFiniteSet(S \cap t) /\ Sf(S \cap t) \in Nat /\ Sg(t) \in Nat
    OBVIOUS
  <2>1. IsFiniteSet(t) /\ IsFiniteSet(S \cap t)
    BY SmallerSubset
  <2> QED BY <2>1, SumType
<1>1. Bad = {}
  <2> SUFFICES ASSUME Bad # {} PROVE FALSE
    OBVIOUS
  <2>1. PICK n \in Bad : \A m \in Bad : n <= m
    BY LeastNumber
  <2>2. PICK t \in SUBSET T : Cardinality(t) = n /\ ~ (Sf(S \cap t) <= Sg(t))
    BY <2>1
  <2>3. t # {}
    <3>1. CASE t = {}
      <4>1. S \cap t = {}
        BY <3>1
      <4> QED BY <2>2, <3>1, <4>1, SumEmpty
    <3> QED BY <3>1
  <2>4. PICK x \in t : TRUE
    BY <2>3
  <2>5. t \ {x} \in SUBSET T /\ Cardinality(t \ {x}) = n - 1 /\ n - 1 \in Nat
    BY <2>2, <2>3, SmallerSubset
  <2>6. Sf(S \cap (t \ {x})) <= Sg(t \ {x})
    <3>1. n - 1 \notin Bad
      BY <2>1, <2>5
    <3> QED BY <2>5, <3>1
  <2>7. Sg(t) = g[x] + Sg(t \ {x})
    <3>1. IsFiniteSet(t) /\ x \in t
      BY <1>0, <2>2, <2>4
    <3> QED BY <3>1, SumRemoves
  <2>8. CASE x \in S
    <3>1. (S \cap t) \ {x} = S \cap (t \ {x}) /\ x \in S \cap t
      BY <2>8
    <3>2. Sf(S \cap t) = f[x] + Sf((S \cap t) \ {x})
      BY <1>0, <3>1, SumRemoves
    <3>3. Sf(S \cap (t \ {x})) \in Nat /\ Sg(t \ {x}) \in Nat /\ f[x] \in Nat /\ g[x] \in Nat /\ f[x] <= g[x]
      BY <1>0, <2>5, <2>8
    <3>4. PICK a \in Nat, b \in Nat : a = Sf(S \cap (t \ {x})) /\ b = Sg(t \ {x})
      BY <3>3
    <3>5. a <= b /\ Sf(S \cap t) = f[x] + a /\ Sg(t) = g[x] + b
      BY <2>6, <2>7, <3>1, <3>2, <3>4
    <3>6. f[x] + a <= g[x] + b
      BY <3>3, <3>5
    <3> QED BY <2>2, <3>5, <3>6
  <2>9. CASE x \notin S
    <3>1. S \cap t = S \cap (t \ {x})
      BY <2>9
    <3>2. Sf(S \cap (t \ {x})) \in Nat /\ Sg(t \ {x}) \in Nat /\ g[x] \in Nat
      BY <1>0, <2>5
    <3>3. PICK a \in Nat, b \in Nat : a = Sf(S \cap (t \ {x})) /\ b = Sg(t \ {x})
      BY <3>2
    <3>4. a <= b /\ Sf(S \cap t) = a /\ Sg(t) = g[x] + b
      BY <2>6, <2>7, <3>1, <3>3
    <3>5. a <= g[x] + b
      BY <3>2, <3>4
    <3> QED BY <2>2, <3>4, <3>5
  <2> QED BY <2>8, <2>9
<1>2. S \cap T = S /\ Cardinality(T) \in Nat
  BY FS_CardinalityType
<1> QED BY <1>1, <1>2

\* The sum depends on the summands only.
LEMMA SumAgrees ==
    ASSUME NEW f, NEW g, NEW S, IsFiniteSet(S),
           \A x \in S : f[x] \in Nat /\ g[x] = f[x]
    PROVE  SumFunctionOnSet(f, S) = SumFunctionOnSet(g, S)
<1>1. \A x \in S : f[x] \in Nat /\ f[x] <= g[x] /\ g[x] <= f[x] /\ g[x] \in Nat
  OBVIOUS
<1>2. SumFunctionOnSet(f, S) <= SumFunctionOnSet(g, S)
      /\ SumFunctionOnSet(g, S) <= SumFunctionOnSet(f, S)
  BY <1>1, SumGrows
<1>3. SumFunctionOnSet(f, S) \in Nat /\ SumFunctionOnSet(g, S) \in Nat
  BY <1>1, SumType
<1> QED BY <1>2, <1>3

\* One summand grows by one, or one of one comes in: so does the sum.
LEMMA SumBumped ==
    ASSUME NEW f, NEW g, NEW S, IsFiniteSet(S), NEW T, NEW x, T = S \cup {x},
           \A y \in S : f[y] \in Nat, \A y \in S \ {x} : g[y] = f[y],
           g[x] = IF x \in S THEN f[x] + 1 ELSE 1
    PROVE  SumFunctionOnSet(g, T) = SumFunctionOnSet(f, S) + 1
<1>1. T \ {x} = S \ {x} /\ x \in T
  OBVIOUS
<1>2. IsFiniteSet(T) /\ IsFiniteSet(S \ {x})
  BY FS_AddElement, FS_Subset
<1>3. \A y \in T : g[y] \in Nat
  <2> SUFFICES ASSUME NEW y \in T PROVE g[y] \in Nat
    OBVIOUS
  <2>1. CASE y = x
    BY <2>1
  <2>2. CASE y # x
    BY <2>2
  <2> QED BY <2>1, <2>2
<1>4. SumFunctionOnSet(g, T) = g[x] + SumFunctionOnSet(g, S \ {x})
  BY <1>1, <1>2, <1>3, SumRemoves
<1>5. SumFunctionOnSet(f, S \ {x}) = SumFunctionOnSet(g, S \ {x})
  BY <1>2, SumAgrees
<1>6. SumFunctionOnSet(f, S \ {x}) \in Nat
  BY <1>2, SumType
<1>7. CASE x \in S
  <2>1. SumFunctionOnSet(f, S) = f[x] + SumFunctionOnSet(f, S \ {x})
    BY <1>7, SumRemoves
  <2> QED BY <1>4, <1>5, <1>6, <1>7, <2>1
<1>8. CASE x \notin S
  <2>1. S \ {x} = S
    BY <1>8
  <2>2. SumFunctionOnSet(f, S \ {x}) = SumFunctionOnSet(f, S)
    BY <2>1
  <2>3. g[x] = 1
    BY <1>8
  <2> QED BY <1>4, <1>5, <1>6, <2>2, <2>3
<1> QED BY <1>7, <1>8

-----------------------------------------------------------------------------
(***************************************************************************)
(* Where the books are kept: nobody deletes an app or a checkpoint, no     *)
(* statement fails, and names are registered by one caller.                *)
(***************************************************************************)
OneHand ==
    Deleters = {} /\ Droppers = {} /\ DbErrors = FALSE /\ \A u, v \in Adders : u = v

UniqueNames == \A i, j \in DOMAIN apps : apps[i].name = apps[j].name => i = j

\* A name being registered is not registered yet.
Registering ==
    \A u \in Users : upc[u].at \in {"maxid", "insert"} =>
        u \in Adders /\ Named(upc[u].name) = {}

EventsMade ==
    /\ \A j \in 1 .. Len(queue) : queue[j] \in Books!Event
    /\ InHand => Event \in Books!Event

\* What the loop read is still what the tables hold when it writes.
LoopReads ==
    /\ loop.at \in {"entry", "grow", "cover", "start"} => loop.kind = "Timeline"
    /\ loop.at \in {"write", "entry", "cover", "start"} => loop.id \in Named(loop.name)
    /\ loop.at = "write" =>
          /\ loop.val = ReadColumn(apps[loop.id])
          /\ loop.kind = "LongestSession" => loop.n > loop.val
    /\ loop.at = "grow" =>
          /\ loop.id \in DOMAIN timeline /\ timeline[loop.id].app \in Named(loop.name)
          /\ loop.val = timeline[loop.id].minutes
    /\ loop.at = "start" => loop.val \in DOMAIN checkpoints \cup {0}

KeptInv == StoreInv /\ UniqueNames /\ Registering /\ EventsMade /\ LoopReads

(***************************************************************************)
(* A step of Store, as the books see it.                                   *)
(***************************************************************************)
Page(i) == [duration |-> apps[i].duration, launches |-> apps[i].launches,
            longest |-> apps[i].longest, minutes |-> MinutesOf(i)]

SameNames == DOMAIN apps' = DOMAIN apps /\ \A i \in DOMAIN apps : apps'[i].name = apps[i].name
SamePages == SameNames /\ \A i \in DOMAIN apps : Page(i)' = Page(i)

Unseen == SamePages /\ UNCHANGED <<Pending, half, crashes>>
Emits(e) ==
    /\ SamePages /\ Pending' = Append(Pending, e) /\ crashes' = crashes
    /\ \/ e.kind = "Duration" /\ half = None /\ half' = e.name
       \/ e.kind = "Timeline" /\ half = e.name /\ half' = None
       \/ e.kind \notin {"Duration", "Timeline"} /\ half' = half
Settles(e) ==
    /\ Pending # << >> /\ e = Head(Pending) /\ Pending' = Tail(Pending)
    /\ UNCHANGED <<half, crashes>>
    /\ SameNames
    /\ \A i \in DOMAIN apps :
          Page(i)' = IF apps[i].name = e.name THEN Books!Account(Page(i), e) ELSE Page(i)
Opens(i, n) ==
    /\ i \notin DOMAIN apps /\ Named(n) = {}
    /\ DOMAIN apps' = DOMAIN apps \cup {i}
    /\ apps'[i].name = n /\ Page(i)' = Books!Opened
    /\ \A j \in DOMAIN apps : apps'[j].name = apps[j].name /\ Page(j)' = Page(j)
    /\ UNCHANGED <<Pending, half, crashes>>
Loses == SamePages /\ Pending' = << >> /\ half' = None /\ crashes' = crashes + 1

BookStep ==
    \/ Unseen \/ Loses
    \/ \E e \in Books!Event : Emits(e) \/ Settles(e)
    \/ \E i \in Ids, n \in Names : Opens(i, n)

\* The columns of the timeline that are summed up.
Ours(rows, i) == {t \in DOMAIN rows : rows[t].app = i}

LEMMA MinutesAreOurs == \A i : MinutesOf(i) = SumFunctionOnSet(MinutesColumn(timeline), Ours(timeline, i))
  BY DEF MinutesOf, Ours

LEMMA IdsFinite == ASSUME NEW D, D \subseteq Ids PROVE IsFiniteSet(D)
<1>1. IsFiniteSet(Ids)
  BY FS_Interval, LimitsAssumption DEF Ids
<1> QED BY <1>1, FS_Subset

LEMMA ColumnType ==
    ASSUME StoreInv
    PROVE  /\ \A i : IsFiniteSet(Ours(timeline, i))
           /\ \A t \in DOMAIN timeline : timeline[t].minutes \in Nat
                                         /\ MinutesColumn(timeline)[t] = timeline[t].minutes
           /\ \A i : MinutesOf(i) \in Nat
<1>1. ASSUME NEW i PROVE IsFiniteSet(Ours(timeline, i))
  <2>1. Ours(timeline, i) \subseteq Ids
    BY DEF StoreInv, TablesType, TimelineType, Ours
  <2> QED BY <2>1, IdsFinite
<1>2. \A t \in DOMAIN timeline : timeline[t].minutes \in Nat
                                 /\ MinutesColumn(timeline)[t] = timeline[t].minutes
  BY DEF StoreInv, TablesType, TimelineType, TimelineRow, MinutesColumn
<1>3. ASSUME NEW i PROVE MinutesOf(i) \in Nat
  <2>1. \A t \in Ours(timeline, i) : MinutesColumn(timeline)[t] \in Nat
    BY <1>2 DEF Ours
  <2> QED BY <1>1, <2>1, SumType, MinutesAreOurs
<1> QED BY <1>1, <1>2, <1>3

\* The rows of another app are none of this one's minutes.
LEMMA OtherMinutes ==
    ASSUME StoreInv, NEW i, Ours(timeline', i) = Ours(timeline, i),
           \A t \in Ours(timeline, i) : MinutesColumn(timeline)'[t] = timeline[t].minutes
    PROVE  MinutesOf(i)' = MinutesOf(i)
<1>1. \A t \in Ours(timeline, i) : MinutesColumn(timeline)[t] \in Nat
                                  /\ MinutesColumn(timeline)'[t] = MinutesColumn(timeline)[t]
  BY ColumnType DEF Ours
<1>2. SumFunctionOnSet(MinutesColumn(timeline), Ours(timeline, i))
         = SumFunctionOnSet(MinutesColumn(timeline)', Ours(timeline, i))
  BY <1>1, ColumnType, SumAgrees
<1>3. MinutesOf(i)' = SumFunctionOnSet(MinutesColumn(timeline)', Ours(timeline', i))
  BY DEF MinutesOf, Ours
<1> QED BY <1>2, <1>3, MinutesAreOurs

\* One row of the app comes in or grows by a minute.
LEMMA OneMoreMinute ==
    ASSUME StoreInv, NEW i, NEW t, Ours(timeline', i) = Ours(timeline, i) \cup {t},
           \A s \in Ours(timeline, i) \ {t} : MinutesColumn(timeline)'[s] = timeline[s].minutes,
           MinutesColumn(timeline)'[t] = IF t \in Ours(timeline, i)
                                         THEN timeline[t].minutes + 1 ELSE 1
    PROVE  MinutesOf(i)' = MinutesOf(i) + 1
<1> DEFINE f == MinutesColumn(timeline)
           g == MinutesColumn(timeline)'
           S == Ours(timeline, i)
<1>1. IsFiniteSet(S) /\ \A s \in S : f[s] \in Nat /\ f[s] = timeline[s].minutes
  BY ColumnType DEF Ours
<1>2. (\A s \in S \ {t} : g[s] = f[s]) /\ g[t] = IF t \in S THEN f[t] + 1 ELSE 1
  BY <1>1
<1>3. SumFunctionOnSet(g, Ours(timeline', i)) = SumFunctionOnSet(f, S) + 1
  <2> HIDE DEF f, g, S
  <2> QED BY <1>1, <1>2, SumBumped DEF S
<1>4. MinutesOf(i)' = SumFunctionOnSet(MinutesColumn(timeline)', Ours(timeline', i))
  BY DEF MinutesOf, Ours
<1> QED BY <1>3, <1>4, MinutesAreOurs

LEMMA FirstOfAll ==
    ASSUME NEW S, NEW q \in Seq(S), q # << >>
    PROVE  /\ Head(q) \in S /\ Head(q) = q[1] /\ 1 \in 1 .. Len(q)
           /\ <<Head(q)>> \o Tail(q) = q
  OBVIOUS

\* The event in the loop's hand is the first that is pending.
LEMMA PendingParts ==
    ASSUME StoreInv
    PROVE  /\ queue \in Seq([kind : Kinds, name : Names, n : Nat])
           /\ ~InHand => Pending = queue
           /\ InHand => /\ Pending # << >> /\ Head(Pending) = Event /\ Tail(Pending) = queue
                        /\ \A e : Append(Pending, e) = <<Event>> \o Append(queue, e)
<1>1. queue \in Seq([kind : Kinds, name : Names, n : Nat])
  BY DEF StoreInv, QueueType
<1>2. /\ <<Event>> \o queue # << >> /\ Head(<<Event>> \o queue) = Event
      /\ Tail(<<Event>> \o queue) = queue
  BY <1>1
<1>3. ASSUME NEW e PROVE Append(<<Event>> \o queue, e) = <<Event>> \o Append(queue, e)
  BY <1>1
<1> QED BY <1>1, <1>2, <1>3 DEF Pending

LEMMA TablesStay ==
    ASSUME KeptInv, UNCHANGED <<apps, timeline>> PROVE SamePages /\ UniqueNames'
<1>1. \A i \in DOMAIN apps : Page(i)' = Page(i)
  BY DEF Page, MinutesOf, MinutesColumn
<1> QED BY <1>1 DEF KeptInv, SamePages, SameNames, UniqueNames

\* An event is sent.
LEMMA SenderBooks ==
    ASSUME KeptInv, StoreInv', Sender PROVE KeptInv' /\ BookStep
<1> USE DEF KeptInv
<1>1. UNCHANGED <<apps, checkpoints, timeline, loop, upc, crashes>>
  BY DEF Sender, SendFree, SendDuration, SendTimeline, tables
<1>2. SamePages /\ UniqueNames'
  BY <1>1, TablesStay
<1>3. Registering' /\ LoopReads'
  BY <1>1 DEF Registering, LoopReads, Named, ReadColumn
<1>4. PICK e \in Books!Event : /\ queue' = Append(queue, e)
                               /\ \/ e.kind = "Duration" /\ half = None /\ half' = e.name
                                  \/ e.kind = "Timeline" /\ half = e.name /\ half' = None
                                  \/ e.kind \notin {"Duration", "Timeline"} /\ half' = half
  <2>1. ASSUME NEW name \in Names, SendDuration(name)
        PROVE  \E e \in Books!Event : queue' = Append(queue, e) /\ e.kind = "Duration"
                                      /\ half = None /\ half' = e.name
    <3> DEFINE e == [kind |-> "Duration", name |-> name, n |-> 0]
    <3>1. e \in Books!Event /\ e.kind = "Duration" /\ e.name = name
      BY DEF Books!Event, Books!Kinds
    <3>2. queue' = Append(queue, e) /\ half = None /\ half' = name
      BY <2>1 DEF SendDuration, Send
    <3> HIDE DEF e
    <3> QED BY <3>1, <3>2
  <2>2. ASSUME SendTimeline
        PROVE  \E e \in Books!Event : queue' = Append(queue, e) /\ e.kind = "Timeline"
                                      /\ half = e.name /\ half' = None
    <3> DEFINE e == [kind |-> "Timeline", name |-> half, n |-> 0]
    <3>1. e \in Books!Event /\ e.kind = "Timeline" /\ e.name = half
      BY <2>2 DEF Books!Event, Books!Kinds, SendTimeline, StoreInv, ScalarsType
    <3>2. queue' = Append(queue, e) /\ half' = None
      BY <2>2 DEF SendTimeline, Send
    <3> HIDE DEF e
    <3> QED BY <3>1, <3>2
  <2>3. ASSUME NEW name \in Names, SendFree(name)
        PROVE  \E e \in Books!Event : queue' = Append(queue, e)
                                      /\ e.kind \notin {"Duration", "Timeline"} /\ half' = half
    <3>1. CASE Send("Launches", name, 0)
      <4> DEFINE e == [kind |-> "Launches", name |-> name, n |-> 0]
      <4>1. e \in Books!Event /\ e.kind = "Launches"
        BY DEF Books!Event, Books!Kinds
      <4>2. queue' = Append(queue, e) /\ half' = half
        BY <2>3, <3>1 DEF Send, SendFree
      <4> HIDE DEF e
      <4> QED BY <4>1, <4>2
    <3>2. ASSUME NEW n \in Lengths, Send("LongestSession", name, n)
          PROVE  \E e \in Books!Event : queue' = Append(queue, e)
                                        /\ e.kind \notin {"Duration", "Timeline"} /\ half' = half
      <4> DEFINE e == [kind |-> "LongestSession", name |-> name, n |-> n]
      <4>1. e \in Books!Event /\ e.kind = "LongestSession"
        BY DEF Books!Event, Books!Kinds
      <4>2. queue' = Append(queue, e) /\ half' = half
        BY <2>3, <3>2 DEF Send, SendFree
      <4> HIDE DEF e
      <4> QED BY <4>1, <4>2
    <3> QED BY <2>3, <3>1, <3>2 DEF SendFree
  <2> QED BY <2>1, <2>2, <2>3 DEF Sender
<1>5. Pending' = Append(Pending, e)
  BY <1>1, <1>4, PendingParts DEF Pending, InHand, Event
<1>6. EventsMade'
  <2>1. queue \in Seq([kind : Kinds, name : Names, n : Nat])
    BY PendingParts
  <2>2. \A j \in 1 .. Len(queue') : queue'[j] = IF j <= Len(queue) THEN queue[j] ELSE e
    BY <1>4, <2>1
  <2>3. \A j \in 1 .. Len(queue') : queue'[j] \in Books!Event
    BY <1>4, <2>1, <2>2 DEF EventsMade
  <2> QED BY <1>1, <2>3 DEF EventsMade, InHand, Event
<1>7. Emits(e)
  BY <1>1, <1>2, <1>4, <1>5 DEF Emits
<1> QED BY <1>2, <1>3, <1>6, <1>7 DEF BookStep

\* The loop takes an event from the channel, or stays as it is.
LEMMA IdleBooks ==
    ASSUME KeptInv, StoreInv', Receive \/ Midnight \/ UNCHANGED vars
    PROVE  KeptInv' /\ BookStep
<1> USE DEF KeptInv
<1>1. UNCHANGED <<apps, checkpoints, timeline, upc, crashes, half>>
  BY DEF Receive, Midnight, vars, tables, channel
<1>2. SamePages /\ UniqueNames'
  BY <1>1, TablesStay
<1>3. Registering'
  BY <1>1 DEF Registering, Named
<1>4. CASE Receive
  <2>1. loop'.at = "find" /\ loop'.kind = Head(queue).kind /\ loop'.name = Head(queue).name
        /\ loop'.n = Head(queue).n /\ queue' = Tail(queue) /\ queue # << >> /\ ~InHand
    BY <1>4 DEF Receive, StoreInv, LoopType, InHand
  <2>2. queue \in Seq([kind : Kinds, name : Names, n : Nat])
    BY PendingParts
  <2>3. /\ Head(queue) \in [kind : Kinds, name : Names, n : Nat]
        /\ Head(queue) = queue[1] /\ 1 \in 1 .. Len(queue)
    BY <2>1, <2>2, FirstOfAll
  <2>4. Event' = Head(queue)
    BY <2>1, <2>3 DEF Event
  <2>5. <<Head(queue)>> \o Tail(queue) = queue
    BY <2>1, <2>2, FirstOfAll
  <2>6. Pending' = Pending
    BY <2>1, <2>4, <2>5 DEF Pending, InHand
  <2>7. \A j \in 1 .. Len(queue') : queue'[j] = queue[j + 1] /\ j + 1 \in 1 .. Len(queue)
    BY <2>1, <2>2
  <2>8. EventsMade'
    BY <2>3, <2>4, <2>7 DEF EventsMade
  <2>9. LoopReads'
    BY <2>1 DEF LoopReads
  <2> QED BY <1>1, <1>2, <1>3, <2>6, <2>8, <2>9 DEF BookStep, Unseen
<1>5. CASE Midnight \/ UNCHANGED vars
  <2>1. UNCHANGED <<loop, queue>>
    BY <1>5 DEF Midnight, vars, channel
  <2>2. EventsMade' /\ LoopReads' /\ Pending' = Pending
    BY <1>1, <2>1 DEF EventsMade, LoopReads, Named, ReadColumn, Pending, InHand, Event
  <2> QED BY <1>1, <1>2, <1>3, <2>2 DEF BookStep, Unseen
<1> QED BY <1>4, <1>5

\* The daemon dies with what it had not applied.
LEMMA CrashBooks ==
    ASSUME KeptInv, StoreInv', Crash PROVE KeptInv' /\ BookStep
<1> USE DEF KeptInv
<1>1. UNCHANGED <<apps, checkpoints, timeline>> /\ loop' = Booted /\ queue' = << >>
      /\ half' = None /\ crashes' = crashes + 1 /\ \A u \in Users : upc'[u] = Idle
  BY DEF Crash, tables
<1>2. SamePages /\ UniqueNames'
  BY <1>1, TablesStay
<1>3. Registering' /\ LoopReads' /\ EventsMade' /\ Pending' = << >>
  BY <1>1 DEF Registering, LoopReads, EventsMade, Pending, InHand, Booted, Idle
<1> QED BY <1>1, <1>2, <1>3 DEF BookStep, Loses

\* What the lemmas on the loop's steps share.
LoopAlone == UNCHANGED <<upc, queue, half, crashes>>

LEMMA NamesKept ==
    ASSUME UniqueNames, Registering, SameNames, upc' = upc PROVE UniqueNames' /\ Registering'
<1>1. \A n : Named(n)' = Named(n)
  BY DEF SameNames, Named
<1> QED BY <1>1 DEF UniqueNames, Registering, SameNames

\* The loop reads on: the books do not see it.
LEMMA HandReads ==
    ASSUME KeptInv, StoreInv', LoopAlone, UNCHANGED <<apps, timeline>>,
           InHand' <=> InHand, InHand => Event' = Event, LoopReads'
    PROVE  KeptInv' /\ BookStep
<1>1. SamePages
  BY TablesStay
<1>2. UniqueNames' /\ Registering'
  BY <1>1, NamesKept DEF KeptInv, LoopAlone, SamePages
<1>3. Pending' = Pending /\ EventsMade'
  BY DEF LoopAlone, Pending, KeptInv, EventsMade
<1> QED BY <1>1, <1>2, <1>3 DEF KeptInv, BookStep, Unseen, LoopAlone

\* The loop is done with the event in its hand.
LEMMA HandSettles ==
    ASSUME KeptInv, StoreInv', LoopAlone, InHand, ~InHand', SameNames,
           \A i \in DOMAIN apps :
              Page(i)' = IF apps[i].name = loop.name THEN Books!Account(Page(i), Event)
                         ELSE Page(i)
    PROVE  KeptInv' /\ BookStep
<1>1. UniqueNames' /\ Registering'
  BY NamesKept DEF KeptInv, LoopAlone
<1>2. LoopReads'
  BY DEF LoopReads, InHand
<1>3. EventsMade' /\ Event \in Books!Event
  BY DEF LoopAlone, KeptInv, EventsMade
<1>4. Pending # << >> /\ Event = Head(Pending) /\ Pending' = Tail(Pending)
  BY PendingParts DEF KeptInv, LoopAlone, Pending
<1>5. Settles(Event)
  BY <1>4 DEF Settles, Event, LoopAlone
<1> QED BY <1>1, <1>2, <1>3, <1>5 DEF KeptInv, BookStep

\* An event that changes no page is settled by leaving it at that.
LEMMA HandDrops ==
    ASSUME KeptInv, StoreInv', LoopAlone, UNCHANGED <<apps, timeline>>, InHand, ~InHand',
           \A i \in Named(loop.name) : Books!Account(Page(i), Event) = Page(i)
    PROVE  KeptInv' /\ BookStep
<1>1. SamePages
  BY TablesStay
<1> QED BY <1>1, HandSettles DEF SamePages, Named

LEMMA LoopGoesOn ==
    ASSUME StoreInv
    PROVE  /\ Finish => ~InHand'
           /\ \A at, id, val : Proceed(at, id, val) =>
                 /\ loop'.at = at /\ loop'.id = id /\ loop'.val = val
                 /\ loop'.kind = loop.kind /\ Event' = Event
  BY DEF StoreInv, LoopType, Finish, Proceed, Event, InHand

LEMMA AccountParts ==
    ASSUME NEW d, NEW l, NEW g, NEW m, NEW e
    PROVE  Books!Account([duration |-> d, launches |-> l, longest |-> g, minutes |-> m], e) =
             [duration |-> IF e.kind = "Duration" THEN d + 1 ELSE d,
              launches |-> IF e.kind = "Launches" THEN l + 1 ELSE l,
              longest  |-> IF e.n > g THEN e.n ELSE g,
              minutes  |-> IF e.kind = "Timeline" THEN m + 1 ELSE m]
<1> DEFINE R(a, b, c, f) == [duration |-> a, launches |-> b, longest |-> c, minutes |-> f]
           page == R(d, l, g, m)
           D == IF e.kind = "Duration" THEN d + 1 ELSE d
           L == IF e.kind = "Launches" THEN l + 1 ELSE l
           G == IF e.n > g THEN e.n ELSE g
           M == IF e.kind = "Timeline" THEN m + 1 ELSE m
<1>1. page.duration = d /\ page.launches = l /\ page.longest = g /\ page.minutes = m
  OBVIOUS
<1>2. [page EXCEPT !.duration = D] = R(D, l, g, m)
  <2> HIDE DEF D
  <2> QED OBVIOUS
<1>3. [R(D, l, g, m) EXCEPT !.launches = L] = R(D, L, g, m)
  <2> HIDE DEF D, L
  <2> QED OBVIOUS
<1>4. [R(D, L, g, m) EXCEPT !.minutes = M] = R(D, L, g, M)
  <2> HIDE DEF D, L, M
  <2> QED OBVIOUS
<1>5. [R(D, L, g, M) EXCEPT !.longest = G] = R(D, L, G, M)
  <2> HIDE DEF D, L, M, G
  <2> QED OBVIOUS
<1>6. Books!Account(page, e) =
        [page EXCEPT !.duration = D, !.launches = L, !.minutes = M, !.longest = G]
  <2> HIDE DEF page
  <2> QED BY <1>1 DEF Books!Account
<1> HIDE DEF D, L, M, G, R, page
<1>7. Books!Account(page, e) = R(D, L, G, M)
  BY <1>2, <1>3, <1>4, <1>5, <1>6
<1> QED BY <1>7 DEF D, L, M, G, R, page

\* What an event comes to on the page of an app.
LEMMA PageAfter ==
    ASSUME StoreInv, EventsMade, InHand, NEW i \in DOMAIN apps
    PROVE  Books!Account(Page(i), Event) =
             [duration |-> IF loop.kind = "Duration" THEN apps[i].duration + 1
                           ELSE apps[i].duration,
              launches |-> IF loop.kind = "Launches" THEN apps[i].launches + 1
                           ELSE apps[i].launches,
              longest  |-> IF loop.kind = "LongestSession" /\ loop.n > apps[i].longest
                           THEN loop.n ELSE apps[i].longest,
              minutes  |-> IF loop.kind = "Timeline" THEN MinutesOf(i) + 1 ELSE MinutesOf(i)]
<1>1. Event.kind = loop.kind /\ Event.n = loop.n /\ loop.n \in Nat
  BY DEF Event, StoreInv, LoopType
<1>2. apps[i].longest \in Nat
  BY DEF StoreInv, TablesType, AppsType, AppRow
<1>3. loop.kind # "LongestSession" => loop.n = 0
  BY <1>1 DEF EventsMade, Books!Event
<1>4. (IF loop.n > apps[i].longest THEN loop.n ELSE apps[i].longest)
         = IF loop.kind = "LongestSession" /\ loop.n > apps[i].longest
           THEN loop.n ELSE apps[i].longest
  BY <1>2, <1>3
<1> QED BY <1>1, <1>4, AccountParts DEF Page

\* The statements that read, and those of the checkpoints.
LEMMA ReadBooks ==
    ASSUME KeptInv, StoreInv',
           ListActive \/ WriteCheckpoint \/ FindEntry \/ FindCover
    PROVE  KeptInv' /\ BookStep
<1> USE DEF KeptInv
<1>1. LoopAlone /\ UNCHANGED <<apps, timeline>>
  BY DEF ListActive, WriteCheckpoint, FindEntry, FindCover, tables, channel, LoopAlone
<1>2. CASE ListActive \/ WriteCheckpoint
  <2>1. ~InHand
    BY <1>2 DEF ListActive, WriteCheckpoint, InHand
  <2>2. Finish \/ \E todo : \/ loop' = [loop EXCEPT !.at = "each", !.todo = todo]
                            \/ loop.at = "each" /\ loop' = [loop EXCEPT !.todo = todo]
    BY <1>2 DEF ListActive, WriteCheckpoint
  <2>3. ~InHand'
    BY <2>2, LoopGoesOn DEF InHand, StoreInv, LoopType
  <2>4. LoopReads'
    BY <2>3 DEF LoopReads, InHand
  <2> QED BY <1>1, <2>1, <2>3, <2>4, HandReads
<1>3. CASE FindEntry
  <2>1. loop.at = "entry" /\ loop.kind = "Timeline" /\ loop.id \in Named(loop.name)
    BY <1>3 DEF FindEntry, LoopReads
  <2>2. CASE Proceed("cover", loop.id, 0)
    <3>1. loop'.at = "cover" /\ loop'.id = loop.id /\ loop'.kind = loop.kind /\ Event' = Event
      BY <2>2, LoopGoesOn
    <3>2. InHand /\ InHand' /\ LoopReads'
      BY <1>1, <2>1, <3>1 DEF InHand, LoopReads, Named, Event
    <3> QED BY <1>1, <3>1, <3>2, HandReads
  <2>3. ASSUME NEW t \in DayRows(loop.id, loop.day), Proceed("grow", t, timeline[t].minutes)
        PROVE  KeptInv' /\ BookStep
    <3>1. /\ loop'.at = "grow" /\ loop'.id = t /\ loop'.val = timeline[t].minutes
          /\ loop'.kind = loop.kind /\ Event' = Event
      BY <2>3, LoopGoesOn
    <3>2. InHand /\ InHand' /\ LoopReads'
      BY <1>1, <2>1, <3>1 DEF InHand, LoopReads, Named, Event, DayRows
    <3> QED BY <1>1, <3>1, <3>2, HandReads
  <2> QED BY <1>3, <2>2, <2>3 DEF FindEntry
<1>4. CASE FindCover
  <2>1. loop.at = "cover" /\ loop.kind = "Timeline" /\ loop.id \in Named(loop.name)
    BY <1>4 DEF FindCover, LoopReads
  <2>2. PICK c \in DOMAIN checkpoints \cup {0} : Proceed("start", loop.id, c)
    BY <1>4, LargestActive DEF FindCover, ActiveOf
  <2>3. /\ loop'.at = "start" /\ loop'.id = loop.id /\ loop'.val = c
        /\ loop'.kind = loop.kind /\ Event' = Event /\ checkpoints' = checkpoints
    BY <1>4, <2>2, LoopGoesOn DEF FindCover, tables
  <2>4. InHand /\ InHand' /\ LoopReads'
    BY <1>1, <2>1, <2>3 DEF InHand, LoopReads, Named, Event
  <2> QED BY <1>1, <2>3, <2>4, HandReads
<1> QED BY <1>2, <1>3, <1>4

\* The app is looked up by name: none, or one whose column is read.
LEMMA FindBooks ==
    ASSUME KeptInv, StoreInv', FindNone \/ FindOne PROVE KeptInv' /\ BookStep
<1> USE DEF KeptInv
<1>1. LoopAlone /\ UNCHANGED <<apps, timeline>> /\ InHand /\ loop.at = "find"
  BY DEF FindNone, FindOne, tables, channel, LoopAlone, InHand
<1>2. CASE FindNone
  <2>1. ~InHand' /\ Named(loop.name) = {}
    BY <1>2, LoopGoesOn DEF FindNone
  <2> QED BY <1>1, <2>1, HandDrops
<1>3. CASE FindOne
  <2>1. PICK i \in Named(loop.name) :
           IF loop.kind = "LongestSession" /\ loop.n <= apps[i].longest
           THEN Finish
           ELSE loop' = [loop EXCEPT !.at = IF loop.kind = "Timeline" THEN "entry" ELSE "write",
                                     !.id = i, !.val = ReadColumn(apps[i]),
                                     !.day = IF loop.kind = "Timeline" THEN day ELSE 0]
    BY <1>3 DEF FindOne
  <2>2. i \in DOMAIN apps /\ apps[i].longest \in Nat /\ loop.n \in Nat
    BY DEF StoreInv, TablesType, AppsType, AppRow, Named, LoopType
  <2>3. CASE loop.kind = "LongestSession" /\ loop.n <= apps[i].longest
    <3>1. ~InHand'
      BY <2>1, <2>3, LoopGoesOn
    <3>2. \A j \in Named(loop.name) : j = i
      BY DEF Named, UniqueNames
    <3>3. Books!Account(Page(i), Event) = Page(i)
      BY <1>1, <2>2, <2>3, PageAfter DEF Page
    <3> QED BY <1>1, <3>1, <3>2, <3>3, HandDrops
  <2>4. CASE ~(loop.kind = "LongestSession" /\ loop.n <= apps[i].longest)
    <3>1. /\ loop'.at = IF loop.kind = "Timeline" THEN "entry" ELSE "write"
          /\ loop'.id = i /\ loop'.val = ReadColumn(apps[i])
          /\ loop'.kind = loop.kind /\ loop'.n = loop.n /\ loop'.name = loop.name
      BY <2>1, <2>4 DEF StoreInv, LoopType
    <3>2. InHand' /\ Event' = Event
      BY <3>1 DEF InHand, Event
    <3>3. loop.kind = "LongestSession" => loop.n > ReadColumn(apps[i])
      BY <2>2, <2>4 DEF ReadColumn
    <3>4. ReadColumn(apps[i])' = ReadColumn(apps[i])
      BY <1>1, <3>1 DEF ReadColumn
    <3>5. LoopReads'
      BY <1>1, <3>1, <3>3, <3>4 DEF LoopReads, Named
    <3> QED BY <1>1, <3>2, <3>5, HandReads
  <2> QED BY <2>3, <2>4
<1> QED BY <1>2, <1>3

\* The column is written back: what was read is still there.
LEMMA WriteBooks ==
    ASSUME KeptInv, StoreInv', WriteApp PROVE KeptInv' /\ BookStep
<1> USE DEF KeptInv
<1>0. PICK i : i = loop.id
  OBVIOUS
<1>1. LoopAlone /\ timeline' = timeline /\ InHand /\ loop.at = "write"
  BY DEF WriteApp, channel, LoopAlone, InHand
<1>2. /\ i \in DOMAIN apps /\ apps[i].name = loop.name /\ apps[i] \in AppRow
      /\ loop.val = ReadColumn(apps[i]) /\ (loop.kind = "LongestSession" => loop.n > loop.val)
      /\ loop.kind \in Kinds \ {"Timeline"}
  BY <1>0, <1>1 DEF LoopReads, Named, StoreInv, TablesType, AppsType, LoopType
<1>3. apps' = [apps EXCEPT ![i] = Written(apps[i])] /\ ~InHand'
  BY <1>0, <1>2, LoopGoesOn DEF WriteApp, InHand
<1>4. Written(apps[i]) =
         [name |-> apps[i].name,
          duration |-> IF loop.kind = "Duration" THEN apps[i].duration + 1
                       ELSE apps[i].duration,
          launches |-> IF loop.kind = "Launches" THEN apps[i].launches + 1
                       ELSE apps[i].launches,
          longest  |-> IF loop.kind = "LongestSession" /\ loop.n > apps[i].longest
                       THEN loop.n ELSE apps[i].longest]
  <2>1. CASE loop.kind = "Duration"
    BY <1>2, <2>1 DEF Written, ReadColumn, AppRow
  <2>2. CASE loop.kind = "Launches"
    BY <1>2, <2>2 DEF Written, ReadColumn, AppRow
  <2>3. CASE loop.kind = "LongestSession"
    BY <1>2, <2>3 DEF Written, ReadColumn, AppRow
  <2> QED BY <1>2, <2>1, <2>2, <2>3 DEF Kinds
<1>5. \A j : MinutesOf(j)' = MinutesOf(j)
  BY <1>1 DEF MinutesOf, MinutesColumn
<1>6. SameNames
  BY <1>2, <1>3, <1>4 DEF SameNames
<1>7. Page(i)' = Books!Account(Page(i), Event)
  <2>1. Page(i)' = [duration |-> Written(apps[i]).duration, launches |-> Written(apps[i]).launches,
                    longest |-> Written(apps[i]).longest, minutes |-> MinutesOf(i)]
    BY <1>2, <1>3, <1>5 DEF Page
  <2> QED BY <1>1, <1>2, <1>4, <2>1, PageAfter
<1>8. \A j \in DOMAIN apps \ {i} : Page(j)' = Page(j) /\ apps[j].name # loop.name
  BY <1>2, <1>3, <1>5 DEF Page, UniqueNames
<1> QED BY <1>1, <1>2, <1>3, <1>6, <1>7, <1>8, HandSettles

\* A minute is written down in a row of the app: no other page changes.
LEMMA MinuteBooks ==
    ASSUME KeptInv, StoreInv', LoopAlone, apps' = apps, InHand, ~InHand',
           loop.kind = "Timeline", NEW i \in Named(loop.name), NEW t,
           DOMAIN timeline' = DOMAIN timeline \cup {t}, timeline'[t].app = i,
           t \in DOMAIN timeline => timeline[t].app = i,
           timeline'[t].minutes = IF t \in DOMAIN timeline THEN timeline[t].minutes + 1 ELSE 1,
           \A s \in DOMAIN timeline \ {t} : timeline'[s] = timeline[s]
    PROVE  KeptInv' /\ BookStep
<1> USE DEF KeptInv
<1>1. \A s \in DOMAIN timeline' : MinutesColumn(timeline)'[s] = timeline'[s].minutes
  BY DEF MinutesColumn
<1>2. i \in DOMAIN apps /\ \A j \in Named(loop.name) : j = i
  BY DEF Named, UniqueNames
<1>3. MinutesOf(i)' = MinutesOf(i) + 1
  <2>1. /\ Ours(timeline', i) = Ours(timeline, i) \cup {t}
        /\ t \in Ours(timeline, i) <=> t \in DOMAIN timeline
    BY DEF Ours
  <2>2. \A s \in Ours(timeline, i) \ {t} : MinutesColumn(timeline)'[s] = timeline[s].minutes
    BY <1>1 DEF Ours
  <2>3. MinutesColumn(timeline)'[t] = IF t \in Ours(timeline, i)
                                      THEN timeline[t].minutes + 1 ELSE 1
    BY <1>1, <2>1
  <2> QED BY <2>1, <2>2, <2>3, OneMoreMinute
<1>4. ASSUME NEW j \in DOMAIN apps, j # i PROVE MinutesOf(j)' = MinutesOf(j)
  <2>1. Ours(timeline', j) = Ours(timeline, j) /\ t \notin Ours(timeline, j)
    BY <1>4 DEF Ours
  <2>2. \A s \in Ours(timeline, j) : MinutesColumn(timeline)'[s] = timeline[s].minutes
    BY <1>1, <2>1 DEF Ours
  <2> QED BY <2>1, <2>2, OtherMinutes
<1>5. SameNames
  BY DEF SameNames
<1>6. Page(i)' = Books!Account(Page(i), Event)
  BY <1>2, <1>3, PageAfter DEF Page
<1>7. \A j \in DOMAIN apps \ {i} : Page(j)' = Page(j) /\ apps[j].name # loop.name
  BY <1>2, <1>4 DEF Page, Named
<1>8. apps[i].name = loop.name
  BY DEF Named
<1> QED BY <1>2, <1>5, <1>6, <1>7, <1>8, HandSettles

\* Today's row of the app grows, or is started.
LEMMA EntryBooks ==
    ASSUME KeptInv, StoreInv', GrowEntry \/ StartEntry PROVE KeptInv' /\ BookStep
<1> USE DEF KeptInv
<1>1. LoopAlone /\ apps' = apps /\ InHand /\ ~InHand' /\ loop.kind = "Timeline"
  BY LoopGoesOn DEF GrowEntry, StartEntry, channel, LoopAlone, InHand, LoopReads
<1>2. DOMAIN timeline \subseteq Ids /\ \A t \in DOMAIN timeline : timeline[t] \in TimelineRow
  BY DEF StoreInv, TablesType, TimelineType
<1>3. CASE GrowEntry
  <2>1. PICK t \in DOMAIN timeline : t = loop.id
    BY <1>3 DEF GrowEntry, LoopReads
  <2>2. timeline[t].app \in Named(loop.name) /\ loop.val = timeline[t].minutes
    BY <1>3, <2>1 DEF GrowEntry, LoopReads
  <2>3. timeline' = [timeline EXCEPT ![t].minutes = timeline[t].minutes + 1]
    BY <1>3, <2>1, <2>2 DEF GrowEntry
  <2>4. /\ DOMAIN timeline' = DOMAIN timeline \cup {t}
        /\ timeline'[t].app = timeline[t].app
        /\ timeline'[t].minutes = timeline[t].minutes + 1
        /\ \A s \in DOMAIN timeline \ {t} : timeline'[s] = timeline[s]
    BY <1>2, <2>3 DEF TimelineRow
  <2> QED BY <1>1, <2>1, <2>2, <2>4, MinuteBooks
<1>4. CASE StartEntry
  <2>1. PICK i \in Named(loop.name) : i = loop.id
    BY <1>4 DEF StartEntry, LoopReads
  <2>2. i \in DOMAIN apps /\ loop.val \in DOMAIN checkpoints \cup {0}
    BY <1>4 DEF StartEntry, LoopReads, Named
  <2>3. PICK t : t = NextId(timeline)
    OBVIOUS
  <2>4. t \notin DOMAIN timeline
    BY <1>2, <2>3, NextIdIsFree
  <2>5. timeline' = Insert(timeline, t, [app |-> i, day |-> loop.day, minutes |-> 1,
                                         checkpoint |-> loop.val])
    BY <1>4, <2>1, <2>2, <2>3 DEF StartEntry
  <2>6. /\ DOMAIN timeline' = DOMAIN timeline \cup {t}
        /\ timeline'[t].app = i /\ timeline'[t].minutes = 1
        /\ \A s \in DOMAIN timeline \ {t} : timeline'[s] = timeline[s]
    BY <2>5 DEF Insert
  <2> QED BY <1>1, <2>4, <2>6, MinuteBooks
<1> QED BY <1>3, <1>4

LEMMA HandleBooks ==
    ASSUME KeptInv, StoreInv', Handle PROVE KeptInv' /\ BookStep
  BY FindBooks, WriteBooks, ReadBooks, EntryBooks DEF Handle

\* The insert of put_data, where it inserts.
Inserts(i, n) ==
    /\ i \in Ids /\ n \in Names /\ i \notin DOMAIN apps /\ Named(n) = {}
    /\ DOMAIN apps' = DOMAIN apps \cup {i}
    /\ apps'[i] = [name |-> n, duration |-> 0, launches |-> 0, longest |-> 0]
    /\ \A j \in DOMAIN apps : apps'[j] = apps[j]

\* The requests: one caller that looks before it inserts registers no name twice.
LEMMA NamesRegistered ==
    ASSUME Deleters = {}, \A v, w \in Adders : v = w, StoreInv, UniqueNames, Registering,
           NEW u \in Users, User(u)
    PROVE  UniqueNames' /\ Registering' /\ (apps' = apps \/ \E i, n : Inserts(i, n))
<1>1. upc \in [Users -> [at : UserStates, name : Names \cup {None}, id : Nat, val : Nat,
                         day : Nat, todo : SUBSET Ids]]
  BY DEF StoreInv, RequestType
<1>2. ASSUME apps' = apps, \A v \in Users \ {u} : upc'[v] = upc[v],
             upc'[u].at \in {"maxid", "insert"} => u \in Adders /\ Named(upc'[u].name) = {}
      PROVE  UniqueNames' /\ Registering'
  <2>1. \A n : Named(n)' = Named(n)
    BY <1>2 DEF Named
  <2> QED BY <1>2, <2>1 DEF Registering, UniqueNames
<1>3. CASE CreateOne(u) \/ DeleteOne(u)
  <2>1. upc' = upc /\ apps' = apps
    BY <1>3 DEF CreateOne, CreateCheckpoint, DeleteOne, DeleteCheckpoint
  <2> QED BY <2>1 DEF Registering, UniqueNames, Named
<1>4. CASE Switch(u) \/ RequestFails(u)
  <2>1. /\ apps' = apps /\ \A v \in Users \ {u} : upc'[v] = upc[v]
        /\ upc'[u].at \notin {"maxid", "insert"}
    <3>1. CASE \E c \in Ids, on \in BOOLEAN : SetActive(u, c, on)
      BY <1>1, <3>1 DEF SetActive, Continue, Idle, tables
    <3>2. CASE ListOthers(u)
      BY <1>1, <3>2 DEF ListOthers, Continue, tables
    <3>3. CASE DeactivateOther(u)
      <4>1. PICK c \in upc[u].todo :
               \/ Continue(u, [upc[u] EXCEPT !.at = IF upc[u].todo = {c} THEN "self" ELSE @,
                                             !.todo = @ \ {c}])
               \/ Reply(u)
        BY <3>3 DEF DeactivateOther
      <4>2. apps' = apps /\ upc[u].at = "each"
        BY <3>3 DEF DeactivateOther, At
      <4>3. CASE Reply(u)
        BY <1>1, <4>2, <4>3 DEF Reply, Idle
      <4>4. CASE upc[u].todo = {c} /\ Continue(u, [upc[u] EXCEPT !.at = "self", !.todo = @ \ {c}])
        BY <1>1, <4>2, <4>4 DEF Continue
      <4>5. CASE upc[u].todo # {c} /\ Continue(u, [upc[u] EXCEPT !.at = @, !.todo = @ \ {c}])
        BY <1>1, <4>2, <4>5 DEF Continue
      <4> QED BY <4>1, <4>3, <4>4, <4>5
    <3>4. CASE SetSelf(u) \/ RequestFails(u)
      BY <1>1, <3>4 DEF SetSelf, RequestFails, Reply, Idle, tables
    <3> QED BY <1>4, <3>1, <3>2, <3>3, <3>4 DEF Switch
  <2> QED BY <1>2, <2>1
<1>5. ASSUME NEW n \in Names, AddCheck(u, n) PROVE apps' = apps /\ UniqueNames' /\ Registering'
  BY <1>1, <1>2, <1>5 DEF AddCheck, Continue, Idle, tables
<1>6. CASE ReadMaxId(u)
  <2>1. Continue(u, [upc[u] EXCEPT !.at = "insert", !.id = NextId(apps)]) /\ apps' = apps
        /\ upc[u].at = "maxid"
    BY <1>6 DEF ReadMaxId, At, tables
  <2>2. upc'[u].name = upc[u].name /\ \A v \in Users \ {u} : upc'[v] = upc[v]
    BY <1>1, <2>1 DEF Continue
  <2>3. u \in Adders /\ Named(upc[u].name) = {}
    BY <2>1 DEF Registering
  <2> QED BY <1>2, <2>1, <2>2, <2>3
<1>7. CASE InsertApp(u)
  <2>1. PICK i, n : i = upc[u].id /\ n = upc[u].name
    OBVIOUS
  <2>2. i \in Ids /\ n \in Names /\ Named(n) = {} /\ u \in Adders
    BY <1>7, <2>1 DEF InsertApp, At, Registering, StoreInv, RequestType
  <2>3. \A v \in Users : upc'[v] = IF v = u THEN Idle ELSE upc[v]
    BY <1>1, <1>7 DEF InsertApp, Reply
  <2>4. CASE i \in DOMAIN apps
    BY <1>2, <1>7, <2>1, <2>3, <2>4 DEF InsertApp, Idle
  <2>5. CASE i \notin DOMAIN apps
    <3>1. apps' = Insert(apps, i, [name |-> n, duration |-> 0, launches |-> 0, longest |-> 0])
      BY <1>7, <2>1, <2>5 DEF InsertApp
    <3>2. Inserts(i, n)
      BY <2>2, <2>5, <3>1 DEF Inserts, Insert
    <3>3. UniqueNames'
      BY <3>2 DEF Inserts, UniqueNames, Named
    <3>4. Registering'
      BY <2>2, <2>3 DEF Registering, Idle
    <3> QED BY <3>2, <3>3, <3>4
  <2> QED BY <2>4, <2>5
<1>8. ~DeleteProcess(u)
  BY DEF DeleteProcess, DeleteApp
<1> QED BY <1>3, <1>4, <1>5, <1>6, <1>7, <1>8 DEF User, AddProcess, InsertApp, ReadMaxId, tables

\* An account is opened by the insert of put_data and by nothing else.
LEMMA RequestBooks ==
    ASSUME OneHand, KeptInv, StoreInv', NEW u \in Users, User(u) PROVE KeptInv' /\ BookStep
<1> USE DEF KeptInv
<1>1. UNCHANGED <<timeline, queue, half, loop, crashes>> /\ Pending' = Pending
      /\ (AddProcess(u) \/ CreateOne(u) \/ Switch(u))
  BY DEF OneHand, User, AddProcess, AddCheck, ReadMaxId, InsertApp, DeleteProcess, DeleteApp,
         CreateOne, CreateCheckpoint, DeleteOne, DeleteCheckpoint, Switch, SetActive, ListOthers,
         DeactivateOther, SetSelf, RequestFails, tables, channel, Pending, InHand, Event
<1>2. EventsMade'
  BY <1>1 DEF EventsMade, InHand, Event
<1>3. DOMAIN checkpoints \subseteq DOMAIN checkpoints'
  BY <1>1 DEF AddProcess, AddCheck, ReadMaxId, InsertApp, CreateOne, CreateCheckpoint, Insert,
              Switch, SetActive, ListOthers, DeactivateOther, SetSelf, tables
<1>4. UniqueNames' /\ Registering' /\ (apps' = apps \/ \E i, n : Inserts(i, n))
  BY NamesRegistered DEF OneHand
<1>5. CASE apps' = apps
  <2>1. SamePages
    BY <1>1, <1>5, TablesStay
  <2>2. LoopReads'
    BY <1>1, <1>3, <1>5 DEF LoopReads, Named, ReadColumn
  <2> QED BY <1>1, <1>2, <1>4, <2>1, <2>2 DEF BookStep, Unseen
<1>6. ASSUME NEW i, NEW n, Inserts(i, n) PROVE KeptInv' /\ BookStep
  <2>1. \A j : MinutesOf(j)' = MinutesOf(j)
    BY <1>1 DEF MinutesOf, MinutesColumn
  <2>2. MinutesOf(i) = 0
    <3>1. Ours(timeline, i) = {}
      BY <1>6 DEF Inserts, Ours, StoreInv, TablesType, TimelineType, TimelineRow
    <3> QED BY <3>1, SumEmpty, MinutesAreOurs
  <2>3. Page(i)' = Books!Opened
    BY <1>6, <2>1, <2>2 DEF Inserts, Page, Books!Opened
  <2>4. \A j \in DOMAIN apps : Page(j)' = Page(j)
    BY <1>6, <2>1 DEF Inserts, Page
  <2>5. Opens(i, n) /\ i \in Ids /\ n \in Names
    BY <1>1, <1>6, <2>3, <2>4 DEF Inserts, Opens
  <2>6. LoopReads'
    <3>1. \A m : Named(m) \subseteq Named(m)'
      BY <1>6 DEF Inserts, Named
    <3>2. loop.at = "write" => loop.id \in DOMAIN apps
      BY DEF LoopReads, Named
    <3> QED BY <1>1, <1>3, <1>6, <3>1, <3>2 DEF Inserts, LoopReads, ReadColumn
  <2> QED BY <1>2, <1>4, <2>5, <2>6 DEF BookStep
<1> QED BY <1>4, <1>5, <1>6

\* Every step keeps what the loop reads by, and is a step of the books.
LEMMA StepBooks ==
    ASSUME OneHand, KeptInv, [Next]_vars PROVE KeptInv' /\ BookStep
<1>1. StoreInv'
  BY NextTypes DEF KeptInv
<1>2. ~LoopFails
  BY DEF LoopFails, OneHand
<1> QED BY <1>1, <1>2, SenderBooks, IdleBooks, HandleBooks, RequestBooks, CrashBooks DEF Next, Work

LEMMA KeptHolds ==
    ASSUME OneHand PROVE Spec => []KeptInv
<1>1. Init => KeptInv
  BY InitTypes DEF Init, Booted, Idle, KeptInv, UniqueNames, Registering, EventsMade, LoopReads,
                   InHand
<1>2. KeptInv /\ [Next]_vars => KeptInv'
  BY StepBooks
<1> QED BY <1>1, <1>2, PTL DEF Spec

(***************************************************************************)
(* Ticks among the events: Duration and Timeline take turns, and what is   *)
(* owed is the Timeline whose Duration was settled.                        *)
(***************************************************************************)
Ticks(s) == {j \in 1 .. Len(s) : s[j].kind \in {"Duration", "Timeline"}}
IsFirst(s, j) == j \in Ticks(s) /\ \A m \in Ticks(s) : j <= m
IsLast(s, j) == j \in Ticks(s) /\ \A m \in Ticks(s) : m <= j

Alternates(s) ==
    \A j, k \in Ticks(s) :
        j < k /\ (\A m \in Ticks(s) : m <= j \/ k <= m) =>
            /\ s[j].kind = "Duration" <=> s[k].kind = "Timeline"
            /\ s[j].kind = "Duration" => s[j].name = s[k].name
EndsWith(s, h) ==
    \A j \in Ticks(s) : IsLast(s, j) => h = IF s[j].kind = "Duration" THEN s[j].name ELSE None
Paired(s, h) == Alternates(s) /\ EndsWith(s, h)

Owes(s, h, n) ==
    \/ \E j \in Ticks(s) : IsFirst(s, j) /\ s[j].kind = "Timeline" /\ s[j].name = n
    \/ Ticks(s) = {} /\ h = n
Owed(n) == IF Owes(Pending, half, n) THEN 1 ELSE 0

BalanceInv ==
    /\ Paired(Pending, half)
    /\ \A i \in DOMAIN apps :
          /\ apps[i].duration <= MinutesOf(i) + Owed(apps[i].name) + crashes
          /\ MinutesOf(i) + Owed(apps[i].name) <= apps[i].duration + 1

EventRow == [kind : Kinds, name : Names, n : Nat]

\* The sending of a tick's half, as the thread sees it.
Sends(e, h, next) ==
    \/ e.kind = "Duration" /\ h = None /\ next = e.name
    \/ e.kind = "Timeline" /\ h = e.name /\ next = None
    \/ e.kind \notin {"Duration", "Timeline"} /\ next = h

\* An event sent last continues the turns, and changes nothing of what is owed.
LEMMA TickComes ==
    ASSUME NEW s \in Seq(EventRow), NEW e \in EventRow, NEW h, NEW next, Sends(e, h, next),
           Paired(s, h)
    PROVE  /\ Paired(Append(s, e), next)
           /\ \A n \in Names : Owes(Append(s, e), next, n) <=> Owes(s, h, n)
<1> DEFINE t == Append(s, e)
           k == Len(s) + 1
<1>1. /\ Len(s) \in Nat /\ k \in Nat /\ Len(t) = k /\ t[k] = e
      /\ \A j \in 1 .. Len(s) : t[j] = s[j]
  OBVIOUS
<1>2. e.name \in Names /\ e.name # None
  BY NamesAssumption DEF EventRow
<1>3. ASSUME e.kind \in {"Duration", "Timeline"}
      PROVE  Ticks(t) = Ticks(s) \cup {k}
  BY <1>1, <1>3 DEF Ticks
<1>4. /\ Ticks(s) \subseteq 1 .. Len(s) /\ k \notin Ticks(s)
      /\ \A j \in Ticks(s) : j \in Nat /\ j < k /\ t[j] = s[j]
                             /\ s[j].kind \in {"Duration", "Timeline"}
  BY <1>1 DEF Ticks
<1>5. \A j \in Ticks(s) : s[j].name \in Names
  <2>1. \A j \in Ticks(s) : s[j] \in EventRow
    BY ElementOfSeq DEF Ticks
  <2> QED BY <2>1 DEF EventRow
<1> HIDE DEF t, k
<1>6. CASE e.kind \notin {"Duration", "Timeline"}
  <2>1. Ticks(t) = Ticks(s)
    BY <1>1, <1>6 DEF Ticks, k
  <2> QED BY <1>4, <1>6, <2>1 DEF Sends, Paired, Alternates, EndsWith, Owes, IsFirst, IsLast, t
<1>7. CASE e.kind \in {"Duration", "Timeline"}
  <2>1. \A j \in Ticks(s) : IsLast(s, j) =>
           /\ s[j].kind = "Duration" <=> e.kind = "Timeline"
           /\ s[j].kind = "Duration" => s[j].name = e.name
    BY <1>2, <1>5, <1>7, NamesAssumption DEF IsLast, Sends, Paired, EndsWith
  <2>2. Alternates(t)
    <3> SUFFICES ASSUME NEW i \in Ticks(t), NEW j \in Ticks(t), i < j,
                        \A m \in Ticks(t) : m <= i \/ j <= m
                 PROVE  /\ t[i].kind = "Duration" <=> t[j].kind = "Timeline"
                        /\ t[i].kind = "Duration" => t[i].name = t[j].name
      BY DEF Alternates
    <3>1. i \in Ticks(s)
      BY <1>1, <1>3, <1>4, <1>7
    <3>2. CASE j \in Ticks(s)
      BY <1>3, <1>4, <1>7, <3>1, <3>2 DEF Paired, Alternates
    <3>3. CASE j = k
      <4>1. IsLast(s, i)
        BY <1>1, <1>3, <1>4, <1>7, <3>1, <3>3 DEF IsLast
      <4> QED BY <1>1, <1>4, <2>1, <3>1, <3>3, <4>1
    <3> QED BY <1>3, <1>7, <3>2, <3>3
  <2>3. EndsWith(t, next)
    <3>1. ASSUME NEW j \in Ticks(t), IsLast(t, j) PROVE j = k
      BY <1>1, <1>3, <1>4, <1>7, <3>1 DEF IsLast
    <3>2. next = IF e.kind = "Duration" THEN e.name ELSE None
      BY <1>7 DEF Sends
    <3> QED BY <1>1, <3>1, <3>2 DEF EndsWith
  <2>4. ASSUME NEW n \in Names PROVE Owes(t, next, n) <=> Owes(s, h, n)
    <3>1. CASE Ticks(s) = {}
      <4>1. Ticks(t) = {k} /\ IsFirst(t, k)
        BY <1>1, <1>3, <1>7, <3>1 DEF IsFirst
      <4>2. Owes(t, next, n) <=> e.kind = "Timeline" /\ e.name = n
        BY <1>1, <4>1 DEF Owes
      <4>3. Owes(s, h, n) <=> h = n
        BY <3>1 DEF Owes
      <4> QED BY <1>7, <4>2, <4>3, NamesAssumption DEF Sends
    <3>2. CASE Ticks(s) # {}
      <4>1. \A j : IsFirst(t, j) <=> IsFirst(s, j)
        BY <1>1, <1>3, <1>4, <1>7, <3>2 DEF IsFirst
      <4>2. Ticks(t) # {} /\ \A j : IsFirst(s, j) => j \in Ticks(s) /\ j \in Ticks(t)
        BY <1>3, <1>7 DEF IsFirst
      <4> QED BY <1>4, <3>2, <4>1, <4>2 DEF Owes
    <3> QED BY <3>1, <3>2
  <2> QED BY <2>2, <2>3, <2>4 DEF Paired, t
<1> QED BY <1>6, <1>7

\* Taking the first event leaves the turns of the others.
LEMMA TicksOfTail ==
    ASSUME NEW s \in Seq(EventRow), s # << >>
    PROVE  /\ Ticks(s) \subseteq Nat \ {0} /\ Ticks(Tail(s)) \subseteq Nat \ {0}
           /\ \A j \in Ticks(Tail(s)) : j + 1 \in Ticks(s) /\ Tail(s)[j] = s[j + 1]
           /\ \A j \in Ticks(s) : j = 1 \/ j - 1 \in Ticks(Tail(s))
           /\ 1 \in Ticks(s) <=> Head(s).kind \in {"Duration", "Timeline"}
           /\ s[1] = Head(s)
           /\ \A j \in Ticks(s) : s[j].kind \in {"Duration", "Timeline"}
<1>1. /\ Len(s) \in Nat \ {0} /\ Len(Tail(s)) = Len(s) - 1
      /\ \A j \in 1 .. Len(Tail(s)) : Tail(s)[j] = s[j + 1]
      /\ Head(s) = s[1]
  OBVIOUS
<1> QED BY <1>1 DEF Ticks

LEMMA PairedTail ==
    ASSUME NEW s \in Seq(EventRow), s # << >>, NEW h, Paired(s, h)
    PROVE  Paired(Tail(s), h)
<1> DEFINE t == Tail(s)
<1>1. /\ Ticks(s) \subseteq Nat \ {0} /\ Ticks(t) \subseteq Nat \ {0}
      /\ \A j \in Ticks(t) : j + 1 \in Ticks(s) /\ t[j] = s[j + 1]
      /\ \A j \in Ticks(s) : j = 1 \/ j - 1 \in Ticks(t)
  BY TicksOfTail
<1> HIDE DEF t
<1>2. Alternates(t)
  <2> SUFFICES ASSUME NEW j \in Ticks(t), NEW k \in Ticks(t), j < k,
                      \A m \in Ticks(t) : m <= j \/ k <= m
               PROVE  /\ t[j].kind = "Duration" <=> t[k].kind = "Timeline"
                      /\ t[j].kind = "Duration" => t[j].name = t[k].name
    BY DEF Alternates
  <2>1. ASSUME NEW m \in Ticks(s) PROVE m <= j + 1 \/ k + 1 <= m
    <3>1. m = 1 \/ m - 1 <= j \/ k <= m - 1
      BY <1>1
    <3> QED BY <1>1, <3>1
  <2>2. j + 1 < k + 1
    BY <1>1
  <2> QED BY <1>1, <2>1, <2>2 DEF Paired, Alternates
<1>3. EndsWith(t, h)
  <2> SUFFICES ASSUME NEW j \in Ticks(t), IsLast(t, j)
               PROVE  h = IF t[j].kind = "Duration" THEN t[j].name ELSE None
    BY DEF EndsWith
  <2>1. ASSUME NEW m \in Ticks(s) PROVE m <= j + 1
    <3>1. m = 1 \/ m - 1 <= j
      BY <1>1 DEF IsLast
    <3> QED BY <1>1, <3>1
  <2>2. IsLast(s, j + 1)
    BY <1>1, <2>1 DEF IsLast
  <2> QED BY <1>1, <2>2 DEF Paired, EndsWith
<1> QED BY <1>2, <1>3 DEF Paired, t

\* What settling an event does to what is owed: a Duration is owed afterwards,
\* a Timeline no more, and no other event matters.
LEMMA TailOwes ==
    ASSUME NEW s \in Seq(EventRow), s # << >>, NEW h, Paired(s, h), NEW n \in Names
    PROVE  /\ Head(s).kind = "Duration" =>
                 ~Owes(s, h, n) /\ (Owes(Tail(s), h, n) <=> Head(s).name = n)
           /\ Head(s).kind = "Timeline" =>
                 ~Owes(Tail(s), h, n) /\ (Owes(s, h, n) <=> Head(s).name = n)
           /\ Head(s).kind \notin {"Duration", "Timeline"} =>
                 (Owes(Tail(s), h, n) <=> Owes(s, h, n))
<1> DEFINE t == Tail(s)
           e == Head(s)
<1>1. /\ Ticks(s) \subseteq Nat \ {0} /\ Ticks(t) \subseteq Nat \ {0}
      /\ \A j \in Ticks(t) : j + 1 \in Ticks(s) /\ t[j] = s[j + 1]
      /\ \A j \in Ticks(s) : j = 1 \/ j - 1 \in Ticks(t)
      /\ 1 \in Ticks(s) <=> e.kind \in {"Duration", "Timeline"}
      /\ s[1] = e
      /\ \A j \in Ticks(s) : s[j].kind \in {"Duration", "Timeline"}
  BY TicksOfTail
<1> HIDE DEF t, e
<1>2. CASE e.kind \in {"Duration", "Timeline"}
  <2>1. IsFirst(s, 1) /\ \A j : IsFirst(s, j) => j = 1
    BY <1>1, <1>2 DEF IsFirst
  <2>2. Owes(s, h, n) <=> e.kind = "Timeline" /\ e.name = n
    BY <1>1, <1>2, <2>1 DEF Owes
  <2>3. ASSUME NEW j \in Ticks(t), IsFirst(t, j)
        PROVE  /\ e.kind = "Duration" <=> t[j].kind = "Timeline"
               /\ e.kind = "Duration" => e.name = t[j].name
    <3>1. ASSUME NEW m \in Ticks(s) PROVE m <= 1 \/ j + 1 <= m
      <4>1. m = 1 \/ j <= m - 1
        BY <1>1, <2>3 DEF IsFirst
      <4> QED BY <1>1, <4>1
    <3>2. 1 \in Ticks(s) /\ j + 1 \in Ticks(s) /\ 1 < j + 1 /\ t[j] = s[j + 1]
      BY <1>1, <1>2
    <3> QED BY <1>1, <3>1, <3>2 DEF Paired, Alternates
  <2>4. CASE Ticks(t) = {}
    <3>1. IsLast(s, 1)
      BY <1>1, <1>2, <2>4 DEF IsLast
    <3>2. h = IF e.kind = "Duration" THEN e.name ELSE None
      BY <1>1, <1>2, <3>1 DEF Paired, EndsWith
    <3>3. Owes(t, h, n) <=> h = n
      BY <2>4 DEF Owes
    <3> QED BY <1>2, <2>2, <3>2, <3>3, NamesAssumption DEF t, e
  <2>5. CASE Ticks(t) # {}
    <3>1. PICK j \in Ticks(t) : IsFirst(t, j)
      BY <1>1, <2>5, LeastNumber DEF IsFirst
    <3>2. \A m : IsFirst(t, m) => m = j
      BY <1>1, <3>1 DEF IsFirst
    <3>3. Owes(t, h, n) <=> t[j].kind = "Timeline" /\ t[j].name = n
      BY <2>5, <3>1, <3>2 DEF Owes
    <3> QED BY <1>2, <2>2, <2>3, <3>1, <3>3 DEF t, e
  <2> QED BY <2>4, <2>5
<1>3. CASE e.kind \notin {"Duration", "Timeline"}
  <2>1. 1 \notin Ticks(s)
    BY <1>1, <1>3
  <2>2. \A j \in Ticks(s) : j - 1 \in Ticks(t) /\ (j - 1) + 1 = j /\ t[j - 1] = s[j]
    BY <1>1, <2>1
  <2>3. ASSUME NEW j \in Ticks(t) PROVE IsFirst(t, j) <=> IsFirst(s, j + 1)
    <3>1. ASSUME IsFirst(t, j), NEW m \in Ticks(s) PROVE j + 1 <= m
      <4>1. j <= m - 1
        BY <2>2, <3>1 DEF IsFirst
      <4> QED BY <1>1, <4>1
    <3>2. ASSUME IsFirst(s, j + 1), NEW m \in Ticks(t) PROVE j <= m
      <4>1. j + 1 <= m + 1
        BY <1>1, <3>2 DEF IsFirst
      <4> QED BY <1>1, <4>1
    <3> QED BY <1>1, <3>1, <3>2 DEF IsFirst
  <2>4. Ticks(t) = {} <=> Ticks(s) = {}
    BY <1>1, <2>2
  <2>5. (\E j \in Ticks(t) : IsFirst(t, j) /\ t[j].kind = "Timeline" /\ t[j].name = n)
          <=> \E j \in Ticks(s) : IsFirst(s, j) /\ s[j].kind = "Timeline" /\ s[j].name = n
    <3>1. ASSUME NEW j \in Ticks(t), IsFirst(t, j), t[j].kind = "Timeline", t[j].name = n
          PROVE  \E i \in Ticks(s) : IsFirst(s, i) /\ s[i].kind = "Timeline" /\ s[i].name = n
      BY <1>1, <2>3, <3>1
    <3>2. ASSUME NEW j \in Ticks(s), IsFirst(s, j), s[j].kind = "Timeline", s[j].name = n
          PROVE  \E i \in Ticks(t) : IsFirst(t, i) /\ t[i].kind = "Timeline" /\ t[i].name = n
      <4>1. IsFirst(t, j - 1)
        BY <2>2, <2>3, <3>2
      <4> QED BY <2>2, <3>2, <4>1
    <3> QED BY <3>1, <3>2
  <2> QED BY <1>3, <2>4, <2>5 DEF Owes, t, e
<1> QED BY <1>2, <1>3

LEMMA PendingType ==
    ASSUME KeptInv PROVE Pending \in Seq(EventRow) /\ Books!Event \subseteq EventRow
<1>1. queue \in Seq(EventRow)
  BY PendingParts DEF KeptInv, EventRow
<1>2. Books!Event \subseteq EventRow
  BY DEF Books!Event, Books!Kinds, EventRow, Kinds, Lengths
<1>3. InHand => Event \in EventRow
  BY <1>2 DEF KeptInv, EventsMade
<1>4. InHand => <<Event>> \o queue \in Seq(EventRow)
  BY <1>1, <1>3
<1> QED BY <1>1, <1>2, <1>4 DEF Pending

\* The pages are made of the columns that the balance is about.
LEMMA PageIs ==
    ASSUME KeptInv, KeptInv'
    PROVE  /\ \A i \in DOMAIN apps : apps[i].duration \in Nat /\ MinutesOf(i) \in Nat
                                     /\ apps[i].name \in Names
           /\ \A i : Page(i).duration = apps[i].duration /\ Page(i).minutes = MinutesOf(i)
           /\ \A i : /\ Page(i)'.duration = apps'[i].duration
                     /\ Page(i)'.minutes = MinutesOf(i)'
           /\ crashes \in Nat
<1>1. crashes \in Nat
  BY LimitsAssumption DEF KeptInv, StoreInv, ScalarsType
<1>2. \A i \in DOMAIN apps : apps[i] \in AppRow /\ MinutesOf(i) \in Nat
  BY ColumnType DEF KeptInv, StoreInv, TablesType, AppsType
<1>3. \A i \in DOMAIN apps : apps[i].duration \in Nat /\ apps[i].name \in Names
  BY <1>2 DEF AppRow
<1>4. /\ \A i : Page(i).duration = apps[i].duration /\ Page(i).minutes = MinutesOf(i)
      /\ \A i : Page(i)'.duration = apps'[i].duration /\ Page(i)'.minutes = MinutesOf(i)'
  BY DEF Page
<1> QED BY <1>1, <1>2, <1>3, <1>4

LEMMA BalanceStep ==
    ASSUME KeptInv, KeptInv', BookStep, BalanceInv PROVE BalanceInv'
<1> DEFINE M(i) == MinutesOf(i)
           N(i) == MinutesOf(i)'
           d(i) == apps[i].duration
           c(i) == apps'[i].duration
           o(i) == Owed(apps[i].name)
           p(i) == Owed(apps[i].name)'
<1>1. /\ \A i \in DOMAIN apps : d(i) \in Nat /\ M(i) \in Nat /\ apps[i].name \in Names
      /\ crashes \in Nat
  BY PageIs
<1>2. \A n : Owed(n) \in {0, 1} /\ Owed(n)' \in {0, 1}
  BY DEF Owed
<1>3. \A i \in DOMAIN apps : d(i) <= M(i) + o(i) + crashes /\ M(i) + o(i) <= d(i) + 1
  BY DEF BalanceInv
<1>4. Pending \in Seq(EventRow) /\ Books!Event \subseteq EventRow
  BY PendingType
<1>5. ASSUME Paired(Pending, half)',
             \A i \in DOMAIN apps' : c(i) <= N(i) + p(i) + crashes' /\ N(i) + p(i) <= c(i) + 1
      PROVE  BalanceInv'
  BY <1>5 DEF BalanceInv
<1>6. ASSUME SamePages
      PROVE  DOMAIN apps' = DOMAIN apps
             /\ \A i \in DOMAIN apps : c(i) = d(i) /\ N(i) = M(i) /\ apps'[i].name = apps[i].name
  BY <1>6, PageIs DEF SamePages, SameNames
<1>7. CASE Unseen
  <2>1. Paired(Pending, half)' /\ \A n : Owed(n)' = Owed(n)
    BY <1>7 DEF Unseen, BalanceInv, Owed
  <2> HIDE DEF M, N, d, c
  <2> QED BY <1>3, <1>5, <1>6, <1>7, <2>1 DEF Unseen
<1>8. CASE Loses
  <2>1. Paired(Pending, half)' /\ \A n \in Names : Owed(n)' = 0
    <3>1. Ticks(Pending') = {}
      BY <1>8 DEF Loses, Ticks
    <3>2. half' = None
      BY <1>8 DEF Loses
    <3> QED BY <3>1, <3>2, NamesAssumption
            DEF Paired, Alternates, EndsWith, Owed, Owes
  <2>2. \A i \in DOMAIN apps : p(i) = 0 /\ crashes' = crashes + 1 /\ SamePages
    BY <1>1, <1>6, <1>8, <2>1 DEF Loses
  <2>3. ASSUME NEW i \in DOMAIN apps
        PROVE  c(i) <= N(i) + p(i) + crashes' /\ N(i) + p(i) <= c(i) + 1
    <3>1. /\ d(i) \in Nat /\ M(i) \in Nat /\ o(i) \in {0, 1} /\ crashes \in Nat
          /\ d(i) <= M(i) + o(i) + crashes /\ M(i) + o(i) <= d(i) + 1
      BY <1>1, <1>2, <1>3
    <3>2. c(i) = d(i) /\ N(i) = M(i) /\ p(i) = 0 /\ crashes' = crashes + 1
      BY <1>6, <2>2
    <3> HIDE DEF M, N, d, c, o, p
    <3> QED BY <3>1, <3>2
  <2> HIDE DEF M, N, d, c, o, p
  <2> QED BY <1>5, <1>6, <1>8, <2>1, <2>3 DEF Loses
<1>9. ASSUME NEW e \in Books!Event, Emits(e) PROVE BalanceInv'
  <2>1. Sends(e, half, half') /\ Pending' = Append(Pending, e) /\ SamePages /\ crashes' = crashes
    BY <1>9 DEF Emits, Sends
  <2>2. /\ Paired(Append(Pending, e), half')
        /\ \A n \in Names : Owes(Append(Pending, e), half', n) <=> Owes(Pending, half, n)
    BY <1>4, <2>1, TickComes DEF BalanceInv
  <2>3. Paired(Pending, half)' /\ \A n \in Names : Owed(n)' = Owed(n)
    BY <2>1, <2>2 DEF Owed
  <2>4. \A i \in DOMAIN apps : p(i) = o(i)
    BY <1>1, <1>6, <2>1, <2>3
  <2> HIDE DEF M, N, d, c, o, p
  <2> QED BY <1>3, <1>5, <1>6, <2>1, <2>3, <2>4
<1>10. ASSUME NEW e \in Books!Event, Settles(e) PROVE BalanceInv'
  <2>1. Pending # << >> /\ e = Head(Pending) /\ Pending' = Tail(Pending)
        /\ half' = half /\ crashes' = crashes /\ SameNames
    BY <1>10 DEF Settles
  <2>2. Paired(Pending, half)'
    BY <1>4, <2>1, PairedTail DEF BalanceInv
  <2>3. ASSUME NEW n \in Names
        PROVE  /\ e.kind = "Duration" => Owed(n) = 0 /\ Owed(n)' = IF e.name = n THEN 1 ELSE 0
               /\ e.kind = "Timeline" => Owed(n)' = 0 /\ Owed(n) = IF e.name = n THEN 1 ELSE 0
               /\ e.kind \notin {"Duration", "Timeline"} => Owed(n)' = Owed(n)
    <3>1. /\ e.kind = "Duration" =>
                ~Owes(Pending, half, n) /\ (Owes(Tail(Pending), half, n) <=> e.name = n)
          /\ e.kind = "Timeline" =>
                ~Owes(Tail(Pending), half, n) /\ (Owes(Pending, half, n) <=> e.name = n)
          /\ e.kind \notin {"Duration", "Timeline"} =>
                (Owes(Tail(Pending), half, n) <=> Owes(Pending, half, n))
      BY <1>4, <2>1, TailOwes DEF BalanceInv
    <3>2. Owed(n)' = IF Owes(Tail(Pending), half, n) THEN 1 ELSE 0
      BY <2>1 DEF Owed
    <3> QED BY <3>1, <3>2 DEF Owed
  <2>4. ASSUME NEW i \in DOMAIN apps
        PROVE  /\ apps'[i].name = apps[i].name
               /\ c(i) = IF apps[i].name = e.name /\ e.kind = "Duration" THEN d(i) + 1 ELSE d(i)
               /\ N(i) = IF apps[i].name = e.name /\ e.kind = "Timeline" THEN M(i) + 1 ELSE M(i)
    <3>1. Page(i)' = IF apps[i].name = e.name THEN Books!Account(Page(i), e) ELSE Page(i)
      BY <1>10 DEF Settles
    <3>2. /\ Books!Account(Page(i), e).duration
               = IF e.kind = "Duration" THEN d(i) + 1 ELSE d(i)
          /\ Books!Account(Page(i), e).minutes
               = IF e.kind = "Timeline" THEN M(i) + 1 ELSE M(i)
      <4> DEFINE l == IF e.kind = "Launches" THEN apps[i].launches + 1 ELSE apps[i].launches
                 g == IF e.n > apps[i].longest THEN e.n ELSE apps[i].longest
      <4>1. Books!Account(Page(i), e) =
               [duration |-> IF e.kind = "Duration" THEN d(i) + 1 ELSE d(i),
                launches |-> l, longest |-> g,
                minutes |-> IF e.kind = "Timeline" THEN M(i) + 1 ELSE M(i)]
        BY AccountParts DEF Page
      <4> HIDE DEF l, g, M, d
      <4> QED BY <4>1
    <3>3. c(i) = Page(i)'.duration /\ N(i) = Page(i)'.minutes
          /\ Page(i).duration = d(i) /\ Page(i).minutes = M(i)
      BY PageIs
    <3>4. apps'[i].name = apps[i].name
      BY <2>1 DEF SameNames
    <3> HIDE DEF M, N, d, c
    <3> QED BY <3>1, <3>2, <3>3, <3>4
  <2>5. ASSUME NEW i \in DOMAIN apps
        PROVE  c(i) <= N(i) + p(i) + crashes /\ N(i) + p(i) <= c(i) + 1
    <3>1. /\ d(i) \in Nat /\ M(i) \in Nat /\ o(i) \in {0, 1} /\ crashes \in Nat
          /\ p(i) \in {0, 1}
          /\ d(i) <= M(i) + o(i) + crashes /\ M(i) + o(i) <= d(i) + 1
      BY <1>1, <1>2, <1>3
    <3>2. /\ e.kind = "Duration" => o(i) = 0 /\ p(i) = IF e.name = apps[i].name THEN 1 ELSE 0
          /\ e.kind = "Timeline" => p(i) = 0 /\ o(i) = IF e.name = apps[i].name THEN 1 ELSE 0
          /\ e.kind \notin {"Duration", "Timeline"} => p(i) = o(i)
      BY <1>1, <2>3, <2>4
    <3>3. /\ c(i) = IF apps[i].name = e.name /\ e.kind = "Duration" THEN d(i) + 1 ELSE d(i)
          /\ N(i) = IF apps[i].name = e.name /\ e.kind = "Timeline" THEN M(i) + 1 ELSE M(i)
      BY <2>4
    <3> HIDE DEF M, N, d, c, o, p
    <3> QED BY <3>1, <3>2, <3>3
  <2>6. DOMAIN apps' = DOMAIN apps
    BY <2>1 DEF SameNames
  <2> HIDE DEF M, N, d, c, o, p
  <2> QED BY <1>5, <2>1, <2>2, <2>5, <2>6
<1>11. ASSUME NEW i \in Ids, NEW n \in Names, Opens(i, n) PROVE BalanceInv'
  <2>1. /\ DOMAIN apps' = DOMAIN apps \cup {i} /\ crashes' = crashes
        /\ Paired(Pending, half)' /\ \A m : Owed(m)' = Owed(m)
    BY <1>11 DEF Opens, BalanceInv, Owed
  <2>2. c(i) = 0 /\ N(i) = 0
    BY <1>11, PageIs DEF Opens, Books!Opened
  <2>3. \A j \in DOMAIN apps : c(j) = d(j) /\ N(j) = M(j) /\ p(j) = o(j)
    BY <1>11, <2>1, PageIs DEF Opens
  <2>4. c(i) <= N(i) + p(i) + crashes /\ N(i) + p(i) <= c(i) + 1
    <3>1. p(i) \in {0, 1}
      BY <1>2
    <3> HIDE DEF N, c, p
    <3> QED BY <1>1, <2>2, <3>1
  <2> HIDE DEF M, N, d, c, o, p
  <2> QED BY <1>3, <1>5, <2>1, <2>3, <2>4
<1> QED BY <1>7, <1>8, <1>9, <1>10, <1>11 DEF BookStep

\* The two counters of a minute stay a tick apart, and a crash more at most:
\* no interleaving of four handlers, midnight, registrations and crashes adds up.
THEOREM BalanceCorrect ==
    ASSUME OneHand PROVE Spec => []BooksBalance
<1>1. Init => BalanceInv
  BY DEF Init, Booted, BalanceInv, Pending, InHand, Paired, Alternates, EndsWith, Ticks
<1>2. KeptInv /\ KeptInv' /\ [Next]_vars /\ BalanceInv => BalanceInv'
  BY StepBooks, BalanceStep
<1>3. KeptInv /\ BalanceInv => BooksBalance
  <2> SUFFICES ASSUME KeptInv, BalanceInv, NEW i \in DOMAIN apps
               PROVE  /\ apps[i].duration <= MinutesOf(i) + 1 + crashes
                      /\ MinutesOf(i) <= apps[i].duration + 1
    BY DEF BooksBalance
  <2>1. apps[i].duration \in Nat /\ MinutesOf(i) \in Nat /\ crashes \in Nat
    BY ColumnType, LimitsAssumption DEF KeptInv, StoreInv, TablesType, AppsType, AppRow, ScalarsType
  <2>2. Owed(apps[i].name) \in {0, 1}
    BY DEF Owed
  <2> QED BY <2>1, <2>2 DEF BalanceInv
<1>4. Spec => []KeptInv
  BY KeptHolds
<1> QED BY <1>1, <1>2, <1>3, <1>4, PTL DEF Spec

(***************************************************************************)
(* Store implements Ledger: each of its steps is a step of the books.      *)
(***************************************************************************)
\* The book holds the page of the one row that carries the name.
BookRight ==
    /\ DOMAIN Book = Registered /\ Book = [n \in Registered |-> Book[n]]
    /\ \A i \in DOMAIN apps : apps[i].name \in Registered /\ Book[apps[i].name] = Page(i)
    /\ \A n \in Registered : \E i \in DOMAIN apps : apps[i].name = n

LEMMA BookHolds == UniqueNames => BookRight
<1> SUFFICES ASSUME UniqueNames PROVE BookRight
  OBVIOUS
<1>1. DOMAIN Book = Registered /\ Book = [n \in Registered |-> Book[n]]
  BY DEF Book
<1>2. \A n \in Registered : \E i \in DOMAIN apps : apps[i].name = n
  BY DEF Registered
<1>3. ASSUME NEW i \in DOMAIN apps
      PROVE  apps[i].name \in Registered /\ Book[apps[i].name] = Page(i)
  <2>1. apps[i].name \in Registered
    BY DEF Registered
  <2>2. (CHOOSE j \in DOMAIN apps : apps[j].name = apps[i].name) = i
    BY DEF UniqueNames
  <2> QED BY <2>1, <2>2 DEF Book, Page
<1> QED BY <1>1, <1>2, <1>3 DEF BookRight

LEMMA BookStays ==
    ASSUME UniqueNames, UniqueNames', SamePages PROVE Book' = Book
<1>0. BookRight /\ BookRight'
  BY BookHolds, PTL
<1>1. /\ DOMAIN Book = Registered /\ Book = [n \in Registered |-> Book[n]]
      /\ \A i \in DOMAIN apps : apps[i].name \in Registered /\ Book[apps[i].name] = Page(i)
      /\ \A n \in Registered : \E i \in DOMAIN apps : apps[i].name = n
  BY <1>0 DEF BookRight
<1>2. /\ Book' = [n \in Registered' |-> Book'[n]]
      /\ \A i \in DOMAIN apps' : Book'[apps'[i].name] = Page(i)'
  BY <1>0 DEF BookRight
<1>3. Registered' = Registered
  BY DEF SamePages, SameNames, Registered
<1>4. \A n \in Registered : Book'[n] = Book[n]
  BY <1>1, <1>2 DEF SamePages, SameNames
<1> QED BY <1>1, <1>2, <1>3, <1>4

LEMMA BookSettles ==
    ASSUME UniqueNames, UniqueNames', NEW e, Settles(e) PROVE Books!Settle
<1>0. BookRight /\ BookRight'
  BY BookHolds, PTL
<1>1. /\ DOMAIN Book = Registered /\ Book = [n \in Registered |-> Book[n]]
      /\ \A i \in DOMAIN apps : apps[i].name \in Registered /\ Book[apps[i].name] = Page(i)
      /\ \A n \in Registered : \E i \in DOMAIN apps : apps[i].name = n
  BY <1>0 DEF BookRight
<1>2. /\ Book' = [n \in Registered' |-> Book'[n]]
      /\ \A i \in DOMAIN apps' : Book'[apps'[i].name] = Page(i)'
  BY <1>0 DEF BookRight
<1>3. Registered' = Registered
  BY DEF Settles, SameNames, Registered
<1>4. \A n \in Registered :
         Book'[n] = IF n = e.name THEN Books!Account(Book[n], e) ELSE Book[n]
  <2> SUFFICES ASSUME NEW n \in Registered
               PROVE  Book'[n] = IF n = e.name THEN Books!Account(Book[n], e) ELSE Book[n]
    OBVIOUS
  <2>1. PICK i \in DOMAIN apps : apps[i].name = n
    BY <1>1
  <2>2. i \in DOMAIN apps' /\ apps'[i].name = n
    BY <2>1 DEF Settles, SameNames
  <2>3. Book[n] = Page(i) /\ Book'[n] = Page(i)'
    BY <1>1, <1>2, <2>1, <2>2
  <2> QED BY <2>1, <2>3 DEF Settles
<1>5. Book' = IF e.name \in DOMAIN Book
              THEN [Book EXCEPT ![e.name] = Books!Account(Book[e.name], e)] ELSE Book
  <2>1. Book' = [n \in Registered |->
                    IF n = e.name THEN Books!Account(Book[n], e) ELSE Book[n]]
    BY <1>2, <1>3, <1>4
  <2>2. CASE e.name \in Registered
    BY <1>1, <2>1, <2>2
  <2>3. CASE e.name \notin Registered
    BY <1>1, <2>1, <2>3
  <2> QED BY <1>1, <2>2, <2>3
<1> QED BY <1>5 DEF Settles, Books!Settle

LEMMA BookOpens ==
    ASSUME UniqueNames, UniqueNames', NEW i, NEW n \in Names, Opens(i, n) PROVE Books!Register
<1>0. BookRight /\ BookRight'
  BY BookHolds, PTL
<1>1. /\ DOMAIN Book = Registered /\ Book = [m \in Registered |-> Book[m]]
      /\ \A j \in DOMAIN apps : apps[j].name \in Registered /\ Book[apps[j].name] = Page(j)
      /\ \A m \in Registered : \E j \in DOMAIN apps : apps[j].name = m
  BY <1>0 DEF BookRight
<1>2. /\ Book' = [m \in Registered' |-> Book'[m]]
      /\ \A j \in DOMAIN apps' : Book'[apps'[j].name] = Page(j)'
  BY <1>0 DEF BookRight
<1>3. Registered' = Registered \cup {n} /\ n \notin Registered
  <2>1. /\ DOMAIN apps' = DOMAIN apps \cup {i} /\ apps'[i].name = n
        /\ \A j \in DOMAIN apps : apps'[j].name = apps[j].name
    BY DEF Opens
  <2>2. n \notin Registered
    BY DEF Opens, Named, Registered
  <2> QED BY <2>1, <2>2 DEF Registered
<1>4. Book'[n] = Books!Opened
  BY <1>2 DEF Opens
<1>5. \A m \in Registered : Book'[m] = Book[m]
  BY <1>1, <1>2 DEF Opens
<1>6. Book' = [m \in DOMAIN Book \cup {n} |-> IF m = n THEN Books!Opened ELSE Book[m]]
  BY <1>1, <1>2, <1>3, <1>4, <1>5
<1> QED BY <1>1, <1>3, <1>6 DEF Opens, Books!Register

\* Four handlers of several statements each, midnight, registrations and crashes:
\* the tables show the books of Ledger, whose every step is one event or one crash.
THEOREM LedgerCorrect ==
    ASSUME OneHand PROVE Spec => LedgerKept
<1>1. Init => Books!Init
  <2> SUFFICES ASSUME Init PROVE Books!Init
    OBVIOUS
  <2>1. Pending = << >> /\ crashes = 0
    BY DEF Init, Booted, Pending, InHand
  <2>2. Book = << >>
    <3>1. Registered = {}
      BY DEF Init, Registered
    <3> QED BY <3>1 DEF Book
  <2> QED BY <2>1, <2>2 DEF Books!Init
<1>2. KeptInv /\ KeptInv' /\ [Next]_vars => [Books!Next]_(Books!ledger)
  <2> SUFFICES ASSUME KeptInv, KeptInv', [Next]_vars PROVE [Books!Next]_(Books!ledger)
    OBVIOUS
  <2>1. BookStep
    BY StepBooks
  <2>2. UniqueNames /\ UniqueNames'
    BY DEF KeptInv
  <2>3. CASE Unseen
    BY <2>2, <2>3, BookStays DEF Unseen, Books!ledger
  <2>4. CASE Loses
    BY <2>2, <2>4, BookStays DEF Loses, Books!Next, Books!Crash
  <2>5. ASSUME NEW e \in Books!Event, Emits(e) PROVE Books!Next
    BY <2>2, <2>5, BookStays DEF Emits, Books!Next, Books!Emit
  <2>6. ASSUME NEW e \in Books!Event, Settles(e) PROVE Books!Next
    BY <2>2, <2>6, BookSettles DEF Books!Next
  <2>7. ASSUME NEW i \in Ids, NEW n \in Names, Opens(i, n) PROVE Books!Next
    BY <2>2, <2>7, BookOpens DEF Books!Next
  <2> QED BY <2>1, <2>3, <2>4, <2>5, <2>6, <2>7 DEF BookStep
<1>3. Spec => []KeptInv
  BY KeptHolds
<1> QED BY <1>1, <1>2, <1>3, PTL DEF Spec, LedgerKept, Books!Safety
=============================================================================
