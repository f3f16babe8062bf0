----------------------------- MODULE DataProofs -----------------------------
(***************************************************************************)
(* Lemmas about the data several components are built from: what a row     *)
(* more does to what an audit log tells, and what a sum over a finite set  *)
(* is.  The sums are folds, and what is said of them is proved by          *)
(* induction: every set of numbers has a least element, and every set of   *)
(* subsets of a finite set a smallest.                                     *)
(***************************************************************************)
EXTENDS AuditLog, FiniteSets, Functions, FiniteSetTheorems, WellFoundedInduction, TLAPS

LEMMA AppendedLog ==
    ASSUME NEW Log, NEW log \in Seq(Log), NEW row \in Log
    PROVE  /\ DOMAIN log = 1 .. Len(log) /\ Len(log) \in Nat
           /\ DOMAIN Append(log, row) = 1 .. Len(log) + 1
           /\ Append(log, row)[Len(log) + 1] = row
           /\ \A i \in 1 .. Len(log) : Append(log, row)[i] = log[i]
  OBVIOUS

(* The last row decides whether there is something to tell of.             *)
LEMMA AppendStanding ==
    ASSUME NEW Log, NEW log \in Seq(Log), NEW row \in Log
    PROVE  Standing(Append(log, row)) <=> row.action # "delete"
  BY DEF Standing

(* What the last row tells of is told last.                                *)
LEMMA AppendTold ==
    ASSUME NEW Log, NEW log \in Seq(Log), NEW row \in Log, NEW column \in DOMAIN row.changes
    PROVE  LastTold(Append(log, row), column, row.changes[column])
  <1>1. Len(log) + 1 \in DOMAIN Append(log, row)
    BY AppendedLog
  <1>2. \A j \in DOMAIN Append(log, row) : ~(j > Len(log) + 1)
    BY AppendedLog
  <1>3. Append(log, row)[Len(log) + 1] = row
    BY AppendedLog
  <1> QED
    BY <1>1, <1>2, <1>3 DEF LastTold

(* What an update does not tell of is told as before.                      *)
LEMMA AppendUntold ==
    ASSUME NEW Log, NEW log \in Seq(Log), NEW row \in Log, row.action = "update",
           NEW column, column \notin DOMAIN row.changes, NEW value, LastTold(log, column, value)
    PROVE  LastTold(Append(log, row), column, value)
  <1> DEFINE more == Append(log, row)
  <1>1. /\ DOMAIN log = 1 .. Len(log) /\ Len(log) \in Nat /\ DOMAIN more = 1 .. Len(log) + 1
        /\ more[Len(log) + 1] = row /\ \A i \in 1 .. Len(log) : more[i] = log[i]
    BY AppendedLog
  <1> HIDE DEF more
  <1>2. PICK i \in DOMAIN log :
            /\ column \in DOMAIN log[i].changes /\ log[i].changes[column] = value
            /\ \A j \in DOMAIN log :
                  j > i => log[j].action = "update" /\ column \notin DOMAIN log[j].changes
    BY DEF LastTold
  <1>3. i \in DOMAIN more /\ more[i] = log[i]
    BY <1>1
  <1>4. ASSUME NEW j \in DOMAIN more, j > i
        PROVE  more[j].action = "update" /\ column \notin DOMAIN more[j].changes
    BY <1>1, <1>2, <1>4
  <1> QED
    BY <1>2, <1>3, <1>4 DEF LastTold, more

-----------------------------------------------------------------------------
(* Induction                                                               *)

LEMMA LeastNumber ==
    ASSUME NEW S \in SUBSET Nat, S # {}
    PROVE  \E n \in S : \A m \in S : n <= m
  <1>1. IsWellFoundedOn(OpToRel(<, Nat), Nat)
    BY NatLessThanWellFounded
  <1>2. PICK n \in S : \A m \in S : ~ (<<m, n>> \in OpToRel(<, Nat))
    BY <1>1, WFMin
  <1>3. \A m \in S : <<m, n>> \in Nat \X Nat /\ <<m, n>>[1] = m /\ <<m, n>>[2] = n
    OBVIOUS
  <1>4. \A m \in S : ~ (m < n)
    BY <1>2, <1>3 DEF OpToRel
  <1> QED
    BY <1>4

LEMMA NumbersInduction ==
    ASSUME NEW m \in Nat, NEW n \in Nat, NEW Good, m \in Good,
           \A d \in m..(n - 1) : d \in Good => d + 1 \in Good
    PROVE  \A d \in m..n : d \in Good
  <1> SUFFICES ASSUME NEW e \in m..n, e \notin Good PROVE FALSE
    OBVIOUS
  <1>1. PICK Bad : Bad = {d \in m..n : d \notin Good}
    OBVIOUS
  <1>2. Bad \in SUBSET Nat /\ Bad # {}
    BY <1>1
  <1>3. PICK d \in Bad : \A c \in Bad : d <= c
    BY <1>2, LeastNumber
  <1>4. d \in m..n /\ d \notin Good /\ d # m
    BY <1>1, <1>3
  <1>5. d - 1 \in m..(n - 1) /\ d - 1 \in m..n /\ (d - 1) + 1 = d
    BY <1>4
  <1>6. d - 1 \in Good
    BY <1>1, <1>3, <1>5
  <1> QED
    BY <1>4, <1>5, <1>6

(* A set of subsets of a finite set that holds what all of whose proper     *)
(* subsets it holds is the set of all subsets.                              *)
LEMMA SubsetsInduction ==
    ASSUME NEW S, IsFiniteSet(S), NEW Good,
           \A A \in SUBSET S : (\A B \in SUBSET A : B # A => B \in Good) => A \in Good
    PROVE  \A A \in SUBSET S : A \in Good
  <1> SUFFICES ASSUME ~ (\A A \in SUBSET S : A \in Good) PROVE FALSE
    OBVIOUS
  <1>0. PICK Bad : Bad = (SUBSET S) \ Good
    OBVIOUS
  <1> DEFINE R == StrictSubsetOrdering(S)
             T == SUBSET S
  <1>1. IsWellFoundedOn(R, T)
    <2>1. FiniteSubsetsOf(S) = SUBSET S
      BY FS_FiniteSubsetsOfFinite
    <2> QED
      BY ONLY <2>1, FS_StrictSubsetOrderingWellFounded
  <1>2. \E A \in Bad : \A B \in Bad : ~ (<<B, A>> \in R)
    <2>1. Bad \subseteq T /\ Bad # {}
      BY <1>0
    <2> HIDE DEF R, T
    <2> QED
      BY <1>1, <2>1, WFMin
  <1>3. PICK A \in Bad : \A B \in Bad : <<B, A>> \notin R
    BY <1>2
  <1>4. ASSUME NEW B \in SUBSET A, B # A PROVE B \in Good
    <2>1. <<B, A>> \in R
      BY <1>0, <1>3, <1>4 DEF StrictSubsetOrdering
    <2> QED
      BY <1>0, <1>3, <1>4, <2>1
  <1>5. A \in SUBSET S /\ A \notin Good
    BY <1>0, <1>3
  <1> QED
    BY <1>4, <1>5

-----------------------------------------------------------------------------
(* Sums                                                                    *)

Pick(s) == CHOOSE x \in s : TRUE

LEMMA Picked == \A s : s # {} => Pick(s) \in s
  BY Zenon DEF Pick

(* g sums f over the subsets of A, as the fold's definition does.           *)
Sums(f, A, g) ==
    g = [s \in SUBSET A |-> IF s = {} THEN 0 ELSE f[Pick(s)] + g[s \ {Pick(s)}]]

LEMMA SumsAgree ==
    ASSUME NEW f, NEW A, NEW g, Sums(f, A, g), NEW B, NEW h, Sums(f, B, h), IsFiniteSet(A)
    PROVE  \A s \in SUBSET (A \cap B) : g[s] = h[s]
  <1> DEFINE Good == {s \in SUBSET (A \cap B) : g[s] = h[s]}
  <1>1. IsFiniteSet(A \cap B)
    BY FS_Intersection
  <1>2. ASSUME NEW s \in SUBSET (A \cap B), \A t \in SUBSET s : t # s => t \in Good
        PROVE  s \in Good
    <2>1. g[s] = IF s = {} THEN 0 ELSE f[Pick(s)] + g[s \ {Pick(s)}]
      BY DEF Sums
    <2>2. h[s] = IF s = {} THEN 0 ELSE f[Pick(s)] + h[s \ {Pick(s)}]
      BY DEF Sums
    <2>3. s # {} => g[s \ {Pick(s)}] = h[s \ {Pick(s)}]
      BY <1>2, Picked
    <2> QED
      BY <2>1, <2>2, <2>3
  <1>3. \A s \in SUBSET (A \cap B) : s \in Good
    <2> HIDE DEF Good
    <2> QED
      BY <1>1, <1>2, SubsetsInduction
  <1> QED
    BY <1>3

SumOf(f, A) == CHOOSE g : Sums(f, A, g)

LEMMA SumsExist ==
    ASSUME NEW f, NEW S, IsFiniteSet(S)
    PROVE  Sums(f, S, SumOf(f, S))
  <1> DEFINE Good == {A \in SUBSET S : Sums(f, A, SumOf(f, A))}
  <1>1. ASSUME NEW A \in SUBSET S, \A B \in SUBSET A : B # A => B \in Good
        PROVE  A \in Good
    <2> DEFINE rest(s) == s \ {Pick(s)}
               G == [s \in SUBSET A |-> IF s = {} THEN 0 ELSE f[Pick(s)] + SumOf(f, rest(s))[rest(s)]]
    <2>1. ASSUME NEW s \in SUBSET A, s # {} PROVE G[rest(s)] = SumOf(f, rest(s))[rest(s)]
      <3>1. PICK r : r = rest(s)
        OBVIOUS
      <3>2. r \in SUBSET A /\ r # A
        BY <2>1, <3>1, Picked
      <3>3. Sums(f, r, SumOf(f, r))
        BY <1>1, <3>2
      <3>4. CASE r = {}
        <4>1. SumOf(f, r)[r] = 0
          BY <3>3, <3>4 DEF Sums
        <4> QED
          BY <3>1, <3>2, <3>4, <4>1
      <3>5. CASE r # {}
        <4>1. SumOf(f, r)[r] = f[Pick(r)] + SumOf(f, r)[rest(r)]
          BY <3>3, <3>5 DEF Sums
        <4>2. rest(r) \in SUBSET r /\ rest(r) # A
          BY <3>2, <3>5, Picked
        <4>3. Sums(f, rest(r), SumOf(f, rest(r)))
          BY <1>1, <3>2, <4>2
        <4>4. SumOf(f, r)[rest(r)] = SumOf(f, rest(r))[rest(r)]
          <5>1. IsFiniteSet(r) /\ rest(r) \in SUBSET (r \cap rest(r))
            BY <3>2, <4>2, FS_Subset
          <5> QED
            BY <3>3, <4>3, <5>1, SumsAgree
        <4>5. G[r] = f[Pick(r)] + SumOf(f, rest(r))[rest(r)]
          BY <3>2, <3>5
        <4> QED
          BY <3>1, <4>1, <4>4, <4>5
      <3> QED
        BY <3>4, <3>5
    <2>2. Sums(f, A, G)
      <3> HIDE DEF rest
      <3>1. G = [s \in SUBSET A |-> IF s = {} THEN 0 ELSE f[Pick(s)] + G[rest(s)]]
        BY <2>1
      <3> QED
        BY <3>1 DEF Sums, rest
    <2>3. Sums(f, A, SumOf(f, A))
      BY <2>2, Zenon DEF SumOf
    <2> QED
      BY <2>3
  <1>2. \A A \in SUBSET S : A \in Good
    <2> HIDE DEF Good
    <2> QED
      BY <1>1, SubsetsInduction
  <1> QED
    BY <1>2

LEMMA SumIs == ASSUME NEW f, NEW S PROVE SumFunctionOnSet(f, S) = SumOf(f, S)[S]
  BY DEF SumFunctionOnSet, FoldFunctionOnSet, MapThenFoldSet, SumOf, Sums, Pick

LEMMA SumFirst ==
    ASSUME NEW f, NEW A, IsFiniteSet(A)
    PROVE  SumFunctionOnSet(f, A) = IF A = {} THEN 0 ELSE f[Pick(A)] + SumFunctionOnSet(f, A \ {Pick(A)})
  <1>1. Sums(f, A, SumOf(f, A))
    BY SumsExist
  <1>2. SumOf(f, A)[A] = IF A = {} THEN 0 ELSE f[Pick(A)] + SumOf(f, A)[A \ {Pick(A)}]
    BY <1>1 DEF Sums
  <1>3. PICK B : B = A \ {Pick(A)}
    OBVIOUS
  <1>4. IsFiniteSet(B) /\ B \in SUBSET (A \cap B)
    BY <1>3, FS_Subset
  <1>5. Sums(f, B, SumOf(f, B))
    BY <1>4, SumsExist
  <1>6. SumOf(f, A)[B] = SumOf(f, B)[B]
    BY <1>1, <1>4, <1>5, SumsAgree
  <1> QED
    BY <1>2, <1>3, <1>6, SumIs

LEMMA SumTyped ==
    ASSUME NEW A, IsFiniteSet(A), NEW f, \A x \in A : f[x] \in Int
    PROVE  SumFunctionOnSet(f, A) \in Int
  <1> DEFINE Good == {B \in SUBSET A : SumFunctionOnSet(f, B) \in Int}
  <1>1. ASSUME NEW B \in SUBSET A, \A C \in SUBSET B : C # B => C \in Good PROVE B \in Good
    <2>1. IsFiniteSet(B)
      BY FS_Subset
    <2>2. CASE B # {}
      <3>1. Pick(B) \in A /\ B \ {Pick(B)} \in Good
        BY <1>1, <2>2, Picked
      <3> QED
        BY <2>1, <2>2, <3>1, SumFirst
    <2>3. CASE B = {}
      <3>1. SumFunctionOnSet(f, B) = 0
        BY <2>1, <2>3, SumFirst
      <3> QED
        BY <3>1
    <2> QED
      BY <2>2, <2>3
  <1>2. \A B \in SUBSET A : B \in Good
    <2> HIDE DEF Good
    <2> QED
      BY <1>1, SubsetsInduction
  <1> QED
    BY <1>2

(* Any element may be taken first.                                         *)
LEMMA SumWithout ==
    ASSUME NEW A, IsFiniteSet(A), NEW f, \A x \in A : f[x] \in Int, NEW x \in A
    PROVE  SumFunctionOnSet(f, A) = f[x] + SumFunctionOnSet(f, A \ {x})
  <1> DEFINE Good == {B \in SUBSET A :
                        \A y \in B : SumFunctionOnSet(f, B) = f[y] + SumFunctionOnSet(f, B \ {y})}
  <1>1. ASSUME NEW B \in SUBSET A, \A C \in SUBSET B : C # B => C \in Good PROVE B \in Good
    <2>1. SUFFICES ASSUME NEW y \in B
                   PROVE  SumFunctionOnSet(f, B) = f[y] + SumFunctionOnSet(f, B \ {y})
      BY Zenon
    <2>2. PICK z : z = Pick(B)
      OBVIOUS
    <2>3. z \in B /\ IsFiniteSet(B)
      BY <2>2, Picked, FS_Subset
    <2>4. SumFunctionOnSet(f, B) = f[z] + SumFunctionOnSet(f, B \ {z})
      BY <2>2, <2>3, SumFirst
    <2>5. CASE y # z
      <3>1. PICK C : C = B \ {z}
        OBVIOUS
      <3>2. PICK D : D = B \ {y}
        OBVIOUS
      <3>3. C \in Good /\ D \in Good /\ y \in C /\ z \in D /\ C \ {y} = D \ {z}
        BY <1>1, <2>3, <2>5, <3>1, <3>2
      <3>4. /\ SumFunctionOnSet(f, C) = f[y] + SumFunctionOnSet(f, C \ {y})
            /\ SumFunctionOnSet(f, D) = f[z] + SumFunctionOnSet(f, C \ {y})
        BY <3>3
      <3>5. SumFunctionOnSet(f, C \ {y}) \in Int
        <4>1. IsFiniteSet(C \ {y}) /\ \A w \in C \ {y} : f[w] \in Int
          BY <2>3, <3>1, FS_Subset
        <4> QED
          BY <4>1, SumTyped
      <3>6. f[y] \in Int /\ f[z] \in Int
        BY <2>3
      <3> QED
        BY <2>4, <3>1, <3>2, <3>4, <3>5, <3>6
    <2> QED
      BY <2>4, <2>5
  <1>2. \A B \in SUBSET A : B \in Good
    <2> HIDE DEF Good
    <2> QED
      BY <1>1, SubsetsInduction
  <1> QED
    BY <1>2

LEMMA SumUnion ==
    ASSUME NEW A, IsFiniteSet(A), NEW B, IsFiniteSet(B), A \cap B = {},
           NEW f, \A x \in A \cup B : f[x] \in Int
    PROVE  SumFunctionOnSet(f, A \cup B) = SumFunctionOnSet(f, A) + SumFunctionOnSet(f, B)
  <1> DEFINE Good == {C \in SUBSET A :
                SumFunctionOnSet(f, C \cup B) = SumFunctionOnSet(f, C) + SumFunctionOnSet(f, B)}
  <1>0. SumFunctionOnSet(f, B) \in Int
    BY SumTyped
  <1>1. ASSUME NEW C \in SUBSET A, \A D \in SUBSET C : D # C => D \in Good PROVE C \in Good
    <2>1. IsFiniteSet(C) /\ IsFiniteSet(C \cup B) /\ \A x \in C \cup B : f[x] \in Int
      BY FS_Subset, FS_Union
    <2>2. CASE C = {}
      <3>1. SumFunctionOnSet(f, C) = 0 /\ C \cup B = B
        BY <2>1, <2>2, SumFirst
      <3> QED
        BY <1>0, <3>1
    <2>3. CASE C # {}
      <3>1. PICK x \in C : TRUE
        BY <2>3
      <3>2. PICK D : D = C \ {x}
        OBVIOUS
      <3>3. /\ D \in Good /\ (C \cup B) \ {x} = D \cup B /\ x \in C \cup B /\ IsFiniteSet(D)
            /\ f[x] \in Int /\ \A y \in D : f[y] \in Int
        BY <1>1, <2>1, <3>1, <3>2, FS_Subset
      <3>4. SumFunctionOnSet(f, C \cup B) = f[x] + SumFunctionOnSet(f, D \cup B)
        BY <2>1, <3>3, SumWithout
      <3>5. SumFunctionOnSet(f, C) = f[x] + SumFunctionOnSet(f, D)
        BY <2>1, <3>1, <3>2, SumWithout
      <3>6. SumFunctionOnSet(f, D) \in Int
        BY <3>3, SumTyped
      <3> QED
        BY <1>0, <3>3, <3>4, <3>5, <3>6
    <2> QED
      BY <2>2, <2>3
  <1>2. \A C \in SUBSET A : C \in Good
    <2> HIDE DEF Good
    <2> QED
      BY <1>1, SubsetsInduction
  <1> QED
    BY <1>2

LEMMA SumSame ==
    ASSUME NEW A, IsFiniteSet(A), NEW f, NEW g, \A x \in A : f[x] = g[x]
    PROVE  SumFunctionOnSet(f, A) = SumFunctionOnSet(g, A)
  <1> DEFINE Good == {B \in SUBSET A : SumFunctionOnSet(f, B) = SumFunctionOnSet(g, B)}
  <1>1. ASSUME NEW B \in SUBSET A, \A C \in SUBSET B : C # B => C \in Good PROVE B \in Good
    <2>1. IsFiniteSet(B)
      BY FS_Subset
    <2>2. B # {} => Pick(B) \in B /\ B \ {Pick(B)} \in Good
      BY <1>1, Picked
    <2> QED
      BY <2>1, <2>2, SumFirst
  <1>2. \A B \in SUBSET A : B \in Good
    <2> HIDE DEF Good
    <2> QED
      BY <1>1, SubsetsInduction
  <1> QED
    BY <1>2

LEMMA SumNothing == \A f : SumFunctionOnSet(f, {}) = 0
  BY SumFirst, FS_EmptySet

LEMMA SumOrdered ==
    ASSUME NEW A, IsFiniteSet(A), NEW f, NEW g,
           \A x \in A : f[x] \in Int /\ g[x] \in Int /\ f[x] <= g[x]
    PROVE  SumFunctionOnSet(f, A) <= SumFunctionOnSet(g, A)
  <1> DEFINE Good == {B \in SUBSET A : SumFunctionOnSet(f, B) <= SumFunctionOnSet(g, B)}
  <1>1. ASSUME NEW B \in SUBSET A, \A C \in SUBSET B : C # B => C \in Good PROVE B \in Good
    <2>1. IsFiniteSet(B)
      BY FS_Subset
    <2>2. CASE B # {}
      <3>1. PICK x \in B : TRUE
        BY <2>2
      <3>2. PICK C : C = B \ {x}
        OBVIOUS
      <3>3. C \in Good /\ IsFiniteSet(C)
        BY <1>1, <2>1, <3>1, <3>2, FS_Subset
      <3>4. SumFunctionOnSet(f, B) = f[x] + SumFunctionOnSet(f, C)
        BY <2>1, <3>1, <3>2, SumWithout
      <3>5. SumFunctionOnSet(g, B) = g[x] + SumFunctionOnSet(g, C)
        BY <2>1, <3>1, <3>2, SumWithout
      <3>6. SumFunctionOnSet(f, C) \in Int /\ SumFunctionOnSet(g, C) \in Int
        BY <3>2, <3>3, SumTyped
      <3> QED
        BY <3>1, <3>3, <3>4, <3>5, <3>6
    <2>3. CASE B = {}
      BY <2>3, SumNothing
    <2> QED
      BY <2>2, <2>3
  <1>2. \A B \in SUBSET A : B \in Good
    <2> HIDE DEF Good
    <2> QED
      BY <1>1, SubsetsInduction
  <1> QED
    BY <1>2
=============================================================================
