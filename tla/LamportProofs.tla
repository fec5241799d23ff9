--------------------------- MODULE LamportProofs ---------------------------
(***************************************************************************)
(* What TLAPS proves of the lamports of PotProgram added up over accounts: *)
(* none appears or vanishes, and a wallet that only challenges loses no    *)
(* more than the bonds of the disputes it lost.  First, what that needs to *)
(* know of sums over finite sets.                                          *)
(***************************************************************************)
EXTENDS LifecycleProofs, FiniteSetTheorems, WellFoundedInduction

----------------------------------------------------------------------------
(* Induction. *)

(* A non-empty set of subsets of a finite set has a smallest member: one   *)
(* whose proper subsets are not in it.                                     *)
LEMMA SmallestSubset ==
  ASSUME NEW S, IsFiniteSet(S), NEW Bad \in SUBSET (SUBSET S), Bad # {}
  PROVE  \E s \in Bad : \A u \in SUBSET s : u # s => u \notin Bad
<1>1. Bad \subseteq FiniteSubsetsOf(S)
  BY FS_Subset DEF FiniteSubsetsOf
<1>2. PICK s \in Bad : \A u \in Bad : ~(<<u, s>> \in StrictSubsetOrdering(S))
  BY <1>1, WFMin, FS_StrictSubsetOrderingWellFounded
<1>3. \A u \in Bad : u \subseteq s /\ u # s => <<u, s>> \in StrictSubsetOrdering(S)
  BY DEF StrictSubsetOrdering
<1>4. \A u \in SUBSET s : u # s => u \notin Bad
  BY <1>2, <1>3
<1> QED
  BY <1>2, <1>4

(* A set with 0, and with the successor of each number in it, has them all. *)
LEMMA NaturalsAreReached ==
  ASSUME NEW C, 0 \in C, \A n \in Nat : n \in C => n + 1 \in C
  PROVE  Nat \subseteq C
<1> DEFINE Bad == {n \in Nat : n \notin C}
<1>1. ASSUME Bad # {} PROVE FALSE
  <2>1. Bad \subseteq Nat
    OBVIOUS
  <2>2. PICK n \in Bad : \A m \in Bad : ~(<<m, n>> \in OpToRel(<, Nat))
    <3> HIDE DEF Bad
    <3> QED BY <1>1, <2>1, WFMin, NatLessThanWellFounded
  <2>3. n \in Nat /\ n # 0 /\ n \notin C
    BY <2>2
  <2>4. n - 1 \in Nat /\ (n - 1) + 1 = n
    BY <2>3
  <2>5. n - 1 \in Bad
    BY <2>3, <2>4
  <2>6. <<n - 1, n>> \in OpToRel(<, Nat)
    BY <2>3, <2>4 DEF OpToRel
  <2> QED
    BY <2>2, <2>5, <2>6
<1> QED
  BY <1>1

----------------------------------------------------------------------------
(* Sums.  SumFunctionOnSet is defined by a recursive function, that is, by *)
(* the choice of one; Adds(g, f, S) is the equation that it is to satisfy. *)

Chosen(s) == CHOOSE x \in s : TRUE
Summand(f, g, s) == IF s = {} THEN 0 ELSE f[Chosen(s)] + g[s \ {Chosen(s)}]
Adds(g, f, S) == g = [s \in SUBSET S |-> Summand(f, g, s)]

(* The element chosen of a set is one of its elements. *)
LEMMA ChosenMember == ASSUME NEW s, s # {} PROVE Chosen(s) \in s
  BY DEF Chosen

(* If some function satisfies the equation, the sum is the value of one.   *)
LEMMA SumIsAFunction ==
  ASSUME NEW f, NEW S, \E g : Adds(g, f, S)
  PROVE  \E g : Adds(g, f, S) /\ SumFunctionOnSet(f, S) = g[S]
<1> DEFINE h == CHOOSE g : Adds(g, f, S)
<1>1. SumFunctionOnSet(f, S) = h[S]
  BY DEF SumFunctionOnSet, FoldFunctionOnSet, MapThenFoldSet, Adds, Summand, Chosen
<1> QED
  BY <1>1

(* Some function does: one that satisfies it on the subsets of at most n   *)
(* elements gives one for n + 1.                                           *)
LEMMA AddsExists ==
  ASSUME NEW f, NEW S, IsFiniteSet(S)
  PROVE  \E g : Adds(g, f, S)
<1> DEFINE Upto(g, n) == \A s \in SUBSET S : Cardinality(s) <= n => g[s] = Summand(f, g, s)
           C == {n \in Nat : \E g : Upto(g, n)}
           Once(g) == [s \in SUBSET S |-> Summand(f, g, s)]
<1>1. \A s \in SUBSET S : /\ IsFiniteSet(s) /\ Cardinality(s) \in Nat
                          /\ Cardinality(s) = 0 <=> s = {}
                          /\ Cardinality(s) <= Cardinality(S)
  BY FS_Subset, FS_CardinalityType, FS_EmptySet
<1>2. 0 \in C
  <2>1. Upto([s \in SUBSET S |-> 0], 0)
    BY <1>1 DEF Summand
  <2> QED
    BY <2>1
<1>3. ASSUME NEW n \in Nat, NEW g, Upto(g, n)
      PROVE  Upto(Once(g), n + 1)
  <2> SUFFICES ASSUME NEW s \in SUBSET S, Cardinality(s) <= n + 1
               PROVE  Summand(f, g, s) = Summand(f, Once(g), s)
    OBVIOUS
  <2>1. CASE s = {}
    BY <2>1 DEF Summand
  <2>2. CASE s # {}
    <3> DEFINE r == s \ {Chosen(s)}
    <3>1. r \in SUBSET S /\ Cardinality(r) <= n
      BY <1>1, <2>2, ChosenMember, FS_RemoveElement
    <3>2. g[r] = Summand(f, g, r)
      BY <1>3, <3>1
    <3>3. Once(g)[r] = g[r]
      BY <3>1, <3>2
    <3> QED
      BY <2>2, <3>3 DEF Summand
  <2> QED
    BY <2>1, <2>2
<1>4. Nat \subseteq C
  <2>1. ASSUME NEW n \in Nat, n \in C PROVE n + 1 \in C
    <3>1. PICK g : Upto(g, n)
      BY <2>1
    <3>2. Upto(Once(g), n + 1)
      BY <1>3, <3>1
    <3> HIDE DEF Upto, Once
    <3>3. \E k : Upto(k, n + 1)
      BY <3>2
    <3> QED
      BY <3>3
  <2> HIDE DEF C
  <2> QED
    BY <1>2, <2>1, NaturalsAreReached
<1>5. PICK g : Upto(g, Cardinality(S))
  BY <1>1, <1>4
<1>6. Adds(Once(g), f, S)
  <2> SUFFICES ASSUME NEW s \in SUBSET S
               PROVE  Summand(f, g, s) = Summand(f, Once(g), s)
    BY DEF Adds
  <2>1. \A r \in SUBSET S : Once(g)[r] = g[r]
    BY <1>1, <1>5
  <2>2. s \ {Chosen(s)} \in SUBSET S
    OBVIOUS
  <2> QED
    BY <2>1, <2>2 DEF Summand
<1> QED
  BY <1>6

(* And it is the same on the subsets of a smaller set. *)
LEMMA AddsUnique ==
  ASSUME NEW f, NEW S, IsFiniteSet(S), NEW T \in SUBSET S,
         NEW g, NEW h, Adds(g, f, S), Adds(h, f, T)
  PROVE  g[T] = h[T]
<1> DEFINE Bad == {s \in SUBSET T : g[s] # h[s]}
<1>1. ASSUME Bad # {} PROVE FALSE
  <2>1. PICK s \in Bad : \A u \in SUBSET s : u # s => u \notin Bad
    <3>1. IsFiniteSet(T) /\ Bad \in SUBSET (SUBSET T)
      BY FS_Subset
    <3> HIDE DEF Bad
    <3> QED
      BY <1>1, <3>1, SmallestSubset
  <2>2. s \in SUBSET T /\ s \in SUBSET S /\ g[s] # h[s]
    BY <2>1
  <2>3. g[s] = Summand(f, g, s) /\ h[s] = Summand(f, h, s)
    BY <2>2 DEF Adds
  <2>4. s # {}
    BY <2>2, <2>3 DEF Summand
  <2> DEFINE r == s \ {Chosen(s)}
  <2>5. r \in SUBSET T /\ r # s /\ r \in SUBSET s
    BY <2>2, <2>4, ChosenMember
  <2>6. g[r] = h[r]
    BY <2>1, <2>5
  <2> QED
    BY <2>2, <2>3, <2>4, <2>6 DEF Summand
<1> QED
  BY <1>1

(* The sum over no elements. *)
LEMMA SumOfNothing == ASSUME NEW f PROVE SumFunctionOnSet(f, {}) = 0
<1>1. PICK g : Adds(g, f, {}) /\ SumFunctionOnSet(f, {}) = g[{}]
  BY AddsExists, SumIsAFunction, FS_EmptySet
<1> QED
  BY <1>1 DEF Adds, Summand

(* The sum over some: that of the chosen element, and the rest.            *)
LEMMA SumUnfolds ==
  ASSUME NEW f, NEW S, IsFiniteSet(S), S # {}
  PROVE  SumFunctionOnSet(f, S) = f[Chosen(S)] + SumFunctionOnSet(f, S \ {Chosen(S)})
<1> DEFINE R == S \ {Chosen(S)}
<1>1. IsFiniteSet(R) /\ R \in SUBSET S
  BY FS_Subset
<1>2. PICK g : Adds(g, f, S) /\ SumFunctionOnSet(f, S) = g[S]
  BY AddsExists, SumIsAFunction
<1>3. PICK h : Adds(h, f, R) /\ SumFunctionOnSet(f, R) = h[R]
  BY <1>1, AddsExists, SumIsAFunction
<1>4. g[R] = h[R]
  BY <1>1, <1>2, <1>3, AddsUnique
<1>5. g[S] = Summand(f, g, S)
  BY <1>2 DEF Adds
<1> QED
  BY <1>2, <1>3, <1>4, <1>5 DEF Summand

(* A sum of integers is an integer. *)
LEMMA SumIsInteger ==
  ASSUME NEW f, NEW S, IsFiniteSet(S), \A x \in S : f[x] \in Int
  PROVE  SumFunctionOnSet(f, S) \in Int
<1> DEFINE Bad == {s \in SUBSET S : SumFunctionOnSet(f, s) \notin Int}
<1>1. ASSUME Bad # {} PROVE FALSE
  <2>1. PICK s \in Bad : \A u \in SUBSET s : u # s => u \notin Bad
    <3>1. Bad \in SUBSET (SUBSET S)
      OBVIOUS
    <3> HIDE DEF Bad
    <3> QED
      BY <1>1, <3>1, SmallestSubset
  <2>2. s \in SUBSET S /\ IsFiniteSet(s) /\ SumFunctionOnSet(f, s) \notin Int
    BY <2>1, FS_Subset
  <2>3. s # {}
    BY <2>2, SumOfNothing
  <2> DEFINE r == s \ {Chosen(s)}
  <2>4. Chosen(s) \in S /\ r \in SUBSET s /\ r # s /\ r \in SUBSET S
    BY <2>2, <2>3, ChosenMember
  <2>5. SumFunctionOnSet(f, r) \in Int
    BY <2>1, <2>4
  <2>6. SumFunctionOnSet(f, s) = f[Chosen(s)] + SumFunctionOnSet(f, r)
    BY <2>2, <2>3, SumUnfolds
  <2> QED
    BY <2>2, <2>4, <2>5, <2>6
<1> QED
  BY <1>1

(* Whichever element is taken out first. *)
LEMMA SumTakesOut ==
  ASSUME NEW f, NEW S, IsFiniteSet(S), \A x \in S : f[x] \in Int, NEW a \in S
  PROVE  SumFunctionOnSet(f, S) = f[a] + SumFunctionOnSet(f, S \ {a})
<1> DEFINE Sum(s) == SumFunctionOnSet(f, s)
           Bad == {s \in SUBSET S : \E x \in s : Sum(s) # f[x] + Sum(s \ {x})}
<1>1. ASSUME Bad # {} PROVE FALSE
  <2>1. PICK s \in Bad : \A u \in SUBSET s : u # s => u \notin Bad
    <3>1. Bad \in SUBSET (SUBSET S)
      OBVIOUS
    <3> HIDE DEF Bad
    <3> QED
      BY <1>1, <3>1, SmallestSubset
  <2>2. PICK x \in s : Sum(s) # f[x] + Sum(s \ {x})
    BY <2>1
  <2>3. s \in SUBSET S /\ s # {} /\ IsFiniteSet(s)
    BY <2>1, <2>2, FS_Subset
  <2> DEFINE c == Chosen(s)
             both == (s \ {x}) \ {c}
  <2>4. c \in s /\ Sum(s) = f[c] + Sum(s \ {c})
    BY <2>3, SumUnfolds, ChosenMember
  <2>5. c # x
    BY <2>2, <2>4
  <2> HIDE DEF c
  <2>6. Sum(s \ {c}) = f[x] + Sum(both)
    <3>1. s \ {c} \in SUBSET s /\ s \ {c} # s /\ s \ {c} \in SUBSET S /\ x \in s \ {c}
      BY <2>3, <2>4, <2>5
    <3>2. (s \ {c}) \ {x} = both
      OBVIOUS
    <3>3. s \ {c} \notin Bad
      BY <2>1, <3>1
    <3> QED
      BY <3>1, <3>2, <3>3
  <2>7. Sum(s \ {x}) = f[c] + Sum(both)
    <3>1. s \ {x} \in SUBSET s /\ s \ {x} # s /\ s \ {x} \in SUBSET S /\ c \in s \ {x}
      BY <2>3, <2>4, <2>5
    <3>2. s \ {x} \notin Bad
      BY <2>1, <3>1
    <3> QED
      BY <3>1, <3>2
  <2>8. f[x] \in Int /\ f[c] \in Int /\ Sum(both) \in Int
    <3>1. both \in SUBSET S /\ IsFiniteSet(both)
      BY <2>3, FS_Subset
    <3> QED
      BY <2>3, <2>4, <3>1, SumIsInteger
  <2> HIDE DEF Sum, both
  <2> QED
    BY <2>2, <2>4, <2>6, <2>7, <2>8
<1> QED
  BY <1>1

(* The sum depends on the values added up alone. *)
LEMMA SumOfSame ==
  ASSUME NEW f, NEW g, NEW S, IsFiniteSet(S), \A x \in S : f[x] = g[x]
  PROVE  SumFunctionOnSet(f, S) = SumFunctionOnSet(g, S)
<1> DEFINE Bad == {s \in SUBSET S : SumFunctionOnSet(f, s) # SumFunctionOnSet(g, s)}
<1>1. ASSUME Bad # {} PROVE FALSE
  <2>1. PICK s \in Bad : \A u \in SUBSET s : u # s => u \notin Bad
    <3>1. Bad \in SUBSET (SUBSET S)
      OBVIOUS
    <3> HIDE DEF Bad
    <3> QED
      BY <1>1, <3>1, SmallestSubset
  <2>2. s \in SUBSET S /\ IsFiniteSet(s) /\ SumFunctionOnSet(f, s) # SumFunctionOnSet(g, s)
    BY <2>1, FS_Subset
  <2>3. s # {}
    BY <2>2, SumOfNothing
  <2> DEFINE r == s \ {Chosen(s)}
  <2>4. Chosen(s) \in S /\ r \in SUBSET s /\ r # s /\ r \in SUBSET S
    BY <2>2, <2>3, ChosenMember
  <2>5. SumFunctionOnSet(f, r) = SumFunctionOnSet(g, r)
    BY <2>1, <2>4
  <2> QED
    BY <2>2, <2>3, <2>4, <2>5, SumUnfolds
<1> QED
  BY <1>1

(* A change at one element changes the sum by as much.                     *)
LEMMA SumChanges ==
  ASSUME NEW f, NEW g, NEW S, IsFiniteSet(S), NEW a \in S,
         \A x \in S : f[x] \in Int /\ g[x] \in Int, \A x \in S \ {a} : f[x] = g[x]
  PROVE  SumFunctionOnSet(g, S) = SumFunctionOnSet(f, S) + g[a] - f[a]
<1> DEFINE rest == S \ {a}
<1>1. IsFiniteSet(rest)
  BY FS_Subset
<1>2. SumFunctionOnSet(f, rest) = SumFunctionOnSet(g, rest)
  BY <1>1, SumOfSame
<1>3. SumFunctionOnSet(f, rest) \in Int
  BY <1>1, SumIsInteger
<1>4. /\ SumFunctionOnSet(f, S) = f[a] + SumFunctionOnSet(f, rest)
      /\ SumFunctionOnSet(g, S) = g[a] + SumFunctionOnSet(g, rest)
  BY SumTakesOut
<1> HIDE DEF rest
<1> QED
  BY <1>2, <1>3, <1>4

(* The sum of a function that is k on W and 0 elsewhere.                   *)
LEMMA SumOfEqualShares ==
  ASSUME NEW f, NEW S, IsFiniteSet(S), NEW W \in SUBSET S, NEW k \in Int,
         \A x \in S : f[x] = IF x \in W THEN k ELSE 0
  PROVE  SumFunctionOnSet(f, S) = k * Cardinality(W)
<1> DEFINE Bad == {s \in SUBSET S : SumFunctionOnSet(f, s) # k * Cardinality(s \cap W)}
<1>1. ASSUME Bad # {} PROVE FALSE
  <2>1. PICK s \in Bad : \A u \in SUBSET s : u # s => u \notin Bad
    <3>1. Bad \in SUBSET (SUBSET S)
      OBVIOUS
    <3> HIDE DEF Bad
    <3> QED
      BY <1>1, <3>1, SmallestSubset
  <2>2. /\ s \in SUBSET S /\ IsFiniteSet(s)
        /\ SumFunctionOnSet(f, s) # k * Cardinality(s \cap W)
    BY <2>1, FS_Subset
  <2>3. s # {}
    BY <2>2, SumOfNothing, FS_EmptySet
  <2> DEFINE c == Chosen(s)
             r == s \ {c}
  <2>4. c \in s /\ SumFunctionOnSet(f, s) = f[c] + SumFunctionOnSet(f, r)
    BY <2>2, <2>3, ChosenMember, SumUnfolds
  <2> HIDE DEF c
  <2>5. SumFunctionOnSet(f, r) = k * Cardinality(r \cap W)
    <3>1. r \in SUBSET s /\ r # s /\ r \in SUBSET S
      BY <2>2, <2>4
    <3> QED
      BY <2>1, <3>1
  <2> DEFINE own == s \cap W
  <2>6. IsFiniteSet(own) /\ Cardinality(own) \in Nat
    BY <2>2, FS_Subset, FS_CardinalityType
  <2>7. CASE c \in W
    <3>1. r \cap W = own \ {c} /\ c \in own
      BY <2>4, <2>7
    <3>2. f[c] = k
      BY <2>2, <2>4, <2>7
    <3> HIDE DEF own, r
    <3>3. Cardinality(own \ {c}) = Cardinality(own) - 1
      BY <2>6, <3>1, FS_RemoveElement
    <3>4. SumFunctionOnSet(f, s) = k + k * (Cardinality(own) - 1)
      BY <2>4, <2>5, <3>1, <3>2, <3>3
    <3>5. SumFunctionOnSet(f, s) = k * Cardinality(own)
      BY <2>6, <3>4
    <3> QED
      BY <2>2, <3>5 DEF own
  <2>8. CASE c \notin W
    <3>1. r \cap W = own
      BY <2>8
    <3>2. f[c] = 0
      BY <2>2, <2>4, <2>8
    <3> DEFINE product == k * Cardinality(own)
    <3>3. product \in Int
      BY <2>6
    <3>4. SumFunctionOnSet(f, s) = 0 + product
      BY <2>4, <2>5, <3>1, <3>2
    <3>5. SumFunctionOnSet(f, s) # product
      BY <2>2
    <3> HIDE DEF product
    <3> QED
      BY <3>3, <3>4, <3>5
  <2> QED
    BY <2>7, <2>8
<1>2. S \cap W = W
  OBVIOUS
<1> QED
  BY <1>1, <1>2

(* And that of one that is 0. *)
LEMMA SumOfZeros ==
  ASSUME NEW f, NEW S, IsFiniteSet(S), \A x \in S : f[x] = 0
  PROVE  SumFunctionOnSet(f, S) = 0
<1> DEFINE none == {}
<1>1. none \in SUBSET S /\ Cardinality(none) = 0 /\ 0 \in Int
  BY FS_EmptySet
<1>2. \A x \in S : f[x] = IF x \in none THEN 0 ELSE 0
  OBVIOUS
<1> HIDE DEF none
<1>3. SumFunctionOnSet(f, S) = 0 * Cardinality(none)
  BY <1>1, <1>2, SumOfEqualShares
<1> QED
  BY <1>1, <1>3

----------------------------------------------------------------------------
(* Transfers, to the lamport. *)

Part(a, b, n) == IF a = b THEN n ELSE 0

(* A transfer takes the amount from one account and adds it to another,    *)
(* also when they are the same.                                            *)
LEMMA TransferAt ==
  ASSUME NEW l \in [Addresses -> Int], NEW from \in Addresses, NEW to \in Addresses, NEW n \in Int
  PROVE  /\ Transfer(l, from, to, n) \in [Addresses -> Int]
         /\ \A a \in Addresses :
              Transfer(l, from, to, n)[a] = l[a] - Part(a, from, n) + Part(a, to, n)
  BY DEF Transfer, Part

(* An account that is not paid loses what it pays.                          *)
LEMMA TransferBeside ==
  ASSUME NEW l \in [Addresses -> Int], NEW from \in Addresses, NEW to \in Addresses, NEW n \in Int,
         NEW a \in Addresses, a # to
  PROVE  /\ Transfer(l, from, to, n)[a] = l[a] - Part(a, from, n)
         /\ a # from => Transfer(l, from, to, n)[a] = l[a]
  BY DEF Transfer, Part

(* An account that does not pay loses nothing. *)
LEMMA TransferCredits ==
  ASSUME NEW l \in [Addresses -> Int], NEW from \in Addresses, NEW to \in Addresses, NEW n \in Nat,
         NEW a \in Addresses, a # from
  PROVE  Transfer(l, from, to, n)[a] >= l[a]
  BY DEF Transfer

(* There are finitely many challenges. *)
LEMMA FiniteChallenges == IsFiniteSet(ChallengeIds)
<1>1. IsFiniteSet(Operators) /\ IsFiniteSet(Challengers)
  BY ConstantsAssumption, FiniteAssumption, FS_Subset
<1>2. IsFiniteSet(Nonces)
  BY ConstantsAssumption, FS_Interval DEF Nonces
<1> QED
  BY <1>1, <1>2, FS_Product DEF ThoughtIds, ChallengeIds

(* And finitely many accounts that hold lamports. *)
LEMMA FiniteAddresses == IsFiniteSet(Addresses)
<1>1. IsFiniteSet(Operators)
  BY ConstantsAssumption, FiniteAssumption, FS_Subset
<1>2. IsFiniteSet({StakeVault(op) : op \in Operators})
  <2> DEFINE T == {StakeVault(op) : op \in Operators}
             f == [op \in Operators |-> StakeVault(op)]
  <2>1. f \in Surjection(Operators, T)
    BY DEF Surjection
  <2> QED
    BY <1>1, <2>1, FS_Surjection
<1>3. IsFiniteSet({BondVault(c) : c \in ChallengeIds})
  <2> DEFINE T == {BondVault(c) : c \in ChallengeIds}
             f == [c \in ChallengeIds |-> BondVault(c)]
  <2>1. f \in Surjection(ChallengeIds, T)
    BY DEF Surjection
  <2> QED
    BY FiniteChallenges, <2>1, FS_Surjection
<1> QED
  BY <1>2, <1>3, FiniteAssumption, FS_Union DEF Addresses

(* A transfer keeps the total.                                             *)
LEMMA TransferKeepsTotal ==
  ASSUME NEW l \in [Addresses -> Int], NEW from \in Addresses, NEW to \in Addresses, NEW n \in Int
  PROVE  SumFunctionOnSet(Transfer(l, from, to, n), Addresses) = SumFunctionOnSet(l, Addresses)
<1> DEFINE m == [l EXCEPT ![from] = @ - n]
           Total(f) == SumFunctionOnSet(f, Addresses)
<1>1. /\ m \in [Addresses -> Int] /\ m[from] = l[from] - n
      /\ \A a \in Addresses \ {from} : m[a] = l[a]
  OBVIOUS
<1>2. Transfer(l, from, to, n) = [m EXCEPT ![to] = @ + n]
  BY DEF Transfer
<1> HIDE DEF m
<1> DEFINE k == [m EXCEPT ![to] = @ + n]
<1>3. /\ k \in [Addresses -> Int] /\ k[to] = m[to] + n
      /\ \A a \in Addresses \ {to} : m[a] = k[a]
  BY <1>1
<1> HIDE DEF k
<1>4. Total(m) = Total(l) + m[from] - l[from]
  BY <1>1, FiniteAddresses, SumChanges
<1>5. Total(k) = Total(m) + k[to] - m[to]
  BY <1>1, <1>3, FiniteAddresses, SumChanges
<1>6. Total(l) \in Int /\ Total(m) \in Int /\ Total(k) \in Int
  BY <1>1, <1>3, FiniteAddresses, SumIsInteger
<1>7. Total(k) = Total(l)
  <2> HIDE DEF Total
  <2> QED
    BY <1>1, <1>3, <1>4, <1>5, <1>6
<1> QED
  BY <1>2, <1>7 DEF k

----------------------------------------------------------------------------
(* What each instruction does to the lamports. *)

(* Only these move any. *)
LEMMA LamportSteps ==
  ASSUME [Next]_vars
  PROVE  \/ UNCHANGED <<lamports, challenges>>
         \/ \E op \in Operators, amount \in Amounts :
              RegisterAgent(op, amount) \/ Stake(op, amount) \/ WithdrawStake(op, amount)
         \/ \E t \in ThoughtIds, ch \in Challengers, bond \in Amounts : OpenChallenge(t, ch, bond)
         \/ \E resolver \in Wallets, c \in ChallengeIds, verdict \in BOOLEAN :
              ResolveChallenged(resolver, c, verdict)
  BY Frames DEF Next, vars

(* Staking and withdrawing are payments between a wallet and its vault.    *)
LEMMA StakingPays ==
  ASSUME TypeOK, NEW op \in Operators, NEW amount \in Amounts,
         RegisterAgent(op, amount) \/ Stake(op, amount) \/ WithdrawStake(op, amount)
  PROVE  /\ lamports \in [Addresses -> Int] /\ amount \in Int
         /\ op \in Addresses /\ StakeVault(op) \in Addresses /\ UNCHANGED challenges
         /\ \/ lamports' = Transfer(lamports, op, StakeVault(op), amount)
            \/ lamports' = Transfer(lamports, StakeVault(op), op, amount)
  BY ConstantsAssumption, Names DEF TypeOK, RegisterAgent, Stake, WithdrawStake, Pay

(* A challenge is a payment into its bond vault, and opens it. *)
LEMMA OpeningPays ==
  ASSUME TypeOK, NEW t \in ThoughtIds, NEW ch \in Challengers, NEW bond \in Amounts,
         NEW c, c = <<t, ch>>, OpenChallenge(t, ch, bond)
  PROVE  /\ lamports \in [Addresses -> Int] /\ bond \in Nat /\ c \in ChallengeIds /\ c[2] = ch
         /\ ch \in Addresses /\ BondVault(c) \in Addresses
         /\ lamports' = Transfer(lamports, ch, BondVault(c), bond)
         /\ ~Exists(challenges[c]) /\ Open(c)' /\ challenges'[c].bond = bond
         /\ \A d \in ChallengeIds \ {c} : challenges'[d] = challenges[d]
<1>1. c \in ChallengeIds /\ c[2] = ch /\ bond \in Nat
  BY ConstantsAssumption DEF ChallengeIds
<1>2. /\ lamports \in [Addresses -> Int] /\ ch \in Addresses /\ BondVault(c) \in Addresses
  BY <1>1, Names DEF TypeOK
<1> DEFINE opened == [bond |-> bond, opened_at_slot |-> slot, resolved |-> FALSE, verdict |-> FALSE]
<1>3. /\ lamports' = Transfer(lamports, ch, BondVault(c), bond)
      /\ ~Exists(challenges[c]) /\ challenges' = [challenges EXCEPT ![c] = opened]
  BY DEF OpenChallenge, LockBond, Pay
<1>4. challenges'[c] = opened /\ \A d \in ChallengeIds \ {c} : challenges'[d] = challenges[d]
  BY <1>1, <1>3 DEF TypeOK
<1>5. opened \in Challenge /\ ~opened.resolved /\ opened.bond = bond
  BY <1>1, ConstantsAssumption DEF TypeOK, Challenge
<1> HIDE DEF opened
<1>6. Exists(opened)
  BY <1>5, ConstantsAssumption DEF Exists
<1>7. Open(c)' /\ challenges'[c].bond = bond
  BY <1>4, <1>5, <1>6 DEF Open, Exists
<1> QED
  BY <1>1, <1>2, <1>3, <1>4, <1>7

(* A slash is two transfers out of the stake vault, and a bond returned.   *)
LEMMA SlashPays ==
  ASSUME TypeOK, NEW c \in ChallengeIds, NEW treasury \in Addresses,
         Exists(agents[c[1][1]]), Exists(challenges[c]), Slash(c, treasury)
  PROVE  \E reward, tax \in Nat, rewarded, taxed \in [Addresses -> Int] :
           /\ rewarded = Transfer(lamports, StakeVault(c[1][1]), c[2], reward)
           /\ taxed = Transfer(rewarded, StakeVault(c[1][1]), treasury, tax)
           /\ lamports' = Transfer(taxed, BondVault(c), c[2], challenges[c].bond)
<1> DEFINE vault == StakeVault(c[1][1])
           stake == agents[c[1][1]].stake_amount
           reward == ToChallenger(stake)
           tax == ToTreasury(stake)
           rewarded == Transfer(lamports, vault, c[2], reward)
           taxed == Transfer(rewarded, vault, treasury, tax)
<1>1. /\ vault \in Addresses /\ c[2] \in Addresses /\ c[1][1] \in Operators
  BY Names
<1>2. stake \in Nat /\ lamports \in [Addresses -> Int]
  BY <1>1 DEF TypeOK, Exists, AgentProfile
<1>3. reward \in Nat /\ tax \in Nat
  BY <1>2, Splits
<1>4. lamports' = Transfer(taxed, BondVault(c), c[2], challenges[c].bond)
  BY DEF Slash, ReturnBond
<1> HIDE DEF vault, stake, reward, tax
<1>5. rewarded \in [Addresses -> Int]
  <2> DEFINE payee == c[2]
  <2>1. payee \in Addresses /\ reward \in Int
    BY <1>1, <1>3
  <2> HIDE DEF payee
  <2>2. Transfer(lamports, vault, payee, reward) \in [Addresses -> Int]
    BY <1>1, <1>2, <2>1, TransferAt
  <2> QED
    BY <2>2 DEF payee
<1>6. taxed \in [Addresses -> Int]
  <2> HIDE DEF rewarded
  <2> QED
    BY <1>1, <1>3, <1>5, TransferAt
<1> QED
  BY <1>3, <1>4, <1>5, <1>6 DEF vault

(* An acquittal is two transfers out of the bond vault. *)
LEMMA AcquitPays ==
  ASSUME TypeOK, NEW c \in ChallengeIds, NEW treasury \in Addresses,
         Exists(challenges[c]), Acquit(c, treasury)
  PROVE  \E fine, tax \in Nat, paid \in [Addresses -> Int] :
           /\ fine + tax = challenges[c].bond
           /\ paid = Transfer(lamports, BondVault(c), c[1][1], fine)
           /\ lamports' = Transfer(paid, BondVault(c), treasury, tax)
<1> DEFINE bond == challenges[c].bond
           fine == ToAgent(bond)
           tax == TaxOnBond(bond)
           paid == Transfer(lamports, BondVault(c), c[1][1], fine)
<1>1. BondVault(c) \in Addresses /\ c[1][1] \in Addresses
  BY Names
<1>2. bond \in Nat /\ lamports \in [Addresses -> Int]
  BY DEF TypeOK, Exists, Challenge
<1>3. fine \in Nat /\ tax \in Nat /\ fine + tax = bond
  BY <1>2, Splits
<1>4. lamports' = Transfer(paid, BondVault(c), treasury, tax)
  BY DEF Acquit
<1> HIDE DEF bond, fine, tax
<1>5. paid \in [Addresses -> Int]
  <2> DEFINE payee == c[1][1]
             vault == BondVault(c)
  <2>1. payee \in Addresses /\ vault \in Addresses /\ fine \in Int
    BY <1>1, <1>3
  <2> HIDE DEF payee, vault
  <2>2. Transfer(lamports, vault, payee, fine) \in [Addresses -> Int]
    BY <1>2, <2>1, TransferAt
  <2> QED
    BY <2>2 DEF payee, vault
<1> QED
  BY <1>3, <1>4, <1>5 DEF bond

(* A verdict pays by one or the other, and keeps the bond it ruled on.     *)
LEMMA VerdictPays ==
  ASSUME TypeOK, NEW resolver \in Wallets, NEW c \in ChallengeIds, NEW verdict \in BOOLEAN,
         ResolveChallenged(resolver, c, verdict)
  PROVE  /\ Exists(agents[c[1][1]]) /\ Exists(challenges[c]) /\ challenges[c].bond \in Nat
         /\ Open(c) /\ Ruled(c, verdict)' /\ challenges'[c].bond = challenges[c].bond
         /\ \A d \in ChallengeIds \ {c} : challenges'[d] = challenges[d]
         /\ \E p \in PolicyIds, treasury \in Addresses :
              /\ Exists(policies[p]) /\ treasury = policies[p].treasury
              /\ IF verdict THEN Slash(c, treasury) ELSE Acquit(c, treasury)
<1> DEFINE p == thoughts[c[1]].policy_id
<1>1. /\ Open(c) /\ Ruled(c, verdict)' /\ \A d \in ChallengeIds \ {c} : challenges'[d] = challenges[d]
  BY VerdictEffect
<1>2. /\ Exists(agents[c[1][1]]) /\ Exists(challenges[c]) /\ Exists(policies[p])
      /\ Exists(thoughts[c[1]])
      /\ challenges' = [challenges EXCEPT ![c].resolved = TRUE, ![c].verdict = verdict]
      /\ IF verdict THEN Slash(c, policies[p].treasury) ELSE Acquit(c, policies[p].treasury)
  BY DEF ResolveChallenged
<1>3. challenges[c] \in Challenge /\ challenges[c].bond \in Nat
  BY <1>2 DEF TypeOK, Exists, Challenge
<1>4. challenges'[c].bond = challenges[c].bond
  BY <1>2, <1>3 DEF TypeOK, Challenge
<1>5. p \in PolicyIds
  BY <1>2, Names DEF TypeOK, Exists, ThoughtRecord
<1>6. policies[p].treasury \in Addresses
  BY TreasuryIsAddress
<1> QED
  BY <1>1, <1>2, <1>3, <1>4, <1>5, <1>6

(* What a verdict takes from an account that it pays nothing: the bond of  *)
(* the challenge it rules on, if the account is its vault.                 *)
LEMMA VerdictTakes ==
  ASSUME TypeOK, NEW c \in ChallengeIds, NEW verdict \in BOOLEAN, NEW treasury \in Addresses,
         NEW bond \in Nat, bond = challenges[c].bond,
         Exists(agents[c[1][1]]), Exists(challenges[c]),
         IF verdict THEN Slash(c, treasury) ELSE Acquit(c, treasury),
         NEW v \in Addresses, v # treasury, v # c[2], v # c[1][1], v # StakeVault(c[1][1])
  PROVE  lamports'[v] = lamports[v] - Part(v, BondVault(c), bond)
<1> DEFINE vault == BondVault(c)
           stakes == StakeVault(c[1][1])
           challenger == c[2]
           agent == c[1][1]
<1>1. /\ challenger \in Addresses /\ agent \in Addresses /\ stakes \in Addresses
      /\ vault \in Addresses /\ v # challenger /\ v # agent /\ v # stakes
      /\ lamports \in [Addresses -> Int] /\ lamports[v] \in Int
  BY Names DEF TypeOK
<1>2. CASE verdict
  <2>1. PICK reward, tax \in Nat, rewarded, taxed \in [Addresses -> Int] :
          /\ rewarded = Transfer(lamports, stakes, challenger, reward)
          /\ taxed = Transfer(rewarded, stakes, treasury, tax)
          /\ lamports' = Transfer(taxed, vault, challenger, bond)
    BY <1>2, SlashPays
  <2> HIDE DEF vault, stakes, challenger, agent
  <2>2. reward \in Int /\ tax \in Int /\ bond \in Int
    OBVIOUS
  <2>3. rewarded[v] = lamports[v]
    BY <1>1, <2>1, <2>2, TransferBeside
  <2>4. taxed[v] = rewarded[v]
    BY <1>1, <2>1, <2>2, TransferBeside
  <2>5. lamports'[v] = taxed[v] - Part(v, vault, bond)
    BY <1>1, <2>1, <2>2, TransferBeside
  <2> QED
    BY <2>3, <2>4, <2>5 DEF vault
<1>3. CASE ~verdict
  <2>1. PICK fine, tax \in Nat, paid \in [Addresses -> Int] :
          /\ fine + tax = bond
          /\ paid = Transfer(lamports, vault, agent, fine)
          /\ lamports' = Transfer(paid, vault, treasury, tax)
    BY <1>3, AcquitPays
  <2> HIDE DEF vault, stakes, challenger, agent
  <2>2. fine \in Int /\ tax \in Int /\ bond \in Int
    OBVIOUS
  <2>3. paid[v] = lamports[v] - Part(v, vault, fine)
    BY <1>1, <2>1, <2>2, TransferBeside
  <2>4. lamports'[v] = paid[v] - Part(v, vault, tax)
    BY <1>1, <2>1, <2>2, TransferBeside
  <2>5. lamports'[v] = lamports[v] - Part(v, vault, bond)
    BY <1>1, <2>1, <2>2, <2>3, <2>4 DEF Part
  <2> QED
    BY <2>5 DEF vault
<1> QED
  BY <1>2, <1>3

----------------------------------------------------------------------------
(* The total. *)

(* No step changes it. *)
LEMMA TotalNext == TypeOK /\ TotalConserved /\ [Next]_vars => TotalConserved'
<1> SUFFICES ASSUME TypeOK, [Next]_vars
             PROVE  SumFunctionOnSet(lamports, Addresses)' = SumFunctionOnSet(lamports, Addresses)
  BY DEF TotalConserved
<1> DEFINE Total(l) == SumFunctionOnSet(l, Addresses)
<1> SUFFICES Total(lamports') = Total(lamports)
  BY DEF Addresses
<1>1. CASE UNCHANGED <<lamports, challenges>>
  BY <1>1
<1>2. ASSUME NEW op \in Operators, NEW amount \in Amounts,
             RegisterAgent(op, amount) \/ Stake(op, amount) \/ WithdrawStake(op, amount)
      PROVE  Total(lamports') = Total(lamports)
  BY <1>2, StakingPays, TransferKeepsTotal
<1>3. ASSUME NEW t \in ThoughtIds, NEW ch \in Challengers, NEW bond \in Amounts,
             OpenChallenge(t, ch, bond)
      PROVE  Total(lamports') = Total(lamports)
  <2>1. /\ lamports \in [Addresses -> Int] /\ bond \in Int /\ ch \in Addresses
        /\ BondVault(<<t, ch>>) \in Addresses
        /\ lamports' = Transfer(lamports, ch, BondVault(<<t, ch>>), bond)
    BY <1>3, OpeningPays
  <2> QED
    BY <2>1, TransferKeepsTotal
<1>4. ASSUME NEW resolver \in Wallets, NEW c \in ChallengeIds, NEW verdict \in BOOLEAN,
             ResolveChallenged(resolver, c, verdict)
      PROVE  Total(lamports') = Total(lamports)
  <2>1. /\ c[2] \in Addresses /\ c[1][1] \in Addresses /\ StakeVault(c[1][1]) \in Addresses
        /\ BondVault(c) \in Addresses /\ lamports \in [Addresses -> Int]
    BY Names DEF TypeOK
  <2>2. PICK treasury \in Addresses :
          /\ Exists(agents[c[1][1]]) /\ Exists(challenges[c]) /\ challenges[c].bond \in Int
          /\ IF verdict THEN Slash(c, treasury) ELSE Acquit(c, treasury)
    BY <1>4, VerdictPays
  <2>3. CASE verdict
    <3>1. PICK reward, tax \in Nat, rewarded, taxed \in [Addresses -> Int] :
            /\ rewarded = Transfer(lamports, StakeVault(c[1][1]), c[2], reward)
            /\ taxed = Transfer(rewarded, StakeVault(c[1][1]), treasury, tax)
            /\ lamports' = Transfer(taxed, BondVault(c), c[2], challenges[c].bond)
      BY <2>2, <2>3, SlashPays
    <3>2. Total(rewarded) = Total(lamports)
      BY <2>1, <3>1, TransferKeepsTotal
    <3>3. Total(taxed) = Total(rewarded)
      BY <2>1, <3>1, TransferKeepsTotal
    <3>4. Total(lamports') = Total(taxed)
      BY <2>1, <2>2, <3>1, TransferKeepsTotal
    <3> QED
      BY <3>2, <3>3, <3>4
  <2>4. CASE ~verdict
    <3>1. PICK fine, tax \in Nat, paid \in [Addresses -> Int] :
            /\ paid = Transfer(lamports, BondVault(c), c[1][1], fine)
            /\ lamports' = Transfer(paid, BondVault(c), treasury, tax)
      BY <2>2, <2>4, AcquitPays
    <3>2. Total(paid) = Total(lamports)
      BY <2>1, <3>1, TransferKeepsTotal
    <3>3. Total(lamports') = Total(paid)
      BY <2>1, <3>1, TransferKeepsTotal
    <3> QED
      BY <3>2, <3>3
  <2> QED
    BY <2>3, <2>4
<1> QED
  BY <1>1, <1>2, <1>3, <1>4, LamportSteps

(* At first every wallet holds its share and nobody else anything.         *)
LEMMA TotalInit == Init => TotalConserved
<1> SUFFICES ASSUME Init
             PROVE  SumFunctionOnSet(lamports, Addresses) = InitialLamports * Cardinality(Wallets)
  BY DEF TotalConserved
<1>1. Wallets \in SUBSET Addresses /\ InitialLamports \in Int
  BY ConstantsAssumption, Names
<1>2. \A a \in Addresses : lamports[a] = IF a \in Wallets THEN InitialLamports ELSE 0
  BY DEF Init
<1> QED
  BY <1>1, <1>2, FiniteAddresses, SumOfEqualShares

----------------------------------------------------------------------------
(* The bond vaults that receive no treasury's share. *)

(* Such a vault holds the bond of an open challenge, to the lamport, and   *)
(* nothing before and after.                                               *)
BondAlone(c) ==
  ~IsTreasury(BondVault(c)) => lamports[BondVault(c)] = IF Open(c) THEN challenges[c].bond ELSE 0
BondsAlone == \A c \in ChallengeIds : BondAlone(c)

(* What a challenge that a step does not touch is compared with stays.     *)
LEMMA BondAloneFrame ==
  ASSUME NEW d \in ChallengeIds, BondAlone(d), IsTreasury(BondVault(d)) => IsTreasury(BondVault(d))',
         challenges'[d] = challenges[d], lamports'[BondVault(d)] = lamports[BondVault(d)]
  PROVE  BondAlone(d)'
  BY DEF BondAlone, Open, Exists

(* No step takes a vault of this kind's lamports but the one that opens    *)
(* its challenge and the one that rules on it.                             *)
LEMMA BondsAloneNext == TypeOK /\ BondsAlone /\ [Next]_vars => BondsAlone'
<1> SUFFICES ASSUME TypeOK, BondsAlone, [Next]_vars, NEW d \in ChallengeIds, ~IsTreasury(BondVault(d))'
             PROVE  BondAlone(d)'
  BY DEF BondsAlone, BondAlone
<1> DEFINE v == BondVault(d)
<1>1. v \in Addresses /\ lamports[v] \in Int /\ lamports \in [Addresses -> Int]
  BY Names DEF TypeOK
<1>2. BondAlone(d)
  BY DEF BondsAlone
<1>3. \A p \in PolicyIds : Exists(policies[p]) => policies[p].treasury # v
  <2> SUFFICES ASSUME NEW p \in PolicyIds, Exists(policies[p]), policies[p].treasury = v
               PROVE  FALSE
    OBVIOUS
  <2>1. policies'[p] = policies[p]
    BY PolicyKept
  <2> QED
    BY <2>1 DEF IsTreasury, Exists
<1>4. ~IsTreasury(v)
  BY <1>3 DEF IsTreasury
<1>5. ASSUME challenges'[d] = challenges[d], lamports'[v] = lamports[v]
      PROVE  BondAlone(d)'
  BY <1>2, <1>4, <1>5, BondAloneFrame
<1>6. CASE UNCHANGED <<lamports, challenges>>
  BY <1>5, <1>6
<1>7. ASSUME NEW op \in Operators, NEW amount \in Amounts,
             RegisterAgent(op, amount) \/ Stake(op, amount) \/ WithdrawStake(op, amount)
      PROVE  BondAlone(d)'
  <2>1. v # op /\ v # StakeVault(op)
    BY Names, Distinct
  <2>2. /\ amount \in Int /\ op \in Addresses /\ StakeVault(op) \in Addresses
        /\ challenges'[d] = challenges[d]
        /\ \/ lamports' = Transfer(lamports, op, StakeVault(op), amount)
           \/ lamports' = Transfer(lamports, StakeVault(op), op, amount)
    BY <1>7, StakingPays
  <2>3. lamports'[v] = lamports[v]
    <3> HIDE DEF v
    <3> QED
      BY <1>1, <2>1, <2>2, TransferBeside
  <2> QED
    BY <1>5, <2>2, <2>3
<1>8. ASSUME NEW t \in ThoughtIds, NEW ch \in Challengers, NEW bond \in Amounts,
             OpenChallenge(t, ch, bond)
      PROVE  BondAlone(d)'
  <2>1. PICK c \in ChallengeIds :
          /\ bond \in Nat /\ ch \in Wallets /\ ch \in Addresses /\ BondVault(c) \in Addresses
          /\ lamports' = Transfer(lamports, ch, BondVault(c), bond)
          /\ ~Exists(challenges[c]) /\ Open(c)' /\ challenges'[c].bond = bond
          /\ \A e \in ChallengeIds \ {c} : challenges'[e] = challenges[e]
    <3> DEFINE new == <<t, ch>>
    <3>1. /\ bond \in Nat /\ ch \in Wallets /\ ch \in Addresses /\ BondVault(new) \in Addresses
          /\ lamports' = Transfer(lamports, ch, BondVault(new), bond)
          /\ ~Exists(challenges[new]) /\ Open(new)' /\ challenges'[new].bond = bond
          /\ \A e \in ChallengeIds \ {new} : challenges'[e] = challenges[e]
          /\ new \in ChallengeIds
      BY <1>8, OpeningPays, ConstantsAssumption
    <3> HIDE DEF new
    <3> QED
      BY <3>1
  <2>2. v # ch
    BY <2>1, Distinct
  <2>3. lamports'[v] = lamports[v] - 0 + Part(v, BondVault(c), bond)
    BY <1>1, <2>1, <2>2, TransferAt DEF Part
  <2>4. CASE c = d
    <3>1. lamports[v] = 0
      BY <1>2, <1>4, <2>1, <2>4 DEF BondAlone, Open
    <3>2. lamports'[v] = bond
      BY <2>1, <2>3, <2>4, <3>1 DEF Part
    <3> QED
      BY <2>1, <2>4, <3>2 DEF BondAlone
  <2>5. CASE c # d
    <3>1. v # BondVault(c)
      BY <2>5, Distinct
    <3>2. lamports'[v] = lamports[v]
      BY <1>1, <2>3, <3>1 DEF Part
    <3> QED
      BY <1>5, <2>1, <2>5, <3>2
  <2> QED
    BY <2>4, <2>5
<1>9. ASSUME NEW resolver \in Wallets, NEW c \in ChallengeIds, NEW verdict \in BOOLEAN,
             ResolveChallenged(resolver, c, verdict)
      PROVE  BondAlone(d)'
  <2> DEFINE bond == challenges[c].bond
  <2>1. /\ c[2] \in Addresses /\ c[1][1] \in Addresses /\ StakeVault(c[1][1]) \in Addresses
        /\ BondVault(c) \in Addresses /\ v # c[2] /\ v # c[1][1] /\ v # StakeVault(c[1][1])
    BY Names, Distinct
  <2>2. /\ Open(c) /\ Ruled(c, verdict)'
        /\ \A e \in ChallengeIds \ {c} : challenges'[e] = challenges[e]
    BY <1>9, VerdictPays
  <2>3. PICK treasury \in Addresses :
          /\ Exists(agents[c[1][1]]) /\ Exists(challenges[c]) /\ bond \in Nat /\ v # treasury
          /\ IF verdict THEN Slash(c, treasury) ELSE Acquit(c, treasury)
    BY <1>3, <1>9, VerdictPays
  <2>4. lamports'[v] = lamports[v] - Part(v, BondVault(c), bond)
    BY <1>1, <2>1, <2>3, VerdictTakes
  <2>5. CASE c = d
    <3>1. lamports[v] = bond
      BY <1>2, <1>4, <2>2, <2>5 DEF BondAlone
    <3>2. lamports'[v] = 0
      BY <2>3, <2>4, <2>5, <3>1 DEF Part
    <3>3. ~Open(d)'
      BY <2>2, <2>5 DEF Ruled, Open
    <3> QED
      BY <3>2, <3>3 DEF BondAlone
  <2>6. CASE c # d
    <3>1. v # BondVault(c)
      BY <2>6, Distinct
    <3>2. lamports'[v] = lamports[v]
      BY <1>1, <2>4, <3>1 DEF Part
    <3> QED
      BY <1>5, <2>2, <2>6, <3>2
  <2> QED
    BY <2>5, <2>6
<1> QED
  BY <1>6, <1>7, <1>8, <1>9, LamportSteps

(***************************************************************************)
(* Instructions only move lamports: what the accounts hold together never  *)
(* changes, however stakes and bonds are split and rounded; and a bond     *)
(* vault that no policy names as treasury is empty but for the bond of an  *)
(* open challenge, so a verdict pays it out to the last lamport.           *)
(***************************************************************************)
THEOREM LamportsAreConserved == Spec => []LamportsConserved
<1>1. Init => BondsAlone
  <2> SUFFICES ASSUME Init, NEW c \in ChallengeIds PROVE BondAlone(c)
    BY DEF BondsAlone
  <2>1. lamports[BondVault(c)] = 0
    BY Names, Distinct DEF Init
  <2> QED
    BY <2>1 DEF Init, BondAlone, Open, Exists
<1>2. BondsAlone => ClosedBondsPaidOut
  BY DEF BondsAlone, BondAlone, ClosedBondsPaidOut
<1> QED
  BY <1>1, <1>2, TypeCorrect, TotalInit, TotalNext, BondsAloneNext, PTL DEF Spec, LamportsConserved

----------------------------------------------------------------------------
(* The challengers. *)

(* A challenger's bonds that are out are natural numbers, and finitely     *)
(* many, so that they add up.                                              *)
LEMMA BondsAddUp ==
  ASSUME TypeOK, NEW ch
  PROVE  /\ \A c \in ChallengesBy(ch) : BondsOut[c] \in Int
         /\ SumFunctionOnSet(BondsOut, ChallengesBy(ch)) \in Int
<1>1. \A c \in ChallengeIds : BondsOut[c] \in Int
  BY DEF BondsOut, Open, Ruled, Exists, TypeOK, Challenge
<1>2. ChallengesBy(ch) \in SUBSET ChallengeIds
  BY DEF ChallengesBy
<1>3. IsFiniteSet(ChallengesBy(ch))
  BY <1>2, FiniteChallenges, FS_Subset
<1>4. \A c \in ChallengesBy(ch) : BondsOut[c] \in Int
  BY <1>1, <1>2
<1> QED
  BY <1>3, <1>4, SumIsInteger

(* They do so after the step as well. *)
LEMMA BondsStillAddUp ==
  ASSUME TypeOK', NEW ch
  PROVE  SumFunctionOnSet(BondsOut', ChallengesBy(ch)) \in Int
<1> DEFINE g == BondsOut'
<1>1. \A c \in ChallengeIds : g[c] \in Int
  BY DEF BondsOut, Open, Ruled, Exists, TypeOK, Challenge
<1>2. ChallengesBy(ch) \in SUBSET ChallengeIds
  BY DEF ChallengesBy
<1>3. IsFiniteSet(ChallengesBy(ch))
  BY <1>2, FiniteChallenges, FS_Subset
<1> HIDE DEF g
<1>4. SumFunctionOnSet(g, ChallengesBy(ch)) \in Int
  BY <1>1, <1>2, <1>3, SumIsInteger
<1> QED
  BY <1>4 DEF g

(* When one challenge changes, so does the sum of its challenger.          *)
LEMMA BondsMove ==
  ASSUME TypeOK, TypeOK', NEW ch, NEW c \in ChallengeIds,
         \A d \in ChallengeIds \ {c} : challenges'[d] = challenges[d]
  PROVE  SumFunctionOnSet(BondsOut', ChallengesBy(ch))
           = SumFunctionOnSet(BondsOut, ChallengesBy(ch))
               + IF c[2] = ch THEN BondsOut'[c] - BondsOut[c] ELSE 0
<1> DEFINE mine == ChallengesBy(ch)
           f == BondsOut
           g == BondsOut'
<1>1. mine \in SUBSET ChallengeIds /\ (c \in mine <=> c[2] = ch)
  BY DEF ChallengesBy
<1>2. IsFiniteSet(mine)
  BY <1>1, FiniteChallenges, FS_Subset
<1>3. /\ \A d \in mine : f[d] \in Int
      /\ SumFunctionOnSet(f, mine) \in Int
  BY BondsAddUp
<1>4. \A d \in mine : g[d] \in Int
  BY <1>1 DEF BondsOut, Open, Ruled, Exists, TypeOK, Challenge
<1>5. \A d \in mine \ {c} : f[d] = g[d]
  BY <1>1 DEF BondsOut, Open, Ruled, Exists
<1> HIDE DEF mine, f, g
<1>6. CASE c[2] = ch
  <2>1. SumFunctionOnSet(g, mine) = SumFunctionOnSet(f, mine) + g[c] - f[c]
    BY <1>1, <1>2, <1>3, <1>4, <1>5, <1>6, SumChanges
  <2>2. g[c] \in Int /\ f[c] \in Int
    BY <1>1, <1>3, <1>4, <1>6
  <2> QED
    BY <1>3, <1>6, <2>1, <2>2 DEF mine, f, g
<1>7. CASE c[2] # ch
  <2>1. SumFunctionOnSet(f, mine) = SumFunctionOnSet(g, mine)
    BY <1>1, <1>2, <1>5, <1>7, SumOfSame
  <2> QED
    BY <1>3, <1>7, <2>1 DEF mine, f, g
<1> QED
  BY <1>6, <1>7

(* A verdict takes nothing from a wallet, and returns the bond of a        *)
(* challenge that was right.                                               *)
LEMMA VerdictCredits ==
  ASSUME TypeOK, NEW c \in ChallengeIds, NEW verdict \in BOOLEAN, NEW treasury \in Addresses,
         NEW bond \in Nat, bond = challenges[c].bond,
         Exists(agents[c[1][1]]), Exists(challenges[c]),
         IF verdict THEN Slash(c, treasury) ELSE Acquit(c, treasury),
         NEW w \in Wallets
  PROVE  lamports'[w] >= lamports[w] + IF verdict /\ w = c[2] THEN bond ELSE 0
<1>1. /\ w \in Addresses /\ w # BondVault(c) /\ w # StakeVault(c[1][1])
      /\ lamports[w] \in Nat /\ c[2] \in Addresses /\ BondVault(c) \in Addresses
      /\ StakeVault(c[1][1]) \in Addresses /\ lamports \in [Addresses -> Int]
  BY Names, Distinct DEF TypeOK
<1>2. lamports'[w] >= lamports[w]
  BY <1>1, SlashBalances, AcquitBalances
<1>3. ASSUME verdict, w = c[2]
      PROVE  lamports'[w] >= lamports[w] + bond
  <2> DEFINE vault == BondVault(c)
             stakes == StakeVault(c[1][1])
  <2>1. PICK reward, tax \in Nat, rewarded, taxed \in [Addresses -> Int] :
          /\ rewarded = Transfer(lamports, stakes, w, reward)
          /\ taxed = Transfer(rewarded, stakes, treasury, tax)
          /\ lamports' = Transfer(taxed, vault, w, bond)
    BY <1>3, SlashPays
  <2>2. vault \in Addresses /\ stakes \in Addresses /\ w # vault /\ w # stakes
    BY <1>1
  <2> HIDE DEF vault, stakes
  <2>3. rewarded[w] >= lamports[w]
    BY <1>1, <2>1, <2>2, TransferCredits
  <2>4. taxed[w] >= rewarded[w]
    BY <1>1, <2>1, <2>2, TransferCredits
  <2>5. lamports'[w] = taxed[w] + bond
    <3>1. Transfer(taxed, vault, w, bond)[w] = taxed[w] + bond
      BY <1>1, <2>2 DEF Transfer
    <3> QED
      BY <2>1, <3>1
  <2> QED
    BY <1>1, <2>1, <2>3, <2>4, <2>5
<1> QED
  BY <1>1, <1>2, <1>3

(* What a challenger holds, with its bonds that are out, never shrinks but *)
(* when it stakes.                                                         *)
Worth(ch) == lamports[ch] + SumFunctionOnSet(BondsOut, ChallengesBy(ch))
Stakes(op) == \E amount \in Amounts : RegisterAgent(op, amount) \/ Stake(op, amount)

(* It does not, in any step. *)
LEMMA WorthGrows ==
  ASSUME TypeOK, TypeOK', [Next]_vars, NEW ch \in Challengers, ch \in Operators => ~Stakes(ch)
  PROVE  /\ Worth(ch) \in Int
         /\ lamports'[ch] + SumFunctionOnSet(BondsOut', ChallengesBy(ch)) >= Worth(ch)
<1> DEFINE out == SumFunctionOnSet(BondsOut, ChallengesBy(ch))
           new == SumFunctionOnSet(BondsOut', ChallengesBy(ch))
<1>1. /\ ch \in Wallets /\ ch \in Addresses /\ lamports \in [Addresses -> Int]
      /\ lamports[ch] \in Int /\ lamports'[ch] \in Int /\ out \in Int
  BY ConstantsAssumption, Names, BondsAddUp DEF TypeOK
<1>2. Worth(ch) = lamports[ch] + out
  BY DEF Worth
<1> HIDE DEF out
<1> SUFFICES lamports'[ch] + new >= lamports[ch] + out
  BY <1>1, <1>2
<1>3. CASE UNCHANGED <<lamports, challenges>>
  <2>1. BondsOut' = BondsOut
    BY <1>3 DEF BondsOut, Open, Ruled, Exists
  <2> QED
    BY <1>1, <1>3, <2>1 DEF out
<1>4. ASSUME NEW op \in Operators, NEW amount \in Amounts,
             RegisterAgent(op, amount) \/ Stake(op, amount) \/ WithdrawStake(op, amount)
      PROVE  lamports'[ch] + new >= lamports[ch] + out
  <2>1. /\ amount \in Nat /\ op \in Addresses /\ StakeVault(op) \in Addresses /\ UNCHANGED challenges
        /\ \/ lamports' = Transfer(lamports, op, StakeVault(op), amount)
           \/ lamports' = Transfer(lamports, StakeVault(op), op, amount)
    BY <1>4, StakingPays, ConstantsAssumption
  <2>2. ch # StakeVault(op)
    BY <1>1, Distinct
  <2>3. lamports'[ch] >= lamports[ch]
    <3>1. CASE WithdrawStake(op, amount)
      <4>1. lamports' = Transfer(lamports, StakeVault(op), op, amount)
        BY <3>1 DEF WithdrawStake, Pay
      <4> QED
        BY <1>1, <2>1, <2>2, <4>1, TransferCredits
    <3>2. CASE RegisterAgent(op, amount) \/ Stake(op, amount)
      <4>1. lamports' = Transfer(lamports, op, StakeVault(op), amount) /\ ch # op
        BY <3>2 DEF RegisterAgent, Stake, Pay, Stakes
      <4> QED
        BY <1>1, <2>1, <2>2, <4>1, TransferCredits
    <3> QED
      BY <1>4, <3>1, <3>2
  <2>4. BondsOut' = BondsOut
    BY <2>1 DEF BondsOut, Open, Ruled, Exists
  <2> QED
    BY <1>1, <2>3, <2>4 DEF out
<1>5. ASSUME NEW t \in ThoughtIds, NEW other \in Challengers, NEW bond \in Amounts,
             OpenChallenge(t, other, bond)
      PROVE  lamports'[ch] + new >= lamports[ch] + out
  <2> DEFINE c == <<t, other>>
  <2>1. /\ bond \in Nat /\ c \in ChallengeIds /\ c[2] = other
        /\ other \in Addresses /\ BondVault(c) \in Addresses
        /\ lamports' = Transfer(lamports, other, BondVault(c), bond)
        /\ ~Exists(challenges[c]) /\ Open(c)' /\ challenges'[c].bond = bond
        /\ \A d \in ChallengeIds \ {c} : challenges'[d] = challenges[d]
    BY <1>5, OpeningPays
  <2> HIDE DEF c
  <2>2. ch # BondVault(c)
    BY <1>1, <2>1, Distinct
  <2>3. lamports'[ch] = lamports[ch] - Part(ch, other, bond)
    BY <1>1, <2>1, <2>2, TransferBeside
  <2>4. BondsOut[c] = 0 /\ BondsOut'[c] = bond
    BY <2>1 DEF BondsOut, Open, Ruled
  <2>5. new = out + IF c[2] = ch THEN BondsOut'[c] - BondsOut[c] ELSE 0
    BY <2>1, BondsMove DEF out
  <2>6. new = out + Part(ch, other, bond)
    BY <1>1, <2>1, <2>4, <2>5 DEF Part
  <2>7. Part(ch, other, bond) \in Int
    BY <2>1 DEF Part
  <2> HIDE DEF new
  <2> QED
    BY <1>1, <2>3, <2>6, <2>7
<1>6. ASSUME NEW resolver \in Wallets, NEW c \in ChallengeIds, NEW verdict \in BOOLEAN,
             ResolveChallenged(resolver, c, verdict)
      PROVE  lamports'[ch] + new >= lamports[ch] + out
  <2> DEFINE bond == challenges[c].bond
             back == IF verdict /\ ch = c[2] THEN bond ELSE 0
  <2>1. /\ Exists(agents[c[1][1]]) /\ Exists(challenges[c]) /\ bond \in Nat
        /\ Open(c) /\ Ruled(c, verdict)' /\ challenges'[c].bond = bond
        /\ \A d \in ChallengeIds \ {c} : challenges'[d] = challenges[d]
    BY <1>6, VerdictPays
  <2>2. PICK treasury \in Addresses : IF verdict THEN Slash(c, treasury) ELSE Acquit(c, treasury)
    BY <1>6, VerdictPays
  <2>3. lamports'[ch] >= lamports[ch] + back
    BY <1>1, <2>1, <2>2, VerdictCredits
  <2>4. BondsOut[c] = bond /\ BondsOut'[c] = IF verdict THEN 0 ELSE bond
    BY <2>1 DEF BondsOut, Open, Ruled
  <2>5. new = out + IF c[2] = ch THEN BondsOut'[c] - BondsOut[c] ELSE 0
    BY <2>1, BondsMove DEF out
  <2> HIDE DEF bond, new
  <2>6. new = out - back
    BY <1>1, <2>1, <2>4, <2>5
  <2>7. back \in Int
    BY <2>1
  <2> HIDE DEF back
  <2> QED
    BY <1>1, <2>3, <2>6, <2>7
<1> QED
  BY <1>3, <1>4, <1>5, <1>6, LamportSteps

(***************************************************************************)
(* A wallet that challenges and registers no agent loses nothing but the   *)
(* bonds of disputes it lost, for any number of challenges and challengers *)
(* and any stakes, bonds, verdicts and treasury: the bonds of its open     *)
(* disputes and those it forfeited always make up what it has less.        *)
(***************************************************************************)
THEOREM ChallengersAreMadeWhole == Spec => []ChallengerLosesOnlyLostBonds
<1>1. Init => ChallengerLosesOnlyLostBonds
  <2> SUFFICES ASSUME Init, NEW ch \in Challengers \ Operators
               PROVE  lamports[ch] + SumFunctionOnSet(BondsOut, ChallengesBy(ch)) >= InitialLamports
    BY DEF ChallengerLosesOnlyLostBonds
  <2>1. lamports[ch] = InitialLamports /\ InitialLamports \in Nat
    BY ConstantsAssumption, Names DEF Init
  <2>2. ChallengesBy(ch) \in SUBSET ChallengeIds
    BY DEF ChallengesBy
  <2>3. \A c \in ChallengesBy(ch) : BondsOut[c] = 0
    BY <2>2 DEF Init, BondsOut, Open, Ruled, Exists
  <2>4. SumFunctionOnSet(BondsOut, ChallengesBy(ch)) = 0
    BY <2>2, <2>3, FiniteChallenges, FS_Subset, SumOfZeros
  <2> QED
    BY <2>1, <2>4
<1>2. TypeOK /\ TypeOK' /\ ChallengerLosesOnlyLostBonds /\ [Next]_vars => ChallengerLosesOnlyLostBonds'
  <2> SUFFICES ASSUME TypeOK, TypeOK', ChallengerLosesOnlyLostBonds, [Next]_vars,
                      NEW ch \in Challengers \ Operators
               PROVE  lamports'[ch] + SumFunctionOnSet(BondsOut', ChallengesBy(ch)) >= InitialLamports
    BY DEF ChallengerLosesOnlyLostBonds, ChallengesBy, ChallengeIds, ThoughtIds, Nonces
  <2> DEFINE new == SumFunctionOnSet(BondsOut', ChallengesBy(ch))
  <2>1. Worth(ch) >= InitialLamports /\ InitialLamports \in Int
    BY ConstantsAssumption DEF ChallengerLosesOnlyLostBonds, Worth
  <2>2. Worth(ch) \in Int /\ lamports'[ch] + new >= Worth(ch)
    BY WorthGrows
  <2>3. new \in Int /\ lamports'[ch] \in Int
    BY BondsStillAddUp, Names, ConstantsAssumption DEF TypeOK
  <2> HIDE DEF new
  <2> QED
    BY <2>1, <2>2, <2>3 DEF new
<1> QED
  BY <1>1, <1>2, TypeCorrect, PTL DEF Spec
=============================================================================
