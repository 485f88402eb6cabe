-------------------------------- MODULE Sums --------------------------------
(***************************************************************************)
(* Sums over finite sets, folds as the models compute them, and counts in  *)
(* sequences: the lemmas on data that several proofs rest on.              *)
(* Induction over a set or a number is by its smallest counterexample.     *)
(***************************************************************************)
EXTENDS Integers, Sequences, FiniteSetTheorems, WellFoundedInduction, TLAPS

Pick(s) == CHOOSE x \in s : TRUE

(* What is left of a set once the member to be counted next is.            *)
Rest(s) == s \ {Pick(s)}

Add(w, f, s) == IF s = {} THEN 0 ELSE w[Pick(s)] + f[Rest(s)]

(* f gives every subset of S the sum of the weights of its members.        *)
IsSum(w, S, f) == f = [s \in SUBSET S |-> Add(w, f, s)]

SumOf(w, S) == CHOOSE f : IsSum(w, S, f)

Total(w, S) == SumOf(w, S)[S]

(* Least(s, D): no other member of D is a subset of s.                     *)
Least(s, D) == s \in D /\ \A t \in D : t \subseteq s => t = s

LEMMA RestIsLess ==
  ASSUME NEW s, s # {}
  PROVE  Pick(s) \in s /\ Rest(s) \subseteq s /\ Rest(s) # s
  BY DEF Pick, Rest

(* Among finite sets there is one that contains no other of them.          *)
LEMMA SmallestSet ==
  ASSUME NEW S, IsFiniteSet(S), NEW D \in SUBSET (SUBSET S), D # {}
  PROVE  \E s : Least(s, D)
<1>1. D \subseteq FiniteSubsetsOf(S)
  BY FS_Subset DEF FiniteSubsetsOf
<1>2. PICK s \in D : \A t \in D : <<t, s>> \notin StrictSubsetOrdering(S)
  BY <1>1, FS_StrictSubsetOrderingWellFounded, WFMin
<1>3. QED
  BY <1>2 DEF StrictSubsetOrdering, Least

LEMMA SumsAgree ==
  ASSUME NEW w, NEW S, IsFiniteSet(S), NEW T, NEW U, S \subseteq T, S \subseteq U,
         NEW f, IsSum(w, T, f), NEW g, IsSum(w, U, g)
  PROVE  f[S] = g[S]
<1> DEFINE D == {s \in SUBSET S : f[s] # g[s]}
<1>1. ASSUME D # {} PROVE FALSE
  <2>1. PICK s : s \in D /\ \A t \in D : t \subseteq s => t = s
    <3>1. D \in SUBSET (SUBSET S)
      OBVIOUS
    <3> HIDE DEF D
    <3>2. PICK s : Least(s, D)
      BY <1>1, <3>1, SmallestSet
    <3>3. QED
      BY <3>2 DEF Least
  <2>2. f[s] = Add(w, f, s) /\ g[s] = Add(w, g, s)
    BY <2>1 DEF IsSum
  <2>3. s # {}
    BY <2>1, <2>2 DEF Add
  <2>4. f[Rest(s)] = g[Rest(s)]
    BY <2>1, <2>3, RestIsLess
  <2>5. QED
    BY <2>1, <2>2, <2>4 DEF Add
<1>2. QED
  BY <1>1

LEMMA SumExists ==
  ASSUME NEW w, NEW S, IsFiniteSet(S)
  PROVE  IsSum(w, S, SumOf(w, S))
<1> DEFINE D == {s \in SUBSET S : ~IsSum(w, s, SumOf(w, s))}
<1>1. ASSUME D # {} PROVE FALSE
  <2>1. PICK s : s \in D /\ \A t \in D : t \subseteq s => t = s
    <3>1. D \in SUBSET (SUBSET S)
      OBVIOUS
    <3> HIDE DEF D
    <3>2. PICK s : Least(s, D)
      BY <1>1, <3>1, SmallestSet
    <3>3. QED
      BY <3>2 DEF Least
  <2> DEFINE G == [t \in SUBSET s |->
                     IF t = s THEN Add(w, SumOf(w, Rest(s)), s) ELSE SumOf(w, t)[t]]
  <2>2. \A t \in SUBSET s : t # s => IsSum(w, t, SumOf(w, t))
    BY <2>1
  <2>3. ASSUME NEW t \in SUBSET s PROVE G[t] = Add(w, G, t)
    <3>1. CASE t = {}
      <4>1. CASE t = s
        BY <3>1, <4>1 DEF Add
      <4>2. CASE t # s
        BY <2>2, <3>1, <4>2 DEF Add, IsSum
      <4>3. QED
        BY <4>1, <4>2
    <3>2. CASE t # {}
      <4>1. Rest(t) \in SUBSET s /\ Rest(t) # s /\ Rest(t) \subseteq t /\ IsFiniteSet(Rest(t))
        BY <2>1, <3>2, RestIsLess, FS_Subset
      <4>2. G[Rest(t)] = SumOf(w, Rest(t))[Rest(t)] /\ IsSum(w, Rest(t), SumOf(w, Rest(t)))
        BY <2>2, <4>1
      <4>3. CASE t = s
        BY <3>2, <4>2, <4>3 DEF Add
      <4>4. CASE t # s
        <5>1. IsSum(w, t, SumOf(w, t))
          BY <2>2, <4>4
        <5>2. SumOf(w, t)[Rest(t)] = SumOf(w, Rest(t))[Rest(t)]
          BY <4>1, <4>2, <5>1, SumsAgree
        <5>3. SumOf(w, t)[t] = w[Pick(t)] + SumOf(w, t)[Rest(t)]
          BY <3>2, <5>1 DEF IsSum, Add
        <5>4. QED
          BY <3>2, <4>2, <4>4, <5>2, <5>3 DEF Add
      <4>5. QED
        BY <4>3, <4>4
    <3>3. QED
      BY <3>1, <3>2
  <2>4. IsSum(w, s, G)
    BY <2>3 DEF IsSum
  <2> HIDE DEF G
  <2>5. IsSum(w, s, SumOf(w, s))
    BY <2>4 DEF SumOf
  <2>6. QED
    BY <2>1, <2>5
<1>2. QED
  BY <1>1

LEMMA TotalStep ==
  ASSUME NEW w, NEW S, IsFiniteSet(S)
  PROVE  /\ S = {} => Total(w, S) = 0
         /\ S # {} => Total(w, S) = w[Pick(S)] + Total(w, Rest(S))
<1>1. IsSum(w, S, SumOf(w, S))
  BY SumExists
<1>2. Total(w, S) = Add(w, SumOf(w, S), S)
  BY <1>1 DEF IsSum, Total
<1>3. ASSUME S # {}
      PROVE  SumOf(w, S)[Rest(S)] = Total(w, Rest(S))
  <2>1. Rest(S) \subseteq S /\ IsFiniteSet(Rest(S))
    BY <1>3, RestIsLess, FS_Subset
  <2>2. IsSum(w, Rest(S), SumOf(w, Rest(S)))
    BY <2>1, SumExists
  <2>3. QED
    BY <1>1, <2>1, <2>2, SumsAgree DEF Total
<1>4. QED
  BY <1>2, <1>3 DEF Add

LEMMA TotalType ==
  ASSUME NEW K, NEW w \in [K -> Nat], NEW S \in SUBSET K, IsFiniteSet(S)
  PROVE  Total(w, S) \in Nat
<1> DEFINE D == {s \in SUBSET S : Total(w, s) \notin Nat}
<1>1. ASSUME D # {} PROVE FALSE
  <2>1. PICK s : s \in D /\ \A t \in D : t \subseteq s => t = s
    <3>1. D \in SUBSET (SUBSET S)
      OBVIOUS
    <3> HIDE DEF D
    <3>2. PICK s : Least(s, D)
      BY <1>1, <3>1, SmallestSet
    <3>3. QED
      BY <3>2 DEF Least
  <2>2. s \in SUBSET S /\ IsFiniteSet(s)
    BY <2>1, FS_Subset
  <2>3. CASE s = {}
    BY <2>1, <2>2, <2>3, TotalStep
  <2>4. CASE s # {}
    <3>1. Total(w, Rest(s)) \in Nat /\ w[Pick(s)] \in Nat
      BY <2>1, <2>4, RestIsLess
    <3>2. QED
      BY <2>1, <2>2, <2>4, <3>1, TotalStep
  <2>5. QED
    BY <2>3, <2>4
<1>2. QED
  BY <1>1

(* The order in which the members are counted does not matter.             *)
LEMMA TotalWithout ==
  ASSUME NEW K, NEW w \in [K -> Nat], NEW S \in SUBSET K, IsFiniteSet(S), NEW y \in S
  PROVE  Total(w, S) = w[y] + Total(w, S \ {y})
<1> DEFINE D == {s \in SUBSET S : \E x \in s : Total(w, s) # w[x] + Total(w, s \ {x})}
<1>1. ASSUME D # {} PROVE FALSE
  <2>1. PICK s : s \in D /\ \A t \in D : t \subseteq s => t = s
    <3>1. D \in SUBSET (SUBSET S)
      OBVIOUS
    <3> HIDE DEF D
    <3>2. PICK s : Least(s, D)
      BY <1>1, <3>1, SmallestSet
    <3>3. QED
      BY <3>2 DEF Least
  <2>2. PICK x \in s : Total(w, s) # w[x] + Total(w, s \ {x})
    BY <2>1
  <2> DEFINE p == Pick(s)
             r == (s \ {x}) \ {p}
  <2>3. p \in s /\ Total(w, s) = w[p] + Total(w, s \ {p})
    <3>1. s \in SUBSET S /\ IsFiniteSet(s) /\ s # {}
      BY <2>1, <2>2, FS_Subset
    <3>2. QED
      BY <3>1, TotalStep, RestIsLess DEF Rest
  <2>4. x # p
    BY <2>2, <2>3
  <2> HIDE DEF p
  <2>5. Total(w, s \ {p}) = w[x] + Total(w, r)
    <3>1. s \ {p} \in SUBSET S /\ s \ {p} \notin D
      BY <2>1, <2>3
    <3>2. (s \ {p}) \ {x} = r /\ x \in s \ {p}
      BY <2>4
    <3>3. QED
      BY <3>1, <3>2
  <2>6. Total(w, s \ {x}) = w[p] + Total(w, r)
    <3>1. s \ {x} \in SUBSET S /\ s \ {x} \notin D
      BY <2>1
    <3>2. QED
      BY <2>3, <2>4, <3>1
  <2>7. w[p] \in Nat /\ w[x] \in Nat /\ Total(w, r) \in Nat
    <3>1. s \in SUBSET S /\ r \in SUBSET S /\ r \in SUBSET K
      BY <2>1
    <3>2. IsFiniteSet(r)
      BY <3>1, FS_Subset
    <3>3. QED
      BY <2>2, <2>3, <3>1, <3>2, TotalType
  <2>8. QED
    BY <2>2, <2>3, <2>5, <2>6, <2>7
<1>2. QED
  BY <1>1

(* A sum over less, with smaller weights, is not more.                     *)
LEMMA TotalLess ==
  ASSUME NEW K, NEW w \in [K -> Nat], NEW v \in [K -> Nat], NEW S \in SUBSET K, IsFiniteSet(S),
         NEW T \in SUBSET S, \A k \in T : v[k] <= w[k]
  PROVE  Total(v, T) <= Total(w, S)
<1> DEFINE D == {s \in SUBSET S : ~(Total(v, T \cap s) <= Total(w, s))}
<1>1. ASSUME D # {} PROVE FALSE
  <2>1. PICK s : s \in D /\ \A t \in D : t \subseteq s => t = s
    <3>1. D \in SUBSET (SUBSET S)
      OBVIOUS
    <3> HIDE DEF D
    <3>2. PICK s : Least(s, D)
      BY <1>1, <3>1, SmallestSet
    <3>3. QED
      BY <3>2 DEF Least
  <2>2. s \in SUBSET K /\ T \cap s \in SUBSET K /\ IsFiniteSet(s) /\ IsFiniteSet(T \cap s)
    BY <2>1, FS_Subset
  <2>3. CASE s = {}
    <3>1. T \cap s = {}
      BY <2>3
    <3>2. Total(v, T \cap s) = 0 /\ Total(w, s) = 0
      BY <2>2, <2>3, <3>1, TotalStep
    <3>3. QED
      BY <2>1, <3>2
  <2>4. CASE s # {}
    <3>1. PICK p \in s : TRUE
      BY <2>4
    <3> DEFINE r == s \ {p}
    <3>2. Total(v, T \cap r) <= Total(w, r)
      BY <2>1, <3>1
    <3>3. Total(w, s) = w[p] + Total(w, r)
      BY <2>2, <3>1, TotalWithout
    <3>4. /\ w[p] \in Nat /\ v[p] \in Nat
          /\ Total(w, r) \in Nat /\ Total(v, T \cap r) \in Nat
      <4>1. r \in SUBSET K /\ T \cap r \in SUBSET K /\ IsFiniteSet(r) /\ IsFiniteSet(T \cap r)
        BY <2>2, FS_Subset
      <4>2. QED
        BY <2>2, <3>1, <4>1, TotalType
    <3>5. CASE p \in T
      <4>1. Total(v, T \cap s) = v[p] + Total(v, (T \cap s) \ {p})
        BY <2>2, <3>1, <3>5, TotalWithout
      <4>2. (T \cap s) \ {p} = T \cap r
        OBVIOUS
      <4>3. v[p] <= w[p]
        BY <3>5
      <4> DEFINE a == Total(v, T \cap r)
                 b == Total(w, r)
      <4>4. Total(v, T \cap s) = v[p] + a /\ Total(w, s) = w[p] + b
        BY <3>3, <4>1, <4>2
      <4>5. a \in Nat /\ b \in Nat /\ a <= b
        BY <3>2, <3>4
      <4> HIDE DEF a, b
      <4>6. v[p] + a <= w[p] + b
        BY <3>4, <4>3, <4>5
      <4>7. QED
        BY <2>1, <4>4, <4>6
    <3>6. CASE p \notin T
      <4>1. T \cap s = T \cap r
        BY <3>6
      <4> DEFINE a == Total(v, T \cap r)
                 b == Total(w, r)
      <4>2. Total(v, T \cap s) = a /\ Total(w, s) = w[p] + b
        BY <3>3, <4>1
      <4>3. a \in Nat /\ b \in Nat /\ a <= b
        BY <3>2, <3>4
      <4> HIDE DEF a, b
      <4>4. a <= w[p] + b
        BY <3>4, <4>3
      <4>5. QED
        BY <2>1, <4>2, <4>4
    <3>7. QED
      BY <3>5, <3>6
  <2>5. QED
    BY <2>3, <2>4
<1>2. S \notin D /\ T \cap S = T
  BY <1>1
<1>3. QED
  BY <1>2
-----------------------------------------------------------------------------
(* Folds of another kind, over values V: the next member is the one that   *)
(* pick gives, and step says what it does to the value of the others.      *)
Follows(base, step, pick, f, s) ==
  f[s] = IF s = {} THEN base ELSE step[<<pick[s], f[s \ {pick[s]}]>>]

IsFold(V, base, step, pick, S, f) ==
  f \in [SUBSET S -> V] /\ \A s \in SUBSET S : Follows(base, step, pick, f, s)

FoldOf(V, base, step, pick, S) == CHOOSE f : IsFold(V, base, step, pick, S, f)

Picks(pick, S) == \A s \in SUBSET S : s # {} => pick[s] \in s

LEMMA FoldsAgree ==
  ASSUME NEW V, NEW base, NEW step, NEW pick, NEW X, IsFiniteSet(X), Picks(pick, X),
         NEW T \in SUBSET X, NEW U \in SUBSET X,
         NEW f, IsFold(V, base, step, pick, T, f), NEW g, IsFold(V, base, step, pick, U, g),
         NEW S, S \subseteq T, S \subseteq U
  PROVE  f[S] = g[S]
<1> DEFINE D == {s \in SUBSET S : f[s] # g[s]}
<1>1. ASSUME D # {} PROVE FALSE
  <2>1. PICK s : s \in D /\ \A t \in D : t \subseteq s => t = s
    <3>1. D \in SUBSET (SUBSET S) /\ IsFiniteSet(S)
      BY FS_Subset
    <3> HIDE DEF D
    <3>2. PICK s : Least(s, D)
      BY <1>1, <3>1, SmallestSet
    <3>3. QED
      BY <3>2 DEF Least
  <2>2. Follows(base, step, pick, f, s) /\ Follows(base, step, pick, g, s)
    BY <2>1 DEF IsFold
  <2>3. s # {}
    BY <2>1, <2>2 DEF Follows
  <2> DEFINE r == s \ {pick[s]}
  <2>4. r \in SUBSET S /\ r \subseteq s /\ r # s
    BY <2>1, <2>3 DEF Picks
  <2>5. f[r] = g[r]
    BY <2>1, <2>4
  <2>6. QED
    BY <2>1, <2>2, <2>3, <2>5 DEF Follows
<1>2. QED
  BY <1>1

LEMMA FoldExists ==
  ASSUME NEW V, NEW base \in V, NEW X, IsFiniteSet(X), NEW step \in [X \X V -> V],
         NEW pick, Picks(pick, X)
  PROVE  \A S \in SUBSET X : IsFold(V, base, step, pick, S, FoldOf(V, base, step, pick, S))
<1> DEFINE F(s) == FoldOf(V, base, step, pick, s)
           Good(s) == IsFold(V, base, step, pick, s, F(s))
           D == {s \in SUBSET X : ~Good(s)}
<1>1. ASSUME D # {} PROVE FALSE
  <2>1. PICK s : s \in D /\ \A t \in D : t \subseteq s => t = s
    <3>1. D \in SUBSET (SUBSET X)
      OBVIOUS
    <3> HIDE DEF D
    <3>2. PICK s : Least(s, D)
      BY <1>1, <3>1, SmallestSet
    <3>3. QED
      BY <3>2 DEF Least
  <2>2. s \in SUBSET X /\ ~Good(s) /\ \A t \in SUBSET s : t # s => Good(t)
    BY <2>1
  <2> HIDE DEF D
  <2> DEFINE p(t) == t \ {pick[t]}
             Next(t, v) == IF t = {} THEN base ELSE step[<<pick[t], v>>]
             G == [t \in SUBSET s |-> IF t = s THEN Next(s, F(p(s))[p(s)]) ELSE F(t)[t]]
  <2>3. ASSUME NEW t \in SUBSET s, t # {}
        PROVE  p(t) \in SUBSET s /\ p(t) # s /\ p(t) \subseteq t /\ pick[t] \in X
    BY <2>2, <2>3 DEF Picks
  <2>4. ASSUME NEW t \in SUBSET s, t # s
        PROVE  F(t) \in [SUBSET t -> V] /\ F(t)[t] \in V
    BY <2>2, <2>4 DEF IsFold
  <2>5. ASSUME NEW t \in SUBSET s, NEW v \in V
        PROVE  Next(t, v) \in V
    <3>1. CASE t = {}
      BY <3>1
    <3>2. CASE t # {}
      <4>1. pick[t] \in X
        BY <2>3, <3>2
      <4>2. step[<<pick[t], v>>] \in V
        BY <4>1
      <4>3. QED
        BY <3>2, <4>2
    <3>3. QED
      BY <3>1, <3>2
  <2>6. G \in [SUBSET s -> V]
    <3>1. ASSUME NEW t \in SUBSET s PROVE G[t] \in V
      <4>1. CASE t = s /\ s = {}
        BY <4>1
      <4>2. CASE t = s /\ s # {}
        <5>1. p(s) \in SUBSET s /\ p(s) # s
          BY <2>3, <4>2
        <5>2. F(p(s))[p(s)] \in V
          <6> HIDE DEF F, p
          <6>1. QED
            BY <2>4, <5>1
        <5>3. G[t] = Next(s, F(p(s))[p(s)])
          BY <4>2
        <5> HIDE DEF F, p, Next, G
        <5>4. QED
          BY <2>5, <5>2, <5>3
      <4>3. CASE t # s
        BY <2>4, <4>3
      <4>4. QED
        BY <4>1, <4>2, <4>3
    <3>2. QED
      BY <3>1
  <2>7. ASSUME NEW t \in SUBSET s PROVE G[t] = Next(t, G[p(t)])
    <3>1. CASE t = {}
      <4>1. CASE t = s
        BY <3>1, <4>1
      <4>2. CASE t # s
        <5>1. Follows(base, step, pick, F(t), t)
          BY <2>2, <4>2 DEF IsFold
        <5>2. QED
          BY <3>1, <4>2, <5>1 DEF Follows
      <4>3. QED
        BY <4>1, <4>2
    <3>2. CASE t # {}
      <4>1. G[p(t)] = F(p(t))[p(t)]
        BY <2>3, <3>2
      <4>2. CASE t = s
        BY <4>1, <4>2
      <4>3. CASE t # s
        <5>1. Good(t) /\ Good(p(t))
          BY <2>2, <2>3, <3>2, <4>3
        <5>2. F(t)[p(t)] = F(p(t))[p(t)]
          <6>1. t \in SUBSET X /\ p(t) \in SUBSET X /\ p(t) \subseteq t /\ p(t) \subseteq p(t)
            BY <2>2, <2>3, <3>2
          <6> DEFINE q == p(t)
                     f == F(t)
                     g == F(q)
          <6>2. IsFold(V, base, step, pick, t, f) /\ IsFold(V, base, step, pick, q, g)
            BY <5>1
          <6> HIDE DEF f, g, q
          <6>3. f[q] = g[q]
            BY <6>1, <6>2, FoldsAgree DEF q
          <6>4. QED
            BY <6>3 DEF f, g, q
        <5>3. Follows(base, step, pick, F(t), t)
          BY <5>1 DEF IsFold
        <5>4. F(t)[t] = Next(t, F(t)[p(t)])
          BY <5>3 DEF Follows
        <5>5. QED
          BY <4>1, <4>3, <5>2, <5>4
      <4>4. QED
        BY <4>2, <4>3
    <3>3. QED
      BY <3>1, <3>2
  <2>8. IsFold(V, base, step, pick, s, G)
    <3>1. ASSUME NEW t \in SUBSET s PROVE Follows(base, step, pick, G, t)
      <4>1. G[t] = Next(t, G[p(t)])
        BY <2>7
      <4> HIDE DEF G
      <4>2. QED
        BY <4>1 DEF Follows
    <3>2. QED
      BY <2>6, <3>1 DEF IsFold
  <2> HIDE DEF G
  <2>9. Good(s)
    BY <2>8 DEF FoldOf
  <2>10. QED
    BY <2>2, <2>9
<1>2. QED
  BY <1>1
-----------------------------------------------------------------------------
(* Among the numbers up to a bound there is a first one of a kind.         *)
LEMMA FirstOne ==
  ASSUME NEW N \in Nat, NEW D \in SUBSET (0..N), D # {}
  PROVE  \E n \in D : \A m \in D : n <= m
<1> DEFINE S == 0..N
           E == {0..n : n \in D}
<1>1. IsFiniteSet(S)
  BY FS_Interval
<1>2. E \in SUBSET (SUBSET S) /\ E # {}
  <2>1. ASSUME NEW n \in D PROVE 0..n \in SUBSET S
    BY n \in 0..N
  <2> HIDE DEF S
  <2>2. QED
    BY <2>1
<1> HIDE DEF S
<1>3. PICK s : Least(s, E)
  <2> HIDE DEF E
  <2>1. QED
    BY <1>1, <1>2, SmallestSet
<1>4. PICK n \in D : s = 0..n
  BY <1>3 DEF Least
<1>5. ASSUME NEW m \in D PROVE n <= m
  <2>1. n \in Nat /\ m \in Nat
    OBVIOUS
  <2>2. ASSUME m < n PROVE FALSE
    <3>1. 0..m \in E /\ 0..m \subseteq s
      BY <1>4, <2>1, <2>2
    <3>2. 0..m = s
      BY <1>3, <3>1 DEF Least
    <3>3. n \in 0..m
      BY <1>4, <2>1, <3>2
    <3>4. QED
      BY <2>1, <2>2, <3>3
  <2>3. QED
    BY <2>1, <2>2
<1>6. QED
  BY <1>5

(* Among numbers up to a bound there is a last one.                        *)
LEMMA LastOne ==
  ASSUME NEW N \in Nat, NEW D \in SUBSET (0..N), D # {}
  PROVE  \E n \in D : \A m \in D : n >= m
<1> DEFINE E == {N - n : n \in D}
<1>1. E \in SUBSET (0..N) /\ E # {}
  <2>1. ASSUME NEW n \in D PROVE N - n \in 0..N
    <3>1. n \in 0..N
      OBVIOUS
    <3>2. QED
      BY <3>1
  <2>2. E \in SUBSET (0..N)
    BY <2>1, Zenon
  <2>3. E # {}
    BY Zenon
  <2>4. QED
    BY <2>2, <2>3
<1>2. PICK e \in E : \A m \in E : e <= m
  <2> HIDE DEF E
  <2>1. QED
    BY <1>1, FirstOne
<1>3. PICK n \in D : e = N - n
  OBVIOUS
<1>4. ASSUME NEW m \in D PROVE n >= m
  <2>1. N - m \in E
    OBVIOUS
  <2>2. N - n <= N - m
    BY <1>2, <1>3, <2>1
  <2>3. m \in Nat /\ n \in Nat
    OBVIOUS
  <2>4. QED
    BY <2>2, <2>3
<1>5. QED
  BY <1>4

(* A property of numbers that holds of 0, and of a number if of the one    *)
(* before it, holds of all up to n: Good is the set of those that have it. *)
LEMMA UpFrom ==
  ASSUME NEW n \in Nat, NEW Good, 0 \in Good,
         \A i \in 1..n : i - 1 \in Good => i \in Good
  PROVE  \A i \in 0..n : i \in Good
<1> DEFINE D == {i \in 0..n : i \notin Good}
<1>1. ASSUME D # {} PROVE FALSE
  <2>1. D \in SUBSET (0..n)
    OBVIOUS
  <2> HIDE DEF D
  <2>2. PICK i \in D : \A j \in D : i <= j
    BY <1>1, <2>1, FirstOne
  <2>3. i \in 0..n /\ i \notin Good
    BY DEF D
  <2>4. i \in 1..n
    BY <2>3
  <2>5. i - 1 \in 0..n /\ i - 1 \notin Good
    BY <2>3, <2>4
  <2>6. i - 1 \in D
    BY <2>5 DEF D
  <2>7. i <= i - 1
    BY <2>2, <2>6
  <2>8. QED
    BY <2>3, <2>7
<1>2. QED
  BY <1>1

(* How often t is in a sequence.                                           *)
Times(s, t) == Cardinality({i \in DOMAIN s : s[i] = t})

LEMMA PlacesFinite ==
  ASSUME NEW K, NEW s \in Seq(K), NEW P \in SUBSET DOMAIN s
  PROVE  /\ IsFiniteSet(P) /\ Cardinality(P) \in Nat /\ Cardinality(P) <= Len(s)
<1>1. DOMAIN s = 1..Len(s) /\ Len(s) \in Nat
  OBVIOUS
<1>2. IsFiniteSet(1..Len(s)) /\ Cardinality(1..Len(s)) = Len(s)
  <2> DEFINE n == Len(s)
  <2>1. n \in Nat /\ 1 \in Int /\ n \in Int
    BY <1>1
  <2> HIDE DEF n
  <2>2. IsFiniteSet(1..n) /\ Cardinality(1..n) = IF 1 > n THEN 0 ELSE n - 1 + 1
    BY <2>1, FS_Interval
  <2>3. IsFiniteSet(1..n) /\ Cardinality(1..n) = n
    BY <2>1, <2>2
  <2>4. QED
    BY <2>3 DEF n
<1>3. IsFiniteSet(P) /\ Cardinality(P) <= Cardinality(1..Len(s))
  BY <1>1, <1>2, FS_Subset
<1>4. QED
  BY <1>2, <1>3, FS_CardinalityType

LEMMA TimesType ==
  ASSUME NEW K, NEW s \in Seq(K), NEW t
  PROVE  Times(s, t) \in Nat
  BY PlacesFinite DEF Times

LEMMA TimesEmpty == \A t : Times(<<>>, t) = 0
<1>1. DOMAIN <<>> = {}
  OBVIOUS
<1>2. \A t : {i \in DOMAIN <<>> : <<>>[i] = t} = {}
  BY <1>1
<1>3. QED
  BY <1>2, FS_EmptySet DEF Times

LEMMA TimesAppend ==
  ASSUME NEW K, NEW s \in Seq(K), NEW x \in K, NEW t
  PROVE  Times(Append(s, x), t) = IF x = t THEN Times(s, t) + 1 ELSE Times(s, t)
<1> DEFINE n == Len(s) + 1
           a == Append(s, x)
           P == {i \in DOMAIN s : s[i] = t}
           Q == {i \in DOMAIN a : a[i] = t}
<1>1. /\ DOMAIN a = DOMAIN s \cup {n} /\ n \notin DOMAIN s
      /\ a[n] = x /\ \A i \in DOMAIN s : a[i] = s[i]
  OBVIOUS
<1>2. IsFiniteSet(P) /\ n \notin P
  BY <1>1, PlacesFinite
<1> HIDE DEF n, a
<1>3. CASE x = t
  <2>1. Q = P \cup {n}
    BY <1>1, <1>3
  <2>2. Cardinality(P \cup {n}) = Cardinality(P) + 1
    BY <1>2, FS_AddElement
  <2>3. QED
    BY <1>3, <2>1, <2>2 DEF Times, a
<1>4. CASE x # t
  <2>1. Q = P
    BY <1>1, <1>4
  <2>2. QED
    BY <1>4, <2>1 DEF Times, a
<1>5. QED
  BY <1>3, <1>4

(* A sequence is as long as what it holds: no more of it is in S than      *)
(* there is of it.                                                         *)
LEMMA TimesFit ==
  ASSUME NEW K, NEW s \in Seq(K), NEW S \in SUBSET K, IsFiniteSet(S)
  PROVE  Total([t \in K |-> Times(s, t)], S) <= Len(s)
<1> DEFINE w == [t \in K |-> Times(s, t)]
           In(x) == {i \in DOMAIN s : s[i] \in x}
           D == {x \in SUBSET S : Total(w, x) # Cardinality(In(x))}
<1>1. w \in [K -> Nat]
  BY TimesType
<1>2. ASSUME D # {} PROVE FALSE
  <2>1. PICK x : x \in D /\ \A y \in D : y \subseteq x => y = x
    <3>1. D \in SUBSET (SUBSET S)
      OBVIOUS
    <3> HIDE DEF D
    <3>2. PICK x : Least(x, D)
      BY <1>2, <3>1, SmallestSet
    <3>3. QED
      BY <3>2 DEF Least
  <2>2. x \in SUBSET S /\ IsFiniteSet(x)
    BY <2>1, FS_Subset
  <2>3. CASE x = {}
    <3>1. In(x) = {} /\ Total(w, x) = 0
      BY <2>2, <2>3, TotalStep
    <3>2. QED
      BY <2>1, <3>1, FS_EmptySet
  <2>4. CASE x # {}
    <3> DEFINE p == Pick(x)
               r == Rest(x)
    <3>1. p \in x /\ r \in SUBSET S /\ r \subseteq x /\ r # x /\ r = x \ {p} /\ p \in K
      BY <2>2, <2>4, RestIsLess DEF Rest
    <3>2. Total(w, x) = w[p] + Total(w, r)
      BY <2>2, <2>4, TotalStep
    <3>3. Total(w, r) = Cardinality(In(r))
      BY <2>1, <3>1
    <3>4. w[p] = Cardinality(In({p}))
      BY <3>1 DEF Times
    <3> HIDE DEF p, r, w
    <3>5. In(x) = In({p}) \cup In(r) /\ In({p}) \cap In(r) = {}
      BY <3>1
    <3>6. IsFiniteSet(In({p})) /\ IsFiniteSet(In(r))
      BY PlacesFinite
    <3>7. Cardinality(In({p}) \cup In(r)) = Cardinality(In({p})) + Cardinality(In(r))
      <4>1. Cardinality({}) = 0
        BY FS_EmptySet
      <4>2. Cardinality(In({p})) \in Nat /\ Cardinality(In(r)) \in Nat
        BY PlacesFinite
      <4>3. Cardinality(In({p}) \cup In(r))
              = Cardinality(In({p})) + Cardinality(In(r)) - Cardinality(In({p}) \cap In(r))
        <5> HIDE DEF In
        <5>1. QED
          BY <3>6, FS_Union
      <4>4. Cardinality(In({p}) \cap In(r)) = 0
        BY <3>5, <4>1
      <4> HIDE DEF In
      <4>5. QED
        BY <4>2, <4>3, <4>4
    <3>8. QED
      BY <2>1, <3>2, <3>3, <3>4, <3>5, <3>7
  <2>5. QED
    BY <2>3, <2>4
<1>3. Total(w, S) = Cardinality(In(S))
  BY <1>2
<1>4. Cardinality(In(S)) <= Len(s)
  BY PlacesFinite
<1>5. QED
  BY <1>3, <1>4
=============================================================================
