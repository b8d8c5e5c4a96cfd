--------------------------- MODULE SelectorProofs ---------------------------
(***************************************************************************)
(* Selector for any bindings, priorities, weights, workers and replicas.   *)
(* What a call carries from the record of its receiver to its choice is    *)
(* enough to keep the provider it must avoid out of the set it chooses     *)
(* from. That a choice is one of that set needs maxima of finite sets.     *)
(*                                                                         *)
(* With one selector the weights stay bounded. A bound of each weight does *)
(* not survive a choice; bounds of the sums over all sets of bindings do:  *)
(* a set that gains by a choice was not at its bound, for with one binding *)
(* more and with one fewer it is within theirs, and the bound bends in     *)
(* between.                                                                *)
(***************************************************************************)
EXTENDS Selector, FiniteSetTheorems, WellFoundedInduction, TLAPS

\* Call k, when l is what is recorded of the receivers.
Sound(k, l) ==
  /\ k.pc # "idle" => k.receiver \in Receivers
  /\ k.pc \in {"store", "last"} =>
       k.view # {} /\ (k.before # None => l[k.receiver] = k.before)
  /\ k.pc \in {"lock", "keep"} =>
       k.rivals # {} /\ \A b \in k.rivals : Provider[b] # k.before
  /\ k.pc \in {"keep", "record"} =>
       k.node \in Bindings /\ Provider[k.node] # k.before

Inv == TypeOK /\ \A c \in Callers : Sound(call[c], last)

-----------------------------------------------------------------------------
(* Choosing from a finite set *)

\* What holds of no bindings, and of one more whenever it holds of some, holds of all
\* sets of bindings.
LEMMA OneByOne ==
  ASSUME NEW G \in SUBSET SUBSET Bindings, {} \in G,
         \A T \in G : \A x \in Bindings \ T : T \cup {x} \in G
  PROVE  G = SUBSET Bindings
<1> DEFINE Bad == (SUBSET Bindings) \ G
<1> SUFFICES ASSUME Bad # {} PROVE FALSE
  OBVIOUS
<1>1. IsWellFoundedOn(StrictSubsetOrdering(Bindings), SUBSET Bindings)
  <2>1. FiniteSubsetsOf(Bindings) = SUBSET Bindings
    BY FS_FiniteSubsetsOfFinite, BindingsAssumption
  <2>2. IsWellFoundedOn(StrictSubsetOrdering(Bindings), FiniteSubsetsOf(Bindings))
    BY FS_StrictSubsetOrderingWellFounded
  <2> QED
    BY <2>1, <2>2, Zenon
<1>2. PICK T \in Bad : \A U \in Bad : ~ (<<U, T>> \in StrictSubsetOrdering(Bindings))
  <2>1. Bad \subseteq SUBSET Bindings
    OBVIOUS
  <2> HIDE DEF Bad
  <2> QED
    BY <1>1, <2>1, WFMin
<1>3. PICK x \in T : TRUE
  OBVIOUS
<1>4. T \ {x} \in SUBSET Bindings /\ T \ {x} \notin Bad
  BY <1>2, <1>3 DEF StrictSubsetOrdering
<1>5. x \in Bindings \ (T \ {x}) /\ (T \ {x}) \cup {x} = T
  BY <1>3
<1>6. (T \ {x}) \cup {x} \in G
  BY <1>4, <1>5
<1> QED
  BY <1>5, <1>6

\* A nonempty set of bindings has a greatest one by any integer value.
LEMMA Greatest ==
  ASSUME NEW f \in [Bindings -> Int], NEW S \in SUBSET Bindings, S # {}
  PROVE  \E m \in S : \A x \in S : f[x] <= f[m]
<1> DEFINE G == {T \in SUBSET Bindings :
                   T # {} => \E m \in T : \A x \in T : f[x] <= f[m]}
<1>1. {} \in G
  OBVIOUS
<1>2. ASSUME NEW T \in G, NEW x \in Bindings \ T PROVE T \cup {x} \in G
  <2>1. CASE T = {}
    <3>1. \A y \in T \cup {x} : f[y] <= f[x]
      BY <2>1
    <3> QED
      BY <3>1
  <2>2. CASE T # {}
    <3>1. PICK m \in T : \A y \in T : f[y] <= f[m]
      BY <2>2
    <3>2. CASE f[x] <= f[m]
      BY <3>1, <3>2
    <3>3. CASE f[m] <= f[x]
      <4>1. \A y \in T \cup {x} : f[y] <= f[x]
        BY <3>1, <3>3
      <4> QED
        BY <4>1
    <3> QED
      BY <3>2, <3>3
  <2> QED
    BY <2>1, <2>2
<1>3. G = SUBSET Bindings
  <2> HIDE DEF G
  <2>1. G \in SUBSET SUBSET Bindings
    BY DEF G
  <2> QED
    BY <1>1, <1>2, <2>1, OneByOne
<1> QED
  BY <1>3

\* First chooses one of a nonempty set.
LEMMA FirstIn ==
  ASSUME NEW S \in SUBSET Bindings, S # {}
  PROVE  First(S) \in S
<1> DEFINE f == [b \in Bindings |-> 0 - Rank[b]]
<1>1. f \in [Bindings -> Int]
  BY BindingsAssumption
<1>2. PICK m \in S : \A x \in S : f[x] <= f[m]
  <2> HIDE DEF f
  <2> QED
    BY <1>1, Greatest
<1>3. ASSUME NEW x \in S PROVE Rank[m] <= Rank[x]
  <2>1. Rank[m] \in Nat /\ Rank[x] \in Nat
    BY BindingsAssumption
  <2>2. 0 - Rank[x] <= 0 - Rank[m]
    BY <1>2
  <2> QED
    BY <2>1, <2>2
<1> QED
  BY <1>3 DEF First

\* Chosen chooses one of a nonempty set, and none of them has a greater sum.
LEMMA ChosenIn ==
  ASSUME NEW S \in SUBSET Bindings, S # {}, NEW w \in [Bindings -> Int]
  PROVE  /\ Chosen(S, w) \in S
         /\ \A x \in S : w[x] + Weight[x] <= w[Chosen(S, w)] + Weight[Chosen(S, w)]
<1> DEFINE f == [b \in Bindings |-> w[b] + Weight[b]]
           G == {b \in S : \A x \in S : w[x] + Weight[x] <= w[b] + Weight[b]}
<1>1. f \in [Bindings -> Int]
  BY BindingsAssumption
<1>2. PICK m \in S : \A x \in S : f[x] <= f[m]
  <2> HIDE DEF f
  <2> QED
    BY <1>1, Greatest
<1>3. m \in G
  BY <1>2
<1>4. G \in SUBSET Bindings /\ G # {}
  BY <1>3
<1>5. First(G) \in G
  <2> HIDE DEF G
  <2> QED
    BY <1>4, FirstIn
<1> QED
  BY <1>5 DEF Chosen

\* Some binding of a nonempty set has the highest priority.
LEMMA TopIn ==
  ASSUME NEW S \in SUBSET Bindings, S # {}
  PROVE  Top(S) \in SUBSET S /\ Top(S) # {}
<1> DEFINE f == [b \in Bindings |-> 0 - Priority[b]]
<1>1. f \in [Bindings -> Int]
  BY BindingsAssumption
<1>2. PICK m \in S : \A x \in S : f[x] <= f[m]
  <2> HIDE DEF f
  <2> QED
    BY <1>1, Greatest
<1>3. ASSUME NEW x \in S PROVE Priority[m] <= Priority[x]
  <2>1. Priority[m] \in Nat /\ Priority[x] \in Nat
    BY BindingsAssumption
  <2>2. 0 - Priority[x] <= 0 - Priority[m]
    BY <1>2
  <2> QED
    BY <2>1, <2>2
<1> QED
  BY <1>3 DEF Top

-----------------------------------------------------------------------------
(* Sums over sets of bindings *)

\* A lot for each unit of what v gives the bindings of T.
Lots(v, T) == UNION {{b} \X (1..v[b]) : b \in T}

\* The sum of v over T: what is positive less what is negative.
Sum(v, T) ==
  Cardinality(Lots(v, T)) - Cardinality(Lots([b \in Bindings |-> 0 - v[b]], T))

\* The lots of T are finitely many.
LEMMA LotsFinite ==
  ASSUME NEW v \in [Bindings -> Int], NEW T \in SUBSET Bindings
  PROVE  IsFiniteSet(Lots(v, T)) /\ Cardinality(Lots(v, T)) \in Nat
<1> DEFINE Of(b) == {b} \X (1..v[b])
           F == {Of(b) : b \in T}
<1>1. IsFiniteSet(T)
  BY BindingsAssumption, FS_Subset
<1>2. IsFiniteSet(F)
  <2> DEFINE f == [b \in T |-> Of(b)]
  <2>1. f \in Surjection(T, F)
    BY DEF Surjection
  <2> HIDE DEF f, F
  <2> QED
    BY <1>1, <2>1, FS_Surjection
<1>3. ASSUME NEW b \in T PROVE IsFiniteSet(Of(b))
  <2>1. IsFiniteSet({b})
    BY FS_Singleton
  <2>2. v[b] \in Int
    OBVIOUS
  <2>3. IsFiniteSet(1..v[b])
    BY <2>2, FS_Interval
  <2> QED
    BY <2>1, <2>3, FS_Product
<1>4. IsFiniteSet(UNION F)
  BY <1>2, <1>3, FS_UNION
<1> QED
  BY <1>4, FS_CardinalityType DEF Lots

\* One more binding adds its lots.
LEMMA LotsMore ==
  ASSUME NEW v \in [Bindings -> Int], NEW T \in SUBSET Bindings,
         NEW x \in Bindings \ T
  PROVE  Cardinality(Lots(v, T \cup {x})) =
           Cardinality(Lots(v, T)) + (IF v[x] > 0 THEN v[x] ELSE 0)
<1> DEFINE A == Lots(v, T)
           C == {x} \X (1..v[x])
<1>1. Lots(v, T \cup {x}) = A \cup C
  BY DEF Lots
<1>2. A \cap C = {}
  BY DEF Lots
<1>3. IsFiniteSet(A) /\ Cardinality(A) \in Nat
  BY LotsFinite
<1>4. IsFiniteSet(C) /\ Cardinality(C) = IF v[x] > 0 THEN v[x] ELSE 0
  <2>1. IsFiniteSet({x}) /\ Cardinality({x}) = 1
    BY FS_Singleton
  <2>2. v[x] \in Int
    OBVIOUS
  <2>3. IsFiniteSet(1..v[x]) /\ Cardinality(1..v[x]) = IF 1 > v[x] THEN 0 ELSE v[x] - 1 + 1
    BY <2>2, FS_Interval
  <2>4. Cardinality(1..v[x]) = IF v[x] > 0 THEN v[x] ELSE 0
    BY <2>2, <2>3
  <2>5. IsFiniteSet(C) /\ Cardinality(C) = Cardinality({x}) * Cardinality(1..v[x])
    BY <2>1, <2>3, FS_Product
  <2> QED
    BY <2>1, <2>2, <2>4, <2>5
<1>5. Cardinality(A \cup C) = Cardinality(A) + Cardinality(C) - Cardinality(A \cap C)
  <2> HIDE DEF A, C
  <2> QED
    BY <1>3, <1>4, FS_Union
<1>6. Cardinality(A \cap C) = 0
  BY <1>2, FS_EmptySet
<1>7. v[x] \in Int
  OBVIOUS
<1>8. Cardinality(A \cup C) = Cardinality(A) + (IF v[x] > 0 THEN v[x] ELSE 0)
  <2> HIDE DEF A, C
  <2> QED
    BY <1>3, <1>4, <1>5, <1>6, <1>7
<1> QED
  BY <1>1, <1>8

\* A sum is an integer, the sum over no bindings 0.
LEMMA SumType ==
  ASSUME NEW v \in [Bindings -> Int], NEW T \in SUBSET Bindings
  PROVE  Sum(v, T) \in Int /\ Sum(v, {}) = 0
<1> DEFINE u == [b \in Bindings |-> 0 - v[b]]
<1>1. u \in [Bindings -> Int]
  OBVIOUS
<1>2. Cardinality(Lots(v, T)) \in Nat /\ Cardinality(Lots(u, T)) \in Nat
  <2> HIDE DEF u
  <2> QED
    BY <1>1, LotsFinite
<1>3. Lots(v, {}) = {} /\ Lots(u, {}) = {}
  BY DEF Lots
<1>4. Cardinality({}) = 0
  BY FS_EmptySet
<1> QED
  BY <1>2, <1>3, <1>4 DEF Sum

\* One more binding adds its value.
LEMMA SumMore ==
  ASSUME NEW v \in [Bindings -> Int], NEW T \in SUBSET Bindings,
         NEW x \in Bindings \ T
  PROVE  Sum(v, T \cup {x}) = Sum(v, T) + v[x]
<1> DEFINE u == [b \in Bindings |-> 0 - v[b]]
<1>1. u \in [Bindings -> Int] /\ u[x] = 0 - v[x] /\ v[x] \in Int
  OBVIOUS
<1> HIDE DEF u
<1>2. /\ Cardinality(Lots(v, T)) \in Nat /\ Cardinality(Lots(u, T)) \in Nat
  BY <1>1, LotsFinite
<1>3. Cardinality(Lots(v, T \cup {x})) =
        Cardinality(Lots(v, T)) + (IF v[x] > 0 THEN v[x] ELSE 0)
  BY LotsMore
<1>4. Cardinality(Lots(u, T \cup {x})) =
        Cardinality(Lots(u, T)) + (IF u[x] > 0 THEN u[x] ELSE 0)
  BY <1>1, LotsMore
<1>5. (IF v[x] > 0 THEN v[x] ELSE 0) - (IF u[x] > 0 THEN u[x] ELSE 0) = v[x]
  BY <1>1
<1> QED
  BY <1>1, <1>2, <1>3, <1>4 DEF Sum, u

\* One binding fewer takes its value.
LEMMA SumLess ==
  ASSUME NEW v \in [Bindings -> Int], NEW T \in SUBSET Bindings, NEW x \in T
  PROVE  Sum(v, T \ {x}) = Sum(v, T) - v[x]
<1>1. T \ {x} \in SUBSET Bindings /\ x \in Bindings \ (T \ {x})
      /\ (T \ {x}) \cup {x} = T
  OBVIOUS
<1>2. Sum(v, T) = Sum(v, T \ {x}) + v[x]
  BY <1>1, SumMore
<1>3. Sum(v, T) \in Int /\ Sum(v, T \ {x}) \in Int /\ v[x] \in Int
  BY <1>1, SumType
<1> QED
  BY <1>2, <1>3

\* The sum of weights is a number.
LEMMA TotalType ==
  ASSUME NEW S \in SUBSET Bindings
  PROVE  Total(S) \in Nat
<1>1. Weight \in [Bindings -> Int]
  BY BindingsAssumption
<1>2. Cardinality(Lots(Weight, S)) \in Nat
  BY <1>1, LotsFinite
<1> QED
  BY <1>2 DEF Lots, Total

\* The total of the weights of a set grows with it.
LEMMA TotalMore ==
  ASSUME NEW T \in SUBSET Bindings, NEW x \in Bindings \ T
  PROVE  Total(T \cup {x}) = Total(T) + Weight[x]
<1>1. Weight \in [Bindings -> Int] /\ Weight[x] \in Int /\ Weight[x] > 0
  BY BindingsAssumption
<1>2. Cardinality(Lots(Weight, T \cup {x})) =
        Cardinality(Lots(Weight, T)) + (IF Weight[x] > 0 THEN Weight[x] ELSE 0)
  BY <1>1, LotsMore
<1> QED
  BY <1>1, <1>2 DEF Lots, Total

\* A set of bindings has no more weight than a set that contains it.
LEMMA TotalMonotone ==
  ASSUME NEW S \in SUBSET Bindings, NEW T \in SUBSET S
  PROVE  Total(T) <= Total(S)
<1>1. Weight \in [Bindings -> Int]
  BY BindingsAssumption
<1>2. IsFiniteSet(Lots(Weight, S))
  BY <1>1, LotsFinite
<1>3. Lots(Weight, T) \subseteq Lots(Weight, S)
  BY DEF Lots
<1>4. Cardinality(Lots(Weight, T)) <= Cardinality(Lots(Weight, S))
  BY <1>2, <1>3, FS_Subset
<1> QED
  BY <1>4 DEF Lots, Total

\* No bindings have no weight.
LEMMA TotalEmpty == Total({}) = 0
<1>1. UNION {{b} \X (1..Weight[b]) : b \in {}} = {}
  OBVIOUS
<1> QED
  BY <1>1, FS_EmptySet DEF Total

\* A binding outside a set weighs no more than what the set leaves of all weights.
LEMMA TotalBeside ==
  ASSUME NEW S \in SUBSET Bindings, NEW x \in Bindings \ S
  PROVE  Total(S) + Weight[x] <= Total(Bindings)
<1>1. S \cup {x} \in SUBSET Bindings
  OBVIOUS
<1>2. Total(S \cup {x}) <= Total(Bindings)
  BY <1>1, TotalMonotone
<1> QED
  BY <1>2, TotalMore

\* The weights of S are those in T and those outside it.
LEMMA TotalSplit ==
  ASSUME NEW S \in SUBSET Bindings, NEW T \in SUBSET Bindings
  PROVE  Total(S) = Total(T \cap S) + Total(S \ T)
<1> DEFINE A == Lots(Weight, T \cap S)
           C == Lots(Weight, S \ T)
<1>1. Weight \in [Bindings -> Int] /\ T \cap S \in SUBSET Bindings
      /\ S \ T \in SUBSET Bindings
  BY BindingsAssumption
<1>2. /\ IsFiniteSet(A) /\ Cardinality(A) \in Nat
      /\ IsFiniteSet(C) /\ Cardinality(C) \in Nat
  BY <1>1, LotsFinite
<1>3. Lots(Weight, S) = A \cup C /\ A \cap C = {}
  BY DEF Lots
<1>4. Cardinality(A \cup C) = Cardinality(A) + Cardinality(C) - Cardinality(A \cap C)
  <2> HIDE DEF A, C
  <2> QED
    BY <1>2, FS_Union
<1>5. Cardinality(A \cap C) = 0
  BY <1>3, FS_EmptySet
<1>6. Cardinality(A \cup C) = Cardinality(A) + Cardinality(C)
  <2> HIDE DEF A, C
  <2> QED
    BY <1>2, <1>4, <1>5
<1>7. \A U : Total(U) = Cardinality(Lots(Weight, U))
  BY DEF Total, Lots
<1> QED
  BY <1>3, <1>6, <1>7

\* The weights after a choice are numbers.
LEMMA UpdatedType ==
  ASSUME NEW S \in SUBSET Bindings, NEW w \in [Bindings -> Int]
  PROVE  Updated(S, w) \in [Bindings -> Int]
<1>1. Total(S) \in Int /\ \A b \in Bindings : w[b] \in Int /\ Weight[b] \in Int
  BY TotalType, BindingsAssumption
<1> QED
  BY <1>1 DEF Updated

-----------------------------------------------------------------------------
(* One lemma for every action *)

\* Every binding has a provider, and None is not one.
LEMMA ProviderType ==
  \A b \in Bindings : Provider[b] \in Providers /\ Provider[b] # None
BY BindingsAssumption DEF Providers

\* An idle call is one, and nothing is asked of it.
LEMMA IdleSound ==
  ASSUME NEW l
  PROVE  Idle \in Calls /\ Sound(Idle, l)
<1>1. Zero \in [Bindings -> Int]
  BY DEF Zero
<1> QED
  BY <1>1 DEF Idle, Calls, Sound

\* A call that has its list of nodes is sound.
LEMMA ViewingSound ==
  ASSUME NEW k \in Calls, NEW l, k.receiver \in Receivers,
         k.before # None => l[k.receiver] = k.before,
         NEW S \in SUBSET Bindings, NEW E
  PROVE  Viewing(k, S, E) \in Calls /\ Sound(Viewing(k, S, E), l)
<1> DEFINE left == {b \in S : Provider[b] \notin E}
<1>1. CASE left = {}
  BY <1>1, IdleSound DEF Viewing
<1>2. CASE left # {}
  <2>1. Viewing(k, S, E) = [k EXCEPT !.pc = "last", !.exclude = {}, !.view = left]
    BY <1>2 DEF Viewing
  <2>2. left \in SUBSET Bindings
    OBVIOUS
  <2> DEFINE n == [k EXCEPT !.pc = "last", !.exclude = {}, !.view = left]
  <2> HIDE DEF left
  <2>3. n \in Calls
    BY <2>2 DEF Calls
  <2>4. /\ n.pc = "last" /\ n.view = left
        /\ n.receiver = k.receiver /\ n.before = k.before
    BY DEF Calls
  <2>5. Sound(n, l)
    <3> HIDE DEF n
    <3> QED
      BY <2>4, <1>2 DEF Sound
  <2> QED
    BY <2>1, <2>3, <2>5
<1> QED
  BY <1>1, <1>2

\* A step that changes call c alone, and leaves what is recorded as it is.
LEMMA OneCall ==
  ASSUME Inv, NEW c \in Callers, NEW k, k \in Calls, Sound(k, last),
         call' = [call EXCEPT ![c] = k], UNCHANGED last
  PROVE  /\ call' \in [Callers -> Calls]
         /\ \A d \in Callers : Sound(call'[d], last')
<1>1. call \in [Callers -> Calls]
  BY DEF Inv, TypeOK
<1>2. \A d \in Callers : call'[d] = IF d = c THEN k ELSE call[d]
  BY <1>1
<1> QED
  BY <1>1, <1>2 DEF Inv

\* Begin: the call that starts knows what is recorded of its receiver.
LEMMA BeginSound ==
  ASSUME Inv, NEW c \in Callers, Begin(c)
  PROVE  Inv'
<1> DEFINE active == {b \in Bindings : table[b] = "on"}
<1>1. PICK E \in Excludes, r \in Receivers :
        LET k == [Idle EXCEPT !.receiver = r, !.before = last[r]] IN
        \/ /\ nodes # None
           /\ call' = [call EXCEPT ![c] = Viewing(k, nodes, E)]
        \/ /\ nodes = None /\ active # {}
           /\ call' = [call EXCEPT ![c] = [k EXCEPT !.pc = "store", !.exclude = E,
                                                    !.view = active]]
  BY DEF Begin
<1> DEFINE k == [Idle EXCEPT !.receiver = r, !.before = last[r]]
<1>2. k \in Calls /\ k.receiver = r /\ k.before = last[r]
  BY IdleSound DEF Inv, TypeOK, Idle, Calls
<1>3. CASE nodes # None /\ call' = [call EXCEPT ![c] = Viewing(k, nodes, E)]
  <2>1. nodes \in SUBSET Bindings
    BY <1>3 DEF Inv, TypeOK
  <2>2. Viewing(k, nodes, E) \in Calls /\ Sound(Viewing(k, nodes, E), last)
    <3> HIDE DEF k
    <3> QED
      BY <1>2, <2>1, ViewingSound
  <2>3. /\ call' \in [Callers -> Calls]
        /\ \A d \in Callers : Sound(call'[d], last')
    BY <1>3, <2>2, OneCall DEF Begin
  <2> QED
    BY <2>3 DEF Begin, Inv, TypeOK, request
<1>4. CASE active # {} /\ call' = [call EXCEPT ![c] =
              [k EXCEPT !.pc = "store", !.exclude = E, !.view = active]]
  <2> DEFINE n == [k EXCEPT !.pc = "store", !.exclude = E, !.view = active]
  <2>1. n \in Calls /\ Sound(n, last)
    <3>1. E \in SUBSET Providers
      BY BindingsAssumption
    <3> HIDE DEF k
    <3> QED
      BY <1>2, <1>4, <3>1 DEF Calls, Sound
  <2>2. /\ call' \in [Callers -> Calls]
        /\ \A d \in Callers : Sound(call'[d], last')
    <3> HIDE DEF n
    <3> QED
      BY <1>4, <2>1, OneCall DEF Begin, n
  <2> QED
    BY <2>2 DEF Begin, Inv, TypeOK, request
<1> QED
  BY <1>1, <1>3, <1>4

\* Store: the list that is stored is the one the call goes on with.
LEMMA StoreSound ==
  ASSUME Inv, NEW c \in Callers, Store(c)
  PROVE  Inv'
<1> DEFINE k == call[c]
<1>1. k \in Calls /\ Sound(k, last) /\ k.pc = "store"
  BY DEF Inv, TypeOK, Store
<1>2. k.view \in SUBSET Bindings
  BY <1>1 DEF Calls
<1>3. Viewing(k, k.view, k.exclude) \in Calls
      /\ Sound(Viewing(k, k.view, k.exclude), last)
  <2>1. k.receiver \in Receivers /\ (k.before # None => last[k.receiver] = k.before)
    BY <1>1 DEF Sound
  <2> HIDE DEF k
  <2> QED
    BY <1>1, <1>2, <2>1, ViewingSound
<1>4. /\ call' \in [Callers -> Calls]
      /\ \A d \in Callers : Sound(call'[d], last')
  BY <1>3, OneCall DEF Store
<1> QED
  BY <1>2, <1>4 DEF Store, Inv, TypeOK, request

\* What is left of a group after the switch is not empty, and is free of the
\* provider it switches from when the group has another one.
LEMMA RotatedIn ==
  ASSUME NEW S \in SUBSET Bindings, S # {}, NEW p
  PROVE  /\ Rotated(S, p) \in SUBSET S /\ Rotated(S, p) # {}
         /\ (\E b \in S : Provider[b] # p) => \A b \in Rotated(S, p) : Provider[b] # p
BY DEF Rotated

\* ReadLast: what it must avoid is what it reads, so the rivals are free of it.
LEMMA ReadLastSound ==
  ASSUME Inv, NEW c \in Callers, ReadLast(c)
  PROVE  Inv'
<1> DEFINE k == call[c]
           top == Top(k.view)
<1>1. k \in Calls /\ Sound(k, last) /\ k.pc = "last"
  BY DEF Inv, TypeOK, ReadLast
<1>2. top \in SUBSET Bindings /\ top # {}
  <2>1. k.view \in SUBSET Bindings /\ k.view # {}
    BY <1>1 DEF Calls, Sound
  <2> HIDE DEF k
  <2> QED
    BY <2>1, TopIn
<1>3. PICK p \in {last[k.receiver], None} :
        LET rivals == Rotated(top, p)
            free == p = last[k.receiver] /\ \E b \in top : Provider[b] # k.before
            seen == [k EXCEPT !.view = {}, !.before = IF free THEN @ ELSE None] IN
        call' = [call EXCEPT ![c] =
          IF Cardinality(rivals) = 1
          THEN [seen EXCEPT !.pc = "record", !.node = First(rivals)]
          ELSE [seen EXCEPT !.pc = "lock", !.rivals = rivals]]
  BY DEF ReadLast
<1> DEFINE rivals == Rotated(top, p)
           free == p = last[k.receiver] /\ \E b \in top : Provider[b] # k.before
           seen == [k EXCEPT !.view = {}, !.before = IF free THEN @ ELSE None]
           n == IF Cardinality(rivals) = 1
                THEN [seen EXCEPT !.pc = "record", !.node = First(rivals)]
                ELSE [seen EXCEPT !.pc = "lock", !.rivals = rivals]
<1>4. /\ rivals \in SUBSET Bindings /\ rivals # {}
      /\ (\E b \in top : Provider[b] # p) => \A b \in rivals : Provider[b] # p
  <2> HIDE DEF top
  <2> QED
    BY <1>2, RotatedIn
<1>5. First(rivals) \in rivals
  <2> HIDE DEF rivals
  <2> QED
    BY <1>4, FirstIn
<1>6. seen \in Calls /\ seen.receiver \in Receivers
  BY <1>1 DEF Calls, Sound
<1>7. \A b \in rivals : Provider[b] # seen.before
  <2>1. CASE ~free \/ k.before = None
    <3>1. seen.before = None
      BY <1>1, <2>1 DEF Calls
    <3> HIDE DEF rivals, seen
    <3> QED
      BY <3>1, <1>4, ProviderType
  <2>2. CASE free /\ k.before # None
    <3>1. seen.before = p
      BY <1>1, <2>2 DEF Calls, Sound
    <3>2. k.before = p
      BY <1>1, <2>2 DEF Sound
    <3>3. \E b \in top : Provider[b] # p
      BY <2>2, <3>2
    <3> HIDE DEF rivals, seen, top
    <3> QED
      BY <3>1, <3>3, <1>4
  <2> QED
    BY <2>1, <2>2
<1>8. n \in Calls /\ Sound(n, last)
  <2> HIDE DEF seen, rivals
  <2>1. CASE Cardinality(rivals) = 1
    <3>1. n = [seen EXCEPT !.pc = "record", !.node = First(rivals)]
      BY <2>1
    <3> HIDE DEF n
    <3> QED
      BY <3>1, <1>4, <1>5, <1>6, <1>7 DEF Calls, Sound
  <2>2. CASE Cardinality(rivals) # 1
    <3>1. n = [seen EXCEPT !.pc = "lock", !.rivals = rivals]
      BY <2>2
    <3> HIDE DEF n
    <3> QED
      BY <3>1, <1>4, <1>6, <1>7 DEF Calls, Sound
  <2> QED
    BY <2>1, <2>2
<1>9. /\ call' \in [Callers -> Calls]
      /\ \A d \in Callers : Sound(call'[d], last')
  <2>1. call' = [call EXCEPT ![c] = n]
    BY <1>3
  <2> HIDE DEF n
  <2> QED
    BY <2>1, <1>8, OneCall DEF ReadLast
<1>10. faults' \in 0..MaxFaults
  BY BoundsAssumption DEF ReadLast, Fault, Inv, TypeOK
<1> QED
  BY <1>9, <1>10 DEF ReadLast, Inv, TypeOK, request

\* Compete: the choice is one of the rivals.
LEMMA CompeteSound ==
  ASSUME Inv, NEW c \in Callers, Compete(c)
  PROVE  Inv'
<1> DEFINE k == call[c]
           S == k.rivals
<1>1. k \in Calls /\ Sound(k, last) /\ k.pc = "lock"
  BY DEF Inv, TypeOK, Compete
<1>2. S \in SUBSET Bindings /\ S # {} /\ \A b \in S : Provider[b] # k.before
  BY <1>1 DEF Calls, Sound
<1>3. PICK unread \in AtMostOne(S) :
        LET w == [b \in Bindings |-> IF b \in unread THEN 0 ELSE weights[b]] IN
        /\ IF unread = {} THEN UNCHANGED faults ELSE Fault
        /\ call' = [call EXCEPT ![c] = [@ EXCEPT !.pc = "keep", !.node = Chosen(S, w),
                                                 !.got = Updated(S, w)]]
  BY DEF Compete
<1> DEFINE w == [b \in Bindings |-> IF b \in unread THEN 0 ELSE weights[b]]
           n == [k EXCEPT !.pc = "keep", !.node = Chosen(S, w), !.got = Updated(S, w)]
<1>4. w \in [Bindings -> Int]
  BY DEF Inv, TypeOK
<1>5. Chosen(S, w) \in S /\ Updated(S, w) \in [Bindings -> Int]
  <2> HIDE DEF S, w
  <2> QED
    BY <1>2, <1>4, ChosenIn, UpdatedType
<1>6. n \in Calls /\ Sound(n, last)
  <2>1. n \in Calls
    BY <1>1, <1>2, <1>5 DEF Calls
  <2>2. /\ n.pc = "keep" /\ n.node = Chosen(S, w) /\ n.rivals = S
        /\ n.receiver = k.receiver /\ n.before = k.before
    BY <1>1 DEF Calls
  <2>3. k.receiver \in Receivers
    BY <1>1 DEF Sound
  <2> HIDE DEF n, k, S, w
  <2> QED
    BY <2>1, <2>2, <2>3, <1>2, <1>5 DEF Sound
<1>7. /\ call' \in [Callers -> Calls]
      /\ \A d \in Callers : Sound(call'[d], last')
  <2>1. call' = [call EXCEPT ![c] = n]
    BY <1>3
  <2> HIDE DEF n
  <2> QED
    BY <2>1, <1>6, OneCall DEF Compete
<1>8. faults' \in 0..MaxFaults
  BY <1>3, BoundsAssumption DEF Fault, Inv, TypeOK
<1>9. lock' \in [Selectors -> Callers \cup {None}]
  BY DEF Compete, Inv, TypeOK
<1> QED
  BY <1>7, <1>8, <1>9 DEF Compete, Inv, TypeOK, request

\* Keep: the choice is kept, only weights change.
LEMMA KeepSound ==
  ASSUME Inv, NEW c \in Callers, Keep(c)
  PROVE  Inv'
<1> DEFINE k == call[c]
           n == [k EXCEPT !.pc = "record", !.rivals = {}, !.got = Zero]
<1>1. k \in Calls /\ Sound(k, last) /\ k.pc = "keep"
  BY DEF Inv, TypeOK, Keep
<1>2. PICK unsaved \in AtMostOne(k.rivals) :
        /\ IF unsaved = {} THEN UNCHANGED faults ELSE Fault
        /\ weights' = [b \in Bindings |-> IF b \in k.rivals \ unsaved
                                          THEN k.got[b] ELSE weights[b]]
  BY DEF Keep
<1>3. weights' \in [Bindings -> Int]
  BY <1>1, <1>2 DEF Calls, Inv, TypeOK
<1>4. n \in Calls /\ Sound(n, last)
  <2>1. n \in Calls
    <3>1. Zero \in [Bindings -> Int]
      BY DEF Zero
    <3> QED
      BY <1>1, <3>1 DEF Calls
  <2>2. /\ n.pc = "record" /\ n.node = k.node
        /\ n.receiver = k.receiver /\ n.before = k.before
    BY <1>1 DEF Calls
  <2> HIDE DEF n
  <2> QED
    BY <2>1, <2>2, <1>1 DEF Sound
<1>5. /\ call' \in [Callers -> Calls]
      /\ \A d \in Callers : Sound(call'[d], last')
  <2>1. call' = [call EXCEPT ![c] = n]
    BY DEF Keep
  <2> HIDE DEF n
  <2> QED
    BY <2>1, <1>4, OneCall DEF Keep
<1>6. faults' \in 0..MaxFaults
  BY <1>2, BoundsAssumption DEF Fault, Inv, TypeOK
<1>7. lock' \in [Selectors -> Callers \cup {None}]
  BY DEF Keep, Inv, TypeOK
<1> QED
  BY <1>3, <1>5, <1>6, <1>7 DEF Keep, Inv, TypeOK, request

\* When what is recorded of one receiver changes, the other receivers' calls stay
\* sound, and its own are asked nothing any more.
LEMMA OvertakenSound ==
  ASSUME Inv, NEW r \in Receivers, NEW p, NEW d \in Callers
  PROVE  Overtaken(r)[d] \in Calls /\ Sound(Overtaken(r)[d], [last EXCEPT ![r] = p])
<1> DEFINE k == call[d]
           n == [k EXCEPT !.before = None]
           l == [last EXCEPT ![r] = p]
<1>1. k \in Calls /\ Sound(k, last)
  BY DEF Inv, TypeOK
<1>2. \A s \in Receivers : s # r => l[s] = last[s]
  BY DEF Inv, TypeOK
<1>3. CASE k.receiver = r
  <2>1. Overtaken(r)[d] = n
    BY <1>3 DEF Overtaken
  <2>2. n \in Calls
    BY <1>1 DEF Calls
  <2>3. /\ n.pc = k.pc /\ n.node = k.node /\ n.rivals = k.rivals /\ n.view = k.view
        /\ n.receiver = k.receiver /\ n.before = None
    BY <1>1 DEF Calls
  <2>4. k.rivals \in SUBSET Bindings
    BY <1>1 DEF Calls
  <2>5. Sound(n, l)
    <3> HIDE DEF n, l
    <3> QED
      BY <2>3, <2>4, <1>1, ProviderType DEF Sound
  <2> QED
    BY <2>1, <2>2, <2>5
<1>4. CASE k.receiver # r
  <2>1. Overtaken(r)[d] = k
    BY <1>4 DEF Overtaken
  <2>2. Sound(k, l)
    <3> HIDE DEF l
    <3> QED
      BY <1>1, <1>2, <1>4 DEF Sound
  <2> QED
    BY <2>1, <2>2, <1>1
<1> QED
  BY <1>3, <1>4

\* Record: the record changes, and with it what the other calls must avoid.
LEMMA RecordSound ==
  ASSUME Inv, NEW c \in Callers, Record(c)
  PROVE  Inv'
<1> DEFINE k == call[c]
           r == k.receiver
           p == Provider[k.node]
<1>1. k \in Calls /\ Sound(k, last) /\ k.pc = "record"
  BY DEF Inv, TypeOK, Record
<1>2. r \in Receivers /\ p \in Providers
  BY <1>1, ProviderType DEF Sound
<1>3. CASE last' = [last EXCEPT ![r] = p] /\ call' = [Overtaken(r) EXCEPT ![c] = Idle]
           /\ UNCHANGED faults
  <2>1. \A d \in Callers : call'[d] = IF d = c THEN Idle ELSE Overtaken(r)[d]
    BY <1>3 DEF Overtaken
  <2>2. ASSUME NEW d \in Callers PROVE call'[d] \in Calls /\ Sound(call'[d], last')
    <3> HIDE DEF r, p
    <3>1. Overtaken(r)[d] \in Calls /\ Sound(Overtaken(r)[d], last')
      BY <1>2, <1>3, OvertakenSound
    <3>2. Idle \in Calls /\ Sound(Idle, last')
      BY IdleSound
    <3> QED
      BY <2>1, <3>1, <3>2
  <2>3. call' \in [Callers -> Calls]
    BY <1>3, <2>2 DEF Overtaken
  <2>4. last' \in [Receivers -> Providers \cup {None}]
    BY <1>2, <1>3 DEF Inv, TypeOK
  <2> QED
    BY <1>3, <2>2, <2>3, <2>4 DEF Record, Inv, TypeOK, request
<1>4. CASE Fault /\ call' = [call EXCEPT ![c] = Idle] /\ UNCHANGED last
  <2>1. /\ call' \in [Callers -> Calls]
        /\ \A d \in Callers : Sound(call'[d], last')
    BY <1>4, IdleSound, OneCall
  <2>2. faults' \in 0..MaxFaults
    BY <1>4, BoundsAssumption DEF Fault, Inv, TypeOK
  <2> QED
    BY <1>4, <2>1, <2>2 DEF Record, Inv, TypeOK, request
<1> QED
  BY <1>3, <1>4 DEF Record

\* ExpireLast: nothing is left to avoid.
LEMMA ExpireLastSound ==
  ASSUME Inv, NEW r \in Receivers, ExpireLast(r)
  PROVE  Inv'
<1>1. ASSUME NEW d \in Callers PROVE call'[d] \in Calls /\ Sound(call'[d], last')
  BY OvertakenSound DEF ExpireLast
<1>2. call' \in [Callers -> Calls]
  BY <1>1 DEF ExpireLast, Overtaken
<1>3. last' \in [Receivers -> Providers \cup {None}]
  BY DEF ExpireLast, Inv, TypeOK
<1> QED
  BY <1>1, <1>2, <1>3 DEF ExpireLast, Inv, TypeOK, request

\* What touches neither the calls nor what is recorded of receivers.
LEMMA OthersSound ==
  ASSUME Inv, ExpireNodes \/ Change \/ Abandon \/ Clear \/ Reset
  PROVE  Inv'
<1>1. UNCHANGED <<call, last>>
  BY DEF ExpireNodes, Change, Abandon, Clear, Reset
<1>2. \A c \in Callers : Sound(call'[c], last')
  BY <1>1 DEF Inv
<1>3. CASE ExpireNodes
  BY <1>2, <1>3 DEF ExpireNodes, Inv, TypeOK, request
<1>4. CASE Change
  <2>1. table' \in [Bindings -> {"new", "on", "off"}]
    BY <1>4 DEF Change, Inv, TypeOK
  <2>2. changes' \in 0..MaxChanges
    BY <1>4, BoundsAssumption DEF Change, Inv, TypeOK
  <2> QED
    BY <1>2, <1>4, <2>1, <2>2 DEF Change, Inv, TypeOK
<1>5. CASE Abandon
  BY <1>2, <1>5 DEF Abandon, Inv, TypeOK
<1>6. CASE Clear
  <2>1. faults' \in 0..MaxFaults
    BY <1>6, BoundsAssumption DEF Clear, Fault, Inv, TypeOK
  <2>2. nodes' \in (SUBSET Bindings) \cup {None}
    BY <1>6 DEF Clear, Inv, TypeOK
  <2> QED
    BY <1>2, <1>6, <2>1, <2>2 DEF Clear, Inv, TypeOK
<1>7. CASE Reset
  <2>1. faults' \in 0..MaxFaults
    BY <1>7, BoundsAssumption DEF Reset, Fault, Inv, TypeOK
  <2>2. weights' \in [Bindings -> Int]
    BY <1>7 DEF Reset, Inv, TypeOK
  <2> QED
    BY <1>2, <1>7, <2>1, <2>2 DEF Reset, Inv, TypeOK
<1> QED
  BY <1>3, <1>4, <1>5, <1>6, <1>7

-----------------------------------------------------------------------------
(* The theorems *)

\* Everything is sound at the start.
LEMMA InitSound == Init => Inv
<1> SUFFICES ASSUME Init PROVE Inv
  OBVIOUS
<1>1. Zero \in [Bindings -> Int]
  BY DEF Zero
<1>2. \A c \in Callers : call[c] \in Calls /\ Sound(call[c], last)
  BY IdleSound DEF Init
<1>3. call \in [Callers -> Calls]
  BY <1>2 DEF Init
<1> QED
  BY <1>1, <1>2, <1>3, BindingsAssumption, BoundsAssumption DEF Init, Inv, TypeOK

\* Every step keeps everything sound.
LEMMA StepSound == Inv /\ [Next]_vars => Inv'
<1> SUFFICES ASSUME Inv, [Next]_vars PROVE Inv'
  OBVIOUS
<1>1. ASSUME NEW c \in Callers, Begin(c) PROVE Inv'
  BY <1>1, BeginSound
<1>2. ASSUME NEW c \in Callers, Store(c) PROVE Inv'
  BY <1>2, StoreSound
<1>3. ASSUME NEW c \in Callers, ReadLast(c) PROVE Inv'
  BY <1>3, ReadLastSound
<1>4. ASSUME NEW c \in Callers, Compete(c) PROVE Inv'
  BY <1>4, CompeteSound
<1>5. ASSUME NEW c \in Callers, Keep(c) PROVE Inv'
  BY <1>5, KeepSound
<1>6. ASSUME NEW c \in Callers, Record(c) PROVE Inv'
  BY <1>6, RecordSound
<1>7. ASSUME NEW r \in Receivers, ExpireLast(r) PROVE Inv'
  BY <1>7, ExpireLastSound
<1>8. CASE ExpireNodes \/ Change \/ Abandon \/ Clear \/ Reset
  BY <1>8, OthersSound
<1>9. CASE UNCHANGED vars
  BY <1>9 DEF vars, Inv, TypeOK
<1> QED
  BY <1>1, <1>2, <1>3, <1>4, <1>5, <1>6, <1>7, <1>8, <1>9 DEF Next

\* Every variable keeps its type: weights stay integers and whatever is chosen is a
\* binding, for any set of bindings.
THEOREM TypeCorrect == Spec => []TypeOK
<1>1. Inv => TypeOK
  BY DEF Inv
<1> QED
  BY <1>1, InitSound, StepSound, PTL DEF Spec

\* Whichever replicas choose, a receiver is not given the provider it was given last
\* while another one of that priority is left.
THEOREM NoRepeatHolds == Spec => []NoRepeat
<1>1. Inv => NoRepeat
  BY DEF Inv, Sound, NoRepeat
<1> QED
  BY <1>1, InitSound, StepSound, PTL DEF Spec

-----------------------------------------------------------------------------
(* Balanced weights *)

\* The bindings, and all weights.
N == Cardinality(Bindings)
All == Total(Bindings)

\* How far k bindings may be from 0 together after d disturbances.
Reach(d, k) == k * ((N - k) * All + d * (N * All))

\* How far one may be.
Span(d) == ((d + 1) * N - 1) * All

\* The weights w after d disturbances: no set of bindings has got too far ahead of the
\* others or too far behind them.
Balanced(w, d) ==
  \A T \in SUBSET Bindings : /\ -Reach(d, Cardinality(T)) <= Sum(w, T)
                             /\ Sum(w, T) <= Reach(d, Cardinality(T))

\* The weights that are in the cache once call k has kept all of what it has got.
Merged(k, w) == [b \in Bindings |-> IF b \in k.rivals THEN k.got[b] ELSE w[b]]

\* N and All are numbers.
LEMMA Numbers == N \in Nat /\ All \in Nat
BY TotalType, BindingsAssumption, FS_CardinalityType DEF N, All

\* A set of bindings has at most N of them, one more with another binding, and one
\* fewer without one of its own.
LEMMA Sizes ==
  ASSUME NEW T \in SUBSET Bindings
  PROVE  /\ Cardinality(T) \in 0..N
         /\ \A x \in Bindings \ T : Cardinality(T \cup {x}) = Cardinality(T) + 1
         /\ \A x \in T : Cardinality(T \ {x}) = Cardinality(T) - 1
<1>1. IsFiniteSet(Bindings) /\ IsFiniteSet(T)
  BY BindingsAssumption, FS_Subset
<1>2. Cardinality(T) \in Nat /\ N \in Nat /\ Cardinality(T) <= N
  BY <1>1, FS_Subset, FS_CardinalityType DEF N
<1>3. \A x \in Bindings \ T : Cardinality(T \cup {x}) = Cardinality(T) + 1
  BY <1>1, FS_AddElement
<1>4. \A x \in T : Cardinality(T \ {x}) = Cardinality(T) - 1
  BY <1>1, FS_RemoveElement
<1> QED
  BY <1>2, <1>3, <1>4

\* The reach bends: k - 1 and k + 1 bindings together reach less far than twice k, by
\* twice all weights.
LEMMA ReachBends ==
  ASSUME NEW d \in Int, NEW k \in Int
  PROVE  /\ Reach(d, k) \in Int /\ Reach(d, k + 1) \in Int /\ Reach(d, k - 1) \in Int
         /\ Reach(d, k + 1) + Reach(d, k - 1) = 2 * Reach(d, k) - 2 * All
<1>1. ASSUME NEW n \in Int, NEW a \in Int, NEW e \in Int
      PROVE  (k + 1) * ((n - (k + 1)) * a + e) + (k - 1) * ((n - (k - 1)) * a + e)
               = 2 * (k * ((n - k) * a + e)) - 2 * a
  OBVIOUS
<1>2. N \in Int /\ All \in Int /\ N * All \in Int /\ d * (N * All) \in Int
  BY Numbers
<1>3. (k + 1) * ((N - (k + 1)) * All + d * (N * All))
        + (k - 1) * ((N - (k - 1)) * All + d * (N * All))
        = 2 * (k * ((N - k) * All + d * (N * All))) - 2 * All
  BY <1>1, <1>2
<1> QED
  BY <1>2, <1>3 DEF Reach

\* What one binding reaches: d + 1 times all weights for each binding, less once.
LEMMA ReachOfOne ==
  ASSUME NEW d \in Nat
  PROVE  Reach(d, 1) = Span(d)
<1>1. ASSUME NEW n \in Int, NEW a \in Int
      PROVE  1 * ((n - 1) * a + d * (n * a)) = ((d + 1) * n - 1) * a
  OBVIOUS
<1> QED
  BY <1>1, Numbers DEF Reach, Span

\* k of N bindings reach at least as far as k that are each within d times all weights
\* for each binding.
LEMMA ReachOfSome ==
  ASSUME NEW d \in Nat, NEW k \in 0..N
  PROVE  k * (d * (N * All)) <= Reach(d, k)
<1>1. N \in Nat /\ All \in Nat /\ k \in Nat /\ N - k \in Nat
  BY Numbers
<1>2. ASSUME NEW m \in Nat, NEW a \in Nat, NEW j \in Nat, NEW e \in Int
      PROVE  j * e <= j * (m * a + e)
  <2>1. m * a \in Nat /\ j * (m * a) \in Nat
    OBVIOUS
  <2>2. j * (m * a + e) = j * (m * a) + j * e
    OBVIOUS
  <2>3. j * e \in Int
    OBVIOUS
  <2> QED
    BY <2>1, <2>2, <2>3
<1>3. d * (N * All) \in Int
  BY <1>1
<1> QED
  BY <1>1, <1>2, <1>3 DEF Reach

\* More disturbances reach further.
LEMMA ReachGrows ==
  ASSUME NEW d \in Nat, NEW e \in Nat, d <= e, NEW k \in 0..N
  PROVE  Reach(d, k) <= Reach(e, k)
<1>1. N \in Nat /\ All \in Nat /\ k \in Nat /\ N * All \in Nat
  BY Numbers
<1>2. ASSUME NEW p \in Nat, NEW m \in Int, NEW j \in Nat
      PROVE  j * (m + d * p) <= j * (m + e * p)
  <2>1. PICK g \in Nat : e = d + g
    <3>1. e - d \in Nat /\ e = d + (e - d)
      OBVIOUS
    <3> QED
      BY <3>1
  <2>2. j * (m + e * p) = j * (m + d * p) + j * (g * p)
    BY <2>1
  <2>3. j * (g * p) \in Nat /\ j * (m + d * p) \in Int
    OBVIOUS
  <2> QED
    BY <2>2, <2>3
<1>3. (N - k) * All \in Int
  BY <1>1
<1> QED
  BY <1>1, <1>2, <1>3 DEF Reach

\* Weights stay balanced when more disturbances are allowed for.
LEMMA BalancedLonger ==
  ASSUME NEW w \in [Bindings -> Int], NEW d \in Nat, NEW e \in Nat, d <= e,
         Balanced(w, d)
  PROVE  Balanced(w, e)
<1> SUFFICES ASSUME NEW T \in SUBSET Bindings
             PROVE  /\ -Reach(e, Cardinality(T)) <= Sum(w, T)
                    /\ Sum(w, T) <= Reach(e, Cardinality(T))
  BY DEF Balanced
<1>1. Cardinality(T) \in 0..N
  BY Sizes
<1>2. Reach(d, Cardinality(T)) <= Reach(e, Cardinality(T))
  BY <1>1, ReachGrows
<1>3. Reach(d, Cardinality(T)) \in Int /\ Reach(e, Cardinality(T)) \in Int
      /\ Sum(w, T) \in Int
  <2>1. Cardinality(T) \in Int /\ d \in Int /\ e \in Int
    BY <1>1, Numbers
  <2>2. Reach(d, Cardinality(T)) \in Int /\ Reach(e, Cardinality(T)) \in Int
    BY <2>1, ReachBends
  <2> QED
    BY <2>2, SumType
<1>4. /\ -Reach(d, Cardinality(T)) <= Sum(w, T)
      /\ Sum(w, T) <= Reach(d, Cardinality(T))
  BY DEF Balanced
<1> QED
  BY <1>2, <1>3, <1>4

\* A single weight of balanced ones is within the reach of one binding.
LEMMA BalancedEach ==
  ASSUME NEW w \in [Bindings -> Int], NEW d \in Nat, Balanced(w, d), NEW b \in Bindings
  PROVE  -Span(d) <= w[b] /\ w[b] <= Span(d)
<1>1. Sum(w, {} \cup {b}) = Sum(w, {}) + w[b]
  <2>1. {} \in SUBSET Bindings /\ b \in Bindings \ {}
    OBVIOUS
  <2> QED
    BY <2>1, SumMore
<1>2. Sum(w, {}) = 0
  BY SumType
<1>3. Sum(w, {b}) = w[b]
  <2>1. {} \cup {b} = {b} /\ w[b] \in Int
    OBVIOUS
  <2> QED
    BY <2>1, <1>1, <1>2
<1>4. Cardinality({b}) = 1 /\ {b} \in SUBSET Bindings
  BY FS_Singleton
<1>5. -Reach(d, 1) <= w[b] /\ w[b] <= Reach(d, 1)
  BY <1>3, <1>4 DEF Balanced
<1> QED
  BY <1>5, ReachOfOne

\* Weights that are each within d times all weights for each binding are balanced
\* after d disturbances.
LEMMA BalancedAnew ==
  ASSUME NEW w \in [Bindings -> Int], NEW d \in Nat,
         \A b \in Bindings : -(d * (N * All)) <= w[b] /\ w[b] <= d * (N * All)
  PROVE  Balanced(w, d)
<1> DEFINE e == d * (N * All)
           G == {T \in SUBSET Bindings : /\ -(Cardinality(T) * e) <= Sum(w, T)
                                         /\ Sum(w, T) <= Cardinality(T) * e}
<1>0. e \in Int
  BY Numbers
<1> HIDE DEF e
<1>1. {} \in G
  <2>1. Sum(w, {}) = 0 /\ Cardinality({}) = 0
    BY SumType, FS_EmptySet
  <2> QED
    BY <2>1, <1>0
<1>2. ASSUME NEW T \in G, NEW x \in Bindings \ T PROVE T \cup {x} \in G
  <2>1. Sum(w, T \cup {x}) = Sum(w, T) + w[x]
    BY SumMore
  <2>2. Cardinality(T \cup {x}) = Cardinality(T) + 1 /\ Cardinality(T) \in Int
    BY Sizes, Numbers
  <2>3. -e <= w[x] /\ w[x] <= e
    BY DEF e
  <2>4. Sum(w, T) \in Int /\ w[x] \in Int
    BY SumType
  <2>5. (Cardinality(T) + 1) * e = Cardinality(T) * e + e /\ Cardinality(T) * e \in Int
    BY <1>0, <2>2
  <2>6. T \cup {x} \in SUBSET Bindings
    OBVIOUS
  <2>7. -(Cardinality(T) * e) <= Sum(w, T) /\ Sum(w, T) <= Cardinality(T) * e
    OBVIOUS
  <2>8. /\ -(Cardinality(T) * e + e) <= Sum(w, T) + w[x]
        /\ Sum(w, T) + w[x] <= Cardinality(T) * e + e
    BY <1>0, <2>3, <2>4, <2>5, <2>7
  <2> QED
    BY <2>1, <2>2, <2>5, <2>6, <2>8
<1>3. G = SUBSET Bindings
  <2> HIDE DEF G
  <2>1. G \in SUBSET SUBSET Bindings
    BY DEF G
  <2> QED
    BY <1>1, <1>2, <2>1, OneByOne
<1> SUFFICES ASSUME NEW T \in SUBSET Bindings
             PROVE  /\ -Reach(d, Cardinality(T)) <= Sum(w, T)
                    /\ Sum(w, T) <= Reach(d, Cardinality(T))
  BY DEF Balanced
<1>4. -(Cardinality(T) * e) <= Sum(w, T) /\ Sum(w, T) <= Cardinality(T) * e
  BY <1>3
<1>5. Cardinality(T) \in 0..N /\ Cardinality(T) * e \in Int /\ Cardinality(T) \in Int
  BY <1>0, Sizes, Numbers
<1>6. Cardinality(T) * e <= Reach(d, Cardinality(T))
  BY <1>5, ReachOfSome DEF e
<1>7. Reach(d, Cardinality(T)) \in Int /\ Sum(w, T) \in Int
  <2>1. d \in Int
    OBVIOUS
  <2>2. Reach(d, Cardinality(T)) \in Int
    BY <2>1, <1>5, ReachBends
  <2> QED
    BY <2>2, SumType
<1> QED
  BY <1>4, <1>5, <1>6, <1>7

\* The weights w once a choice among S has been made and kept.
After(S, w) == [b \in Bindings |-> IF b \in S THEN Updated(S, w)[b] ELSE w[b]]

\* What After gives a binding.
LEMMA AfterEach ==
  ASSUME NEW S \in SUBSET Bindings, NEW w \in [Bindings -> Int]
  PROVE  /\ After(S, w) \in [Bindings -> Int]
         /\ \A b \in Bindings :
              After(S, w)[b] = w[b] + (IF b \in S THEN Weight[b] ELSE 0)
                                 - (IF b \in S /\ b = Chosen(S, w) THEN Total(S) ELSE 0)
<1>1. Total(S) \in Int /\ \A b \in Bindings : w[b] \in Int /\ Weight[b] \in Int
  BY TotalType, BindingsAssumption
<1> QED
  BY <1>1 DEF After, Updated

\* What a set of bindings gains by a choice among S: the weights of those of S, less
\* the total when the chosen one is among them.
LEMMA AfterSum ==
  ASSUME NEW S \in SUBSET Bindings, S # {}, NEW w \in [Bindings -> Int],
         NEW T \in SUBSET Bindings
  PROVE  Sum(After(S, w), T) =
           Sum(w, T) + Total(T \cap S) - (IF Chosen(S, w) \in T THEN Total(S) ELSE 0)
<1> DEFINE v == After(S, w)
           c == Chosen(S, w)
           Gain(U) == IF c \in U THEN Total(S) ELSE 0
           G == {U \in SUBSET Bindings :
                   Sum(v, U) = Sum(w, U) + Total(U \cap S) - Gain(U)}
<1>1. v \in [Bindings -> Int] /\ c \in S
  BY AfterEach, ChosenIn
<1>2. \A b \in Bindings :
        v[b] = w[b] + (IF b \in S THEN Weight[b] ELSE 0) - (IF b = c THEN Total(S) ELSE 0)
  BY <1>1, AfterEach
<1>3. Total(S) \in Int /\ \A b \in Bindings : w[b] \in Int /\ v[b] \in Int /\ Weight[b] \in Int
  BY <1>1, TotalType, BindingsAssumption
<1> HIDE DEF v, c
<1>4. {} \in G
  <2>1. Sum(v, {}) = 0 /\ Sum(w, {}) = 0
    BY <1>1, SumType
  <2>2. {} \cap S = {} /\ c \notin {}
    OBVIOUS
  <2> QED
    BY <2>1, <2>2, TotalEmpty
<1>5. ASSUME NEW U \in G, NEW x \in Bindings \ U PROVE U \cup {x} \in G
  <2>1. U \in SUBSET Bindings /\ U \cup {x} \in SUBSET Bindings
    OBVIOUS
  <2>2. Sum(v, U \cup {x}) = Sum(v, U) + v[x] /\ Sum(w, U \cup {x}) = Sum(w, U) + w[x]
    BY <1>1, <2>1, SumMore
  <2>3. Sum(v, U) \in Int /\ Sum(w, U) \in Int
    BY <1>1, <2>1, SumType
  <2>4. Total((U \cup {x}) \cap S) = Total(U \cap S) + (IF x \in S THEN Weight[x] ELSE 0)
    <3>1. U \cap S \in SUBSET Bindings
      OBVIOUS
    <3>2. Total(U \cap S) \in Int
      BY <3>1, TotalType
    <3>3. CASE x \in S
      <4>1. (U \cup {x}) \cap S = (U \cap S) \cup {x} /\ x \in Bindings \ (U \cap S)
        BY <3>3
      <4>2. Total((U \cap S) \cup {x}) = Total(U \cap S) + Weight[x]
        BY <4>1, <3>1, TotalMore
      <4> QED
        BY <4>1, <4>2, <3>3
    <3>4. CASE x \notin S
      <4>1. (U \cup {x}) \cap S = U \cap S
        BY <3>4
      <4> QED
        BY <4>1, <3>2, <3>4
    <3> QED
      BY <3>3, <3>4
  <2>5. Gain(U \cup {x}) = Gain(U) + (IF x = c THEN Total(S) ELSE 0)
    BY <1>3
  <2>6. Total(U \cap S) \in Int /\ Gain(U) \in Int
    <3>1. U \cap S \in SUBSET Bindings
      OBVIOUS
    <3> QED
      BY <3>1, <1>3, TotalType
  <2>7. Sum(v, U) = Sum(w, U) + Total(U \cap S) - Gain(U)
    OBVIOUS
  <2>8. Sum(v, U \cup {x}) =
          Sum(w, U \cup {x}) + Total((U \cup {x}) \cap S) - Gain(U \cup {x})
    <3>1. v[x] = w[x] + (IF x \in S THEN Weight[x] ELSE 0)
                   - (IF x = c THEN Total(S) ELSE 0)
      BY <1>2
    <3> HIDE DEF Gain, G
    <3> QED
      BY <3>1, <1>3, <2>2, <2>3, <2>4, <2>5, <2>6, <2>7
  <2> QED
    BY <2>1, <2>8
<1>6. G = SUBSET Bindings
  <2> HIDE DEF G
  <2>1. G \in SUBSET SUBSET Bindings
    BY DEF G
  <2> QED
    BY <1>4, <1>5, <2>1, OneByOne
<1>7. Sum(v, T) = Sum(w, T) + Total(T \cap S) - Gain(T)
  BY <1>6
<1> QED
  BY <1>7 DEF v, c

\* No set gets too far ahead by a choice. One that does not gain stays where it is. Of
\* one without the chosen binding, a member x competed in vain: with the chosen one in
\* it, or without x, it was within reach, and the reach bends.
LEMMA AfterAhead ==
  ASSUME NEW S \in SUBSET Bindings, S # {}, NEW w \in [Bindings -> Int],
         NEW d \in Nat, Balanced(w, d), NEW T \in SUBSET Bindings
  PROVE  Sum(After(S, w), T) <= Reach(d, Cardinality(T))
<1> DEFINE c == Chosen(S, w)
           J == T \cap S
           k == Cardinality(T)
<1>1. c \in S /\ c \in Bindings
  BY ChosenIn
<1>2. Sum(After(S, w), T) = Sum(w, T) + Total(J) - (IF c \in T THEN Total(S) ELSE 0)
  BY AfterSum
<1>3. Sum(w, T) \in Int /\ Total(J) \in Int /\ Total(S) \in Int /\ All \in Int
  <2>1. J \in SUBSET Bindings
    OBVIOUS
  <2> QED
    BY <2>1, SumType, TotalType, Numbers
<1>4. k \in Int /\ d \in Int /\ Sum(w, T) <= Reach(d, k)
  BY Sizes, Numbers DEF Balanced
<1>5. Reach(d, k) \in Int /\ Reach(d, k + 1) \in Int /\ Reach(d, k - 1) \in Int
      /\ Reach(d, k + 1) + Reach(d, k - 1) = 2 * Reach(d, k) - 2 * All
  <2> HIDE DEF k
  <2> QED
    BY <1>4, ReachBends
<1>6. CASE c \in T
  <2>1. J \in SUBSET S
    OBVIOUS
  <2>2. Total(J) <= Total(S)
    BY <2>1, TotalMonotone
  <2> HIDE DEF J, c
  <2> QED
    BY <1>2, <1>3, <1>4, <1>5, <1>6, <2>2
<1>7. CASE c \notin T /\ J = {}
  <2>1. Total(J) = 0
    BY <1>7, TotalEmpty
  <2> HIDE DEF J, c
  <2> QED
    BY <1>2, <1>3, <1>4, <1>5, <1>7, <2>1
<1>8. CASE c \notin T /\ J # {}
  <2>1. PICK x \in J : TRUE
    BY <1>8
  <2>2. x \in T /\ x \in S /\ c \in Bindings \ T
    BY <2>1, <1>1, <1>8
  <2>3. Sum(w, T \cup {c}) = Sum(w, T) + w[c] /\ Sum(w, T \ {x}) = Sum(w, T) - w[x]
    <3> HIDE DEF c
    <3> QED
      BY <2>2, SumMore, SumLess
  <2>4. Sum(w, T \cup {c}) <= Reach(d, k + 1)
    <3>1. Cardinality(T \cup {c}) = k + 1 /\ T \cup {c} \in SUBSET Bindings
      <4> HIDE DEF c
      <4> QED
        BY <2>2, Sizes
    <3> QED
      BY <3>1 DEF Balanced
  <2>5. Sum(w, T \ {x}) <= Reach(d, k - 1)
    <3>1. Cardinality(T \ {x}) = k - 1 /\ T \ {x} \in SUBSET Bindings
      BY <2>2, Sizes
    <3> QED
      BY <3>1 DEF Balanced
  <2>6. w[x] + Weight[x] <= w[c] + Weight[c]
    BY <2>2, ChosenIn
  <2>7. Total(J) + Weight[c] <= All
    <3>1. J \in SUBSET Bindings /\ c \in Bindings \ J
      BY <2>2
    <3> HIDE DEF J, c
    <3> QED
      BY <3>1, TotalBeside DEF All
  <2>8. w[x] \in Int /\ w[c] \in Int /\ Weight[x] \in Nat /\ Weight[c] \in Nat
    BY <2>2, BindingsAssumption
  <2>9. Sum(After(S, w), T) = Sum(w, T) + Total(J)
    BY <1>2, <1>3, <1>8
  <2> HIDE DEF J, c
  <2> QED
    BY <1>3, <1>5, <2>3, <2>4, <2>5, <2>6, <2>7, <2>8, <2>9
<1> QED
  BY <1>6, <1>7, <1>8

\* No set falls too far behind by a choice, for the same reasons: one that has the
\* chosen binding, and not all that competed, stays within reach by one of the others.
LEMMA AfterBehind ==
  ASSUME NEW S \in SUBSET Bindings, S # {}, NEW w \in [Bindings -> Int],
         NEW d \in Nat, Balanced(w, d), NEW T \in SUBSET Bindings
  PROVE  -Reach(d, Cardinality(T)) <= Sum(After(S, w), T)
<1> DEFINE c == Chosen(S, w)
           J == T \cap S
           L == S \ T
           k == Cardinality(T)
<1>1. c \in S /\ c \in Bindings
  BY ChosenIn
<1>2. Sum(After(S, w), T) = Sum(w, T) + Total(J) - (IF c \in T THEN Total(S) ELSE 0)
  BY AfterSum
<1>3. Sum(w, T) \in Int /\ Total(J) \in Nat /\ Total(S) \in Int /\ All \in Int
      /\ Total(L) \in Int
  <2>1. J \in SUBSET Bindings /\ L \in SUBSET Bindings
    OBVIOUS
  <2> HIDE DEF J, L
  <2> QED
    BY <2>1, SumType, TotalType, Numbers
<1>4. k \in Int /\ d \in Int /\ -Reach(d, k) <= Sum(w, T)
  BY Sizes, Numbers DEF Balanced
<1>5. Reach(d, k) \in Int /\ Reach(d, k + 1) \in Int /\ Reach(d, k - 1) \in Int
      /\ Reach(d, k + 1) + Reach(d, k - 1) = 2 * Reach(d, k) - 2 * All
  <2> HIDE DEF k
  <2> QED
    BY <1>4, ReachBends
<1>6. CASE c \notin T
  <2> HIDE DEF J, c
  <2> QED
    BY <1>2, <1>3, <1>4, <1>5, <1>6
<1>7. CASE c \in T /\ L = {}
  <2>1. J = S
    BY <1>7
  <2>2. Total(J) = Total(S)
    BY <2>1
  <2> HIDE DEF J, c
  <2> QED
    BY <1>2, <1>3, <1>4, <1>5, <1>7, <2>2
<1>8. CASE c \in T /\ L # {}
  <2>1. PICK x \in L : TRUE
    BY <1>8
  <2>2. x \in Bindings \ T /\ x \in S /\ c \in T
    BY <2>1, <1>1, <1>8
  <2>3. Sum(w, T \cup {x}) = Sum(w, T) + w[x] /\ Sum(w, T \ {c}) = Sum(w, T) - w[c]
    <3> HIDE DEF c
    <3> QED
      BY <2>2, SumMore, SumLess
  <2>4. -Reach(d, k + 1) <= Sum(w, T \cup {x})
    <3>1. Cardinality(T \cup {x}) = k + 1 /\ T \cup {x} \in SUBSET Bindings
      BY <2>2, Sizes
    <3> QED
      BY <3>1 DEF Balanced
  <2>5. -Reach(d, k - 1) <= Sum(w, T \ {c})
    <3>1. Cardinality(T \ {c}) = k - 1 /\ T \ {c} \in SUBSET Bindings
      <4> HIDE DEF c
      <4> QED
        BY <2>2, Sizes
    <3> QED
      BY <3>1 DEF Balanced
  <2>6. w[x] + Weight[x] <= w[c] + Weight[c]
    BY <2>2, ChosenIn
  <2>7. Total(L) + Weight[c] <= All
    <3>1. L \in SUBSET Bindings /\ c \in Bindings \ L
      BY <1>1, <2>2
    <3> HIDE DEF L, c
    <3> QED
      BY <3>1, TotalBeside DEF All
  <2>8. w[x] \in Int /\ w[c] \in Int /\ Weight[x] \in Nat /\ Weight[c] \in Nat
    BY <1>1, <2>2, BindingsAssumption
  <2>9. Total(S) = Total(J) + Total(L)
    BY TotalSplit
  <2>10. Sum(After(S, w), T) = Sum(w, T) - Total(L)
    <3> HIDE DEF J, c, L
    <3> QED
      BY <1>2, <1>3, <1>8, <2>9
  <2> HIDE DEF J, c, L
  <2> QED
    BY <1>3, <1>5, <2>3, <2>4, <2>5, <2>6, <2>7, <2>8, <2>10
<1> QED
  BY <1>6, <1>7, <1>8

\* A choice that nothing disturbs keeps the weights as balanced as they were.
LEMMA AfterBalanced ==
  ASSUME NEW S \in SUBSET Bindings, S # {}, NEW w \in [Bindings -> Int],
         NEW d \in Nat, Balanced(w, d)
  PROVE  Balanced(After(S, w), d)
BY AfterAhead, AfterBehind DEF Balanced

\* Weights each of which is one of balanced ones, or 0, or differs by no more than all
\* weights, are balanced after one more disturbance.
LEMMA DisturbedBalanced ==
  ASSUME NEW v \in [Bindings -> Int], NEW d \in Nat, NEW e \in Nat, d + 1 <= e,
         \A b \in Bindings :
           -(Span(d) + All) <= v[b] /\ v[b] <= Span(d) + All
  PROVE  Balanced(v, e)
<1>1. ASSUME NEW n \in Nat, NEW a \in Nat
      PROVE  (((d + 1) * n - 1) * a) + a = (d + 1) * (n * a)
  OBVIOUS
<1>2. Span(d) + All = (d + 1) * (N * All)
  BY <1>1, Numbers DEF Span
<1>3. Balanced(v, d + 1)
  <2>1. d + 1 \in Nat
    OBVIOUS
  <2> QED
    BY <1>2, <2>1, BalancedAnew
<1> QED
  BY <1>3, BalancedLonger

\* The span is a number when there are bindings.
LEMMA SpanType ==
  ASSUME NEW d \in Nat, NEW b \in Bindings
  PROVE  Span(d) \in Nat
<1>1. N \in Nat /\ All \in Nat
  BY Numbers
<1>2. N # 0
  BY BindingsAssumption, FS_EmptySet DEF N
<1>3. (d + 1) * N - 1 \in Nat
  <2>1. d * N \in Nat /\ (d + 1) * N = d * N + N
    BY <1>1
  <2> QED
    BY <2>1, <1>1, <1>2
<1> QED
  BY <1>1, <1>3 DEF Span

\* Weights that are each one of two balanced ones, or 0, are balanced after one more
\* disturbance.
LEMMA MixedBalanced ==
  ASSUME NEW u \in [Bindings -> Int], NEW w \in [Bindings -> Int], NEW d \in Nat,
         NEW e \in Nat, d + 1 <= e, Balanced(u, d), Balanced(w, d),
         NEW v, v \in [Bindings -> Int], \A b \in Bindings : v[b] \in {0, u[b], w[b]}
  PROVE  Balanced(v, e)
<1>1. ASSUME NEW b \in Bindings
      PROVE  -(Span(d) + All) <= v[b] /\ v[b] <= Span(d) + All
  <2>1. -Span(d) <= u[b] /\ u[b] <= Span(d) /\ -Span(d) <= w[b] /\ w[b] <= Span(d)
    BY BalancedEach
  <2>2. Span(d) \in Nat /\ All \in Nat
    BY SpanType, Numbers
  <2>3. v[b] \in Int /\ u[b] \in Int /\ w[b] \in Int
    OBVIOUS
  <2> QED
    BY <2>1, <2>2, <2>3
<1> QED
  BY <1>1, DisturbedBalanced

\* A choice that one of the weights was not read for is one more disturbance.
LEMMA UnreadBalanced ==
  ASSUME NEW S \in SUBSET Bindings, S # {}, NEW w \in [Bindings -> Int], NEW d \in Nat,
         NEW e \in Nat, d + 1 <= e, Balanced(w, d),
         NEW r \in [Bindings -> Int], \A b \in Bindings : r[b] \in {0, w[b]},
         NEW v, v = [b \in Bindings |-> IF b \in S THEN Updated(S, r)[b] ELSE w[b]]
  PROVE  Balanced(v, e)
<1>1. \A b \in Bindings : r[b] \in {0, w[b]}
  OBVIOUS
<1>2. \A b \in Bindings : v[b] = IF b \in S THEN Updated(S, r)[b] ELSE w[b]
  OBVIOUS
<1>3. Updated(S, r) \in [Bindings -> Int]
  BY UpdatedType
<1>4. v \in [Bindings -> Int]
  BY <1>3
<1>5. ASSUME NEW b \in Bindings
      PROVE  -(Span(d) + All) <= v[b] /\ v[b] <= Span(d) + All
  <2>1. -Span(d) <= w[b] /\ w[b] <= Span(d)
    BY BalancedEach
  <2>2. Span(d) \in Nat /\ All \in Nat /\ Total(S) \in Nat /\ Total(S) <= All
    BY SpanType, Numbers, TotalType, TotalMonotone DEF All
  <2>3. v[b] \in Int /\ w[b] \in Int /\ r[b] \in Int /\ Weight[b] \in Nat
    BY <1>1, <1>4, BindingsAssumption
  <2>4. -Span(d) <= r[b] /\ r[b] <= Span(d)
    BY <1>1, <2>1, <2>2, <2>3
  <2>5. Weight[b] <= All
    <3>1. {} \in SUBSET Bindings /\ b \in Bindings \ {}
      OBVIOUS
    <3>2. Total({}) + Weight[b] <= All
      BY <3>1, TotalBeside DEF All
    <3> QED
      BY <3>2, TotalEmpty, <2>3
  <2>6. CASE b \notin S
    BY <1>2, <2>1, <2>2, <2>3, <2>6
  <2>7. CASE b \in S
    <3>1. v[b] = r[b] + Weight[b] - (IF b = Chosen(S, r) THEN Total(S) ELSE 0)
      BY <1>2, <2>7 DEF Updated
    <3> QED
      BY <3>1, <2>2, <2>3, <2>4, <2>5
  <2> QED
    BY <2>6, <2>7
<1> QED
  BY <1>4, <1>5, DisturbedBalanced

-----------------------------------------------------------------------------
(* With one selector the weights stay balanced: one lemma for every action *)

\* The disturbances so far: accesses that failed, and changes whose reset is over.
Level == faults + changes - (IF admin = "idle" THEN 0 ELSE 1)

\* A worker between its choice and keeping it has the mutex, and the weights it has got
\* are as balanced as those in the cache.
Holds(c) ==
  call[c].pc = "keep" => /\ lock[Selector[c]] = c
                         /\ Balanced(Merged(call[c], weights), Level)

Steady ==
  /\ admin # "idle" => changes > 0
  /\ Balanced(weights, Level)
  /\ \A c \in Callers : Holds(c)

\* All workers use one selector.
OneSelector == \A c, d \in Callers : Selector[c] = Selector[d]

\* The level is a number, and does not count more than failures and changes.
LEMMA LevelType ==
  ASSUME Inv, Steady
  PROVE  Level \in Nat /\ Level <= faults + changes
BY DEF Inv, TypeOK, Steady, Level

\* Nothing is out of balance at the start.
LEMMA InitSteady == Init => Steady
<1> SUFFICES ASSUME Init PROVE Steady
  OBVIOUS
<1>1. Level = 0 /\ weights = Zero /\ Zero \in [Bindings -> Int]
  BY DEF Init, Level, Zero
<1>2. Balanced(Zero, 0)
  <2>1. 0 * (N * All) = 0
    BY Numbers
  <2>2. \A b \in Bindings : -(0 * (N * All)) <= Zero[b] /\ Zero[b] <= 0 * (N * All)
    BY <2>1 DEF Zero
  <2> QED
    BY <1>1, <2>2, BalancedAnew
<1>3. \A c \in Callers : call[c].pc # "keep"
  BY DEF Init, Idle
<1> QED
  BY <1>1, <1>2, <1>3 DEF Init, Steady, Holds

\* What a call has got, merged with the cache.
LEMMA MergedType ==
  ASSUME Inv, NEW c \in Callers
  PROVE  Merged(call[c], weights) \in [Bindings -> Int]
BY DEF Inv, TypeOK, Calls, Merged

\* A step that leaves weights, the mutex and the calls that wait to keep a choice as
\* they are, whatever failures and changes it counts.
LEMMA QuietSteady ==
  ASSUME Inv, Steady, Inv', UNCHANGED <<weights, lock>>,
         admin' # "idle" => changes' > 0, Level <= Level',
         \A c \in Callers : call'[c].pc = "keep" =>
           /\ call[c].pc = "keep" /\ call'[c].rivals = call[c].rivals
           /\ call'[c].got = call[c].got
  PROVE  Steady'
<1>1. Level \in Nat /\ Level' \in Nat
  <2>1. Level \in Nat
    BY LevelType
  <2>2. Level' \in Int
    BY DEF Inv, TypeOK, Level
  <2> QED
    BY <2>1, <2>2
<1>2. PICK e : e = Level'
  OBVIOUS
<1>3. e \in Nat /\ Level <= e
  BY <1>1, <1>2
<1>4. weights \in [Bindings -> Int]
  BY DEF Inv, TypeOK
<1>5. Balanced(weights, e)
  BY <1>1, <1>3, <1>4, BalancedLonger DEF Steady
<1>6. Balanced(weights', Level')
  BY <1>2, <1>5
<1>7. ASSUME NEW c \in Callers, call'[c].pc = "keep"
      PROVE  lock'[Selector[c]] = c /\ Balanced(Merged(call'[c], weights'), Level')
  <2>1. lock[Selector[c]] = c /\ Balanced(Merged(call[c], weights), Level)
    BY <1>7 DEF Steady, Holds
  <2>2. Merged(call'[c], weights') = Merged(call[c], weights)
    BY <1>7 DEF Merged
  <2>3. Balanced(Merged(call[c], weights), e)
    BY <1>1, <1>3, <2>1, MergedType, BalancedLonger
  <2> QED
    BY <1>2, <2>1, <2>2, <2>3
<1> QED
  BY <1>6, <1>7 DEF Steady, Holds

\* Only the holder of the mutex is between choosing and keeping: with one selector there
\* is one at most.
LEMMA OneAtATime ==
  ASSUME OneSelector, Steady, NEW c \in Callers, NEW d \in Callers,
         call[c].pc = "keep", call[d].pc = "keep"
  PROVE  c = d
BY DEF OneSelector, Steady, Holds

\* Compete: the weights it has got are as balanced as those it read, or one more is
\* counted for the one it could not read; nobody else is between choosing and keeping.
LEMMA CompeteSteady ==
  ASSUME OneSelector, Inv, Steady, Inv', NEW c \in Callers, Compete(c)
  PROVE  Steady'
<1> DEFINE k == call[c]
           S == k.rivals
<1>1. k \in Calls /\ S \in SUBSET Bindings /\ S # {} /\ call \in [Callers -> Calls]
      /\ weights \in [Bindings -> Int]
  BY DEF Inv, TypeOK, Compete, Sound, Calls
<1>2. PICK unread \in AtMostOne(S) :
        LET w == [b \in Bindings |-> IF b \in unread THEN 0 ELSE weights[b]] IN
        /\ IF unread = {} THEN UNCHANGED faults ELSE Fault
        /\ call' = [call EXCEPT ![c] = [@ EXCEPT !.pc = "keep", !.node = Chosen(S, w),
                                                 !.got = Updated(S, w)]]
  BY DEF Compete
<1> DEFINE w == [b \in Bindings |-> IF b \in unread THEN 0 ELSE weights[b]]
<1>3. /\ call'[c].got = Updated(S, w) /\ call'[c].rivals = S
      /\ \A d \in Callers : d # c => call'[d] = call[d]
  BY <1>1, <1>2 DEF Calls
<1>4. PICK v : v = Merged(call'[c], weights')
  OBVIOUS
<1>5. v = [b \in Bindings |-> IF b \in S THEN Updated(S, w)[b] ELSE weights[b]]
  BY <1>3, <1>4 DEF Merged, Compete
<1>6. ASSUME NEW d \in Callers, d # c PROVE call'[d].pc # "keep"
  <2>1. call'[d] = call[d]
    BY <1>3, <1>6
  <2>2. Selector[d] = Selector[c] /\ lock[Selector[c]] = None
    BY DEF OneSelector, Compete
  <2>3. d # None
    BY BindingsAssumption
  <2> QED
    BY <2>1, <2>2, <2>3 DEF Steady, Holds
<1>7. lock'[Selector[c]] = c
  BY DEF Compete, Inv, TypeOK, Selectors
<1>8. Level \in Nat
  BY LevelType
<1>9. UNCHANGED <<admin, changes, weights>>
  BY DEF Compete, request
<1>10. CASE unread = {}
  <2>1. Level' = Level
    BY <1>2, <1>9, <1>10 DEF Level
  <2>2. w = weights
    BY <1>1, <1>10
  <2>3. v = After(S, weights)
    BY <1>5, <2>2 DEF After
  <2>4. Balanced(v, Level)
    <3> HIDE DEF S
    <3> QED
      BY <1>1, <1>8, <2>3, AfterBalanced DEF Steady
  <2> QED
    BY <1>4, <1>6, <1>7, <1>9, <2>1, <2>4 DEF Steady, Holds
<1>11. CASE unread # {}
  <2>1. Level' = Level + 1
    <3>1. faults' = faults + 1 /\ faults \in Int /\ changes \in Int
      <4>1. Fault
        BY <1>2, <1>11
      <4> QED
        BY <4>1 DEF Fault, Inv, TypeOK
    <3> QED
      BY <1>9, <3>1 DEF Level
  <2>2. PICK e \in Nat : e = Level + 1
    BY <1>8
  <2>3. Balanced(weights, e)
    BY <1>1, <1>8, <2>2, BalancedLonger DEF Steady
  <2>4. Balanced(v, e)
    <3>1. w \in [Bindings -> Int] /\ \A b \in Bindings : w[b] \in {0, weights[b]}
      BY <1>1
    <3>2. Balanced(weights, Level) /\ Level + 1 <= e
      BY <1>8, <2>2 DEF Steady
    <3> HIDE DEF S, w
    <3> QED
      BY <1>1, <1>5, <1>8, <3>1, <3>2, UnreadBalanced
  <2> QED
    BY <1>4, <1>6, <1>7, <1>9, <2>1, <2>2, <2>3, <2>4 DEF Steady, Holds
<1> QED
  BY <1>10, <1>11

\* Keep: the cache has what the call had got; when one weight is not saved it has some
\* of each, and one more is counted.
LEMMA KeepSteady ==
  ASSUME OneSelector, Inv, Steady, Inv', NEW c \in Callers, Keep(c)
  PROVE  Steady'
<1> DEFINE k == call[c]
           u == Merged(k, weights)
<1>1. call \in [Callers -> Calls] /\ weights \in [Bindings -> Int]
      /\ weights' \in [Bindings -> Int] /\ k.pc = "keep"
  BY DEF Inv, TypeOK, Keep
<1>2. PICK unsaved \in AtMostOne(k.rivals) :
        /\ IF unsaved = {} THEN UNCHANGED faults ELSE Fault
        /\ weights' = [b \in Bindings |-> IF b \in k.rivals \ unsaved
                                          THEN k.got[b] ELSE weights[b]]
  BY DEF Keep
<1>3. ASSUME NEW d \in Callers PROVE call'[d].pc # "keep"
  <2>1. CASE d = c
    BY <2>1, <1>1 DEF Keep, Calls
  <2>2. CASE d # c
    <3>1. call'[d] = call[d]
      BY <2>2, <1>1 DEF Keep
    <3>2. call[d].pc # "keep"
      BY <2>2, <1>1, OneAtATime
    <3> QED
      BY <3>1, <3>2
  <2> QED
    BY <2>1, <2>2
<1>4. Level \in Nat /\ u \in [Bindings -> Int] /\ Balanced(u, Level)
      /\ Balanced(weights, Level)
  BY <1>1, LevelType, MergedType DEF Steady, Holds
<1>5. UNCHANGED <<admin, changes>>
  BY DEF Keep, request
<1>6. CASE unsaved = {}
  <2>1. Level' = Level
    BY <1>2, <1>5, <1>6 DEF Level
  <2>2. weights' = u
    BY <1>2, <1>6 DEF Merged
  <2> QED
    BY <1>3, <1>4, <1>5, <2>1, <2>2 DEF Steady, Holds
<1>7. CASE unsaved # {}
  <2>1. Level' = Level + 1
    BY <1>2, <1>5, <1>7 DEF Level, Fault, Inv, TypeOK
  <2>2. PICK e \in Nat : e = Level + 1
    BY <1>4
  <2>3. \A b \in Bindings : weights'[b] \in {0, u[b], weights[b]}
    BY <1>2 DEF Merged
  <2>4. PICK v : v = weights'
    OBVIOUS
  <2>5. Balanced(v, e)
    <3> HIDE DEF u
    <3> QED
      BY <1>1, <1>4, <2>2, <2>3, <2>4, MixedBalanced
  <2> QED
    BY <1>3, <1>5, <2>1, <2>2, <2>4, <2>5 DEF Steady, Holds
<1> QED
  BY <1>6, <1>7

\* Reset: weights become 0, under the call that waits to keep a choice too; one more is
\* counted, for the change it belongs to.
LEMMA ResetSteady ==
  ASSUME OneSelector, Inv, Steady, Inv', Reset
  PROVE  Steady'
<1> DEFINE kept == {b \in Bindings : table[b] # "new"}
<1>1. PICK undeleted \in AtMostOne(kept) :
        /\ IF undeleted = {} THEN UNCHANGED faults ELSE Fault
        /\ weights' = [b \in Bindings |-> IF b \in kept \ undeleted THEN 0
                                          ELSE weights[b]]
  BY DEF Reset
<1>2. weights \in [Bindings -> Int] /\ weights' \in [Bindings -> Int] /\ Level \in Nat
      /\ UNCHANGED <<call, lock, changes>> /\ admin' = "idle" /\ admin = "reset"
  BY LevelType DEF Reset, Inv, TypeOK
<1>3. PICK e : e = Level'
  OBVIOUS
<1>4. e \in Nat /\ Level + 1 <= e
  <2>1. PICK f \in Nat : f = faults
    BY DEF Inv, TypeOK
  <2>2. PICK g \in Nat : g = changes
    BY DEF Inv, TypeOK
  <2>3. faults' = f \/ faults' = f + 1
    BY <1>1, <2>1 DEF Fault
  <2>4. Level = f + g - 1
    BY <1>2, <2>1, <2>2 DEF Level
  <2>5. e = f + g \/ e = f + 1 + g
    BY <1>2, <1>3, <2>2, <2>3 DEF Level
  <2>6. f + g - 1 \in Nat
    BY <1>2, <2>4
  <2> QED
    BY <2>4, <2>5, <2>6
<1>5. \A b \in Bindings : weights'[b] \in {0, weights[b]}
  BY <1>1
<1>6. PICK v : v = weights'
  OBVIOUS
<1>7. Balanced(v, e)
  BY <1>2, <1>4, <1>5, <1>6, MixedBalanced DEF Steady
<1>8. ASSUME NEW c \in Callers, call[c].pc = "keep"
      PROVE  lock[Selector[c]] = c /\ Balanced(Merged(call[c], v), e)
  <2>1. lock[Selector[c]] = c /\ Balanced(Merged(call[c], weights), Level)
    BY <1>8 DEF Steady, Holds
  <2> DEFINE u == Merged(call[c], weights)
             m == Merged(call[c], v)
  <2>2. u \in [Bindings -> Int]
    BY MergedType
  <2>3. m \in [Bindings -> Int]
    BY <1>2, <1>6 DEF Merged, Inv, TypeOK, Calls
  <2>4. \A b \in Bindings : m[b] \in {0, u[b]}
    BY <1>5, <1>6 DEF Merged
  <2>5. Balanced(m, e)
    <3> HIDE DEF u, m
    <3>1. Balanced(u, Level)
      BY <2>1 DEF u
    <3> QED
      BY <1>2, <1>4, <2>2, <2>3, <2>4, <3>1, MixedBalanced
  <2> QED
    BY <2>1, <2>5
<1> QED
  BY <1>2, <1>3, <1>6, <1>7, <1>8 DEF Steady, Holds

\* Begin, Store, ReadLast and Record: no choice waits to be kept that did not before.
LEMMA CallSteady ==
  ASSUME Inv, Steady, Inv', NEW c \in Callers,
         Begin(c) \/ Store(c) \/ ReadLast(c) \/ Record(c)
  PROVE  Steady'
<1>1. call \in [Callers -> Calls] /\ Idle.pc = "idle"
  BY DEF Inv, TypeOK, Idle
<1>2. UNCHANGED <<weights, lock, admin, changes>>
  BY DEF Begin, Store, ReadLast, Record, request
<1>3. faults' \in {faults, faults + 1}
  BY DEF Begin, Store, ReadLast, Record, Fault
<1>4. Level <= Level'
  <2>1. PICK f \in Nat : f = faults
    BY DEF Inv, TypeOK
  <2>2. PICK g \in Nat : g = changes
    BY DEF Inv, TypeOK
  <2>3. faults' = f \/ faults' = f + 1
    BY <1>3, <2>1
  <2> QED
    BY <1>2, <2>1, <2>2, <2>3 DEF Level
<1>5. \A k \in Calls : \A S, E : Viewing(k, S, E).pc # "keep"
  BY <1>1 DEF Viewing, Calls
<1>6. call'[c].pc # "keep" /\ \A d \in Callers : d # c =>
        /\ call'[d].pc = call[d].pc /\ call'[d].rivals = call[d].rivals
        /\ call'[d].got = call[d].got
  <2>1. CASE Begin(c)
    <3>1. call'[c].pc # "keep"
      <4>1. PICK E \in Excludes, r \in Receivers :
              LET k == [Idle EXCEPT !.receiver = r, !.before = last[r]] IN
              \/ call' = [call EXCEPT ![c] = Viewing(k, nodes, E)]
              \/ \E S : call' = [call EXCEPT ![c] =
                         [k EXCEPT !.pc = "store", !.exclude = E, !.view = S]]
        BY <2>1 DEF Begin
      <4> DEFINE k == [Idle EXCEPT !.receiver = r, !.before = last[r]]
      <4>2. k \in Calls
        BY IdleSound DEF Inv, TypeOK, Idle, Calls
      <4>3. CASE call' = [call EXCEPT ![c] = Viewing(k, nodes, E)]
        <5> HIDE DEF k
        <5> QED
          BY <1>1, <1>5, <4>2, <4>3
      <4>4. ASSUME NEW S, call' = [call EXCEPT ![c] =
                     [k EXCEPT !.pc = "store", !.exclude = E, !.view = S]]
            PROVE  call'[c].pc # "keep"
        <5> HIDE DEF k
        <5> QED
          BY <1>1, <4>2, <4>4 DEF Calls
      <4> QED
        BY <4>1, <4>3, <4>4
    <3>2. \A d \in Callers : d # c => call'[d] = call[d]
      BY <1>1, <2>1 DEF Begin
    <3> QED
      BY <3>1, <3>2
  <2>2. CASE Store(c)
    <3>1. call' = [call EXCEPT ![c] = Viewing(call[c], call[c].view, call[c].exclude)]
      BY <2>2 DEF Store
    <3> QED
      BY <1>1, <1>5, <3>1
  <2>3. CASE ReadLast(c)
    <3>1. \A d \in Callers : d # c => call'[d] = call[d]
      BY <1>1, <2>3 DEF ReadLast
    <3>2. call'[c].pc # "keep"
      BY <1>1, <2>3 DEF ReadLast, Calls
    <3> QED
      BY <3>1, <3>2
  <2>4. CASE Record(c)
    <3>1. call'[c] = Idle
      BY <1>1, <2>4 DEF Record, Overtaken
    <3>2. ASSUME NEW d \in Callers, d # c
          PROVE  call'[d] = call[d] \/ call'[d] = [call[d] EXCEPT !.before = None]
      BY <1>1, <2>4, <3>2 DEF Record, Overtaken
    <3> QED
      BY <1>1, <3>1, <3>2 DEF Calls
  <2> QED
    BY <2>1, <2>2, <2>3, <2>4
<1>7. \A d \in Callers : call'[d].pc = "keep" =>
        /\ call[d].pc = "keep" /\ call'[d].rivals = call[d].rivals
        /\ call'[d].got = call[d].got
  BY <1>6
<1>8. admin' # "idle" => changes' > 0
  BY <1>2 DEF Steady
<1> QED
  BY <1>2, <1>4, <1>7, <1>8, QuietSteady

\* The rest: what expires, and the administrator, whose change is counted when its
\* reset is over.
LEMMA OtherSteady ==
  ASSUME Inv, Steady, Inv',
         (\E r \in Receivers : ExpireLast(r)) \/ ExpireNodes \/ Change \/ Abandon \/ Clear
  PROVE  Steady'
<1>1. UNCHANGED <<weights, lock>>
  BY DEF ExpireLast, ExpireNodes, Change, Abandon, Clear, request
<1>2. PICK f \in Nat : f = faults
  BY DEF Inv, TypeOK
<1>3. PICK g \in Nat : g = changes
  BY DEF Inv, TypeOK
<1>4. \/ UNCHANGED <<faults, changes, admin>>
      \/ admin = "idle" /\ admin' = "clear" /\ faults' = f /\ changes' = g + 1
      \/ admin # "idle" /\ admin' = "idle" /\ faults' = f /\ changes' = g
      \/ admin = "clear" /\ admin' = "reset" /\ changes' = g /\ faults' \in {f, f + 1}
  BY <1>2, <1>3 DEF ExpireLast, ExpireNodes, Change, Abandon, Clear, request, Fault
<1>5. Level <= Level'
  BY <1>2, <1>3, <1>4 DEF Level
<1>6. admin' # "idle" => changes' > 0
  BY <1>3, <1>4 DEF Steady
<1>7. \A d \in Callers : call'[d].pc = "keep" =>
        /\ call[d].pc = "keep" /\ call'[d].rivals = call[d].rivals
        /\ call'[d].got = call[d].got
  <2>1. CASE \E r \in Receivers : ExpireLast(r)
    <3>1. PICK r \in Receivers : call' = Overtaken(r)
      BY <2>1 DEF ExpireLast
    <3>2. ASSUME NEW d \in Callers
          PROVE  call'[d] = call[d] \/ call'[d] = [call[d] EXCEPT !.before = None]
      BY <3>1 DEF Overtaken
    <3> QED
      BY <3>2 DEF Inv, TypeOK, Calls
  <2>2. CASE UNCHANGED call
    BY <2>2
  <2> QED
    BY <2>1, <2>2 DEF ExpireNodes, Change, Abandon, Clear
<1> QED
  BY <1>1, <1>5, <1>6, <1>7, QuietSteady

\* Every step keeps the weights balanced.
LEMMA StepSteady == OneSelector /\ Inv /\ Steady /\ [Next]_vars => Steady'
<1> SUFFICES ASSUME OneSelector, Inv, Steady, [Next]_vars PROVE Steady'
  OBVIOUS
<1>1. Inv'
  BY StepSound
<1>2. ASSUME NEW c \in Callers, Compete(c) PROVE Steady'
  BY <1>1, <1>2, CompeteSteady
<1>3. ASSUME NEW c \in Callers, Keep(c) PROVE Steady'
  BY <1>1, <1>3, KeepSteady
<1>4. ASSUME NEW c \in Callers, Begin(c) \/ Store(c) \/ ReadLast(c) \/ Record(c)
      PROVE  Steady'
  BY <1>1, <1>4, CallSteady
<1>5. CASE Reset
  BY <1>1, <1>5, ResetSteady
<1>6. CASE (\E r \in Receivers : ExpireLast(r)) \/ ExpireNodes \/ Change \/ Abandon \/ Clear
  BY <1>1, <1>6, OtherSteady
<1>7. CASE UNCHANGED vars
  BY <1>7 DEF vars, Steady, Holds, Level, Merged, Balanced
<1> QED
  BY <1>2, <1>3, <1>4, <1>5, <1>6, <1>7 DEF Next

\* What is balanced is within the bound.
LEMMA SteadyBounded == Inv /\ Steady => WeightsBounded
<1> SUFFICES ASSUME Inv, Steady, NEW b \in Bindings
             PROVE  LET bound == ((1 + faults + changes) * N - 1) * All
                    IN  weights[b] \in -bound .. bound
  BY DEF WeightsBounded, N, All
<1>1. PICK l \in Nat : l = Level
  BY LevelType
<1>2. PICK m \in Nat : m = faults + changes
  BY DEF Inv, TypeOK
<1>3. l <= m /\ weights \in [Bindings -> Int]
  BY <1>1, <1>2, LevelType DEF Inv, TypeOK
<1>4. Balanced(weights, m)
  BY <1>1, <1>3, BalancedLonger DEF Steady
<1>5. -Span(m) <= weights[b] /\ weights[b] <= Span(m) /\ Span(m) \in Nat
  BY <1>3, <1>4, BalancedEach, SpanType
<1>6. weights[b] \in -Span(m) .. Span(m)
  BY <1>3, <1>5
<1>7. 1 + faults + changes = m + 1
  BY <1>2 DEF Inv, TypeOK
<1> QED
  BY <1>6, <1>7 DEF Span

\* With one selector no weight leaves its bound, however the sets that compete differ,
\* and whatever is not read, not saved or reset half-way: nobody is passed over, or
\* chosen, for ever.
THEOREM WeightsBoundedHolds == ASSUME OneSelector PROVE Spec => []WeightsBounded
<1>1. Init => Inv /\ Steady
  BY InitSound, InitSteady
<1>2. Inv /\ Steady /\ [Next]_vars => Inv' /\ Steady'
  BY StepSound, StepSteady
<1>3. Inv /\ Steady => WeightsBounded
  BY SteadyBounded
<1> QED
  BY <1>1, <1>2, <1>3, PTL DEF Spec
=============================================================================
