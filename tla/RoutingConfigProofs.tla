------------------------- MODULE RoutingConfigProofs -------------------------
(***************************************************************************)
(* Proofs about RoutingConfig.  Lists are filtered and tables are filled   *)
(* element by element, by recursive functions; what they contain is proved *)
(* by induction, from the fact that a set of naturals has a least element. *)
(***************************************************************************)
EXTENDS RoutingConfig, FiniteSetTheorems, SequenceTheorems, WellFoundedInduction, TLAPS

-------------------------------------------------------------------------------
(* Induction, and functions defined by recursion.                          *)

LEMMA LeastElement ==
  ASSUME NEW T, T \subseteq Nat, T # {}
  PROVE  \E x \in T : \A y \in T : x <= y
<1>1. IsWellFoundedOn(OpToRel(<, Nat), Nat)
  BY NatLessThanWellFounded
<1>2. \E x \in T : \A y \in T : ~ (<<y, x>> \in OpToRel(<, Nat))
  BY <1>1, WFMin
<1>3. \A x, y \in Nat : <<y, x>> \in OpToRel(<, Nat) <=> y < x
  BY DEF OpToRel
<1>4. PICK x \in T : \A y \in T : ~ (<<y, x>> \in OpToRel(<, Nat))
  BY <1>2
<1>5. ASSUME NEW y \in T PROVE x <= y
  <2>1. ~ (y < x)
    BY <1>3, <1>4
  <2> QED BY <2>1
<1> QED BY <1>5

LEMMA Counting ==
  ASSUME NEW S, 0 \in S, \A n \in Nat : n \in S => n + 1 \in S
  PROVE  Nat \subseteq S
<1>1. SUFFICES ASSUME Nat \ S # {} PROVE FALSE
  OBVIOUS
<1>2. PICK x \in Nat \ S : \A y \in Nat \ S : x <= y
  BY <1>1, LeastElement
<1>3. x # 0 /\ x - 1 \in Nat
  BY <1>2
<1>4. x - 1 \in S
  BY <1>2, <1>3
<1> QED BY <1>2, <1>3, <1>4

(* A set of numbers below a bound has a largest one.                       *)
LEMMA GreatestElement ==
  ASSUME NEW N \in Nat, NEW T, T \subseteq 0..N, T # {}
  PROVE  \E x \in T : \A y \in T : y <= x
<1> DEFINE U == {N - x : x \in T}
<1>1. U \subseteq Nat /\ U # {}
  <2>1. \A x \in T : N - x \in Nat
    OBVIOUS
  <2> QED BY <2>1
<1>2. PICK u \in U : \A v \in U : u <= v
  BY <1>1, LeastElement
<1>3. PICK x \in T : u = N - x
  BY <1>2
<1>4. ASSUME NEW y \in T PROVE y <= x
  <2>1. N - x <= N - y
    BY <1>2, <1>3
  <2> QED BY <2>1
<1> QED BY <1>4

Follows(f, T, t, N, step) ==
  /\ f \in [0..N -> T]
  /\ \A n \in 0..N : f[n] = IF n = 0 THEN t ELSE step[n][f[n - 1]]

LEMMA Recursion ==
  ASSUME NEW T, NEW t \in T, NEW N \in Nat, NEW step \in [1..N -> [T -> T]]
  PROVE  \E f : Follows(f, T, t, N, step)
<1> DEFINE
  Good(f, m) == \A n \in 0..m : f[n] = IF n = 0 THEN t ELSE step[n][f[n - 1]]
  S == {m \in Nat : m <= N => \E f \in [0..m -> T] : Good(f, m)}
<1>1. 0 \in S
  <2> DEFINE f == [n \in 0..0 |-> t]
  <2>1. f \in [0..0 -> T] /\ Good(f, 0)
    OBVIOUS
  <2> QED BY <2>1
<1>2. ASSUME NEW m \in Nat, m \in S PROVE m + 1 \in S
  <2>1. SUFFICES ASSUME m + 1 <= N PROVE \E f \in [0..m + 1 -> T] : Good(f, m + 1)
    OBVIOUS
  <2>2. PICK f \in [0..m -> T] : Good(f, m)
    BY <1>2, <2>1
  <2> DEFINE g == [n \in 0..m + 1 |-> IF n = m + 1 THEN step[m + 1][f[m]] ELSE f[n]]
  <2>3. step[m + 1][f[m]] \in T
    <3>1. m \in 0..m /\ m + 1 \in 1..N
      BY <2>1
    <3>2. f[m] \in T /\ step[m + 1] \in [T -> T]
      BY <2>2, <3>1
    <3> QED BY <3>2
  <2>4. g \in [0..m + 1 -> T]
    <3>1. \A n \in 0..m + 1 : n # m + 1 => n \in 0..m
      OBVIOUS
    <3> QED BY <2>2, <2>3, <3>1
  <2>5. ASSUME NEW n \in 0..m + 1 PROVE g[n] = IF n = 0 THEN t ELSE step[n][g[n - 1]]
    <3>1. CASE n = m + 1
      <4>1. g[n - 1] = f[m] /\ n # 0
        BY <3>1
      <4> QED BY <3>1, <4>1
    <3>2. CASE n \in 0..m
      <4>1. g[n] = f[n] /\ (n # 0 => g[n - 1] = f[n - 1])
        BY <3>2
      <4>2. f[n] = IF n = 0 THEN t ELSE step[n][f[n - 1]]
        BY <2>2, <3>2
      <4> QED BY <4>1, <4>2
    <3> QED BY <3>1, <3>2
  <2>6. Good(g, m + 1)
    BY <2>5
  <2> HIDE DEF g, Good
  <2> QED BY <2>4, <2>6
<1> HIDE DEF S
<1>3. N \in S
  BY <1>1, <1>2, Counting
<1> QED BY <1>3 DEF S, Follows

-------------------------------------------------------------------------------
(* What Among keeps.                                                       *)

LEMMA AmongStepwise ==
  ASSUME NEW S, NEW list \in Seq(S), NEW set
  PROVE  \E f \in [0..Len(list) -> Seq(S)] :
           /\ \A n \in 0..Len(list) :
                f[n] = IF n = 0 THEN <<>>
                       ELSE IF list[n] \in set THEN Append(f[n - 1], list[n]) ELSE f[n - 1]
           /\ Among(list, set) = f[Len(list)]
<1> DEFINE
  N == Len(list)
  step == [n \in 1..N |-> [s \in Seq(S) |-> IF list[n] \in set THEN Append(s, list[n]) ELSE s]]
  Next1(f) == [n \in 0..N |-> IF n = 0 THEN <<>>
                              ELSE IF list[n] \in set THEN Append(f[n - 1], list[n]) ELSE f[n - 1]]
<1>1. N \in Nat /\ \A n \in 1..N : list[n] \in S
  BY LenProperties
<1>2. step \in [1..N -> [Seq(S) -> Seq(S)]]
  BY <1>1, AppendProperties
<1>3. <<>> \in Seq(S)
  BY EmptySeq
<1> HIDE DEF N, step
<1>4. PICK f : Follows(f, Seq(S), <<>>, N, step)
  BY <1>1, <1>2, <1>3, Recursion
<1>5. ASSUME NEW n \in 0..N
      PROVE  f[n] = IF n = 0 THEN <<>>
                    ELSE IF list[n] \in set THEN Append(f[n - 1], list[n]) ELSE f[n - 1]
  <2>1. CASE n = 0
    BY <1>4, <2>1 DEF Follows
  <2>2. CASE n # 0
    <3>1. n \in 1..N /\ f[n - 1] \in Seq(S)
      BY <1>1, <1>4, <2>2 DEF Follows
    <3>2. f[n] = step[n][f[n - 1]]
      BY <1>4, <2>2 DEF Follows
    <3> QED BY <2>2, <3>1, <3>2 DEF step
  <2> QED BY <2>1, <2>2
<1>6. f = Next1(f)
  BY <1>4, <1>5 DEF Follows
<1> DEFINE taken == CHOOSE g : g = Next1(g)
<1>7. taken = Next1(taken)
  BY <1>6
<1>8. Among(list, set) = taken[N]
  BY DEF Among, N
<1> HIDE DEF taken
<1>9. \A n \in 0..N : taken[n] = f[n]
  <2> DEFINE Same == {n \in Nat : n \in 0..N => taken[n] = f[n]}
  <2>1. 0 \in Same
    BY <1>1, <1>5, <1>7
  <2>2. ASSUME NEW n \in Nat, n \in Same PROVE n + 1 \in Same
    <3>1. SUFFICES ASSUME n + 1 \in 0..N PROVE taken[n + 1] = f[n + 1]
      OBVIOUS
    <3>2. taken[n] = f[n]
      BY <1>1, <2>2, <3>1
    <3>3. n + 1 # 0 /\ (n + 1) - 1 = n
      OBVIOUS
    <3>4. taken[n + 1] = IF list[n + 1] \in set THEN Append(taken[n], list[n + 1]) ELSE taken[n]
      <4>1. taken[n + 1] = Next1(taken)[n + 1]
        BY <1>7
      <4> QED BY <3>1, <3>3, <4>1
    <3>5. f[n + 1] = IF list[n + 1] \in set THEN Append(f[n], list[n + 1]) ELSE f[n]
      BY <1>5, <3>1, <3>3
    <3> QED BY <3>2, <3>4, <3>5
  <2> HIDE DEF Same
  <2>3. Nat \subseteq Same
    BY <2>1, <2>2, Counting
  <2>4. \A n \in 0..N : n \in Nat
    BY <1>1
  <2> QED BY <2>3, <2>4 DEF Same
<1>10. Among(list, set) = f[N]
  <2>1. N \in 0..N
    BY <1>1
  <2> QED BY <1>8, <1>9, <2>1
<1> QED BY <1>4, <1>5, <1>10 DEF N, Follows

(* pos gives, in order, the positions in a list of what a filter has kept  *)
(* of its first n elements.                                                *)
Positions(pos, kept, list, set, n) ==
  /\ pos \in [1..Len(kept) -> 1..n]
  /\ \A i \in 1..Len(kept) : kept[i] = list[pos[i]] /\ kept[i] \in set
  /\ \A i, j \in 1..Len(kept) : i < j => pos[i] < pos[j]
  /\ \A m \in 1..n : list[m] \in set => \E i \in 1..Len(kept) : pos[i] = m

LEMMA AmongKeeps ==
  ASSUME NEW S, NEW list \in Seq(S), NEW set
  PROVE  /\ Among(list, set) \in Seq(S)
         /\ \E pos : Positions(pos, Among(list, set), list, set, Len(list))
<1> DEFINE N == Len(list)
<1>1. N \in Nat /\ \A n \in 1..N : list[n] \in S
  BY LenProperties
<1>2. PICK f \in [0..N -> Seq(S)] :
        /\ \A n \in 0..N : f[n] = IF n = 0 THEN <<>>
                                   ELSE IF list[n] \in set THEN Append(f[n - 1], list[n]) ELSE f[n - 1]
        /\ Among(list, set) = f[N]
  BY AmongStepwise, SMTT(30)
<1> HIDE DEF N
<1> DEFINE Done == {n \in Nat : n \in 0..N => \E pos : Positions(pos, f[n], list, set, n)}
<1>3. 0 \in Done
  <2>1. f[0] = <<>>
    <3>1. 0 \in 0..N
      BY <1>1
    <3> QED BY <1>2, <3>1
  <2> DEFINE pos == [i \in 1..0 |-> 0]
  <2>2. Positions(pos, <<>>, list, set, 0)
    BY DEF Positions
  <2> QED BY <2>1, <2>2
<1>4. ASSUME NEW n \in Nat, n \in Done PROVE n + 1 \in Done
  <2>1. SUFFICES ASSUME n + 1 \in 0..N PROVE \E pos : Positions(pos, f[n + 1], list, set, n + 1)
    OBVIOUS
  <2>2. PICK pos : Positions(pos, f[n], list, set, n)
    BY <1>1, <1>4, <2>1
  <2>3. f[n] \in Seq(S) /\ n + 1 \in 1..N /\ list[n + 1] \in S
    BY <1>1, <1>2, <2>1
  <2>4. f[n + 1] = IF list[n + 1] \in set THEN Append(f[n], list[n + 1]) ELSE f[n]
    <3>1. n + 1 # 0 /\ (n + 1) - 1 = n
      OBVIOUS
    <3> QED BY <1>2, <2>1, <3>1
  <2> DEFINE L == Len(f[n])
  <2>5. L \in Nat
    BY <2>3, LenProperties
  <2>6. CASE list[n + 1] \notin set
    <3>1. f[n + 1] = f[n]
      BY <2>4, <2>6
    <3>2. pos \in [1..L -> 1..n + 1]
      BY <2>2 DEF Positions
    <3>3. ASSUME NEW m \in 1..n + 1, list[m] \in set PROVE \E i \in 1..L : pos[i] = m
      <4>1. m \in 1..n
        BY <2>6, <3>3
      <4> QED BY <2>2, <3>3, <4>1 DEF Positions
    <3>4. Positions(pos, f[n + 1], list, set, n + 1)
      BY <2>2, <3>1, <3>2, <3>3 DEF Positions
    <3> QED BY <3>4
  <2>7. CASE list[n + 1] \in set
    <3> DEFINE more == [i \in 1..L + 1 |-> IF i = L + 1 THEN n + 1 ELSE pos[i]]
               kept == f[n + 1]
    <3>1. /\ Len(kept) = L + 1
          /\ \A i \in 1..L : kept[i] = f[n][i]
          /\ kept[L + 1] = list[n + 1]
      BY <2>3, <2>4, <2>7, AppendProperties
    <3> HIDE DEF kept, L
    <3>2. more \in [1..L + 1 -> 1..n + 1]
      <4>1. \A i \in 1..L : pos[i] \in 1..n
        BY <2>2 DEF Positions, L
      <4>2. \A i \in 1..L + 1 : i # L + 1 => i \in 1..L
        BY <2>5
      <4> QED BY <4>1, <4>2, <2>5
    <3>3. ASSUME NEW i \in 1..L + 1 PROVE kept[i] = list[more[i]] /\ kept[i] \in set
      <4>1. CASE i = L + 1
        BY <2>7, <3>1, <4>1
      <4>2. CASE i # L + 1
        <5>1. i \in 1..L
          BY <2>5, <4>2
        <5>2. f[n][i] = list[pos[i]] /\ f[n][i] \in set
          BY <2>2, <5>1 DEF Positions, L
        <5> QED BY <3>1, <4>2, <5>1, <5>2
      <4> QED BY <4>1, <4>2
    <3>4. ASSUME NEW i \in 1..L + 1, NEW j \in 1..L + 1, i < j PROVE more[i] < more[j]
      <4>1. i \in 1..L /\ more[i] = pos[i] /\ pos[i] \in 1..n
        BY <2>2, <2>5, <3>4 DEF Positions, L
      <4>2. CASE j = L + 1
        BY <4>1, <4>2
      <4>3. CASE j # L + 1
        <5>1. j \in 1..L /\ more[j] = pos[j]
          BY <2>5, <4>3
        <5> QED BY <2>2, <3>4, <4>1, <5>1 DEF Positions, L
      <4> QED BY <4>2, <4>3
    <3>5. ASSUME NEW m \in 1..n + 1, list[m] \in set PROVE \E i \in 1..L + 1 : more[i] = m
      <4>1. CASE m = n + 1
        <5>1. L + 1 \in 1..L + 1 /\ more[L + 1] = m
          BY <2>5, <4>1
        <5> QED BY <5>1
      <4>2. CASE m # n + 1
        <5>1. m \in 1..n
          BY <4>2
        <5>2. PICK i \in 1..L : pos[i] = m
          BY <2>2, <3>5, <5>1 DEF Positions, L
        <5>3. i \in 1..L + 1 /\ more[i] = m
          BY <2>5, <5>2
        <5> QED BY <5>3
      <4> QED BY <4>1, <4>2
    <3> HIDE DEF more
    <3>6. Positions(more, kept, list, set, n + 1)
      BY <3>1, <3>2, <3>3, <3>4, <3>5 DEF Positions
    <3> QED BY <3>6 DEF kept
  <2> QED BY <2>6, <2>7
<1> HIDE DEF Done
<1>5. Nat \subseteq Done
  BY <1>3, <1>4, Counting
<1> QED BY <1>1, <1>2, <1>5 DEF Done, N

LEMMA AmongSet ==
  ASSUME NEW S, NEW list \in Seq(S), NEW set
  PROVE  ToSet(Among(list, set)) = ToSet(list) \cap set
<1> DEFINE kept == Among(list, set)
<1>1. PICK pos : Positions(pos, kept, list, set, Len(list))
  BY AmongKeeps
<1>2. DOMAIN kept = 1..Len(kept) /\ DOMAIN list = 1..Len(list)
  BY AmongKeeps, LenProperties
<1> HIDE DEF kept
<1>3. ASSUME NEW x \in ToSet(kept) PROVE x \in ToSet(list) \cap set
  <2>1. PICK i \in 1..Len(kept) : x = kept[i]
    BY <1>2, <1>3 DEF ToSet
  <2> QED BY <1>1, <1>2, <2>1 DEF Positions, ToSet
<1>4. ASSUME NEW x \in ToSet(list), x \in set PROVE x \in ToSet(kept)
  <2>1. PICK m \in 1..Len(list) : x = list[m]
    BY <1>2 DEF ToSet
  <2>2. PICK i \in 1..Len(kept) : pos[i] = m
    BY <1>1, <1>4, <2>1 DEF Positions
  <2>3. kept[i] = list[pos[i]]
    BY <1>1 DEF Positions
  <2>4. x = kept[i]
    BY <2>1, <2>2, <2>3
  <2> QED BY <1>2, <2>4 DEF ToSet
<1> QED BY <1>3, <1>4 DEF kept

-------------------------------------------------------------------------------
(* The node table.                                                         *)

Ends == Endpoints \cup {Tone}

(* A table within the limit that gives no endpoint two nodes.              *)
IsTable(table) ==
  /\ table \in Seq(Endpoints) /\ Len(table) <= NodeCapacity
  /\ \A i, j \in 1..Len(table) : i # j => table[i] # table[j]

(* Nodes once given out stay.                                              *)
Grown(before, after) ==
  /\ Len(before) <= Len(after)
  /\ \A i \in 1..Len(before) : after[i] = before[i]

Room(E) == IsFiniteSet(E) /\ Cardinality(E) <= NodeCapacity
Found(table, e) == e = Tone \/ e \in ToSet(table)

LEMMA GrownKeeps ==
  ASSUME NEW before \in Seq(Endpoints), NEW after \in Seq(Endpoints), Grown(before, after)
  PROVE  ToSet(before) \subseteq ToSet(after)
<1>1. DOMAIN before = 1..Len(before) /\ DOMAIN after = 1..Len(after) /\ Len(before) \in Nat /\ Len(after) \in Nat
  BY LenProperties
<1> QED BY <1>1 DEF Grown, ToSet

LEMMA GrownTransitive ==
  ASSUME NEW a \in Seq(Endpoints), NEW b \in Seq(Endpoints), NEW c \in Seq(Endpoints), Grown(a, b), Grown(b, c)
  PROVE  Grown(a, c)
<1>1. Len(a) \in Nat /\ Len(b) \in Nat /\ Len(c) \in Nat
  BY LenProperties
<1> QED BY <1>1 DEF Grown

LEMMA TableSize ==
  ASSUME NEW table, IsTable(table)
  PROVE  IsFiniteSet(ToSet(table)) /\ Cardinality(ToSet(table)) = Len(table)
<1>1. Len(table) \in Nat /\ DOMAIN table = 1..Len(table) /\ table \in [1..Len(table) -> Endpoints]
  BY LenProperties DEF IsTable
<1>2. table \in Bijection(1..Len(table), ToSet(table))
  BY <1>1 DEF IsTable, ToSet, Bijection, Injection, Surjection, IsInjective
<1>3. ExistsBijection(1..Len(table), ToSet(table))
  BY <1>2 DEF ExistsBijection
<1> QED BY <1>1, <1>3, FS_CountingElements, FS_NatBijection

(* A table after an endpoint was looked up in it.                          *)
Entered(table, e, after) ==
  /\ after \in Seq(Endpoints)
  /\ Grown(table, after)
  /\ ToSet(after) \subseteq ToSet(table) \cup ({e} \ {Tone})
  /\ IsTable(table) => IsTable(after)

LEMMA RegisterKeeps ==
  ASSUME NEW table \in Seq(Endpoints), NEW e \in Ends PROVE Entered(table, e, Register(table, e))
<1> USE DEF Entered
<1>1. Len(table) \in Nat /\ DOMAIN table = 1..Len(table)
  BY LenProperties
<1>2. CASE Register(table, e) = table
  BY <1>1, <1>2 DEF Grown
<1>3. CASE Register(table, e) # table
  <2>1. /\ e # Tone /\ e \in Endpoints /\ e \notin ToSet(table) /\ ~ (Len(table) >= NodeCapacity)
        /\ Register(table, e) = Append(table, e)
    BY <1>3 DEF Register, Ends
  <2> DEFINE more == Append(table, e)
  <2>2. /\ more \in Seq(Endpoints) /\ Len(more) = Len(table) + 1
        /\ \A i \in 1..Len(table) : more[i] = table[i]
        /\ more[Len(table) + 1] = e
    BY <2>1, AppendProperties
  <2>3. DOMAIN more = 1..Len(table) + 1
    BY <2>2, LenProperties
  <2> HIDE DEF more
  <2>4. Grown(table, more)
    BY <1>1, <2>2 DEF Grown
  <2>5. \A i \in 1..Len(table) + 1 : i \in 1..Len(table) \/ i = Len(table) + 1
    BY <1>1
  <2>6. ToSet(more) \subseteq ToSet(table) \cup ({e} \ {Tone})
    BY <1>1, <2>1, <2>2, <2>3, <2>5 DEF ToSet
  <2>7. ASSUME IsTable(table) PROVE IsTable(more)
    <3>1. Len(more) <= NodeCapacity
      BY <1>1, <2>1, <2>2, ConfigAssumption DEF ConfigAssumption
    <3>2. \A i \in 1..Len(table) : table[i] # e
      BY <1>1, <2>1 DEF ToSet
    <3>3. \A i, j \in 1..Len(table) + 1 : i # j => more[i] # more[j]
      BY <2>2, <2>5, <2>7, <3>2 DEF IsTable
    <3> QED BY <2>2, <3>1, <3>3 DEF IsTable
  <2> QED BY <2>1, <2>2, <2>4, <2>6, <2>7 DEF more
<1> QED BY <1>2, <1>3

(* As long as there is room for all that is registered, nothing is refused. *)
LEMMA RegisterFinds ==
  ASSUME NEW table, IsTable(table), NEW E, Room(E), ToSet(table) \subseteq E, NEW e \in Ends, e = Tone \/ e \in E
  PROVE  Found(Register(table, e), e)
<1>1. table \in Seq(Endpoints) /\ Len(table) \in Nat
  BY LenProperties DEF IsTable
<1>2. SUFFICES ASSUME e # Tone, e \notin ToSet(table) PROVE e \in ToSet(Register(table, e))
  <2>1. e \in ToSet(table) => Register(table, e) = table
    BY DEF Register
  <2> QED BY <2>1 DEF Found
<1>3. Cardinality(ToSet(table)) < Cardinality(E)
  <2>1. Cardinality(ToSet(table)) <= Cardinality(E) /\ Cardinality(ToSet(table)) # Cardinality(E)
    BY <1>2, FS_Subset DEF Room
  <2>2. Cardinality(ToSet(table)) \in Nat /\ Cardinality(E) \in Nat
    BY <1>1, TableSize, FS_CardinalityType DEF Room
  <2> QED BY <2>1, <2>2
<1>4. ~ (Len(table) >= NodeCapacity)
  <2>1. Cardinality(ToSet(table)) = Len(table) /\ Cardinality(E) \in Nat
    BY TableSize, FS_CardinalityType DEF Room
  <2> QED BY <1>1, <1>3, <2>1, ConfigAssumption DEF Room, ConfigAssumption
<1>5. Register(table, e) = Append(table, e)
  BY <1>2, <1>4 DEF Register
<1>6. e \in Endpoints
  BY <1>2 DEF Ends
<1>7. /\ Append(table, e)[Len(table) + 1] = e
      /\ Len(table) + 1 \in DOMAIN Append(table, e)
  BY <1>1, <1>6, AppendProperties, LenProperties
<1> QED BY <1>5, <1>7 DEF ToSet

(* What is registered for a sequence of pairs: the table after it, whose   *)
(* first n pairs have been seen.                                           *)
Registers(table, after, pairs, n) ==
  /\ after \in Seq(Endpoints)
  /\ Grown(table, after)
  /\ IsTable(table) => IsTable(after)
  /\ \A E : /\ IsTable(table) /\ Room(E) /\ ToSet(table) \subseteq E
            /\ \A i \in 1..n : \A k \in 1..2 : pairs[i][k] = Tone \/ pairs[i][k] \in E
            => /\ ToSet(after) \subseteq E
               /\ \A i \in 1..n : \A k \in 1..2 : Found(after, pairs[i][k])

LEMMA RegisterPairKeeps ==
  ASSUME NEW table \in Seq(Endpoints), NEW pair, pair[1] \in Ends, pair[2] \in Ends
  PROVE  /\ RegisterPair(table, pair) \in Seq(Endpoints)
         /\ Grown(table, RegisterPair(table, pair))
         /\ IsTable(table) => IsTable(RegisterPair(table, pair))
         /\ \A E : /\ IsTable(table) /\ Room(E) /\ ToSet(table) \subseteq E
                   /\ \A k \in 1..2 : pair[k] = Tone \/ pair[k] \in E
                   => /\ ToSet(RegisterPair(table, pair)) \subseteq E
                      /\ \A k \in 1..2 : Found(RegisterPair(table, pair), pair[k])
<1> DEFINE half == Register(table, pair[1])
           both == Register(half, pair[2])
<1>0. Entered(table, pair[1], half)
  BY RegisterKeeps
<1> HIDE DEF half
<1>1. /\ half \in Seq(Endpoints) /\ Grown(table, half) /\ (IsTable(table) => IsTable(half))
      /\ ToSet(half) \subseteq ToSet(table) \cup ({pair[1]} \ {Tone})
  BY <1>0 DEF Entered
<1>2. /\ both \in Seq(Endpoints) /\ Grown(half, both) /\ (IsTable(half) => IsTable(both))
      /\ ToSet(both) \subseteq ToSet(half) \cup ({pair[2]} \ {Tone})
  <2>1. Entered(half, pair[2], both)
    BY <1>1, RegisterKeeps
  <2> QED BY <2>1 DEF Entered
<1> HIDE DEF both
<1>3. Grown(table, both)
  BY <1>1, <1>2, GrownTransitive
<1>4. ASSUME NEW E, IsTable(table), Room(E), ToSet(table) \subseteq E,
             \A k \in 1..2 : pair[k] = Tone \/ pair[k] \in E
      PROVE  ToSet(both) \subseteq E /\ \A k \in 1..2 : Found(both, pair[k])
  <2>1. (pair[1] = Tone \/ pair[1] \in E) /\ (pair[2] = Tone \/ pair[2] \in E)
    BY <1>4
  <2>2. ToSet(half) \subseteq E /\ ToSet(both) \subseteq E
    BY <1>1, <1>2, <1>4, <2>1
  <2>3. Found(half, pair[1])
    BY <1>4, <2>1, RegisterFinds DEF half
  <2>4. Found(both, pair[2])
    BY <1>1, <1>4, <2>1, <2>2, RegisterFinds DEF both
  <2>5. Found(both, pair[1])
    BY <1>1, <1>2, <2>3, GrownKeeps DEF Found
  <2>6. \A k \in 1..2 : k = 1 \/ k = 2
    OBVIOUS
  <2> QED BY <2>2, <2>4, <2>5, <2>6
<1>5. RegisterPair(table, pair) = both
  BY DEF RegisterPair, both, half
<1> QED BY <1>1, <1>2, <1>3, <1>4, <1>5

LEMMA RegisterPairsStepwise ==
  ASSUME NEW table \in Seq(Endpoints), NEW pairs \in Seq(Ends \X Ends)
  PROVE  \E f \in [0..Len(pairs) -> Seq(Endpoints)] :
           /\ \A n \in 0..Len(pairs) : f[n] = IF n = 0 THEN table ELSE RegisterPair(f[n - 1], pairs[n])
           /\ RegisterPairs(table, pairs) = f[Len(pairs)]
<1> DEFINE
  N == Len(pairs)
  step == [n \in 1..N |-> [s \in Seq(Endpoints) |-> RegisterPair(s, pairs[n])]]
  Next1(f) == [n \in 0..N |-> IF n = 0 THEN table ELSE RegisterPair(f[n - 1], pairs[n])]
<1>1. N \in Nat /\ \A n \in 1..N : pairs[n][1] \in Ends /\ pairs[n][2] \in Ends
  <2>1. N \in Nat /\ \A n \in 1..N : pairs[n] \in Ends \X Ends
    BY LenProperties
  <2> QED BY <2>1
<1> HIDE DEF N
<1>2. step \in [1..N -> [Seq(Endpoints) -> Seq(Endpoints)]]
  BY <1>1, RegisterPairKeeps
<1> HIDE DEF step
<1>3. PICK f : Follows(f, Seq(Endpoints), table, N, step)
  BY <1>1, <1>2, Recursion
<1>4. f \in [0..N -> Seq(Endpoints)]
  BY <1>3 DEF Follows
<1>5. ASSUME NEW n \in 0..N PROVE f[n] = IF n = 0 THEN table ELSE RegisterPair(f[n - 1], pairs[n])
  <2>1. CASE n = 0
    BY <1>3, <2>1 DEF Follows
  <2>2. CASE n # 0
    <3>1. n \in 1..N /\ f[n - 1] \in Seq(Endpoints)
      BY <1>1, <1>4, <2>2
    <3>2. f[n] = step[n][f[n - 1]]
      BY <1>3, <2>2 DEF Follows
    <3> QED BY <2>2, <3>1, <3>2 DEF step
  <2> QED BY <2>1, <2>2
<1>6. f = Next1(f)
  BY <1>4, <1>5
<1> DEFINE after == CHOOSE g : g = Next1(g)
<1>7. after = Next1(after)
  BY <1>6
<1>8. RegisterPairs(table, pairs) = after[N]
  BY DEF RegisterPairs, N
<1> HIDE DEF after
<1>9. \A n \in 0..N : after[n] = f[n]
  <2> DEFINE Same == {n \in Nat : n \in 0..N => after[n] = f[n]}
  <2>1. 0 \in Same
    BY <1>1, <1>5, <1>7
  <2>2. ASSUME NEW n \in Nat, n \in Same PROVE n + 1 \in Same
    <3>1. SUFFICES ASSUME n + 1 \in 0..N PROVE after[n + 1] = f[n + 1]
      OBVIOUS
    <3>2. after[n] = f[n]
      BY <1>1, <2>2, <3>1
    <3>3. n + 1 # 0 /\ (n + 1) - 1 = n
      OBVIOUS
    <3>4. after[n + 1] = RegisterPair(after[n], pairs[n + 1])
      <4>1. after[n + 1] = Next1(after)[n + 1]
        BY <1>7
      <4> QED BY <3>1, <3>3, <4>1
    <3>5. f[n + 1] = RegisterPair(f[n], pairs[n + 1])
      BY <1>5, <3>1, <3>3
    <3> QED BY <3>2, <3>4, <3>5
  <2> HIDE DEF Same
  <2>3. Nat \subseteq Same
    BY <2>1, <2>2, Counting
  <2>4. \A n \in 0..N : n \in Nat
    BY <1>1
  <2> QED BY <2>3, <2>4 DEF Same
<1>10. RegisterPairs(table, pairs) = f[N]
  <2>1. N \in 0..N
    BY <1>1
  <2> QED BY <1>8, <1>9, <2>1
<1> QED BY <1>4, <1>5, <1>10 DEF N

LEMMA RegisterPairsKeeps ==
  ASSUME NEW table \in Seq(Endpoints), NEW pairs \in Seq(Ends \X Ends)
  PROVE  Registers(table, RegisterPairs(table, pairs), pairs, Len(pairs))
<1> DEFINE N == Len(pairs)
<1>1. N \in Nat /\ \A n \in 1..N : pairs[n][1] \in Ends /\ pairs[n][2] \in Ends
  <2>1. N \in Nat /\ \A n \in 1..N : pairs[n] \in Ends \X Ends
    BY LenProperties
  <2> QED BY <2>1
<1>2. PICK f \in [0..N -> Seq(Endpoints)] :
        /\ \A n \in 0..N : f[n] = IF n = 0 THEN table ELSE RegisterPair(f[n - 1], pairs[n])
        /\ RegisterPairs(table, pairs) = f[N]
  BY RegisterPairsStepwise
<1> HIDE DEF N
<1> DEFINE Done == {n \in Nat : n \in 0..N => Registers(table, f[n], pairs, n)}
<1>3. 0 \in Done
  <2>1. f[0] = table
    BY <1>1, <1>2
  <2>2. Registers(table, table, pairs, 0)
    BY LenProperties DEF Registers, Grown
  <2> QED BY <2>1, <2>2
<1>4. ASSUME NEW n \in Nat, n \in Done PROVE n + 1 \in Done
  <2>1. SUFFICES ASSUME n + 1 \in 0..N PROVE Registers(table, f[n + 1], pairs, n + 1)
    OBVIOUS
  <2>2. Registers(table, f[n], pairs, n)
    BY <1>1, <1>4, <2>1
  <2>3. n + 1 # 0 /\ (n + 1) - 1 = n /\ n + 1 \in 1..N
    BY <2>1
  <2>4. f[n + 1] = RegisterPair(f[n], pairs[n + 1])
    BY <1>2, <2>1, <2>3
  <2> DEFINE before == f[n]
             after == f[n + 1]
             pair == pairs[n + 1]
  <2>5. /\ before \in Seq(Endpoints) /\ pair[1] \in Ends /\ pair[2] \in Ends
        /\ Grown(table, before) /\ (IsTable(table) => IsTable(before))
    BY <1>1, <2>2, <2>3 DEF Registers
  <2>6. after = RegisterPair(before, pair)
    BY <2>4
  <2> HIDE DEF before, after, pair
  <2>7. /\ after \in Seq(Endpoints) /\ Grown(before, after) /\ (IsTable(before) => IsTable(after))
        /\ \A E : /\ IsTable(before) /\ Room(E) /\ ToSet(before) \subseteq E
                  /\ \A k \in 1..2 : pair[k] = Tone \/ pair[k] \in E
                  => ToSet(after) \subseteq E /\ \A k \in 1..2 : Found(after, pair[k])
    BY <2>5, <2>6, RegisterPairKeeps
  <2>8. Grown(table, after)
    BY <2>5, <2>7, GrownTransitive
  <2>9. ASSUME NEW E, IsTable(table), Room(E), ToSet(table) \subseteq E,
               \A i \in 1..n + 1 : \A k \in 1..2 : pairs[i][k] = Tone \/ pairs[i][k] \in E
        PROVE  ToSet(after) \subseteq E /\ \A i \in 1..n + 1 : \A k \in 1..2 : Found(after, pairs[i][k])
    <3>1. \A i \in 1..n : i \in 1..n + 1
      OBVIOUS
    <3>2. ToSet(before) \subseteq E /\ \A i \in 1..n : \A k \in 1..2 : Found(before, pairs[i][k])
      BY <2>2, <2>9, <3>1 DEF Registers, before
    <3>3. n + 1 \in 1..n + 1
      OBVIOUS
    <3>4. \A k \in 1..2 : pair[k] = Tone \/ pair[k] \in E
      BY <2>9, <3>3 DEF pair
    <3>5. ToSet(after) \subseteq E /\ \A k \in 1..2 : Found(after, pair[k])
      BY <2>5, <2>7, <2>9, <3>2, <3>4
    <3>6. ToSet(before) \subseteq ToSet(after)
      BY <2>5, <2>7, GrownKeeps
    <3>7. ASSUME NEW i \in 1..n + 1, NEW k \in 1..2 PROVE Found(after, pairs[i][k])
      <4>1. CASE i = n + 1
        BY <3>5, <4>1 DEF pair
      <4>2. CASE i \in 1..n
        BY <3>2, <3>6, <4>2 DEF Found
      <4> QED BY <4>1, <4>2
    <3> QED BY <3>5, <3>7
  <2>10. Registers(table, after, pairs, n + 1)
    BY <2>5, <2>7, <2>8, <2>9 DEF Registers
  <2> QED BY <2>10 DEF after
<1> HIDE DEF Done
<1>5. Nat \subseteq Done
  BY <1>3, <1>4, Counting
<1> QED BY <1>1, <1>2, <1>5 DEF Done, N
-------------------------------------------------------------------------------
(* The invariant.                                                          *)

(* The slot of a route holds what the cache says of it.                    *)
Match(id) == IF Supported(id) THEN engine[id] = Publication(cache[id]) ELSE ~cache[id].active

(* Ids that are in the list or may still be given out: what remains in the *)
(* slots of all others is never heard again.                               *)
Live(id) == Exists(id) \/ (id >= next_route_id /\ id # MaxRouteId)

SlotsInv == \A id \in Ids : Live(id) /\ ~ (pc = "store" /\ job.route = id) => Match(id)

RouteIdsInv ==
  /\ \A i \in DOMAIN routes : routes[i].id < next_route_id \/ routes[i].id = MaxRouteId
  /\ \A i, j \in DOMAIN routes : i # j => routes[i].id # routes[j].id

JobInv ==
  /\ pc = "store" <=> cacheLock = "post"
  /\ pc \in {"publish", "store"} => job.route \in Ids /\ Supported(job.route)
  /\ pc = "store" => engine[job.route] = Publication(job.dsp)
  /\ pc = "erase" => job.route \in Ids /\ ~Live(job.route)

GetInv == get.pc = "answer" => cacheLock = "get" /\ get.route \in Ids /\ engine[get.route] = Publication(get.dsp)

OwnersInv ==
  /\ IsTable(nodes)
  /\ \A k \in connected \ Provisional : Registered(nodes, k)
  /\ \A d \in ToSet(activated) : Registered(nodes, d)

ConfigInv == TypeOK /\ SlotsInv /\ RouteIdsInv /\ JobInv /\ GetInv /\ OwnersInv /\ Writable(file)

-------------------------------------------------------------------------------
(* What load_settings makes of a file.                                     *)

LEMMA SmallestIndex ==
  ASSUME NEW N, NEW T, T \subseteq 1..N, T # {}, N \in Nat
  PROVE  Min(T) \in T /\ \A y \in T : Min(T) <= y
<1>1. T \subseteq Nat
  OBVIOUS
<1>2. \E x \in T : \A y \in T : x <= y
  BY <1>1, LeastElement
<1> QED BY <1>2 DEF Min

LEMMA LargestIndex ==
  ASSUME NEW N, NEW T, T \subseteq 1..N, T # {}, N \in Nat
  PROVE  Max(T) \in T /\ \A y \in T : y <= Max(T)
<1>1. T \subseteq 0..N
  OBVIOUS
<1>2. \E x \in T : \A y \in T : y <= x
  BY <1>1, GreatestElement
<1>3. \E x \in T : \A y \in T : x >= y
  BY <1>1, <1>2
<1>4. Max(T) \in T /\ \A y \in T : Max(T) >= y
  BY <1>3 DEF Max
<1> QED BY <1>1, <1>4

LEMMA ReachedKeeps ==
  ASSUME NEW saved \in Seq(SavedRoutes)
  PROVE  /\ Reached(saved) \in Seq(SavedRoutes)
         /\ ToSet(Reached(saved)) \subseteq ToSet(saved)
         /\ (\A r \in ToSet(saved) : r.form # "type") => Reached(saved) = saved
<1> DEFINE N == Len(saved)
           T == {i \in 1..N : saved[i].form = "type"}
           fault == IF T # {} THEN Min(T) ELSE 0
<1>1. N \in Nat /\ DOMAIN saved = 1..N /\ \A i \in 1..N : saved[i] \in SavedRoutes
  BY LenProperties
<1>2. Reached(saved) = IF fault = 0 THEN saved ELSE SubSeq(saved, 1, fault)
  BY DEF Reached, SelectInSeq
<1>3. CASE T = {}
  BY <1>2, <1>3
<1>4. CASE T # {}
  <2>1. fault \in 1..N /\ saved[fault].form = "type"
    <3>1. T \subseteq 1..N
      OBVIOUS
    <3>2. Min(T) \in T
      BY <1>1, <1>4, <3>1, SmallestIndex
    <3> QED BY <1>4, <3>2
  <2> HIDE DEF fault
  <2>2. /\ SubSeq(saved, 1, fault) \in Seq(SavedRoutes)
        /\ Len(SubSeq(saved, 1, fault)) = fault
        /\ \A i \in 1..fault : SubSeq(saved, 1, fault)[i] = saved[i]
    <3>1. \A i \in 1..fault : saved[i] \in SavedRoutes
      BY <1>1, <2>1
    <3>2. 1 \in Int /\ fault \in Int /\ 1 <= fault
      BY <1>1, <2>1
    <3>3. /\ SubSeq(saved, 1, fault) \in Seq(SavedRoutes)
          /\ Len(SubSeq(saved, 1, fault)) = IF 1 <= fault THEN fault - 1 + 1 ELSE 0
          /\ \A i \in 1..fault - 1 + 1 : SubSeq(saved, 1, fault)[i] = saved[1 + i - 1]
      BY <3>1, <3>2, SubSeqProperties
    <3>4. fault - 1 + 1 = fault /\ \A i \in 1..fault : 1 + i - 1 = i
      BY <3>2
    <3> QED BY <3>2, <3>3, <3>4
  <2>3. DOMAIN SubSeq(saved, 1, fault) = 1..fault
    BY <2>2, LenProperties
  <2>4. ToSet(SubSeq(saved, 1, fault)) \subseteq ToSet(saved)
    BY <1>1, <2>1, <2>2, <2>3 DEF ToSet
  <2>5. saved[fault] \in ToSet(saved)
    BY <1>1, <2>1 DEF ToSet
  <2>6. Reached(saved) = SubSeq(saved, 1, fault)
    BY <1>1, <1>2, <2>1
  <2> QED BY <2>1, <2>2, <2>4, <2>5, <2>6
<1> QED BY <1>3, <1>4

LEMMA NodeInFinds ==
  ASSUME NEW table \in Seq(Endpoints), NEW e
  PROVE  /\ NodeIn(table, e) \in 0..Len(table)
         /\ Found(table, e) /\ e # Tone => NodeIn(table, e) # 0 /\ table[NodeIn(table, e)] = e
         /\ e = Tone => NodeIn(table, e) = 0
<1> DEFINE N == Len(table)
           T == {i \in 1..N : table[i] = e}
<1>1. N \in Nat /\ DOMAIN table = 1..N
  BY LenProperties
<1>2. NodeIn(table, e) = IF e = Tone THEN 0 ELSE IF T # {} THEN Min(T) ELSE 0
  BY DEF NodeIn, SelectInSeq
<1>3. T # {} => Min(T) \in T
  BY <1>1, SmallestIndex
<1>4. Found(table, e) /\ e # Tone => T # {}
  BY <1>1 DEF Found, ToSet
<1> QED BY <1>1, <1>2, <1>3, <1>4

LEMMA NextIdIsLarger ==
  ASSUME NEW saved \in Seq(SavedRoutes)
  PROVE  /\ NextId(saved) \in Ids
         /\ \A r \in ToSet(saved) : r.id < NextId(saved) \/ r.id = MaxRouteId
<1> DEFINE after == {1} \cup {IF r.id = MaxRouteId THEN MaxRouteId ELSE r.id + 1 : r \in ToSet(saved)}
<1>1. MaxRouteId \in Nat /\ MaxRouteId # 0
  BY ConfigAssumption DEF ConfigAssumption
<1>2. \A r \in ToSet(saved) : r.id \in 1..MaxRouteId
  <2>1. \A i \in DOMAIN saved : saved[i] \in SavedRoutes
    BY LenProperties
  <2> QED BY <2>1 DEF ToSet, SavedRoutes, Ids
<1>3. after \subseteq 1..MaxRouteId /\ after # {}
  BY <1>1, <1>2
<1>4. after \subseteq 0..MaxRouteId
  BY <1>3
<1> HIDE DEF after
<1>5. \E n \in after : \A m \in after : m <= n
  BY <1>1, <1>3, <1>4, GreatestElement
<1>6. NextId(saved) = CHOOSE n \in after : \A m \in after : m <= n
  BY DEF NextId, after
<1>7. NextId(saved) \in after /\ \A m \in after : m <= NextId(saved)
  BY <1>5, <1>6
<1>8. ASSUME NEW r \in ToSet(saved), r.id # MaxRouteId PROVE r.id < NextId(saved)
  <2>1. r.id + 1 \in after
    BY <1>8 DEF after
  <2>2. r.id \in Int
    BY <1>2
  <2>3. NextId(saved) \in Int
    <3>1. NextId(saved) \in 1..MaxRouteId
      BY <1>3, <1>7
    <3> QED BY <3>1
  <2>4. r.id + 1 <= NextId(saved)
    BY <1>7, <2>1
  <2> QED BY <2>2, <2>3, <2>4
<1> QED BY <1>3, <1>7, <1>8 DEF Ids

LEMMA LoadedTableKeeps ==
  ASSUME NEW f \in Files
  PROVE  /\ IsTable(LoadedTable(f))
         /\ Writable(f) =>
              /\ \A d \in ToSet(f.devices) : Registered(LoadedTable(f), d)
              /\ \A r \in ToSet(Reached(f.routes)) :
                   r.form # "id" => Found(LoadedTable(f), r.source) /\ Found(LoadedTable(f), r.destination)
<1> DEFINE
  devices == [i \in DOMAIN f.devices |-> Pair(f.devices[i])]
  naming == {r \in ToSet(f.routes) : r.form # "id"}
  named == Among(Reached(f.routes), naming)
  ends == EndsOf(named)
  first == RegisterPairs(<<>>, devices)
  table == RegisterPairs(first, ends)
<1>1. /\ f.devices \in Seq(Devices) /\ f.routes \in Seq(SavedRoutes)
      /\ Len(f.devices) \in Nat /\ DOMAIN f.devices = 1..Len(f.devices)
      /\ \A i \in 1..Len(f.devices) : f.devices[i] \in Devices
  <2>1. f.devices \in Seq(Devices) /\ f.routes \in Seq(SavedRoutes)
    BY DEF Files
  <2> QED BY <2>1, LenProperties
<1>2. devices \in Seq(Ends \X Ends) /\ Len(devices) = Len(f.devices)
  <2>1. \A d \in Devices : Pair(d) \in Ends \X Ends
    BY DEF Pair, Ends, Endpoints, Owners
  <2>2. devices \in [1..Len(f.devices) -> Ends \X Ends]
    BY <1>1, <2>1
  <2>3. \A i \in 1..Len(f.devices) : Pair(f.devices[i]) \in Ends \X Ends
    BY <1>1, <2>1
  <2>4. devices = [i \in 1..Len(f.devices) |-> Pair(f.devices[i])]
    BY <1>1
  <2> QED BY <1>1, <2>2, <2>3, <2>4
<1>3. /\ Reached(f.routes) \in Seq(SavedRoutes) /\ ToSet(Reached(f.routes)) \subseteq ToSet(f.routes)
  BY <1>1, ReachedKeeps
<1>4. /\ named \in Seq(SavedRoutes) /\ ToSet(named) = ToSet(Reached(f.routes)) \cap naming
  BY <1>3, AmongKeeps, AmongSet
<1> HIDE DEF named
<1>5. /\ Len(named) \in Nat /\ DOMAIN named = 1..Len(named)
      /\ \A i \in 1..Len(named) : named[i] \in SavedRoutes
  BY <1>4, LenProperties
<1>6. ends \in Seq(Ends \X Ends) /\ Len(ends) = Len(named)
  <2>1. \A r \in SavedRoutes : <<r.source, r.destination>> \in Ends \X Ends
    BY DEF SavedRoutes, Ends
  <2>2. ends = [i \in 1..Len(named) |-> <<named[i].source, named[i].destination>>]
    BY <1>5 DEF EndsOf
  <2>3. ends \in [1..Len(named) -> Ends \X Ends]
    BY <1>5, <2>1, <2>2
  <2> QED BY <1>5, <2>2, <2>3
<1>7. \A i \in 1..Len(named) : ends[i] = <<named[i].source, named[i].destination>>
  BY <1>5 DEF EndsOf
<1>8. \A i \in 1..Len(f.devices) : devices[i] = Pair(f.devices[i])
  BY <1>1
<1> HIDE DEF devices, ends, naming
<1>9. <<>> \in Seq(Endpoints) /\ IsTable(<<>>) /\ ToSet(<<>>) = {}
  <2>1. <<>> \in Seq(Endpoints) /\ Len(<<>>) = 0
    BY EmptySeq
  <2>2. NodeCapacity >= 0
    BY ConfigAssumption DEF ConfigAssumption
  <2> QED BY <2>1, <2>2 DEF IsTable, ToSet
<1>10. Registers(<<>>, first, devices, Len(devices))
  BY <1>2, <1>9, RegisterPairsKeeps
<1>11. first \in Seq(Endpoints) /\ IsTable(first)
  BY <1>9, <1>10 DEF Registers
<1> HIDE DEF first
<1>12. Registers(first, table, ends, Len(ends))
  BY <1>6, <1>11, RegisterPairsKeeps
<1>13. table \in Seq(Endpoints) /\ IsTable(table) /\ Grown(first, table)
  BY <1>11, <1>12 DEF Registers
<1>14. LoadedTable(f) = table
  BY DEF LoadedTable, table, first, devices, ends, named, naming
<1> HIDE DEF table
<1>15. ASSUME Writable(f)
       PROVE  /\ \A d \in ToSet(f.devices) : Registered(table, d)
              /\ \A r \in ToSet(Reached(f.routes)) :
                   r.form # "id" => Found(table, r.source) /\ Found(table, r.destination)
  <2> DEFINE E == EndpointsIn(f)
  <2>1. Room(E)
    BY <1>15 DEF Writable, Room
  <2>2. \A i \in 1..Len(devices) : \A k \in 1..2 : devices[i][k] \in E \/ devices[i][k] = Tone
    <3>1. ASSUME NEW i \in 1..Len(devices), NEW k \in 1..2
          PROVE  devices[i][k] \in E \/ devices[i][k] = Tone
      <4>1. devices[i] = Pair(f.devices[i]) /\ f.devices[i] \in ToSet(f.devices)
        BY <1>1, <1>2, <1>8 DEF ToSet
      <4>2. \A d : Pair(d)[k] \in ToSet(Pair(d))
        BY DEF Pair, ToSet
      <4>3. devices[i][k] \in Ends
        BY <1>2, LenProperties DEF Ends
      <4> QED BY <4>1, <4>2, <4>3 DEF EndpointsIn, Ends
    <3> QED BY <3>1
  <2>3. ToSet(first) \subseteq E /\ \A i \in 1..Len(devices) : \A k \in 1..2 : Found(first, devices[i][k])
    BY <1>9, <1>10, <2>1, <2>2 DEF Registers
  <2>4. ASSUME NEW i \in 1..Len(ends), NEW k \in 1..2 PROVE ends[i][k] = Tone \/ ends[i][k] \in E
    <3>1. ends[i] = <<named[i].source, named[i].destination>> /\ named[i] \in ToSet(named)
      BY <1>5, <1>6, <1>7 DEF ToSet
    <3>2. named[i] \in ToSet(f.routes) /\ named[i].form # "id"
      BY <1>3, <1>4, <3>1 DEF naming
    <3>3. ends[i][k] \in {named[i].source, named[i].destination}
      BY <3>1
    <3>4. ends[i][k] \in Ends
      BY <1>5, <1>6, <3>1, <3>3 DEF SavedRoutes, Ends
    <3> QED BY <3>2, <3>3, <3>4 DEF EndpointsIn, Ends
  <2> HIDE DEF E
  <2>5. \A i \in 1..Len(ends) : \A k \in 1..2 : Found(table, ends[i][k])
    BY <1>11, <1>12, <2>1, <2>3, <2>4 DEF Registers
  <2>6. ASSUME NEW d \in ToSet(f.devices) PROVE Registered(table, d)
    <3>1. PICK i \in 1..Len(devices) : f.devices[i] = d
      BY <1>1, <1>2 DEF ToSet
    <3>2. \A k \in 1..2 : Found(first, Pair(d)[k])
      BY <1>2, <1>8, <2>3, <3>1
    <3>3. ToSet(first) \subseteq ToSet(table)
      BY <1>11, <1>13, GrownKeeps
    <3>4. d \in Devices
      BY <1>1, <1>2, <3>1
    <3>5. Pair(d)[1] # Tone /\ Pair(d)[2] # Tone
      BY <3>4, ConfigAssumption DEF ConfigAssumption, Pair, Tone
    <3>6. \A k \in 1..2 : k = 1 \/ k = 2
      OBVIOUS
    <3> QED BY <3>2, <3>3, <3>5, <3>6 DEF Found, Registered
  <2>7. ASSUME NEW r \in ToSet(Reached(f.routes)), r.form # "id"
        PROVE  Found(table, r.source) /\ Found(table, r.destination)
    <3>1. r \in ToSet(named)
      BY <1>3, <1>4, <2>7 DEF naming
    <3>2. PICK i \in 1..Len(ends) : named[i] = r
      BY <1>5, <1>6, <3>1 DEF ToSet
    <3>3. ends[i][1] = r.source /\ ends[i][2] = r.destination
      BY <1>6, <1>7, <3>2
    <3>4. 1 \in 1..2 /\ 2 \in 1..2
      OBVIOUS
    <3> QED BY <2>5, <3>2, <3>3, <3>4
  <2> QED BY <2>6, <2>7
<1> QED BY <1>13, <1>14, <1>15

LEMMA LoadedRoutesKeep ==
  ASSUME NEW f \in Files, NEW table
  PROVE  /\ LoadedRoutes(f, table) \in Seq(SavedRoutes)
         /\ \A r \in ToSet(LoadedRoutes(f, table)) : /\ r \in ToSet(f.routes) /\ r.form = "valid"
                                                     /\ Found(table, r.source) /\ Found(table, r.destination)
<1> DEFINE set == {r \in ToSet(f.routes) : /\ r.form = "valid"
                                           /\ {r.source, r.destination} \subseteq ToSet(table) \cup {Tone}}
<1>1. f.routes \in Seq(SavedRoutes)
  BY DEF Files
<1>2. Reached(f.routes) \in Seq(SavedRoutes)
  BY <1>1, ReachedKeeps
<1>3. LoadedRoutes(f, table) = Among(Reached(f.routes), set)
  BY DEF LoadedRoutes
<1>4. \A r \in set : /\ r \in ToSet(f.routes) /\ r.form = "valid"
                     /\ Found(table, r.source) /\ Found(table, r.destination)
  BY DEF Found
<1> HIDE DEF set
<1> QED BY <1>2, <1>3, <1>4, AmongKeeps, AmongSet

(* Whatever was loaded, slot and cache agree for every id: also for those  *)
(* that no route has.                                                      *)
LEMMA LoadDspMatches ==
  ASSUME NEW kept \in Seq(SavedRoutes), LoadDsp(kept)
  PROVE  /\ cache' \in [Ids -> DspStates] /\ engine' \in [Ids -> [active : BOOLEAN, chain : Chains]]
         /\ \A id \in Ids : Match(id)'
<1> DEFINE T(id) == {i \in 1..Len(kept) : kept[i].id = id /\ kept[i].dsp.set}
           last(id) == IF T(id) # {} THEN Max(T(id)) ELSE 0
<1>1. Len(kept) \in Nat /\ \A i \in 1..Len(kept) : kept[i] \in SavedRoutes
  BY LenProperties
<1>2. /\ cache' = [id \in Ids |-> IF last(id) = 0 THEN NoDsp ELSE RestoredDsp(id, kept[last(id)].dsp)]
      /\ engine' = [id \in Ids |-> IF Supported(id) /\ cache'[id].set
                                     THEN Publication(cache'[id]) ELSE Playing(FALSE, Empty)]
  BY DEF LoadDsp, SelectLastInSeq
<1>3. ASSUME NEW id \in Ids
      PROVE  last(id) = 0 \/ (last(id) \in 1..Len(kept) /\ kept[last(id)].dsp.set)
  <2>1. T(id) \subseteq 1..Len(kept)
    OBVIOUS
  <2>2. T(id) # {} => Max(T(id)) \in T(id)
    BY <1>1, <2>1, LargestIndex
  <2> QED BY <2>2
<1> HIDE DEF last
<1>4. Empty \in Chains
  BY ConfigAssumption DEF ConfigAssumption
<1>5. ASSUME NEW id \in Ids
      PROVE  /\ cache'[id] \in DspStates
             /\ ~cache'[id].set => cache'[id] = NoDsp
             /\ ~Supported(id) => ~cache'[id].active
  <2>1. CASE last(id) = 0
    BY <1>2, <1>4, <2>1 DEF NoDsp, DspStates
  <2>2. CASE last(id) # 0
    <3> DEFINE dsp == kept[last(id)].dsp
    <3>1. dsp \in [set : BOOLEAN, active : BOOLEAN, chain : Chains] /\ dsp.set
      BY <1>1, <1>3, <2>2 DEF SavedRoutes, SavedDsps
    <3>2. cache'[id] = RestoredDsp(id, dsp)
      BY <1>2, <2>2
    <3> HIDE DEF dsp
    <3>3. cache'[id] = IF Supported(id) /\ dsp.chain \in registry'
                         THEN Dsp(dsp.active, dsp.chain, FALSE) ELSE Dsp(FALSE, dsp.chain, TRUE)
      BY <3>1, <3>2 DEF RestoredDsp
    <3> QED BY <3>1, <3>3 DEF Dsp, DspStates
  <2> QED BY <2>1, <2>2
<1>6. ASSUME NEW id \in Ids PROVE engine'[id] \in [active : BOOLEAN, chain : Chains]
  BY <1>2, <1>4, <1>5 DEF Publication, Playing, DspStates
<1>7. cache' \in [Ids -> DspStates] /\ engine' \in [Ids -> [active : BOOLEAN, chain : Chains]]
  BY <1>2, <1>5, <1>6
<1>8. ASSUME NEW id \in Ids PROVE Match(id)'
  <2>1. CASE ~Supported(id)
    BY <1>5, <2>1 DEF Match
  <2>2. CASE Supported(id) /\ cache'[id].set
    BY <1>2, <2>2 DEF Match
  <2>3. CASE Supported(id) /\ ~cache'[id].set
    <3>1. cache'[id] = NoDsp /\ engine'[id] = Playing(FALSE, Empty)
      BY <1>2, <1>5, <2>3
    <3>2. Publication(NoDsp) = Playing(FALSE, Empty)
      BY DEF NoDsp, Publication, Playing
    <3> QED BY <2>3, <3>1, <3>2 DEF Match
  <2> QED BY <2>1, <2>2, <2>3
<1> QED BY <1>7, <1>8

LEMMA LoadRoutesKeeps ==
  ASSUME NEW kept \in Seq(SavedRoutes), NEW table \in Seq(Endpoints), LoadRoutes(kept, table), nodes' = table
  PROVE  /\ routes' \in Seq([id : Ids, src : Nat, dst : Nat, level : Levels])
         /\ \A r \in ToSet(routes') : r.src \in NodesNow' /\ r.dst \in NodesNow'
         /\ next_route_id' \in Ids
         /\ (\A i, j \in DOMAIN kept : i # j => kept[i].id # kept[j].id) => RouteIdsInv'
<1>1. /\ Len(kept) \in Nat /\ DOMAIN kept = 1..Len(kept)
      /\ \A i \in 1..Len(kept) : kept[i] \in SavedRoutes
  BY LenProperties
<1>2. Len(table) \in Nat
  BY LenProperties
<1> DEFINE Entry(i) == [id |-> kept[i].id, src |-> NodeIn(table, kept[i].source),
                        dst |-> NodeIn(table, kept[i].destination), level |-> kept[i].level]
<1>3. routes' = [i \in 1..Len(kept) |-> Entry(i)] /\ next_route_id' = NextId(kept)
  BY <1>1 DEF LoadRoutes
<1>4. ASSUME NEW i \in 1..Len(kept)
      PROVE  /\ Entry(i) \in [id : Ids, src : Nat, dst : Nat, level : Levels]
             /\ Entry(i).src \in 0..Len(table) /\ Entry(i).dst \in 0..Len(table)
  <2>1. kept[i].id \in Ids /\ kept[i].level \in Levels
    BY <1>1 DEF SavedRoutes
  <2>2. NodeIn(table, kept[i].source) \in 0..Len(table) /\ NodeIn(table, kept[i].destination) \in 0..Len(table)
    BY NodeInFinds
  <2> QED BY <1>2, <2>1, <2>2
<1> HIDE DEF Entry
<1>5. routes' \in Seq([id : Ids, src : Nat, dst : Nat, level : Levels]) /\ DOMAIN routes' = 1..Len(kept)
  BY <1>1, <1>3, <1>4
<1>6. \A r \in ToSet(routes') : r.src \in NodesNow' /\ r.dst \in NodesNow'
  BY <1>3, <1>4, <1>5 DEF ToSet, NodesNow
<1>7. next_route_id' \in Ids
  BY <1>3, NextIdIsLarger
<1>8. ASSUME \A i, j \in DOMAIN kept : i # j => kept[i].id # kept[j].id PROVE RouteIdsInv'
  <2>1. \A i \in 1..Len(kept) : routes'[i].id = kept[i].id
    BY <1>3 DEF Entry
  <2>2. \A i \in 1..Len(kept) : kept[i].id < next_route_id' \/ kept[i].id = MaxRouteId
    <3>1. \A i \in 1..Len(kept) : kept[i] \in ToSet(kept)
      BY <1>1 DEF ToSet
    <3> QED BY <1>3, <3>1, NextIdIsLarger
  <2> QED BY <1>1, <1>5, <1>8, <2>1, <2>2 DEF RouteIdsInv
<1> QED BY <1>5, <1>6, <1>7, <1>8

-------------------------------------------------------------------------------
(* Types, by what the handlers have to do with.                            *)

OwnerTypes ==
  /\ nodes \in Seq(Endpoints) /\ Len(nodes) <= NodeCapacity
  /\ online \subseteq Endpoints
  /\ activated \in Seq(Devices) /\ streams \in [Devices -> Widths]
  /\ connected \subseteq Keys \cup Provisional /\ known \subseteq Keys \cup Provisional

RouteTypes ==
  /\ routes \in Seq([id : Ids, src : Nat, dst : Nat, level : Levels])
  /\ \A r \in ToSet(routes) : r.src \in NodesNow /\ r.dst \in NodesNow
  /\ next_route_id \in Ids

DspTypes ==
  /\ cache \in [Ids -> DspStates] /\ engine \in [Ids -> [active : BOOLEAN, chain : Chains]]
  /\ tone \in Levels /\ global \in Levels /\ registry \subseteq Chains

HandlerTypes ==
  /\ pc \in {"off", "idle", "erase", "publish", "store"}
  /\ job \in [route : Nat, dsp : DspStates]
  /\ cacheLock \in {"none", "post", "get"}
  /\ get \in [pc : {"idle", "answer"}, route : Nat, dsp : DspStates]

HandlersInv == RouteTypes /\ DspTypes /\ HandlerTypes /\ SlotsInv /\ RouteIdsInv /\ JobInv /\ GetInv
MemoryInv == HandlersInv /\ OwnerTypes /\ OwnersInv
FileInv == file \in Files /\ Writable(file)

LEMMA PartsOfInv == ConfigInv <=> MemoryInv /\ FileInv
  BY DEF ConfigInv, MemoryInv, HandlersInv, FileInv, TypeOK, OwnerTypes, RouteTypes, DspTypes, HandlerTypes

(* A saved document fits into the table of the process that loads it,      *)
(* since all it names has a node in the table of the one that saved it.    *)
LEMMA DocumentKeeps == MemoryInv => Document \in Files /\ Writable(Document)
<1>1. SUFFICES ASSUME MemoryInv PROVE Document \in Files /\ Writable(Document)
  OBVIOUS
<1>2. OwnerTypes /\ RouteTypes /\ DspTypes /\ OwnersInv /\ RouteIdsInv
  BY <1>1 DEF MemoryInv, HandlersInv
<1> DEFINE Entry(i) == SavedRoute(routes[i])
           saved == [i \in 1..Len(routes) |-> Entry(i)]
<1>3. /\ Len(routes) \in Nat /\ DOMAIN routes = 1..Len(routes)
      /\ \A i \in 1..Len(routes) : routes[i] \in [id : Ids, src : Nat, dst : Nat, level : Levels]
      /\ \A i \in 1..Len(routes) : routes[i].src \in NodesNow /\ routes[i].dst \in NodesNow
  <2>1. /\ Len(routes) \in Nat /\ DOMAIN routes = 1..Len(routes)
        /\ \A i \in 1..Len(routes) : routes[i] \in [id : Ids, src : Nat, dst : Nat, level : Levels]
    BY <1>2, LenProperties DEF RouteTypes
  <2> QED BY <1>2, <2>1 DEF RouteTypes, ToSet
<1>4. \A n \in NodesNow : EndpointOf(n) = Tone \/ (EndpointOf(n) \in ToSet(nodes) /\ EndpointOf(n) \in Endpoints)
  <2>1. Len(nodes) \in Nat /\ DOMAIN nodes = 1..Len(nodes) /\ \A n \in 1..Len(nodes) : nodes[n] \in Endpoints
    BY <1>2, LenProperties DEF OwnerTypes
  <2> QED BY <2>1 DEF NodesNow, EndpointOf, ToSet
<1>5. ASSUME NEW i \in 1..Len(routes)
      PROVE  /\ Entry(i) \in SavedRoutes
             /\ Entry(i).source = Tone \/ Entry(i).source \in ToSet(nodes)
             /\ Entry(i).destination = Tone \/ Entry(i).destination \in ToSet(nodes)
             /\ Entry(i).id = routes[i].id
  <2>1. cache[routes[i].id] \in DspStates
    BY <1>2, <1>3 DEF DspTypes
  <2>2. Entry(i).dsp \in SavedDsps
    <3> DEFINE dsp == cache[routes[i].id]
    <3>1. Entry(i).dsp = [set |-> dsp.set, active |-> dsp.active, chain |-> dsp.chain]
      BY DEF SavedRoute
    <3>2. /\ dsp.set \in BOOLEAN /\ dsp.active \in BOOLEAN /\ dsp.chain \in Chains
          /\ dsp.set \/ (~dsp.active /\ dsp.chain = Empty)
      BY <2>1 DEF DspStates, NoDsp
    <3> HIDE DEF dsp, Entry
    <3> QED BY <3>1, <3>2 DEF SavedDsps
  <2>3. Entry(i).source = EndpointOf(routes[i].src) /\ Entry(i).destination = EndpointOf(routes[i].dst)
    BY DEF SavedRoute
  <2>4. routes[i].id \in Ids /\ routes[i].level \in Levels
    BY <1>3
  <2>5. /\ EndpointOf(routes[i].src) \in Endpoints \cup {Tone}
        /\ EndpointOf(routes[i].dst) \in Endpoints \cup {Tone}
    BY <1>3, <1>4
  <2>6. Entry(i) \in SavedRoutes
    BY <2>2, <2>4, <2>5 DEF SavedRoute, SavedRoutes
  <2> QED BY <1>3, <1>4, <2>3, <2>6 DEF SavedRoute
<1>6. Document.routes = saved /\ Document.devices = activated
  BY <1>3 DEF Document
<1> HIDE DEF Entry
<1>7. saved \in Seq(SavedRoutes) /\ DOMAIN saved = 1..Len(routes)
  BY <1>3, <1>5
<1>8. Document \in Files
  <2>1. global \in Levels /\ tone \in Levels /\ streams \in [Devices -> Widths] /\ activated \in Seq(Devices)
    BY <1>2 DEF OwnerTypes, DspTypes
  <2>2. known \cup connected \in SUBSET (Keys \cup Provisional)
    BY <1>2 DEF OwnerTypes
  <2>3. Document = [fault |-> "none", global |-> global, tone |-> tone, devices |-> activated, streams |-> streams,
                    clients |-> known \cup connected, routes |-> saved]
    BY <1>3 DEF Document, Entry
  <2> HIDE DEF saved
  <2> QED BY <1>7, <2>1, <2>2, <2>3 DEF Files
<1>9. EndpointsIn(Document) \subseteq ToSet(nodes)
  <2>1. ASSUME NEW e \in Endpoints, NEW d \in ToSet(activated), e \in ToSet(Pair(d)) PROVE e \in ToSet(nodes)
    <3>1. Registered(nodes, d)
      BY <1>2 DEF OwnersInv
    <3>2. e = Pair(d)[1] \/ e = Pair(d)[2]
      BY <2>1 DEF ToSet, Pair
    <3> QED BY <3>1, <3>2 DEF Registered
  <2>2. ASSUME NEW e \in Endpoints, NEW r \in ToSet(saved), e \in {r.source, r.destination} PROVE e \in ToSet(nodes)
    <3>1. PICK i \in 1..Len(routes) : r = Entry(i)
      BY <1>7 DEF ToSet
    <3>2. e # Tone
      BY ConfigAssumption DEF ConfigAssumption, Endpoints, Owners, Tone
    <3> QED BY <1>5, <2>2, <3>1, <3>2
  <2> QED BY <1>6, <2>1, <2>2 DEF EndpointsIn
<1>10. IsFiniteSet(EndpointsIn(Document)) /\ Cardinality(EndpointsIn(Document)) <= NodeCapacity
  <2>1. IsTable(nodes) /\ Len(nodes) \in Nat /\ Len(nodes) <= NodeCapacity
    BY <1>2, LenProperties DEF OwnersInv, OwnerTypes
  <2>2. IsFiniteSet(ToSet(nodes)) /\ Cardinality(ToSet(nodes)) = Len(nodes)
    BY <2>1, TableSize
  <2>3. IsFiniteSet(EndpointsIn(Document)) /\ Cardinality(EndpointsIn(Document)) <= Len(nodes)
    BY <1>9, <2>2, FS_Subset
  <2>4. Cardinality(EndpointsIn(Document)) \in Nat /\ NodeCapacity \in Nat
    BY <2>3, FS_CardinalityType, ConfigAssumption DEF ConfigAssumption
  <2> QED BY <2>1, <2>3, <2>4
<1>11. \A i, j \in DOMAIN saved : i # j => saved[i].id # saved[j].id
  BY <1>2, <1>3, <1>5, <1>7 DEF RouteIdsInv
<1> QED BY <1>6, <1>8, <1>10, <1>11 DEF Writable

-------------------------------------------------------------------------------
(* The first start and every later one.                                    *)

LEMMA ConfigStarts == Init => ConfigInv
<1>1. SUFFICES ASSUME Init PROVE ConfigInv
  OBVIOUS
<1>2. Empty \in Chains /\ 0 \in Widths /\ 0 \in Levels /\ NodeCapacity \in Nat /\ MaxRouteId \in Nat \ {0}
  BY ConfigAssumption DEF ConfigAssumption
<1>3. /\ <<>> \in Seq(Endpoints) /\ <<>> \in Seq(Devices) /\ Len(<<>>) = 0 /\ ToSet(<<>>) = {}
      /\ <<>> \in Seq([id : Ids, src : Nat, dst : Nat, level : Levels]) /\ <<>> \in Seq(SavedRoutes)
  BY EmptySeq DEF ToSet
<1>4. NoDsp \in DspStates /\ Playing(FALSE, Empty) \in [active : BOOLEAN, chain : Chains]
  BY <1>2 DEF NoDsp, DspStates, Playing
<1>5. OwnerTypes
  BY <1>1, <1>2, <1>3 DEF Init, OwnerTypes
<1>6. RouteTypes
  BY <1>1, <1>2, <1>3 DEF Init, RouteTypes, Ids
<1>7. DspTypes
  BY <1>1, <1>2, <1>4 DEF Init, DspTypes
<1>8. HandlerTypes
  BY <1>1, <1>4 DEF Init, HandlerTypes, NoJob, NoGet
<1>9. SlotsInv
  <2>1. ASSUME NEW id \in Ids PROVE Match(id)
    <3>1. cache[id] = NoDsp /\ engine[id] = Playing(FALSE, Empty)
      BY <1>1, <2>1 DEF Init
    <3> QED BY <3>1 DEF Match, NoDsp, Publication, Playing
  <2> QED BY <2>1 DEF SlotsInv
<1>10. RouteIdsInv
  BY <1>1 DEF Init, RouteIdsInv
<1>11. JobInv /\ GetInv
  BY <1>1 DEF Init, JobInv, GetInv, NoGet
<1>12. OwnersInv
  BY <1>1, <1>2, <1>3 DEF Init, OwnersInv, IsTable
<1>13. FileInv
  <2>1. CASE file = NoSettings
    <3>1. NoSettings \in Files
      BY <1>2, <1>3 DEF NoSettings, Files
    <3>2. EndpointsIn(NoSettings) = {}
      BY <1>3 DEF EndpointsIn, NoSettings
    <3>3. IsFiniteSet(EndpointsIn(NoSettings)) /\ Cardinality(EndpointsIn(NoSettings)) <= NodeCapacity
      BY <1>2, <3>2, FS_EmptySet
    <3>4. NoSettings.routes = <<>> /\ DOMAIN NoSettings.routes = {}
      BY DEF NoSettings
    <3>5. Writable(NoSettings)
      BY <3>3, <3>4 DEF Writable
    <3> QED BY <2>1, <3>1, <3>5 DEF FileInv
  <2>2. CASE file \in FormerSettings
    BY <2>2, FormerAssumption DEF FormerAssumption, FileInv
  <2> QED BY <1>1, <2>1, <2>2 DEF Init
<1> QED BY <1>5, <1>6, <1>7, <1>8, <1>9, <1>10, <1>11, <1>12, <1>13, PartsOfInv DEF MemoryInv, HandlersInv

(* Different valid routes of a file have different ids after the load.     *)
LEMMA LoadedIdsDiffer ==
  ASSUME NEW f \in Files, Writable(f), \A r \in ToSet(f.routes) : r.form # "type", NEW table
  PROVE  \A i, j \in DOMAIN LoadedRoutes(f, table) :
           i # j => LoadedRoutes(f, table)[i].id # LoadedRoutes(f, table)[j].id
<1> DEFINE set == {r \in ToSet(f.routes) : /\ r.form = "valid"
                                           /\ {r.source, r.destination} \subseteq ToSet(table) \cup {Tone}}
           kept == Among(f.routes, set)
<1>1. f.routes \in Seq(SavedRoutes) /\ Reached(f.routes) = f.routes
  BY ReachedKeeps DEF Files
<1>2. LoadedRoutes(f, table) = kept
  BY <1>1 DEF LoadedRoutes
<1>3. \A r \in set : r.form = "valid"
  OBVIOUS
<1> HIDE DEF set
<1>4. PICK pos : Positions(pos, kept, f.routes, set, Len(f.routes))
  BY <1>1, AmongKeeps
<1>5. /\ Len(kept) \in Nat /\ DOMAIN kept = 1..Len(kept)
      /\ Len(f.routes) \in Nat /\ DOMAIN f.routes = 1..Len(f.routes)
  BY <1>1, AmongKeeps, LenProperties
<1> HIDE DEF kept
<1>6. ASSUME NEW i \in 1..Len(kept), NEW j \in 1..Len(kept), i < j PROVE kept[i].id # kept[j].id
  <2>1. /\ pos[i] \in 1..Len(f.routes) /\ pos[j] \in 1..Len(f.routes) /\ pos[i] < pos[j]
        /\ kept[i] = f.routes[pos[i]] /\ kept[j] = f.routes[pos[j]]
        /\ kept[i].form = "valid" /\ kept[j].form = "valid"
    BY <1>3, <1>4, <1>6 DEF Positions
  <2>2. pos[i] # pos[j]
    BY <1>5, <2>1
  <2> QED BY <1>5, <2>1, <2>2 DEF Writable
<1>7. ASSUME NEW i \in 1..Len(kept), NEW j \in 1..Len(kept), i # j PROVE kept[i].id # kept[j].id
  <2>1. i < j \/ j < i
    BY <1>5, <1>7
  <2> QED BY <1>6, <2>1
<1> QED BY <1>2, <1>5, <1>7

(* What a load has in common, wherever an exception ended it.              *)
Loaded(kept, listed) ==
  /\ LoadDsp(kept) /\ LoadRoutes(listed, nodes') /\ IsTable(nodes')
  /\ activated' \in Seq(Devices) /\ streams' \in [Devices -> Widths]
  /\ \A d \in ToSet(activated') : Registered(nodes', d)
  /\ known' \subseteq Keys \cup Provisional /\ tone' \in Levels /\ global' \in Levels

LEMMA LoadedKeeps ==
  ASSUME FileInv, Restart, NEW kept \in Seq(SavedRoutes), NEW listed \in Seq(SavedRoutes), Loaded(kept, listed),
         \A i, j \in DOMAIN listed : i # j => listed[i].id # listed[j].id
  PROVE  ConfigInv'
<1>1. /\ registry' \subseteq Chains
      /\ online' \in SUBSET UNION {ToSet(Pair(d)) : d \in ToSet(activated')}
      /\ connected' = {} /\ pc' = "idle" /\ job' = NoJob /\ cacheLock' = "none" /\ get' = NoGet
      /\ file' = file
  BY DEF Restart, Start
<1>2. nodes' \in Seq(Endpoints) /\ Len(nodes') <= NodeCapacity
  BY DEF Loaded, IsTable
<1>3. online' \subseteq Endpoints
  <2>1. \A d \in ToSet(activated') : d \in Devices
    BY LenProperties DEF Loaded, ToSet
  <2>2. \A d \in Devices : ToSet(Pair(d)) \subseteq Endpoints
    BY DEF Pair, ToSet, Endpoints, Owners
  <2> QED BY <1>1, <2>1, <2>2
<1>4. OwnerTypes'
  BY <1>1, <1>2, <1>3 DEF Loaded, OwnerTypes
<1>5. RouteTypes' /\ RouteIdsInv'
  BY <1>2, LoadRoutesKeeps DEF Loaded, RouteTypes
<1>6. DspTypes' /\ \A id \in Ids : Match(id)'
  BY <1>1, LoadDspMatches DEF Loaded, DspTypes
<1>7. HandlerTypes'
  <2>1. Empty \in Chains
    BY ConfigAssumption DEF ConfigAssumption
  <2>2. NoDsp \in DspStates
    BY <2>1 DEF NoDsp, DspStates
  <2> QED BY <1>1, <2>2 DEF HandlerTypes, NoJob, NoGet
<1>8. SlotsInv'
  BY <1>6 DEF SlotsInv
<1>9. JobInv' /\ GetInv'
  BY <1>1 DEF JobInv, GetInv, NoGet
<1>10. OwnersInv'
  BY <1>1 DEF OwnersInv, Loaded
<1>11. FileInv'
  BY <1>1 DEF FileInv
<1>12. MemoryInv'
  BY <1>4, <1>5, <1>6, <1>7, <1>8, <1>9, <1>10 DEF MemoryInv, HandlersInv
<1>13. (ConfigInv <=> MemoryInv /\ FileInv)'
  BY PartsOfInv, PTL
<1> QED BY <1>11, <1>12, <1>13

LEMMA RestartKeeps == FileInv /\ Restart => ConfigInv'
<1>1. SUFFICES ASSUME FileInv, Restart PROVE ConfigInv'
  OBVIOUS
<1>2. file \in Files /\ Writable(file) /\ file' = file
  BY <1>1 DEF FileInv, Restart
<1>3. registry' \subseteq Chains
  BY <1>1 DEF Restart, Start
<1>4. /\ LoadSettings(file)
      /\ online' \in SUBSET UNION {ToSet(Pair(d)) : d \in ToSet(activated')}
      /\ connected' = {} /\ pc' = "idle" /\ job' = NoJob /\ cacheLock' = "none" /\ get' = NoGet
  BY <1>1 DEF Restart, Start
<1> DEFINE table == LoadedTable(file)
           kept == LoadedRoutes(file, table)
           aborted == \E r \in ToSet(file.routes) : r.form = "type"
<1>5. /\ <<>> \in Seq(Endpoints) /\ <<>> \in Seq(Devices) /\ Len(<<>>) = 0 /\ ToSet(<<>>) = {}
      /\ <<>> \in Seq(SavedRoutes) /\ IsTable(<<>>)
  <2>1. NodeCapacity >= 0
    BY ConfigAssumption DEF ConfigAssumption
  <2> QED BY <2>1, EmptySeq DEF ToSet, IsTable
<1>6. /\ file.global \in Levels /\ file.tone \in Levels /\ file.devices \in Seq(Devices)
      /\ file.streams \in [Devices -> Widths] /\ file.clients \in SUBSET (Keys \cup Provisional)
      /\ 0 \in Widths /\ 0 \in Levels
  BY <1>2, ConfigAssumption DEF Files, ConfigAssumption
<1>7. IsTable(table) /\ kept \in Seq(SavedRoutes)
  BY <1>2, LoadedTableKeeps, LoadedRoutesKeep
<1>8. \A d \in ToSet(file.devices) : Registered(table, d)
  BY <1>2, LoadedTableKeeps
<1> HIDE DEF table
<1>9. CASE file.fault = "head"
  <2>1. LoadNothing(file)
    BY <1>4, <1>9 DEF LoadSettings
  <2>2. /\ nodes' = <<>> /\ activated' = <<>> /\ streams' = [d \in Devices |-> 0] /\ known' = {}
        /\ global' \in Levels /\ tone' \in Levels
        /\ LoadDsp(<<>>) /\ LoadRoutes(<<>>, <<>>)
    BY <1>6, <2>1 DEF LoadNothing
  <2>3. \A i, j \in DOMAIN <<>> : i # j => <<>>[i].id # <<>>[j].id
    OBVIOUS
  <2>4. Loaded(<<>>, <<>>)
    BY <1>5, <1>6, <2>2 DEF Loaded
  <2> QED BY <1>1, <1>5, <2>3, <2>4, LoadedKeeps
<1>10. CASE file.fault # "head"
  <2> DEFINE listed == IF aborted THEN <<>> ELSE kept
  <2>1. /\ global' = file.global /\ tone' = file.tone /\ nodes' = table
        /\ activated' = file.devices /\ streams' = file.streams
        /\ LoadDsp(kept) /\ LoadRoutes(listed, table)
    BY <1>4, <1>10 DEF LoadSettings, table
  <2>2. known' \subseteq file.clients
    BY <1>4, <1>10 DEF LoadSettings
  <2>3. listed \in Seq(SavedRoutes)
    BY <1>5, <1>7
  <2>4. \A i, j \in DOMAIN listed : i # j => listed[i].id # listed[j].id
    <3>1. CASE aborted
      BY <3>1
    <3>2. CASE ~aborted
      BY <1>2, <3>2, LoadedIdsDiffer
    <3> QED BY <3>1, <3>2
  <2>5. Loaded(kept, listed)
    BY <1>6, <1>7, <1>8, <2>1, <2>2 DEF Loaded
  <2> HIDE DEF kept, listed, aborted
  <2> QED BY <1>1, <1>7, <2>3, <2>4, <2>5, LoadedKeeps
<1> QED BY <1>9, <1>10

-------------------------------------------------------------------------------
(* Handlers of routes and their DSP.                                       *)

LEMMA OwnersFrame ==
  OwnerTypes /\ OwnersInv /\ UNCHANGED <<clientVars, deviceVars>> => OwnerTypes' /\ OwnersInv'
  BY DEF clientVars, deviceVars, OwnerTypes, OwnersInv

LEMMA HandlersFrame ==
  ASSUME RouteTypes, DspTypes, HandlerTypes, SlotsInv, RouteIdsInv, JobInv, GetInv,
         UNCHANGED <<routeVars, dspVars, handlerVars, registry, get>>,
         Grown(nodes, nodes'), nodes \in Seq(Endpoints), nodes' \in Seq(Endpoints),
         tone' \in Levels, global' \in Levels
  PROVE  HandlersInv'
<1>1. NodesNow \subseteq NodesNow'
  <2>1. Len(nodes) \in Nat /\ Len(nodes') \in Nat /\ Len(nodes) <= Len(nodes')
    BY LenProperties DEF Grown
  <2> QED BY <2>1 DEF NodesNow
<1>2. /\ routes' = routes /\ next_route_id' = next_route_id /\ cache' = cache /\ engine' = engine
      /\ pc' = pc /\ job' = job /\ cacheLock' = cacheLock /\ registry' = registry /\ get' = get
  BY DEF routeVars, dspVars, handlerVars
<1>3. RouteTypes' /\ RouteIdsInv'
  BY <1>1, <1>2 DEF RouteTypes, RouteIdsInv
<1>4. DspTypes' /\ HandlerTypes'
  BY <1>2 DEF DspTypes, HandlerTypes
<1>5. SlotsInv' /\ JobInv' /\ GetInv'
  BY <1>2 DEF SlotsInv, Match, Live, Exists, JobInv, GetInv
<1> QED BY <1>3, <1>4, <1>5 DEF HandlersInv

(* A new level is all that WithLevel changes of the list.                  *)
LEMMA WithLevelKeeps ==
  ASSUME RouteTypes, NEW id, NEW level \in Levels, Exists(id)
  PROVE  LET after == WithLevel(id, level) IN
         /\ after \in Seq([id : Ids, src : Nat, dst : Nat, level : Levels])
         /\ DOMAIN after = DOMAIN routes
         /\ \A i \in DOMAIN routes : /\ after[i].id = routes[i].id
                                     /\ after[i].src = routes[i].src /\ after[i].dst = routes[i].dst
<1> DEFINE N == Len(routes)
           T == {i \in 1..N : routes[i].id = id}
           first == IF T # {} THEN Min(T) ELSE 0
           R == [id : Ids, src : Nat, dst : Nat, level : Levels]
<1>1. N \in Nat /\ DOMAIN routes = 1..N /\ routes \in Seq(R) /\ \A i \in 1..N : routes[i] \in R
  <2>1. routes \in Seq(R)
    BY DEF RouteTypes
  <2> HIDE DEF R
  <2> QED BY <2>1, LenProperties
<1>2. WithLevel(id, level) = [routes EXCEPT ![first] = [routes[first] EXCEPT !.level = level]]
  BY DEF WithLevel, SelectInSeq
<1>3. first \in 1..N
  <2>1. T # {}
    BY <1>1 DEF Exists, ToSet
  <2>2. T \subseteq 1..N
    OBVIOUS
  <2> QED BY <1>1, <2>1, <2>2, SmallestIndex
<1> HIDE DEF first
<1> DEFINE new == [routes[first] EXCEPT !.level = level]
<1>4. new \in R /\ new.id = routes[first].id /\ new.src = routes[first].src /\ new.dst = routes[first].dst
  BY <1>1, <1>3
<1> HIDE DEF new, R
<1>5. WithLevel(id, level) = [routes EXCEPT ![first] = new]
  BY <1>2 DEF new
<1>6. /\ WithLevel(id, level) \in Seq(R)
      /\ Len(WithLevel(id, level)) = N
      /\ \A j \in 1..N : WithLevel(id, level)[j] = IF j = first THEN new ELSE routes[j]
  BY <1>1, <1>3, <1>4, <1>5, ExceptSeq
<1>7. DOMAIN WithLevel(id, level) = 1..N
  BY <1>6, LenProperties
<1> QED BY <1>1, <1>4, <1>6, <1>7 DEF R

LEMMA ListChangeKeeps ==
  ASSUME HandlersInv, pc = "idle", NEW id, NEW level \in Levels, Exists(id),
         routes' = WithLevel(id, level) \/ routes' = routes,
         nodes' = nodes, next_route_id' = next_route_id
  PROVE  /\ RouteTypes' /\ RouteIdsInv'
         /\ \A x : Exists(x)' <=> Exists(x)
<1>1. RouteTypes /\ RouteIdsInv
  BY DEF HandlersInv
<1>2. CASE routes' = routes
  BY <1>1, <1>2 DEF RouteTypes, RouteIdsInv, Exists, NodesNow
<1>3. CASE routes' = WithLevel(id, level)
  <2>1. /\ routes' \in Seq([id : Ids, src : Nat, dst : Nat, level : Levels])
        /\ DOMAIN routes' = DOMAIN routes
        /\ \A i \in DOMAIN routes : /\ routes'[i].id = routes[i].id
                                    /\ routes'[i].src = routes[i].src /\ routes'[i].dst = routes[i].dst
    BY <1>1, <1>3, WithLevelKeeps
  <2>2. \A i \in DOMAIN routes : routes[i].src \in NodesNow /\ routes[i].dst \in NodesNow
    BY <1>1 DEF RouteTypes, ToSet
  <2>3. \A r \in ToSet(routes') : r.src \in NodesNow' /\ r.dst \in NodesNow'
    BY <2>1, <2>2 DEF ToSet, NodesNow
  <2>4. RouteTypes'
    BY <1>1, <2>1, <2>3 DEF RouteTypes
  <2>5. RouteIdsInv'
    BY <1>1, <2>1 DEF RouteIdsInv
  <2>6. ASSUME NEW x PROVE Exists(x)' <=> Exists(x)
    <3>1. Exists(x)' <=> \E i \in DOMAIN routes' : routes'[i].id = x
      BY DEF Exists, ToSet
    <3>2. Exists(x) <=> \E i \in DOMAIN routes : routes[i].id = x
      BY DEF Exists, ToSet
    <3> QED BY <2>1, <3>1, <3>2
  <2> QED BY <2>4, <2>5, <2>6
<1> QED BY <1>2, <1>3

LEMMA AddRouteKeeps ==
  ASSUME MemoryInv, NEW s, NEW d, NEW level \in Levels, AddRoute(s, d, level)
  PROVE  MemoryInv' /\ file' = file
<1> DEFINE n == next_route_id
           R == [id : Ids, src : Nat, dst : Nat, level : Levels]
           new == [id |-> n, src |-> s, dst |-> d, level |-> level]
<1>1. /\ routes' = Append(routes, new) /\ next_route_id' = n + 1 /\ n # MaxRouteId
      /\ pc = "idle" /\ s \in NodesNow /\ d \in NodesNow
      /\ UNCHANGED <<clientVars, deviceVars, dspVars, handlerVars, masterVars, registry, file, get>>
  BY DEF AddRoute, Added, Acceptable
<1>2. HandlersInv /\ OwnerTypes /\ OwnersInv
  BY DEF MemoryInv
<1>3. /\ cache' = cache /\ engine' = engine /\ pc' = pc /\ job' = job /\ cacheLock' = cacheLock
      /\ tone' = tone /\ global' = global /\ registry' = registry /\ get' = get /\ nodes' = nodes
  BY <1>1 DEF dspVars, handlerVars, masterVars, clientVars
<1>4. n \in Ids /\ n + 1 \in Ids /\ n \in Nat
  BY <1>1, <1>2, ConfigAssumption DEF HandlersInv, RouteTypes, Ids, ConfigAssumption
<1>5. new \in R
  <2>1. Len(nodes) \in Nat
    BY <1>2, LenProperties DEF OwnerTypes
  <2> QED BY <1>1, <1>4, <2>1 DEF NodesNow
<1>6. routes \in Seq(R) /\ Len(routes) \in Nat /\ DOMAIN routes = 1..Len(routes)
  <2>1. routes \in Seq(R)
    BY <1>2 DEF HandlersInv, RouteTypes
  <2> HIDE DEF R
  <2> QED BY <2>1, LenProperties
<1> HIDE DEF R
<1>7. /\ routes' \in Seq(R) /\ DOMAIN routes' = 1..Len(routes) + 1
      /\ \A i \in 1..Len(routes) : routes'[i] = routes[i]
      /\ routes'[Len(routes) + 1] = new
  <2> HIDE DEF new
  <2>1. /\ routes' \in Seq(R) /\ Len(routes') = Len(routes) + 1
        /\ \A i \in 1..Len(routes) : routes'[i] = routes[i]
        /\ routes'[Len(routes) + 1] = new
    BY <1>1, <1>5, <1>6, AppendProperties
  <2> QED BY <2>1, LenProperties
<1>8. \A i \in 1..Len(routes) + 1 : i \in 1..Len(routes) \/ i = Len(routes) + 1
  BY <1>6
<1>9. ToSet(routes') = ToSet(routes) \cup {new}
  <2>1. Len(routes) + 1 \in 1..Len(routes) + 1 /\ \A i \in 1..Len(routes) : i \in 1..Len(routes) + 1
    BY <1>6
  <2> HIDE DEF new
  <2> QED BY <1>6, <1>7, <1>8, <2>1 DEF ToSet
<1>10. RouteTypes'
  BY <1>1, <1>2, <1>3, <1>4, <1>7, <1>9 DEF HandlersInv, RouteTypes, NodesNow, R
<1>11. \A i \in 1..Len(routes) : routes[i].id \in Nat /\ (routes[i].id < n \/ routes[i].id = MaxRouteId)
  <2>1. \A i \in 1..Len(routes) : routes[i] \in R
    BY <1>6, LenProperties
  <2> QED BY <1>2, <1>6, <2>1 DEF HandlersInv, RouteIdsInv, R, Ids
<1>12. RouteIdsInv'
  <2>1. \A i \in 1..Len(routes) : routes[i].id # n
    BY <1>1, <1>4, <1>11
  <2>2. \A i \in 1..Len(routes) + 1 : routes'[i].id < n + 1 \/ routes'[i].id = MaxRouteId
    <3>1. \A i \in 1..Len(routes) : routes[i].id < n + 1 \/ routes[i].id = MaxRouteId
      BY <1>4, <1>11
    <3>2. new.id < n + 1
      BY <1>4
    <3> QED BY <1>7, <1>8, <3>1, <3>2
  <2>3. new.id = n
    OBVIOUS
  <2>4. \A i, j \in 1..Len(routes) + 1 : i # j => routes'[i].id # routes'[j].id
    <3>1. \A i, j \in 1..Len(routes) : i # j => routes[i].id # routes[j].id
      BY <1>2, <1>6 DEF HandlersInv, RouteIdsInv
    <3> HIDE DEF new, n
    <3> QED BY <1>7, <1>8, <2>1, <2>3, <3>1
  <2> QED BY <1>1, <1>7, <2>2, <2>4 DEF RouteIdsInv
<1>13. ASSUME NEW id \in Ids, Live(id)' PROVE Live(id)
  <2>1. CASE Exists(id)'
    BY <1>1, <1>4, <1>9, <2>1 DEF Exists, Live
  <2>2. CASE id >= n + 1 /\ id # MaxRouteId
    <3>1. id >= n
      BY <1>4, <2>2 DEF Ids
    <3> QED BY <2>2, <3>1 DEF Live
  <2> QED BY <1>1, <1>13, <2>1, <2>2 DEF Live
<1>14. SlotsInv'
  BY <1>2, <1>3, <1>13 DEF HandlersInv, SlotsInv, Match
<1>15. JobInv' /\ GetInv' /\ DspTypes' /\ HandlerTypes'
  BY <1>1, <1>2, <1>3 DEF HandlersInv, JobInv, GetInv, DspTypes, HandlerTypes
<1>16. OwnerTypes' /\ OwnersInv'
  BY <1>1, <1>2, OwnersFrame
<1> QED BY <1>1, <1>10, <1>12, <1>14, <1>15, <1>16 DEF HandlersInv, MemoryInv

(* A change of levels or none, and what the handler does next.             *)
LEMMA UpdateRouteKeeps ==
  ASSUME MemoryInv, NEW id, NEW level \in Levels, UpdateRoute(id, level)
  PROVE  MemoryInv' /\ file' = file
<1>1. /\ pc = "idle" /\ Exists(id) /\ routes' = WithLevel(id, level) /\ next_route_id' = next_route_id
      /\ UNCHANGED <<clientVars, deviceVars, dspVars, handlerVars, masterVars, registry, file, get>>
  BY DEF UpdateRoute
<1>2. HandlersInv /\ OwnerTypes /\ OwnersInv
  BY DEF MemoryInv
<1>3. /\ cache' = cache /\ engine' = engine /\ pc' = pc /\ job' = job /\ cacheLock' = cacheLock
      /\ tone' = tone /\ global' = global /\ registry' = registry /\ get' = get /\ nodes' = nodes
  BY <1>1 DEF dspVars, handlerVars, masterVars, clientVars
<1>4. RouteTypes' /\ RouteIdsInv' /\ \A x : Exists(x)' <=> Exists(x)
  BY <1>1, <1>2, <1>3, ListChangeKeeps
<1>5. SlotsInv'
  BY <1>1, <1>2, <1>3, <1>4 DEF HandlersInv, SlotsInv, Match, Live
<1>6. JobInv' /\ GetInv' /\ DspTypes' /\ HandlerTypes'
  BY <1>1, <1>2, <1>3 DEF HandlersInv, JobInv, GetInv, DspTypes, HandlerTypes
<1>7. OwnerTypes' /\ OwnersInv'
  BY <1>1, <1>2, OwnersFrame
<1> QED BY <1>1, <1>4, <1>5, <1>6, <1>7 DEF HandlersInv, MemoryInv

LEMMA PrepareKeeps ==
  ASSUME MemoryInv, NEW id \in Ids, NEW level \in Levels, NEW dsp \in Requests,
         PostDsp(id, dsp) \/ ApplyRoute(id, level, dsp)
  PROVE  MemoryInv' /\ file' = file
<1>1. /\ pc = "idle" /\ Exists(id) /\ Supported(id)
      /\ pc' = "publish" /\ job' = [route |-> id, dsp |-> dsp]
      /\ routes' = WithLevel(id, level) \/ routes' = routes
      /\ UNCHANGED <<clientVars, deviceVars, next_route_id, dspVars, cacheLock, masterVars, registry, file, get>>
  BY DEF PostDsp, ApplyRoute, PrepareRouteDsp
<1>2. HandlersInv /\ OwnerTypes /\ OwnersInv
  BY DEF MemoryInv
<1>3. /\ cache' = cache /\ engine' = engine /\ cacheLock' = cacheLock /\ next_route_id' = next_route_id
      /\ tone' = tone /\ global' = global /\ registry' = registry /\ get' = get /\ nodes' = nodes
  BY <1>1 DEF dspVars, masterVars, clientVars
<1>4. RouteTypes' /\ RouteIdsInv' /\ \A x : Exists(x)' <=> Exists(x)
  BY <1>1, <1>2, <1>3, ListChangeKeeps
<1>5. SlotsInv'
  BY <1>1, <1>2, <1>3, <1>4 DEF HandlersInv, SlotsInv, Match, Live
<1>6. JobInv' /\ GetInv'
  BY <1>1, <1>2, <1>3 DEF HandlersInv, JobInv, GetInv
<1>7. DspTypes' /\ HandlerTypes'
  <2>1. dsp \in DspStates /\ id \in Nat
    BY DEF Requests, Ids
  <2> QED BY <1>1, <1>2, <1>3, <2>1 DEF HandlersInv, DspTypes, HandlerTypes
<1>8. OwnerTypes' /\ OwnersInv'
  BY <1>1, <1>2, OwnersFrame
<1> QED BY <1>1, <1>4, <1>5, <1>6, <1>7, <1>8 DEF HandlersInv, MemoryInv

LEMMA RemoveRouteKeeps ==
  ASSUME MemoryInv, NEW id \in Ids, RemoveRoute(id)
  PROVE  MemoryInv' /\ file' = file
<1> DEFINE others == {r \in ToSet(routes) : r.id # id}
           R == [id : Ids, src : Nat, dst : Nat, level : Levels]
<1>1. /\ pc = "idle" /\ Exists(id) /\ routes' = Among(routes, others)
      /\ pc' = "erase" /\ job' = [job EXCEPT !.route = id]
      /\ UNCHANGED <<clientVars, deviceVars, next_route_id, dspVars, cacheLock, masterVars, registry, file, get>>
  BY DEF RemoveRoute
<1>2. HandlersInv /\ OwnerTypes /\ OwnersInv
  BY DEF MemoryInv
<1>3. /\ cache' = cache /\ engine' = engine /\ cacheLock' = cacheLock /\ next_route_id' = next_route_id
      /\ tone' = tone /\ global' = global /\ registry' = registry /\ get' = get /\ nodes' = nodes
  BY <1>1 DEF dspVars, masterVars, clientVars
<1>4. routes \in Seq(R) /\ Len(routes) \in Nat /\ DOMAIN routes = 1..Len(routes)
  <2>1. routes \in Seq(R)
    BY <1>2 DEF HandlersInv, RouteTypes
  <2> HIDE DEF R
  <2> QED BY <2>1, LenProperties
<1> HIDE DEF R
<1>5. /\ routes' \in Seq(R) /\ ToSet(routes') = ToSet(routes) \cap others
      /\ \E pos : Positions(pos, routes', routes, others, Len(routes))
  BY <1>1, <1>4, AmongKeeps, AmongSet
<1>6. PICK pos : Positions(pos, routes', routes, others, Len(routes))
  BY <1>5
<1>7. Len(routes') \in Nat /\ DOMAIN routes' = 1..Len(routes')
  BY <1>5, LenProperties
<1>8. ToSet(routes') = others
  BY <1>5
<1>9. RouteTypes'
  BY <1>2, <1>3, <1>5, <1>8 DEF HandlersInv, RouteTypes, NodesNow, R
<1>10. RouteIdsInv'
  <2>1. \A i \in 1..Len(routes') : pos[i] \in 1..Len(routes) /\ routes'[i] = routes[pos[i]]
    BY <1>6 DEF Positions
  <2>2. \A i, j \in 1..Len(routes') : i # j => pos[i] # pos[j]
    <3>1. \A i, j \in 1..Len(routes') : i < j => pos[i] < pos[j]
      BY <1>6 DEF Positions
    <3>2. \A i, j \in 1..Len(routes') : i # j => i < j \/ j < i
      BY <1>7
    <3>3. \A i \in 1..Len(routes') : pos[i] \in Int
      BY <2>1
    <3> QED BY <3>1, <3>2, <3>3
  <2> QED BY <1>2, <1>3, <1>4, <1>7, <2>1, <2>2 DEF HandlersInv, RouteIdsInv
<1>11. \A x : Exists(x)' <=> Exists(x) /\ x # id
  BY <1>8 DEF Exists
<1>12. id < next_route_id \/ id = MaxRouteId
  BY <1>1, <1>2 DEF Exists, HandlersInv, RouteIdsInv, ToSet
<1>13. ~Live(id)'
  <2>1. next_route_id \in Int /\ id \in Int
    BY <1>2 DEF HandlersInv, RouteTypes, Ids
  <2>2. ~ (id >= next_route_id /\ id # MaxRouteId)
    BY <1>12, <2>1
  <2> QED BY <1>3, <1>11, <2>2 DEF Live
<1>14. SlotsInv'
  BY <1>1, <1>2, <1>3, <1>11 DEF HandlersInv, SlotsInv, Match, Live
<1>15. job'.route = id
  BY <1>1, <1>2 DEF HandlersInv, HandlerTypes
<1>16. JobInv' /\ GetInv'
  BY <1>1, <1>2, <1>3, <1>13, <1>15 DEF HandlersInv, JobInv, GetInv
<1>17. DspTypes' /\ HandlerTypes'
  <2>1. id \in Nat
    BY DEF Ids
  <2> QED BY <1>1, <1>2, <1>3, <2>1 DEF HandlersInv, DspTypes, HandlerTypes
<1>18. OwnerTypes' /\ OwnersInv'
  BY <1>1, <1>2, OwnersFrame
<1> QED BY <1>1, <1>9, <1>10, <1>14, <1>16, <1>17, <1>18 DEF HandlersInv, MemoryInv

(* Steps on slot, cache and the lock between them; the list stays.         *)
LEMMA SlotStepKeeps ==
  ASSUME MemoryInv, EraseCache \/ PublishDsp \/ StoreCache \/ GetAnswer \/ \E id \in Ids : GetDsp(id)
  PROVE  MemoryInv' /\ file' = file
<1>1. HandlersInv /\ OwnerTypes /\ OwnersInv
  BY DEF MemoryInv
<1>2. RouteTypes /\ DspTypes /\ HandlerTypes /\ SlotsInv /\ RouteIdsInv /\ JobInv /\ GetInv
  BY <1>1 DEF HandlersInv
<1>3. UNCHANGED <<clientVars, deviceVars, routeVars, masterVars, registry, file>>
  BY DEF EraseCache, PublishDsp, StoreCache, GetAnswer, GetDsp
<1>4. /\ routes' = routes /\ next_route_id' = next_route_id /\ nodes' = nodes
      /\ tone' = tone /\ global' = global /\ registry' = registry /\ file' = file
  BY <1>3 DEF routeVars, masterVars, clientVars
<1>5. OwnerTypes' /\ OwnersInv'
  BY <1>1, <1>3, OwnersFrame
<1>6. RouteTypes' /\ RouteIdsInv'
  BY <1>2, <1>4 DEF RouteTypes, RouteIdsInv, NodesNow
<1>7. \A id : Live(id)' <=> Live(id)
  BY <1>4 DEF Live, Exists
<1>8. Empty \in Chains
  BY ConfigAssumption DEF ConfigAssumption
<1>9. NoDsp \in DspStates
  BY <1>8 DEF NoDsp, DspStates
<1>10. /\ cache \in [Ids -> DspStates] /\ engine \in [Ids -> [active : BOOLEAN, chain : Chains]]
       /\ job.dsp \in DspStates /\ get.dsp \in DspStates
  BY <1>2 DEF DspTypes, HandlerTypes
<1>11. CASE EraseCache
  <2>1. /\ pc = "erase" /\ cacheLock = "none" /\ cache' = [cache EXCEPT ![job.route] = NoDsp]
        /\ pc' = "idle" /\ job' = NoJob /\ engine' = engine /\ cacheLock' = cacheLock /\ get' = get
    BY <1>11 DEF EraseCache
  <2>2. job.route \in Ids /\ ~Live(job.route)
    BY <1>2, <2>1 DEF JobInv
  <2>3. cache' \in [Ids -> DspStates] /\ \A id \in Ids : id # job.route => cache'[id] = cache[id]
    BY <1>9, <1>10, <2>1
  <2>4. SlotsInv'
    BY <1>2, <1>7, <2>1, <2>2, <2>3 DEF SlotsInv, Match
  <2>5. DspTypes' /\ HandlerTypes'
    BY <1>2, <1>4, <1>9, <2>1, <2>3 DEF DspTypes, HandlerTypes, NoJob
  <2>6. JobInv' /\ GetInv'
    BY <1>2, <2>1 DEF JobInv, GetInv
  <2> QED BY <1>4, <1>5, <1>6, <2>4, <2>5, <2>6 DEF HandlersInv, MemoryInv
<1>12. CASE PublishDsp
  <2>1. /\ pc = "publish" /\ cacheLock = "none" /\ cacheLock' = "post" /\ pc' = "store"
        /\ engine' = [engine EXCEPT ![job.route] = Publication(job.dsp)]
        /\ cache' = cache /\ job' = job /\ get' = get
    BY <1>12 DEF PublishDsp
  <2>2. job.route \in Ids /\ Supported(job.route)
    BY <1>2, <2>1 DEF JobInv
  <2>3. Publication(job.dsp) \in [active : BOOLEAN, chain : Chains]
    BY <1>8, <1>10 DEF Publication, Playing, DspStates
  <2>4. /\ engine' \in [Ids -> [active : BOOLEAN, chain : Chains]]
        /\ engine'[job.route] = Publication(job.dsp)
        /\ \A id \in Ids : id # job.route => engine'[id] = engine[id]
    BY <1>10, <2>1, <2>2, <2>3
  <2>5. SlotsInv'
    BY <1>2, <1>7, <2>1, <2>4 DEF SlotsInv, Match
  <2>6. DspTypes' /\ HandlerTypes'
    BY <1>2, <1>4, <2>1, <2>4 DEF DspTypes, HandlerTypes
  <2>7. JobInv'
    BY <2>1, <2>2, <2>4 DEF JobInv
  <2>8. GetInv'
    BY <1>2, <2>1 DEF GetInv
  <2> QED BY <1>4, <1>5, <1>6, <2>5, <2>6, <2>7, <2>8 DEF HandlersInv, MemoryInv
<1>13. CASE StoreCache
  <2>1. /\ pc = "store" /\ cacheLock' = "none" /\ pc' = "idle" /\ job' = NoJob
        /\ cache' = [cache EXCEPT ![job.route] = job.dsp] /\ engine' = engine /\ get' = get
    BY <1>13 DEF StoreCache
  <2>2. job.route \in Ids /\ Supported(job.route) /\ engine[job.route] = Publication(job.dsp) /\ cacheLock = "post"
    BY <1>2, <2>1 DEF JobInv
  <2>3. /\ cache' \in [Ids -> DspStates] /\ cache'[job.route] = job.dsp
        /\ \A id \in Ids : id # job.route => cache'[id] = cache[id]
    BY <1>10, <2>1, <2>2
  <2>4. ASSUME NEW id \in Ids, Live(id) PROVE Match(id)'
    <3>1. CASE id = job.route
      BY <2>1, <2>2, <2>3, <3>1 DEF Match
    <3>2. CASE id # job.route
      BY <1>2, <2>1, <2>3, <2>4, <3>2 DEF SlotsInv, Match
    <3> QED BY <3>1, <3>2
  <2>5. SlotsInv'
    BY <1>7, <2>4 DEF SlotsInv
  <2>6. DspTypes' /\ HandlerTypes'
    BY <1>2, <1>4, <1>9, <2>1, <2>3 DEF DspTypes, HandlerTypes, NoJob
  <2>7. JobInv'
    BY <2>1 DEF JobInv
  <2>8. GetInv'
    BY <1>2, <2>1, <2>2 DEF GetInv
  <2> QED BY <1>4, <1>5, <1>6, <2>5, <2>6, <2>7, <2>8 DEF HandlersInv, MemoryInv
<1>14. CASE GetAnswer
  <2>1. /\ get.pc = "answer" /\ get' = NoGet /\ cache' = cache /\ engine' = engine /\ pc' = pc /\ job' = job
        /\ cacheLock' = IF cacheLock = "get" THEN "none" ELSE cacheLock
    BY <1>14 DEF GetAnswer, dspVars
  <2>2. cacheLock = "get"
    BY <1>2, <2>1 DEF GetInv
  <2>3. SlotsInv'
    BY <1>2, <1>7, <2>1 DEF SlotsInv, Match
  <2>4. DspTypes' /\ HandlerTypes'
    BY <1>2, <1>4, <1>9, <2>1, <2>2 DEF DspTypes, HandlerTypes, NoGet
  <2>5. JobInv'
    BY <1>2, <1>7, <2>1, <2>2 DEF JobInv
  <2>6. GetInv'
    BY <2>1 DEF GetInv, NoGet
  <2> QED BY <1>4, <1>5, <1>6, <2>3, <2>4, <2>5, <2>6 DEF HandlersInv, MemoryInv
<1>15. CASE \E id \in Ids : GetDsp(id)
  <2>1. PICK id \in Ids : GetDsp(id)
    BY <1>15
  <2>2. /\ Exists(id) /\ Supported(id) /\ cacheLock = "none" /\ cacheLock' = "get"
        /\ get' = [pc |-> "answer", route |-> id, dsp |-> cache[id]]
        /\ cache' = cache /\ engine' = engine /\ pc' = pc /\ job' = job
    BY <2>1 DEF GetDsp, dspVars
  <2>3. pc # "store"
    BY <1>2, <2>2 DEF JobInv
  <2>4. engine[id] = Publication(cache[id])
    BY <1>2, <2>2, <2>3 DEF SlotsInv, Live, Match
  <2>5. SlotsInv'
    BY <1>2, <1>7, <2>2 DEF SlotsInv, Match
  <2>6. DspTypes' /\ HandlerTypes'
    <3>1. id \in Nat /\ cache[id] \in DspStates
      BY <1>10 DEF Ids
    <3> QED BY <1>2, <1>4, <2>2, <3>1 DEF DspTypes, HandlerTypes
  <2>7. JobInv'
    BY <1>2, <1>7, <2>2, <2>3 DEF JobInv
  <2>8. GetInv'
    BY <2>2, <2>4 DEF GetInv
  <2> QED BY <1>4, <1>5, <1>6, <2>5, <2>6, <2>7, <2>8 DEF HandlersInv, MemoryInv
<1> QED BY <1>11, <1>12, <1>13, <1>14, <1>15

-------------------------------------------------------------------------------
(* Handlers of devices, clients, the tone and the global DSP: routes and   *)
(* their DSP stay, nodes are only added.                                   *)

(* An owner's pair of endpoints in a table that is extended by it.         *)
LEMMA PairKeeps ==
  ASSUME OwnerTypes, OwnersInv, NEW owner \in Owners
  PROVE  LET after == RegisterPair(nodes, Pair(owner)) IN
         /\ after \in Seq(Endpoints) /\ IsTable(after) /\ Grown(nodes, after)
         /\ \A o : Registered(nodes, o) => Registered(after, o)
         /\ ToSet(Pair(owner)) \subseteq Endpoints
<1> DEFINE after == RegisterPair(nodes, Pair(owner))
<1>1. Pair(owner)[1] \in Endpoints /\ Pair(owner)[2] \in Endpoints
  BY DEF Pair, Endpoints
<1>2. nodes \in Seq(Endpoints) /\ IsTable(nodes)
  BY DEF OwnerTypes, OwnersInv
<1>3. after \in Seq(Endpoints) /\ IsTable(after) /\ Grown(nodes, after)
  BY <1>1, <1>2, RegisterPairKeeps DEF Ends
<1>4. ToSet(nodes) \subseteq ToSet(after)
  BY <1>2, <1>3, GrownKeeps
<1>5. \A o : Registered(nodes, o) => Registered(after, o)
  BY <1>4 DEF Registered
<1>6. ToSet(Pair(owner)) \subseteq Endpoints
  BY DEF Pair, Endpoints, ToSet
<1> QED BY <1>3, <1>5, <1>6

LEMMA NodesStay ==
  ASSUME OwnerTypes, nodes' = nodes
  PROVE  nodes \in Seq(Endpoints) /\ nodes' \in Seq(Endpoints) /\ Grown(nodes, nodes')
<1>1. nodes \in Seq(Endpoints) /\ Len(nodes) \in Nat
  BY LenProperties DEF OwnerTypes
<1> QED BY <1>1 DEF Grown

LEMMA ActivateDeviceKeeps ==
  ASSUME MemoryInv, NEW d \in Devices, NEW w \in Widths, ActivateDevice(d, w)
  PROVE  MemoryInv' /\ (file' = file \/ file' = Document')
<1>1. HandlersInv /\ OwnerTypes /\ OwnersInv /\ d \in Owners
  BY DEF MemoryInv, Owners
<1>2. /\ nodes' = RegisterPair(nodes, Pair(d)) /\ connected' = connected /\ known' = known
      /\ UNCHANGED <<routeVars, dspVars, handlerVars, registry, get>>
      /\ tone' = tone /\ global' = global
      /\ \/ Registered(nodes', d) /\ Opened(d, w) /\ Persist
         \/ UNCHANGED <<online, deviceVars, file>>
  BY DEF ActivateDevice, masterVars
<1>3. /\ nodes \in Seq(Endpoints) /\ nodes' \in Seq(Endpoints) /\ IsTable(nodes') /\ Grown(nodes, nodes')
      /\ \A o : Registered(nodes, o) => Registered(nodes', o)
      /\ ToSet(Pair(d)) \subseteq Endpoints
  BY <1>1, <1>2, PairKeeps DEF OwnerTypes
<1>4. HandlersInv'
  BY <1>1, <1>2, <1>3, HandlersFrame DEF HandlersInv, DspTypes
<1>5. file' = file \/ file' = Document'
  BY <1>2 DEF Persist
<1>6. /\ online' \subseteq Endpoints /\ activated' \in Seq(Devices) /\ streams' \in [Devices -> Widths]
      /\ \A o \in ToSet(activated') : Registered(nodes', o)
  <2>1. CASE Registered(nodes', d) /\ Opened(d, w)
    <3>1. PICK more \in SUBSET ToSet(Pair(d)) : online' = online \cup more
      BY <2>1 DEF Opened
    <3>2. /\ streams' = [streams EXCEPT ![d] = w]
          /\ activated' = IF d \in ToSet(activated) THEN activated ELSE Append(activated, d)
      BY <2>1 DEF Opened
    <3>3. activated \in Seq(Devices) /\ Len(activated) \in Nat /\ DOMAIN activated = 1..Len(activated)
      BY <1>1, LenProperties DEF OwnerTypes
    <3>4. activated' \in Seq(Devices) /\ ToSet(activated') \subseteq ToSet(activated) \cup {d}
      <4> DEFINE list == Append(activated, d)
      <4>1. /\ list \in Seq(Devices) /\ Len(list) = Len(activated) + 1
            /\ \A i \in 1..Len(activated) : list[i] = activated[i]
            /\ list[Len(activated) + 1] = d
        BY <3>3, AppendProperties
      <4>2. DOMAIN list = 1..Len(activated) + 1
        BY <4>1, LenProperties
      <4> HIDE DEF list
      <4>3. ToSet(list) \subseteq ToSet(activated) \cup {d}
        BY <3>3, <4>1, <4>2 DEF ToSet
      <4> QED BY <3>2, <3>3, <4>1, <4>3 DEF list
    <3>5. online' \subseteq Endpoints /\ streams' \in [Devices -> Widths]
      BY <1>1, <1>3, <3>1, <3>2 DEF OwnerTypes
    <3>6. \A o \in ToSet(activated') : Registered(nodes', o)
      BY <1>1, <1>3, <2>1, <3>4 DEF OwnersInv
    <3> QED BY <3>4, <3>5, <3>6
  <2>2. CASE UNCHANGED <<online, deviceVars>>
    BY <1>1, <1>3, <2>2 DEF deviceVars, OwnerTypes, OwnersInv
  <2> QED BY <1>2, <2>1, <2>2
<1>7. OwnerTypes'
  BY <1>1, <1>2, <1>3, <1>6 DEF OwnerTypes, IsTable
<1>8. OwnersInv'
  BY <1>1, <1>2, <1>3, <1>6 DEF OwnersInv
<1> QED BY <1>4, <1>5, <1>7, <1>8 DEF MemoryInv

LEMMA DeactivateDeviceKeeps ==
  ASSUME MemoryInv, NEW d \in Devices, DeactivateDevice(d)
  PROVE  MemoryInv' /\ (file' = file \/ file' = Document')
<1>1. HandlersInv /\ OwnerTypes /\ OwnersInv
  BY DEF MemoryInv
<1>2. /\ nodes' = nodes /\ connected' = connected /\ known' = known /\ streams' = streams
      /\ online' = online \ ToSet(Pair(d)) /\ activated' = Among(activated, Devices \ {d})
      /\ UNCHANGED <<routeVars, dspVars, handlerVars, registry, get>>
      /\ tone' = tone /\ global' = global
      /\ (file' = file \/ file' = Document')
  BY DEF DeactivateDevice, masterVars, Persist
<1>3. nodes \in Seq(Endpoints) /\ nodes' \in Seq(Endpoints) /\ Grown(nodes, nodes')
  BY <1>1, <1>2, NodesStay
<1>4. HandlersInv'
  BY <1>1, <1>2, <1>3, HandlersFrame DEF HandlersInv, DspTypes
<1>5. activated' \in Seq(Devices) /\ ToSet(activated') \subseteq ToSet(activated)
  <2>1. activated \in Seq(Devices)
    BY <1>1 DEF OwnerTypes
  <2> QED BY <1>2, <2>1, AmongKeeps, AmongSet
<1>6. OwnerTypes'
  BY <1>1, <1>2, <1>5 DEF OwnerTypes
<1>7. OwnersInv'
  BY <1>1, <1>2, <1>5 DEF OwnersInv
<1> QED BY <1>2, <1>4, <1>6, <1>7 DEF MemoryInv

LEMMA ClaimIdentityKeeps ==
  ASSUME MemoryInv, NEW p \in Provisional, NEW k \in Keys, ClaimIdentity(p, k)
  PROVE  MemoryInv' /\ file' = file
<1>1. HandlersInv /\ OwnerTypes /\ OwnersInv /\ k \in Owners
  BY DEF MemoryInv, Owners
<1>2. /\ nodes' = RegisterPair(nodes, Pair(k)) /\ activated' = activated /\ streams' = streams
      /\ UNCHANGED <<routeVars, dspVars, handlerVars, registry, get>>
      /\ tone' = tone /\ global' = global /\ file' = file
      /\ \/ /\ Registered(nodes', k)
            /\ connected' = (connected \ {p}) \cup {k} /\ known' = known \cup {k}
            /\ online' = online \cup ToSet(Pair(k))
         \/ connected' = connected \ {p} /\ known' = known /\ online' = online
  BY DEF ClaimIdentity, masterVars, deviceVars
<1>3. /\ nodes \in Seq(Endpoints) /\ nodes' \in Seq(Endpoints) /\ IsTable(nodes') /\ Grown(nodes, nodes')
      /\ \A o : Registered(nodes, o) => Registered(nodes', o)
      /\ ToSet(Pair(k)) \subseteq Endpoints
  BY <1>1, <1>2, PairKeeps DEF OwnerTypes
<1>4. HandlersInv'
  BY <1>1, <1>2, <1>3, HandlersFrame DEF HandlersInv, DspTypes
<1>5. OwnerTypes'
  BY <1>1, <1>2, <1>3 DEF OwnerTypes, IsTable
<1>6. \A o \in connected' \ Provisional : Registered(nodes', o)
  BY <1>1, <1>2, <1>3 DEF OwnersInv
<1>7. OwnersInv'
  BY <1>1, <1>2, <1>3, <1>6 DEF OwnersInv
<1> QED BY <1>2, <1>4, <1>5, <1>7 DEF MemoryInv

LEMMA SessionKeeps ==
  ASSUME MemoryInv,
         (\E p \in Provisional : CreateSession(p)) \/ (\E k \in Keys \cup Provisional : RemoveSession(k))
  PROVE  MemoryInv' /\ file' = file
<1>1. HandlersInv /\ OwnerTypes /\ OwnersInv
  BY DEF MemoryInv
<1>2. /\ nodes' = nodes /\ known' = known /\ activated' = activated /\ streams' = streams
      /\ UNCHANGED <<routeVars, dspVars, handlerVars, registry, get>>
      /\ tone' = tone /\ global' = global /\ file' = file
      /\ \/ online' = online /\ \E p \in Provisional : connected' = connected \cup {p}
         \/ online' \subseteq online /\ connected' \subseteq connected
  <2>1. CASE \E p \in Provisional : CreateSession(p)
    BY <2>1 DEF CreateSession, masterVars, deviceVars
  <2>2. CASE \E k \in Keys \cup Provisional : RemoveSession(k)
    BY <2>2 DEF RemoveSession, masterVars, deviceVars
  <2> QED BY <2>1, <2>2
<1>3. nodes \in Seq(Endpoints) /\ nodes' \in Seq(Endpoints) /\ Grown(nodes, nodes')
  BY <1>1, <1>2, NodesStay
<1>4. HandlersInv'
  BY <1>1, <1>2, <1>3, HandlersFrame DEF HandlersInv, DspTypes
<1>5. OwnerTypes'
  BY <1>1, <1>2 DEF OwnerTypes
<1>6. OwnersInv'
  BY <1>1, <1>2 DEF OwnersInv
<1> QED BY <1>2, <1>4, <1>5, <1>6 DEF MemoryInv

LEMMA SettingKeeps ==
  ASSUME MemoryInv, SaveSettings \/ \E level \in Levels : PostTone(level) \/ PostGlobalDsp(level)
  PROVE  MemoryInv' /\ (file' = file \/ file' = Document)
<1>1. HandlersInv /\ OwnerTypes /\ OwnersInv
  BY DEF MemoryInv
<1>2. /\ UNCHANGED <<clientVars, deviceVars, routeVars, dspVars, handlerVars, registry, get>>
      /\ (file' = file \/ file' = Document)
  BY DEF SaveSettings, PostTone, PostGlobalDsp
<1>3. tone' \in Levels /\ global' \in Levels
  <2>1. tone \in Levels /\ global \in Levels
    BY <1>1 DEF HandlersInv, DspTypes
  <2> QED BY <2>1 DEF SaveSettings, PostTone, PostGlobalDsp, masterVars
<1>4. nodes \in Seq(Endpoints) /\ nodes' \in Seq(Endpoints) /\ Grown(nodes, nodes')
  BY <1>1, <1>2, NodesStay DEF clientVars
<1>5. HandlersInv'
  BY <1>1, <1>2, <1>3, <1>4, HandlersFrame DEF HandlersInv
<1>6. OwnerTypes' /\ OwnersInv'
  BY <1>1, <1>2, OwnersFrame
<1> QED BY <1>2, <1>5, <1>6 DEF MemoryInv

-------------------------------------------------------------------------------
(* The invariant holds in every reachable state.                           *)

LEMMA ConfigNext == ConfigInv /\ [Next]_vars => ConfigInv'
<1>1. SUFFICES ASSUME ConfigInv, [Next]_vars PROVE ConfigInv'
  OBVIOUS
<1>2. MemoryInv /\ FileInv
  BY <1>1, PartsOfInv
<1>3. (ConfigInv <=> MemoryInv /\ FileInv)'
  BY PartsOfInv, PTL
<1>4. (MemoryInv => Document \in Files /\ Writable(Document))'
  BY DocumentKeeps, PTL
<1>5. Document \in Files /\ Writable(Document)
  BY <1>2, DocumentKeeps
<1>6. CASE Restart
  BY <1>2, <1>6, RestartKeeps
<1>7. ASSUME MemoryInv', file' = file \/ file' = Document \/ file' = Document' PROVE ConfigInv'
  BY <1>2, <1>3, <1>4, <1>5, <1>7 DEF FileInv
<1>8. CASE \E s, d \in 0..NodeCapacity, level \in Levels : AddRoute(s, d, level)
  BY <1>2, <1>7, <1>8, AddRouteKeeps
<1>9. CASE \E id \in Ids, level \in Levels :
             UpdateRoute(id, level) \/ \E dsp \in Requests : ApplyRoute(id, level, dsp)
  BY <1>2, <1>7, <1>9, UpdateRouteKeeps, PrepareKeeps
<1>10. CASE \E id \in Ids : RemoveRoute(id) \/ GetDsp(id) \/ \E dsp \in Requests : PostDsp(id, dsp)
  <2>1. \E level : level \in Levels
    BY ConfigAssumption DEF ConfigAssumption
  <2>2. CASE \E id \in Ids : RemoveRoute(id)
    BY <1>2, <1>7, <2>2, RemoveRouteKeeps
  <2>3. CASE \E id \in Ids : GetDsp(id)
    BY <1>2, <1>7, <2>3, SlotStepKeeps
  <2>4. CASE \E id \in Ids : \E dsp \in Requests : PostDsp(id, dsp)
    BY <1>2, <1>7, <2>1, <2>4, PrepareKeeps
  <2> QED BY <1>10, <2>2, <2>3, <2>4
<1>11. CASE EraseCache \/ PublishDsp \/ StoreCache \/ GetAnswer
  BY <1>2, <1>7, <1>11, SlotStepKeeps
<1>12. CASE \E d \in Devices : DeactivateDevice(d) \/ \E w \in Widths : ActivateDevice(d, w)
  BY <1>2, <1>7, <1>12, DeactivateDeviceKeeps, ActivateDeviceKeeps
<1>13. CASE \E p \in Provisional : CreateSession(p) \/ \E k \in Keys : ClaimIdentity(p, k)
  BY <1>2, <1>7, <1>13, SessionKeeps, ClaimIdentityKeeps
<1>14. CASE (\E k \in Keys \cup Provisional : RemoveSession(k))
  BY <1>2, <1>7, <1>14, SessionKeeps
<1>15. CASE SaveSettings \/ \E level \in Levels : PostTone(level) \/ PostGlobalDsp(level)
  BY <1>2, <1>7, <1>15, SettingKeeps
<1>16. CASE UNCHANGED vars
  <2>1. /\ UNCHANGED <<clientVars, deviceVars, routeVars, dspVars, handlerVars, registry, file, get>>
        /\ tone' = tone /\ global' = global
    BY <1>16 DEF vars, masterVars
  <2>2. HandlersInv /\ OwnerTypes /\ OwnersInv
    BY <1>2 DEF MemoryInv
  <2>3. OwnerTypes' /\ OwnersInv'
    BY <2>1, <2>2, OwnersFrame
  <2>4. nodes \in Seq(Endpoints) /\ nodes' \in Seq(Endpoints) /\ Grown(nodes, nodes')
    BY <2>1, <2>2, NodesStay DEF clientVars
  <2>5. HandlersInv'
    BY <2>1, <2>2, <2>4, HandlersFrame DEF HandlersInv, DspTypes
  <2> QED BY <1>7, <2>1, <2>3, <2>5 DEF MemoryInv
<1> QED BY <1>1, <1>6, <1>8, <1>9, <1>10, <1>11, <1>12, <1>13, <1>14, <1>15, <1>16 DEF Next

LEMMA ConfigInvariant == Spec => []ConfigInv
<1>1. Init => ConfigInv
  BY ConfigStarts
<1>2. ConfigInv /\ [Next]_vars => ConfigInv'
  BY ConfigNext
<1> QED BY <1>1, <1>2, PTL DEF Spec

(* Every variable of the configuration keeps its type; the node table its  *)
(* limit, and every route ends at nodes that exist.                        *)
THEOREM TypeCorrect == Spec => []TypeOK
<1>1. ConfigInv => TypeOK
  BY DEF ConfigInv
<1> QED BY <1>1, ConfigInvariant, PTL

(* Outside a publication the cache tells, of every route in the list, what *)
(* its engine slot plays: through removals that leave the slot as it is,   *)
(* new routes, restarts with a chain that cannot be built, and files that  *)
(* end a load halfway (web_server.cpp, load_settings, the DSP handlers).   *)
THEOREM CacheTellsSlots == Spec => []CacheMatchesEngine
<1>1. ConfigInv => CacheMatchesEngine
  <2>1. SUFFICES ASSUME ConfigInv, cacheLock # "post", NEW r \in ToSet(routes)
                 PROVE  IF Supported(r.id) THEN engine[r.id] = Publication(cache[r.id]) ELSE ~cache[r.id].active
    BY DEF CacheMatchesEngine
  <2>2. r.id \in Ids
    <3>1. \A i \in DOMAIN routes : routes[i] \in [id : Ids, src : Nat, dst : Nat, level : Levels]
      <4> DEFINE R == [id : Ids, src : Nat, dst : Nat, level : Levels]
      <4>1. routes \in Seq(R)
        BY <2>1 DEF ConfigInv, TypeOK
      <4> HIDE DEF R
      <4>2. \A i \in DOMAIN routes : routes[i] \in R
        BY <4>1, LenProperties
      <4> QED BY <4>2 DEF R
    <3> QED BY <3>1 DEF ToSet
  <2>3. Live(r.id) /\ pc # "store"
    BY <2>1 DEF ConfigInv, Live, Exists, JobInv
  <2> QED BY <2>1, <2>2, <2>3 DEF ConfigInv, SlotsInv, Match
<1> QED BY <1>1, ConfigInvariant, PTL

(* What GET answers of a route's DSP is what the engine plays at that      *)
(* moment, since the answer is made under the cache lock.                  *)
THEOREM GetIsTrue == Spec => []GetTellsWhatPlays
<1>1. ConfigInv => GetTellsWhatPlays
  BY DEF ConfigInv, GetInv, GetTellsWhatPlays
<1> QED BY <1>1, ConfigInvariant, PTL

(* Every client that was accepted and every activated device has both of   *)
(* its nodes, and no endpoint has two: also after a restart, because what  *)
(* a save names fits into the table of the process that loads it.          *)
THEOREM OwnersKeepNodes == Spec => []OwnersHaveNodes
<1>1. ConfigInv => OwnersHaveNodes
  <2>1. SUFFICES ASSUME ConfigInv PROVE OwnersHaveNodes
    OBVIOUS
  <2>2. DOMAIN nodes = 1..Len(nodes)
    BY <2>1, LenProperties DEF ConfigInv, TypeOK
  <2> QED BY <2>1, <2>2 DEF ConfigInv, OwnersInv, IsTable, OwnersHaveNodes
<1> QED BY <1>1, ConfigInvariant, PTL

-------------------------------------------------------------------------------
(* A restart: all that a convertible file has is found again.              *)

LEMMA AllValidAreLoaded ==
  ASSUME NEW f \in Files, Writable(f), Convertible(f)
  PROVE  LET kept == LoadedRoutes(f, LoadedTable(f)) IN
         /\ kept = Among(f.routes, {r \in ToSet(f.routes) : r.form = "valid"})
         /\ kept \in Seq(SavedRoutes)
         /\ \A i \in DOMAIN kept : /\ kept[i].form = "valid"
                                   /\ Found(LoadedTable(f), kept[i].source)
                                   /\ Found(LoadedTable(f), kept[i].destination)
         /\ \A i, j \in DOMAIN kept : i # j => kept[i].id # kept[j].id
<1> DEFINE table == LoadedTable(f)
           kept == LoadedRoutes(f, table)
           valid == {r \in ToSet(f.routes) : r.form = "valid"}
           set == {r \in ToSet(f.routes) : /\ r.form = "valid"
                                           /\ {r.source, r.destination} \subseteq ToSet(table) \cup {Tone}}
<1>1. f.routes \in Seq(SavedRoutes) /\ \A r \in ToSet(f.routes) : r.form # "type"
  BY DEF Files, Convertible
<1>2. Reached(f.routes) = f.routes
  BY <1>1, ReachedKeeps
<1>3. \A r \in ToSet(f.routes) : r.form # "id" => Found(table, r.source) /\ Found(table, r.destination)
  BY <1>2, LoadedTableKeeps
<1>4. kept = Among(f.routes, set)
  BY <1>2 DEF LoadedRoutes
<1> HIDE DEF table
<1>5. set = valid
  BY <1>3 DEF Found
<1> HIDE DEF set, kept
<1>6. kept = Among(f.routes, valid)
  BY <1>4, <1>5
<1>7. kept \in Seq(SavedRoutes) /\ \A r \in ToSet(kept) : r.form = "valid" /\ Found(table, r.source) /\ Found(table, r.destination)
  BY LoadedRoutesKeep DEF kept
<1>8. \A i \in DOMAIN kept : kept[i] \in ToSet(kept)
  BY DEF ToSet
<1>9. \A i, j \in DOMAIN kept : i # j => kept[i].id # kept[j].id
  BY <1>1, LoadedIdsDiffer DEF kept
<1> QED BY <1>6, <1>7, <1>8, <1>9 DEF kept, table

(* The DSP of a saved route is cached as it was saved, except that a chain *)
(* which cannot be built is inactive.                                      *)
LEMMA DspIsRestored ==
  ASSUME NEW kept \in Seq(SavedRoutes), LoadDsp(kept), NEW i \in DOMAIN kept,
         \A j \in DOMAIN kept : j # i => kept[j].id # kept[i].id
  PROVE  LET now == cache'[kept[i].id]
             saved == kept[i].dsp
         IN  /\ now.set = saved.set /\ now.chain = saved.chain
             /\ Supported(kept[i].id) /\ saved.chain \in registry' => now.active = saved.active
<1> DEFINE id == kept[i].id
           saved == kept[i].dsp
           T(x) == {j \in 1..Len(kept) : kept[j].id = x /\ kept[j].dsp.set}
           last(x) == IF T(x) # {} THEN Max(T(x)) ELSE 0
<1>1. Len(kept) \in Nat /\ DOMAIN kept = 1..Len(kept) /\ \A j \in 1..Len(kept) : kept[j] \in SavedRoutes
  BY LenProperties
<1>2. id \in Ids /\ saved \in SavedDsps
  BY <1>1 DEF SavedRoutes
<1>3. cache' = [x \in Ids |-> IF last(x) = 0 THEN NoDsp ELSE RestoredDsp(x, kept[last(x)].dsp)]
  BY DEF LoadDsp, SelectLastInSeq
<1>4. CASE saved.set
  <2>1. T(id) \subseteq 1..Len(kept) /\ T(id) # {}
    BY <1>1, <1>4
  <2>2. Max(T(id)) \in T(id)
    BY <1>1, <2>1, LargestIndex
  <2>3. last(id) \in 1..Len(kept) /\ kept[last(id)].id = id
    BY <2>1, <2>2
  <2> HIDE DEF last
  <2>4. last(id) = i
    BY <1>1, <2>3
  <2>5. i # 0
    BY <1>1
  <2>6. cache'[id] = RestoredDsp(id, saved)
    BY <1>2, <1>3, <2>4, <2>5
  <2> HIDE DEF id, saved
  <2>7. cache'[id] = IF Supported(id) /\ saved.chain \in registry'
                       THEN Dsp(saved.active, saved.chain, FALSE) ELSE Dsp(FALSE, saved.chain, TRUE)
    BY <1>4, <2>6 DEF RestoredDsp
  <2>8. saved.set = TRUE
    BY <1>2, <1>4 DEF SavedDsps
  <2>9. /\ cache'[id].set = TRUE /\ cache'[id].chain = saved.chain
        /\ Supported(id) /\ saved.chain \in registry' => cache'[id] = Dsp(saved.active, saved.chain, FALSE)
    BY <2>7 DEF Dsp
  <2>10. Dsp(saved.active, saved.chain, FALSE).active = saved.active
    BY DEF Dsp
  <2>11. /\ cache'[id].set = saved.set /\ cache'[id].chain = saved.chain
         /\ Supported(id) /\ saved.chain \in registry' => cache'[id].active = saved.active
    BY <2>8, <2>9, <2>10, Zenon
  <2> QED BY <2>11 DEF id, saved
<1>5. CASE ~saved.set
  <2>1. T(id) = {}
    BY <1>1, <1>5
  <2>2. last(id) = 0
    BY <2>1
  <2> HIDE DEF last
  <2>3. cache'[id] = NoDsp
    BY <1>2, <1>3, <2>2
  <2> HIDE DEF id, saved
  <2>4. saved.set = FALSE /\ saved.active = FALSE /\ saved.chain = Empty
    BY <1>2, <1>5 DEF SavedDsps
  <2>5. cache'[id].set = FALSE /\ cache'[id].active = FALSE /\ cache'[id].chain = Empty
    BY <2>3 DEF NoDsp
  <2>6. /\ cache'[id].set = saved.set /\ cache'[id].chain = saved.chain
        /\ cache'[id].active = saved.active
    BY <2>4, <2>5, Zenon
  <2> QED BY <2>6 DEF id, saved
<1> QED BY <1>4, <1>5

(* Two saved routes that differ in the active flag at most.                *)
LEMMA SameButActive ==
  ASSUME NEW form, NEW id, NEW source, NEW destination, NEW level, NEW set, NEW chain, NEW x, NEW y, NEW off
  PROVE  LET With(active) == [form |-> form, id |-> id, source |-> source, destination |-> destination, level |-> level,
                              dsp |-> [set |-> set, active |-> active, chain |-> chain]]
         IN  [With(x) EXCEPT !.dsp.active = off] = [With(y) EXCEPT !.dsp.active = off]
<1> DEFINE Dsp1(active) == [set |-> set, active |-> active, chain |-> chain]
           With(active) == [form |-> form, id |-> id, source |-> source, destination |-> destination, level |-> level,
                            dsp |-> Dsp1(active)]
<1>1. \A active : [Dsp1(active) EXCEPT !.active = off] = Dsp1(off)
  OBVIOUS
<1>2. \A active : With(active).dsp = Dsp1(active)
  OBVIOUS
<1> HIDE DEF Dsp1
<1>3. \A active, new : [With(active) EXCEPT !.dsp = new] =
                         [form |-> form, id |-> id, source |-> source, destination |-> destination, level |-> level, dsp |-> new]
  OBVIOUS
<1>4. \A active : [With(active) EXCEPT !.dsp.active = off] = With(off)
  <2>1. \A active : [With(active) EXCEPT !.dsp.active = off] =
                     [With(active) EXCEPT !.dsp = [With(active).dsp EXCEPT !.active = off]]
    OBVIOUS
  <2> QED BY <1>1, <1>2, <1>3, <2>1
<1> QED BY <1>4 DEF Dsp1

LEMMA RestartKeepsAll ==
  FileInv /\ Restart /\ Convertible(file) => SettingsKept(Document, file)'
<1>1. SUFFICES ASSUME FileInv, Restart, Convertible(file) PROVE SettingsKept(Document, file)'
  OBVIOUS
<1> DEFINE f == file
           table == LoadedTable(f)
           kept == LoadedRoutes(f, table)
           valid == {r \in ToSet(f.routes) : r.form = "valid"}
<1>2. f \in Files /\ Writable(f) /\ file' = f
  BY <1>1 DEF FileInv, Restart
<1>3. f.fault = "none" /\ \A r \in ToSet(f.routes) : r.form # "type"
  BY <1>1 DEF Convertible
<1>4. /\ global' = f.global /\ tone' = f.tone /\ activated' = f.devices /\ streams' = f.streams
      /\ known' = f.clients /\ connected' = {} /\ nodes' = table
      /\ LoadDsp(kept) /\ LoadRoutes(kept, table)
  BY <1>1, <1>3 DEF Restart, Start, LoadSettings
<1>5. /\ kept = Among(f.routes, valid) /\ kept \in Seq(SavedRoutes)
      /\ \A i \in DOMAIN kept : kept[i].form = "valid" /\ Found(table, kept[i].source) /\ Found(table, kept[i].destination)
      /\ \A i, j \in DOMAIN kept : i # j => kept[i].id # kept[j].id
  BY <1>1, <1>2, AllValidAreLoaded
<1>6. table \in Seq(Endpoints)
  BY <1>2, LoadedTableKeeps DEF IsTable
<1> HIDE DEF table, kept
<1>7. /\ Len(kept) \in Nat /\ DOMAIN kept = 1..Len(kept)
      /\ \A i \in 1..Len(kept) : kept[i] \in SavedRoutes
  BY <1>5, LenProperties
<1> DEFINE Entry(i) == [id |-> kept[i].id, src |-> NodeIn(table, kept[i].source),
                        dst |-> NodeIn(table, kept[i].destination), level |-> kept[i].level]
<1>8. routes' = [i \in 1..Len(kept) |-> Entry(i)]
  BY <1>4, <1>7 DEF LoadRoutes
<1> DEFINE Now(i) == SavedRoute(routes[i])'
           saved == [i \in 1..Len(kept) |-> Now(i)]
<1>9. Document' = [fault |-> "none", global |-> f.global, tone |-> f.tone, devices |-> f.devices,
                   streams |-> f.streams, clients |-> f.clients, routes |-> saved]
  <2>1. DOMAIN routes' = 1..Len(kept)
    BY <1>8
  <2>2. known' \cup connected' = f.clients
    BY <1>4
  <2> QED BY <1>4, <2>1, <2>2 DEF Document
<1>10. ASSUME NEW i \in 1..Len(kept)
       PROVE  LET now == cache'[kept[i].id] IN
              Now(i) = [form |-> "valid", id |-> kept[i].id, source |-> kept[i].source, destination |-> kept[i].destination,
                        level |-> kept[i].level, dsp |-> [set |-> now.set, active |-> now.active, chain |-> now.chain]]
  <2> DEFINE from == NodeIn(table, kept[i].source)
             to == NodeIn(table, kept[i].destination)
  <2>1. routes'[i] = [id |-> kept[i].id, src |-> from, dst |-> to, level |-> kept[i].level]
    BY <1>8
  <2>2. /\ (IF from = 0 THEN Tone ELSE table[from]) = kept[i].source
        /\ (IF to = 0 THEN Tone ELSE table[to]) = kept[i].destination
    BY <1>5, <1>6, <1>7, NodeInFinds
  <2> HIDE DEF from, to
  <2>3. /\ routes'[i].id = kept[i].id /\ routes'[i].level = kept[i].level
        /\ routes'[i].src = from /\ routes'[i].dst = to
    BY <2>1
  <2>4. EndpointOf(routes[i].src)' = kept[i].source /\ EndpointOf(routes[i].dst)' = kept[i].destination
    BY <1>4, <2>2, <2>3 DEF EndpointOf
  <2> QED BY <2>3, <2>4 DEF SavedRoute
<1> HIDE DEF Entry, Now
<1>11. ASSUME NEW i \in 1..Len(kept)
       PROVE  /\ [saved[i] EXCEPT !.dsp.active = FALSE] = [kept[i] EXCEPT !.dsp.active = FALSE]
              /\ Supported(kept[i].id) /\ kept[i].dsp.chain \in registry' => saved[i].dsp.active = kept[i].dsp.active
  <2> DEFINE now == cache'[kept[i].id]
             was == kept[i].dsp
  <2>1. /\ now.set = was.set /\ now.chain = was.chain
        /\ Supported(kept[i].id) /\ was.chain \in registry' => now.active = was.active
    BY <1>4, <1>5, <1>7, DspIsRestored
  <2>2. /\ kept[i] = [form |-> kept[i].form, id |-> kept[i].id, source |-> kept[i].source,
                      destination |-> kept[i].destination, level |-> kept[i].level, dsp |-> was]
        /\ was = [set |-> was.set, active |-> was.active, chain |-> was.chain]
        /\ kept[i].form = "valid"
    BY <1>5, <1>7 DEF SavedRoutes, SavedDsps
  <2>3. saved[i] = [form |-> "valid", id |-> kept[i].id, source |-> kept[i].source, destination |-> kept[i].destination,
                    level |-> kept[i].level, dsp |-> [set |-> now.set, active |-> now.active, chain |-> now.chain]]
    BY <1>10
  <2> HIDE DEF now, was, saved
  <2>4. saved[i].dsp.active = now.active
    BY <2>3
  <2> DEFINE With(active) == [form |-> "valid", id |-> kept[i].id, source |-> kept[i].source,
                              destination |-> kept[i].destination, level |-> kept[i].level,
                              dsp |-> [set |-> was.set, active |-> active, chain |-> was.chain]]
  <2>5. saved[i] = With(now.active) /\ kept[i] = With(was.active)
    BY <2>1, <2>2, <2>3
  <2>6. \A off : [With(now.active) EXCEPT !.dsp.active = off] = [With(was.active) EXCEPT !.dsp.active = off]
    BY SameButActive
  <2> HIDE DEF With
  <2> QED BY <2>1, <2>4, <2>5, <2>6 DEF was
<1>12. [Document' EXCEPT !.routes = <<>>] = [f EXCEPT !.routes = <<>>]
  <2>1. f = [fault |-> "none", global |-> f.global, tone |-> f.tone, devices |-> f.devices,
             streams |-> f.streams, clients |-> f.clients, routes |-> f.routes]
    BY <1>2, <1>3 DEF Files
  <2> HIDE DEF saved
  <2> QED BY <1>9, <2>1
<1>13. Document'.routes = saved /\ Len(saved) = Len(kept)
  BY <1>7, <1>9
<1> HIDE DEF saved
<1> QED BY <1>2, <1>5, <1>7, <1>11, <1>12, <1>13 DEF SettingsKept, SameRoute

(* A restart finds again what a save has left: every setting, and every    *)
(* route with its level and DSP; only a chain that this build cannot make  *)
(* is switched off.  A file with a value of the wrong type is another      *)
(* matter (load_settings).                                                 *)
THEOREM RestartRestores == Spec => RestartKeepsSettings
<1>1. ConfigInv => FileInv
  BY PartsOfInv
<1>2. ConfigInv /\ [Next]_vars => [Restart /\ Convertible(file) => SettingsKept(Document, file)']_vars
  BY <1>1, RestartKeepsAll
<1> QED BY <1>2, ConfigInvariant, PTL DEF Spec, RestartKeepsSettings
===============================================================================
