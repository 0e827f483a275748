---------------------------- MODULE LinesProofs ----------------------------
(***************************************************************************)
(* Proofs about Lines, for every set of programs: the tables are what the  *)
(* stable sorts make of the sequences and the symbols, and every question  *)
(* asked of them gets the answer the unsorted program gives.               *)
(***************************************************************************)
EXTENDS Lines, FiniteSetTheorems, WellFoundedInduction, TLAPS

-----------------------------------------------------------------------------
(* First and Last.                                                         *)

(* Every set of numbers has a lowest one.                                  *)
LEMMA FirstOf ==
    ASSUME NEW S \in SUBSET Nat, S # {}
    PROVE  First(S) \in S /\ \A j \in S : First(S) <= j
<1> DEFINE R == OpToRel(<, Nat)
<1>1. \E i \in S : \A j \in S : <<j, i>> \notin R
  <2>1. IsWellFoundedOn(R, Nat) BY NatLessThanWellFounded
  <2> HIDE DEF R
  <2> QED BY <2>1, WFMin
<1>2. PICK i \in S : \A j \in S : <<j, i>> \notin R BY <1>1
<1>3. ASSUME NEW j \in S PROVE i <= j
  <2>1. ~(j < i) BY <1>2 DEF OpToRel
  <2> QED BY <2>1
<1> QED BY <1>3 DEF First

(* A bounded one has a highest.                                            *)
LEMMA LastOf ==
    ASSUME NEW n \in Nat, NEW S \in SUBSET (0 .. n), S # {}
    PROVE  Last(S) \in S /\ \A j \in S : j <= Last(S)
<1> DEFINE T == {n - i : i \in S}
<1>1. T \in SUBSET Nat /\ T # {}
  <2>1. \A i \in S : n - i \in Nat
    OBVIOUS
  <2> QED BY <2>1
<1>2. First(T) \in T /\ \A j \in T : First(T) <= j
  <2> HIDE DEF T
  <2> QED BY <1>1, FirstOf
<1>3. PICK i \in S : First(T) = n - i
  BY <1>2
<1>4. ASSUME NEW j \in S PROVE j <= i
  <2>1. n - i <= n - j
    BY <1>2, <1>3
  <2> QED BY <2>1
<1> QED BY <1>4 DEF Last

-----------------------------------------------------------------------------
(* Sorting.                                                                *)

StrictOrder(S, R) ==
    /\ \A x \in S : <<x, x>> \notin R
    /\ \A x, y, z \in S : <<x, y>> \in R /\ <<y, z>> \in R => <<x, z>> \in R
    /\ \A x, y \in S : x = y \/ <<x, y>> \in R \/ <<y, x>> \in R

(* A list of all elements of S, in the order R.                            *)
InOrder(l, S, R) ==
    /\ Cardinality(S) \in Nat
    /\ l \in [1 .. Cardinality(S) -> S]
    /\ \A i, j \in 1 .. Cardinality(S) : i < j => <<l[i], l[j]>> \in R
    /\ \A x \in S : \E i \in 1 .. Cardinality(S) : l[i] = x

(* The number of elements before one determines it.                        *)
LEMMA ListedInOrder ==
    ASSUME NEW S, IsFiniteSet(S), NEW R, StrictOrder(S, R)
    PROVE  InOrder(Listed(S, R), S, R)
<1> DEFINE n == Cardinality(S)
           Before(x) == {y \in S : <<y, x>> \in R}
           rank == [x \in S |-> Cardinality(Before(x))]
           l == Listed(S, R)
<1>1. n \in Nat
  BY FS_CardinalityType
<1>2. \A x \in S : IsFiniteSet(Before(x)) /\ Cardinality(Before(x)) \in Nat
  BY FS_Subset, FS_CardinalityType
<1>3. ASSUME NEW x \in S PROVE rank[x] \in 0 .. n - 1
  <2>1. Before(x) \subseteq S /\ Before(x) # S
    BY DEF StrictOrder
  <2>2. Cardinality(Before(x)) <= n /\ Cardinality(Before(x)) # n
    <3> HIDE DEF Before
    <3> QED BY <2>1, FS_Subset
  <2> QED BY <1>1, <1>2, <2>2
<1>4. ASSUME NEW x \in S, NEW y \in S, <<x, y>> \in R PROVE rank[x] < rank[y]
  <2>1. Before(x) \subseteq Before(y) /\ Before(x) # Before(y)
    BY <1>4 DEF StrictOrder
  <2>2. Cardinality(Before(x)) <= Cardinality(Before(y)) /\ Cardinality(Before(x)) # Cardinality(Before(y))
    <3> HIDE DEF Before
    <3> QED BY <1>2, <2>1, FS_Subset
  <2> QED BY <1>2, <2>2
<1>5. rank \in Injection(S, 0 .. n - 1)
  <2>1. ASSUME NEW x \in S, NEW y \in S, rank[x] = rank[y] PROVE x = y
    <3>1. ~(rank[x] < rank[y]) /\ ~(rank[y] < rank[x])
      BY <1>3, <2>1
    <3> HIDE DEF rank
    <3> QED BY <1>4, <3>1 DEF StrictOrder
  <2>2. rank \in [S -> 0 .. n - 1]
    BY <1>3
  <2> HIDE DEF rank
  <2> QED BY <2>1, <2>2 DEF Injection, IsInjective
<1>6. rank \in Surjection(S, 0 .. n - 1)
  <2>1. IsFiniteSet(0 .. n - 1) /\ Cardinality(0 .. n - 1) = n
    BY <1>1, FS_Interval
  <2> HIDE DEF rank, n
  <2> QED BY <1>5, <2>1, FS_Injection DEF n
<1>7. \A r \in 1 .. n : l[r] \in S /\ rank[l[r]] = r - 1
  <2> SUFFICES ASSUME NEW r \in 1 .. n PROVE l[r] \in S /\ rank[l[r]] = r - 1
    OBVIOUS
  <2>1. r - 1 \in 0 .. n - 1
    BY <1>1
  <2>2. \E x \in S : rank[x] = r - 1
    <3> HIDE DEF rank, n
    <3> QED BY <1>6, <2>1 DEF Surjection
  <2>3. l[r] = CHOOSE x \in S : Cardinality(Before(x)) = r - 1
    BY DEF Listed
  <2> HIDE DEF l
  <2> QED BY <2>2, <2>3
<1>8. l \in [1 .. n -> S]
  <2>1. \A r \in 1 .. n : (CHOOSE x \in S : Cardinality(Before(x)) = r - 1) \in S
    BY <1>7 DEF Listed
  <2> QED BY <2>1 DEF Listed
<1>9. ASSUME NEW i \in 1 .. n, NEW j \in 1 .. n, i < j PROVE <<l[i], l[j]>> \in R
  <2> HIDE DEF l, rank
  <2>1. ~(rank[l[j]] < rank[l[i]]) /\ l[i] # l[j]
    BY <1>1, <1>7, <1>9
  <2> QED BY <1>4, <1>7, <2>1 DEF StrictOrder
<1>10. ASSUME NEW x \in S PROVE \E i \in 1 .. n : l[i] = x
  <2>1. rank[x] + 1 \in 1 .. n
    BY <1>1, <1>3
  <2> HIDE DEF l, rank
  <2>2. rank[l[rank[x] + 1]] = rank[x] /\ l[rank[x] + 1] \in S
    BY <1>3, <1>7, <2>1
  <2> QED BY <1>5, <2>1, <2>2 DEF Injection, IsInjective
<1> QED BY <1>1, <1>8, <1>9, <1>10 DEF InOrder

(* SortByAddr is a stable sort.                                            *)
Stable(s, t, f) ==
    /\ f \in [1 .. Len(s) -> 1 .. Len(s)]
    /\ \A i, j \in 1 .. Len(s) : i < j => Precedes(s, f[i], f[j])
    /\ \A x \in 1 .. Len(s) : \E i \in 1 .. Len(s) : f[i] = x
    /\ \A i \in 1 .. Len(s) : t[i] = s[f[i]]

LEMMA SortIsStable ==
    ASSUME NEW T, NEW s \in Seq(T), \A x \in T : x.addr \in Nat
    PROVE  /\ SortByAddr(s) \in Seq(T) /\ Len(SortByAddr(s)) = Len(s)
           /\ \E f : Stable(s, SortByAddr(s), f)
<1> DEFINE n == Len(s)
           D == DOMAIN s
           R == {z \in D \X D : Precedes(s, z[1], z[2])}
           f == Listed(D, R)
<1>1. D = 1 .. n /\ n \in Nat /\ \A i \in D : s[i] \in T /\ s[i].addr \in Nat
  OBVIOUS
<1>2. IsFiniteSet(D) /\ Cardinality(D) = n
  <2>1. IsFiniteSet(1 .. n) /\ Cardinality(1 .. n) = IF 1 > n THEN 0 ELSE n - 1 + 1
    <3> HIDE DEF n
    <3> QED BY <1>1, FS_Interval
  <2> HIDE DEF n, D
  <2> QED BY <1>1, <2>1
<1>3. \A x, y : <<x, y>> \in R <=> x \in D /\ y \in D /\ Precedes(s, x, y)
  OBVIOUS
<1>4. StrictOrder(D, R)
  <2> HIDE DEF R, D, n
  <2>1. \A x \in D : x \in Nat /\ s[x].addr \in Nat
    BY <1>1
  <2>2. \A x \in D : ~Precedes(s, x, x)
    BY <2>1 DEF Precedes
  <2>3. \A x, y, z \in D : Precedes(s, x, y) /\ Precedes(s, y, z) => Precedes(s, x, z)
    BY <2>1 DEF Precedes
  <2>4. \A x, y \in D : x = y \/ Precedes(s, x, y) \/ Precedes(s, y, x)
    BY <2>1 DEF Precedes
  <2> QED BY <1>3, <2>2, <2>3, <2>4 DEF StrictOrder
<1>5. InOrder(f, D, R)
  <2> HIDE DEF R, D
  <2> QED BY <1>2, <1>4, ListedInOrder
<1>6. SortByAddr(s) = [i \in 1 .. n |-> s[f[i]]]
  BY DEF SortByAddr
<1> HIDE DEF f, R, D, n
<1>7. /\ f \in [1 .. n -> 1 .. n]
      /\ \A i, j \in 1 .. n : i < j => Precedes(s, f[i], f[j])
      /\ \A x \in 1 .. n : \E i \in 1 .. n : f[i] = x
  BY <1>1, <1>2, <1>3, <1>5 DEF InOrder
<1>8. \A i \in 1 .. n : s[f[i]] \in T
  BY <1>1, <1>7
<1>9. SortByAddr(s) \in Seq(T) /\ Len(SortByAddr(s)) = n
  BY <1>1, <1>6, <1>8
<1>10. Stable(s, SortByAddr(s), f)
  BY <1>6, <1>7 DEF Stable, n
<1> QED BY <1>9, <1>10 DEF n

-----------------------------------------------------------------------------
(* The row table.                                                          *)

LEMMA Addresses == \A row \in Rows : row.addr \in Nat /\ row.addr \in 1 .. Top
BY LinesAssumption DEF Rows

RowAt(p, x) == p.sequences[x[1]][x[2]]

(* pos[i] is where row i of the table comes from: every row of every       *)
(* sequence is there once, and of two at an address the earlier is first.  *)
Placed(p, rows, pos) ==
    /\ rows \in Seq(Rows)
    /\ pos \in [1 .. Len(rows) -> Positions(p.sequences)]
    /\ \A i \in 1 .. Len(rows) : rows[i] = RowAt(p, pos[i])
    /\ \A i, j \in 1 .. Len(rows) :
          i < j => \/ rows[i].addr < rows[j].addr
                   \/ rows[i].addr = rows[j].addr /\ Earlier(pos[i], pos[j])
    /\ \A x \in Positions(p.sequences) : \E i \in 1 .. Len(rows) : pos[i] = x

LEMMA PositionsFinite ==
    ASSUME NEW qs \in Seq(Seq(Rows)) PROVE IsFiniteSet(Positions(qs))
<1> DEFINE D == DOMAIN qs
           T == {{k} \X (DOMAIN qs[k]) : k \in D}
           f == [k \in D |-> {k} \X (DOMAIN qs[k])]
<1>1. IsFiniteSet(D)
  <2>1. Len(qs) \in Nat /\ D = 1 .. Len(qs)
    OBVIOUS
  <2> QED BY <2>1, FS_Interval
<1>2. IsFiniteSet(T)
  <2>1. f \in Surjection(D, T)
    BY DEF Surjection
  <2> HIDE DEF f, D, T
  <2> QED BY <1>1, <2>1, FS_Surjection
<1>3. ASSUME NEW k \in D PROVE IsFiniteSet({k} \X (DOMAIN qs[k]))
  <2>1. qs[k] \in Seq(Rows)
    OBVIOUS
  <2>2. Len(qs[k]) \in Nat /\ DOMAIN qs[k] = 1 .. Len(qs[k])
    BY <2>1
  <2>3. IsFiniteSet(DOMAIN qs[k])
    BY <2>2, FS_Interval
  <2> QED BY <2>3, FS_Singleton, FS_Product
<1>4. IsFiniteSet(UNION T)
  <2>1. \A U \in T : IsFiniteSet(U)
    BY <1>3
  <2> HIDE DEF T
  <2> QED BY <1>2, <2>1, FS_UNION
<1> QED BY <1>4 DEF Positions

(* A position is a number of a sequence and one of a row of it.            *)
LEMMA PositionsAre ==
    ASSUME NEW qs \in Seq(Seq(Rows))
    PROVE  /\ \A x \in Positions(qs) : /\ x[1] \in DOMAIN qs /\ x[2] \in DOMAIN qs[x[1]]
                                       /\ x = <<x[1], x[2]>> /\ x[1] \in Nat /\ x[2] \in Nat
                                       /\ qs[x[1]] \in Seq(Rows) /\ qs[x[1]][x[2]] \in Rows
           /\ \A k \in DOMAIN qs : \A i \in DOMAIN qs[k] : <<k, i>> \in Positions(qs)
<1>1. ASSUME NEW x \in Positions(qs)
      PROVE  /\ x[1] \in DOMAIN qs /\ x[2] \in DOMAIN qs[x[1]]
             /\ x = <<x[1], x[2]>> /\ x[1] \in Nat /\ x[2] \in Nat
             /\ qs[x[1]] \in Seq(Rows) /\ qs[x[1]][x[2]] \in Rows
  <2>1. PICK k \in DOMAIN qs : x \in {k} \X (DOMAIN qs[k])
    BY DEF Positions
  <2>2. qs[k] \in Seq(Rows) /\ k \in Nat
    OBVIOUS
  <2>3. x[1] = k /\ x[2] \in DOMAIN qs[k] /\ x = <<x[1], x[2]>>
    BY <2>1
  <2>4. x[2] \in Nat /\ qs[k][x[2]] \in Rows
    BY <2>2, <2>3
  <2> QED BY <2>2, <2>3, <2>4
<1>2. ASSUME NEW k \in DOMAIN qs, NEW i \in DOMAIN qs[k] PROVE <<k, i>> \in Positions(qs)
  <2>1. <<k, i>> \in {k} \X (DOMAIN qs[k])
    OBVIOUS
  <2> QED BY <2>1 DEF Positions
<1> QED BY <1>1, <1>2

(* The rows as the units give them.                                        *)
LEMMA JoinedInOrder ==
    ASSUME NEW qs \in Seq(Seq(Rows))
    PROVE  /\ Joined(qs) \in Seq(Rows)
           /\ \E l : /\ l \in [1 .. Len(Joined(qs)) -> Positions(qs)]
                     /\ \A i \in 1 .. Len(Joined(qs)) : Joined(qs)[i] = qs[l[i][1]][l[i][2]]
                     /\ \A i, j \in 1 .. Len(Joined(qs)) : i < j => Earlier(l[i], l[j])
                     /\ \A x \in Positions(qs) : \E i \in 1 .. Len(Joined(qs)) : l[i] = x
<1> DEFINE P == Positions(qs)
           n == Cardinality(P)
           R == {z \in P \X P : Earlier(z[1], z[2])}
           l == Listed(P, R)
<1>1. IsFiniteSet(P) /\ n \in Nat
  BY PositionsFinite, FS_CardinalityType
<1>2. \A x \in P : x = <<x[1], x[2]>> /\ x[1] \in Nat /\ x[2] \in Nat /\ qs[x[1]][x[2]] \in Rows
  BY PositionsAre
<1>3. \A x, y : <<x, y>> \in R <=> x \in P /\ y \in P /\ Earlier(x, y)
  OBVIOUS
<1>4. Joined(qs) = [i \in 1 .. n |-> qs[l[i][1]][l[i][2]]]
  BY DEF Joined
<1> HIDE DEF P, R, n
<1>5. StrictOrder(P, R)
  <2>1. \A x \in P : ~Earlier(x, x)
    BY <1>2 DEF Earlier
  <2>2. \A x, y, z \in P : Earlier(x, y) /\ Earlier(y, z) => Earlier(x, z)
    BY <1>2 DEF Earlier
  <2>3. \A x, y \in P : x = y \/ Earlier(x, y) \/ Earlier(y, x)
    <3> SUFFICES ASSUME NEW x \in P, NEW y \in P, ~Earlier(x, y), ~Earlier(y, x) PROVE x = y
      OBVIOUS
    <3>1. x[1] = y[1] /\ x[2] = y[2]
      BY <1>2 DEF Earlier
    <3> QED BY <1>2, <3>1
  <2> QED BY <1>3, <2>1, <2>2, <2>3 DEF StrictOrder
<1>6. InOrder(l, P, R)
  BY <1>1, <1>5, ListedInOrder
<1> HIDE DEF l
<1>7. /\ l \in [1 .. n -> P]
      /\ \A i, j \in 1 .. n : i < j => Earlier(l[i], l[j])
      /\ \A x \in P : \E i \in 1 .. n : l[i] = x
  BY <1>3, <1>6 DEF InOrder, n
<1>8. \A i \in 1 .. n : qs[l[i][1]][l[i][2]] \in Rows
  BY <1>2, <1>7
<1>9. Joined(qs) \in Seq(Rows) /\ Len(Joined(qs)) = n
  <2>1. Joined(qs) \in [1 .. n -> Rows]
    BY <1>4, <1>8
  <2> QED BY <1>1, <2>1
<1>10. \A i \in 1 .. n : Joined(qs)[i] = qs[l[i][1]][l[i][2]]
  BY <1>4
<1> QED BY <1>7, <1>9, <1>10 DEF P

(* And after the sort.                                                     *)
LEMMA RowsPlaced ==
    ASSUME NEW p \in Programs
    PROVE  \E pos : Placed(p, load(p).rows, pos)
<1> DEFINE qs == p.sequences
           s == Joined(qs)
           rows == SortByAddr(s)
           n == Len(s)
<1>1. qs \in Seq(Seq(Rows))
  BY LinesAssumption
<1>2. s \in Seq(Rows) /\ n \in Nat
  BY <1>1, JoinedInOrder
<1>3. PICK l : /\ l \in [1 .. n -> Positions(qs)]
               /\ \A i \in 1 .. n : s[i] = qs[l[i][1]][l[i][2]]
               /\ \A i, j \in 1 .. n : i < j => Earlier(l[i], l[j])
               /\ \A x \in Positions(qs) : \E i \in 1 .. n : l[i] = x
  BY <1>1, JoinedInOrder
<1>4. \A x \in Rows : x.addr \in Nat
  BY DEF Rows
<1>5. rows \in Seq(Rows) /\ Len(rows) = n
  <2> HIDE DEF s
  <2> QED BY <1>2, <1>4, SortIsStable
<1>6. PICK f : Stable(s, rows, f)
  <2> HIDE DEF s
  <2> QED BY <1>2, <1>4, SortIsStable
<1> DEFINE pos == [i \in 1 .. n |-> l[f[i]]]
<1>7. load(p).rows = rows
  BY DEF load
<1> HIDE DEF s, rows, qs
<1>8. /\ f \in [1 .. n -> 1 .. n]
      /\ \A i, j \in 1 .. n : i < j => Precedes(s, f[i], f[j])
      /\ \A x \in 1 .. n : \E i \in 1 .. n : f[i] = x
      /\ \A i \in 1 .. n : rows[i] = s[f[i]]
  BY <1>6 DEF Stable
<1>9. pos \in [1 .. n -> Positions(qs)] /\ \A i \in 1 .. n : rows[i] = RowAt(p, pos[i])
  BY <1>3, <1>8 DEF RowAt, qs
<1>10. ASSUME NEW i \in 1 .. n, NEW j \in 1 .. n, i < j
       PROVE  \/ rows[i].addr < rows[j].addr
              \/ rows[i].addr = rows[j].addr /\ Earlier(pos[i], pos[j])
  <2>1. Precedes(s, f[i], f[j])
    BY <1>8, <1>10
  <2>2. rows[i] = s[f[i]] /\ rows[j] = s[f[j]] /\ pos[i] = l[f[i]] /\ pos[j] = l[f[j]]
    BY <1>8
  <2>3. f[i] < f[j] => Earlier(l[f[i]], l[f[j]])
    BY <1>3, <1>8
  <2> HIDE DEF pos
  <2> QED BY <2>1, <2>2, <2>3 DEF Precedes
<1>11. \A x \in Positions(qs) : \E i \in 1 .. n : pos[i] = x
  <2> SUFFICES ASSUME NEW x \in Positions(qs) PROVE \E i \in 1 .. n : pos[i] = x
    OBVIOUS
  <2>1. PICK k \in 1 .. n : l[k] = x
    BY <1>3
  <2>2. PICK i \in 1 .. n : f[i] = k
    BY <1>8
  <2> QED BY <2>1, <2>2
<1> HIDE DEF pos
<1>12. Placed(p, rows, pos)
  BY <1>5, <1>9, <1>10, <1>11 DEF Placed, qs
<1> QED BY <1>7, <1>12

-----------------------------------------------------------------------------
(* lookup.                                                                 *)

LEMMA PlacedAscends ==
    ASSUME NEW p, NEW rows, NEW pos, Placed(p, rows, pos)
    PROVE  Ascending(rows)
<1> SUFFICES ASSUME NEW i \in DOMAIN rows, NEW j \in DOMAIN rows, i < j
             PROVE  rows[i].addr <= rows[j].addr
  BY DEF Ascending
<1>1. rows[i] \in Rows /\ rows[j] \in Rows /\ i \in 1 .. Len(rows) /\ j \in 1 .. Len(rows)
  BY DEF Placed
<1>2. rows[i].addr < rows[j].addr \/ rows[i].addr = rows[j].addr
  BY <1>1 DEF Placed
<1>3. rows[i].addr \in Nat /\ rows[j].addr \in Nat
  BY <1>1 DEF Rows
<1> QED BY <1>2, <1>3

(* Nearest is the last row that is not past the address.                   *)
LEMMA NearestIs ==
    ASSUME NEW rows \in Seq(Rows), Ascending(rows), NEW a \in Nat
    PROVE  \/ Nearest(rows, a) = 0 /\ \A j \in DOMAIN rows : ~(rows[j].addr <= a)
           \/ /\ Nearest(rows, a) \in DOMAIN rows
              /\ rows[Nearest(rows, a)].addr <= a
              /\ \A j \in DOMAIN rows : rows[j].addr <= a => j <= Nearest(rows, a)
<1> DEFINE n == Len(rows)
<1>1. n \in Nat /\ DOMAIN rows = 1 .. n /\ \A j \in 1 .. n : rows[j].addr \in Nat
  BY Addresses
<1> HIDE DEF n
<1>2. \A S \in SUBSET (1 .. n) : S # {} => Last(S) \in S /\ \A j \in S : j <= Last(S)
  <2> SUFFICES ASSUME NEW S \in SUBSET (1 .. n), S # {}
               PROVE  Last(S) \in S /\ \A j \in S : j <= Last(S)
    OBVIOUS
  <2>1. S \in SUBSET (0 .. n)
    BY <1>1
  <2> QED BY <1>1, <2>1, LastOf
<1>3. RowsAt(rows, a) \in SUBSET (1 .. n) /\ RowsBefore(rows, a) \in SUBSET (1 .. n)
  BY <1>1 DEF RowsAt, RowsBefore
<1>4. CASE RowsAt(rows, a) # {}
  <2> DEFINE i == Last(RowsAt(rows, a))
  <2>1. Nearest(rows, a) = i
    BY <1>4 DEF Nearest
  <2>2. i \in RowsAt(rows, a) /\ \A j \in RowsAt(rows, a) : j <= i
    BY <1>2, <1>3, <1>4
  <2> HIDE DEF i
  <2>3. i \in 1 .. n /\ rows[i].addr = a
    BY <1>1, <2>2 DEF RowsAt
  <2>4. ASSUME NEW j \in 1 .. n, rows[j].addr <= a, ~(j <= i) PROVE FALSE
    <3>1. rows[i].addr <= rows[j].addr
      BY <1>1, <2>3, <2>4 DEF Ascending
    <3>2. rows[j].addr = a
      <4>1. rows[j].addr \in Nat
        BY <1>1
      <4> QED BY <2>3, <2>4, <3>1, <4>1
    <3>3. j \in RowsAt(rows, a)
      BY <1>1, <3>2 DEF RowsAt
    <3> QED BY <2>2, <2>4, <3>3
  <2> QED BY <1>1, <2>1, <2>3, <2>4
<1>5. CASE RowsAt(rows, a) = {} /\ RowsBefore(rows, a) # {}
  <2> DEFINE i == Last(RowsBefore(rows, a))
  <2>1. Nearest(rows, a) = i
    BY <1>5 DEF Nearest
  <2>2. i \in RowsBefore(rows, a) /\ \A j \in RowsBefore(rows, a) : j <= i
    BY <1>2, <1>3, <1>5
  <2> HIDE DEF i
  <2>3. i \in 1 .. n /\ rows[i].addr < a
    BY <1>1, <2>2 DEF RowsBefore
  <2>4. ASSUME NEW j \in 1 .. n, rows[j].addr <= a PROVE j \in RowsBefore(rows, a)
    BY <1>1, <1>5, <2>4 DEF RowsAt, RowsBefore
  <2> QED BY <1>1, <2>1, <2>2, <2>3, <2>4
<1>6. CASE RowsAt(rows, a) = {} /\ RowsBefore(rows, a) = {}
  <2>1. Nearest(rows, a) = 0
    BY <1>6 DEF Nearest
  <2>2. ASSUME NEW j \in 1 .. n, rows[j].addr <= a PROVE FALSE
    BY <1>1, <1>6, <2>2 DEF RowsAt, RowsBefore
  <2> QED BY <1>1, <2>1, <2>2
<1> QED BY <1>4, <1>5, <1>6

(* The rows of a sequence ascend, and only its last row ends it.           *)
LEMMA SequenceIs ==
    ASSUME NEW p \in Programs, NEW k \in DOMAIN p.sequences
    PROVE  LET q == p.sequences[k] IN
           /\ Len(q) \in Nat /\ Len(q) >= 1 /\ DOMAIN q = 1 .. Len(q)
           /\ \A i \in 1 .. Len(q) : q[i] \in Rows /\ q[i].addr \in Nat
           /\ \A i \in 1 .. Len(q) : q[i].end_sequence <=> i = Len(q)
           /\ \A i, j \in 1 .. Len(q) : i <= j => q[i].addr <= q[j].addr
<1> DEFINE q == p.sequences[k]
<1>1. Sequence(q)
  BY LinesAssumption
<1> HIDE DEF q
<1>2. Len(q) \in Nat /\ Len(q) >= 1 /\ DOMAIN q = 1 .. Len(q)
  BY <1>1 DEF Sequence
<1>3. \A i \in 1 .. Len(q) : q[i] \in Rows /\ q[i].addr \in Nat
  BY <1>1, Addresses DEF Sequence
<1>4. \A i \in 1 .. Len(q) : q[i].end_sequence <=> i = Len(q)
  BY <1>1 DEF Sequence
<1>5. ASSUME NEW i \in 1 .. Len(q), NEW j \in 1 .. Len(q), i <= j, ~(q[i].addr <= q[j].addr)
      PROVE  FALSE
  <2> DEFINE S == {m \in 1 .. Len(q) : i <= m /\ ~(q[i].addr <= q[m].addr)}
             m == First(S)
  <2>1. j \in S /\ S \in SUBSET Nat
    BY <1>5
  <2>2. m \in S /\ \A x \in S : m <= x
    <3> HIDE DEF S
    <3> QED BY <2>1, FirstOf
  <2> HIDE DEF m
  <2>3. m \in 1 .. Len(q) /\ i <= m /\ ~(q[i].addr <= q[m].addr)
    BY <2>2
  <2>4. m # i
    BY <1>3, <2>3
  <2>5. m - 1 \in 1 .. Len(q) - 1 /\ m - 1 \in 1 .. Len(q) /\ i <= m - 1 /\ m - 1 + 1 = m
    BY <1>2, <2>3, <2>4
  <2>6. m - 1 \notin S
    BY <2>2, <2>3
  <2>7. q[i].addr <= q[m - 1].addr
    BY <2>5, <2>6
  <2>8. q[m - 1].addr <= q[m].addr
    BY <1>1, <2>5 DEF Sequence
  <2> QED BY <1>3, <2>3, <2>5, <2>7, <2>8
<1> QED BY <1>2, <1>3, <1>4, <1>5 DEF q

(* Position x speaks of a.                                                 *)
Speaks(p, x, a) == x \in Positions(p.sequences) /\ SpeaksOf(p.sequences[x[1]], x[2], a)

LEMMA SpeakingIs ==
    ASSUME NEW p \in Programs, NEW a \in Nat, NEW x, Speaks(p, x, a)
    PROVE  LET q == p.sequences[x[1]] IN
           /\ x[1] \in DOMAIN p.sequences /\ x = <<x[1], x[2]>>
           /\ x[2] \in 1 .. Len(q) /\ x[2] + 1 \in 1 .. Len(q)
           /\ q[1].addr <= q[x[2]].addr /\ q[x[2]].addr <= a
           /\ a < q[x[2] + 1].addr /\ q[x[2] + 1].addr <= q[Len(q)].addr
<1>1. p.sequences \in Seq(Seq(Rows))
  BY LinesAssumption
<1>2. /\ x[1] \in DOMAIN p.sequences /\ x = <<x[1], x[2]>>
      /\ x[2] \in DOMAIN p.sequences[x[1]]
  BY <1>1, PositionsAre DEF Speaks
<1> DEFINE q == p.sequences[x[1]]
<1>3. /\ Len(q) \in Nat /\ Len(q) >= 1 /\ DOMAIN q = 1 .. Len(q)
      /\ \A i, j \in 1 .. Len(q) : i <= j => q[i].addr <= q[j].addr
  BY <1>2, SequenceIs
<1>4. x[2] < Len(q) /\ q[x[2]].addr <= a /\ a < q[x[2] + 1].addr
  BY DEF Speaks, SpeaksOf
<1> HIDE DEF q
<1>5. x[2] \in 1 .. Len(q) /\ x[2] + 1 \in 1 .. Len(q)
  BY <1>2, <1>3, <1>4 DEF q
<1>6. q[1].addr <= q[x[2]].addr /\ q[x[2] + 1].addr <= q[Len(q)].addr
  BY <1>3, <1>5
<1> QED BY <1>2, <1>4, <1>5, <1>6 DEF q

(* One row at most speaks of an address.                                   *)
LEMMA OneSpeaks ==
    ASSUME NEW p \in Programs, NEW a \in Nat, NEW x, NEW y, Speaks(p, x, a), Speaks(p, y, a)
    PROVE  x = y
<1> DEFINE q == p.sequences[x[1]]
           r == p.sequences[y[1]]
<1>1. /\ x[1] \in DOMAIN p.sequences /\ x = <<x[1], x[2]>>
      /\ x[2] \in 1 .. Len(q) /\ x[2] + 1 \in 1 .. Len(q)
      /\ q[1].addr <= q[x[2]].addr /\ q[x[2]].addr <= a
      /\ a < q[x[2] + 1].addr /\ q[x[2] + 1].addr <= q[Len(q)].addr
  BY SpeakingIs
<1>2. /\ y[1] \in DOMAIN p.sequences /\ y = <<y[1], y[2]>>
      /\ y[2] \in 1 .. Len(r) /\ y[2] + 1 \in 1 .. Len(r)
      /\ r[1].addr <= r[y[2]].addr /\ r[y[2]].addr <= a
      /\ a < r[y[2] + 1].addr /\ r[y[2] + 1].addr <= r[Len(r)].addr
  BY SpeakingIs
<1>3. /\ Len(q) \in Nat /\ Len(q) >= 1 /\ \A i \in 1 .. Len(q) : q[i].addr \in Nat
      /\ \A i, j \in 1 .. Len(q) : i <= j => q[i].addr <= q[j].addr
  BY <1>1, SequenceIs
<1>4. /\ Len(r) \in Nat /\ Len(r) >= 1 /\ \A i \in 1 .. Len(r) : r[i].addr \in Nat
      /\ \A i, j \in 1 .. Len(r) : i <= j => r[i].addr <= r[j].addr
  BY <1>2, SequenceIs
<1>5. x[1] # y[1] => q[Len(q)].addr <= r[1].addr \/ r[Len(r)].addr <= q[1].addr
  BY <1>1, <1>2, LinesAssumption DEF Apart
<1>6. q[1].addr \in Nat /\ q[Len(q)].addr \in Nat /\ q[x[2]].addr \in Nat /\ q[x[2] + 1].addr \in Nat
  BY <1>1, <1>3
<1>7. r[1].addr \in Nat /\ r[Len(r)].addr \in Nat /\ r[y[2]].addr \in Nat /\ r[y[2] + 1].addr \in Nat
  BY <1>2, <1>4
<1>8. x[1] = y[1]
  <2> DEFINE qa == q[1].addr
             qx == q[x[2]].addr
             qy == q[x[2] + 1].addr
             qz == q[Len(q)].addr
             ra == r[1].addr
             rx == r[y[2]].addr
             ry == r[y[2] + 1].addr
             rz == r[Len(r)].addr
  <2>1. qa <= qx /\ qx <= a /\ a < qy /\ qy <= qz
    BY <1>1
  <2>2. ra <= rx /\ rx <= a /\ a < ry /\ ry <= rz
    BY <1>2
  <2>3. /\ qa \in Nat /\ qx \in Nat /\ qy \in Nat /\ qz \in Nat
        /\ ra \in Nat /\ rx \in Nat /\ ry \in Nat /\ rz \in Nat
    BY <1>6, <1>7
  <2>4. x[1] # y[1] => qz <= ra \/ rz <= qa
    BY <1>5
  <2> HIDE DEF qa, qx, qy, qz, ra, rx, ry, rz
  <2> QED BY <2>1, <2>2, <2>3, <2>4
<1>9. ~(x[2] < y[2]) /\ ~(y[2] < x[2])
  <2> DEFINE c == x[2]
             d == y[2]
  <2>1. r = q
    BY <1>8
  <2>2. c \in 1 .. Len(q) /\ c + 1 \in 1 .. Len(q) /\ d \in 1 .. Len(q) /\ d + 1 \in 1 .. Len(q)
    BY <1>1, <1>2, <2>1
  <2>3. q[c].addr <= a /\ a < q[c + 1].addr /\ q[d].addr <= a /\ a < q[d + 1].addr
    BY <1>1, <1>2, <2>1
  <2> HIDE DEF q, r, c, d
  <2>4. c < d => c + 1 <= d
    BY <1>3, <2>2
  <2>5. d < c => d + 1 <= c
    BY <1>3, <2>2
  <2>6. c < d => q[c + 1].addr <= q[d].addr
    BY <1>3, <2>2, <2>4
  <2>7. d < c => q[d + 1].addr <= q[c].addr
    BY <1>3, <2>2, <2>5
  <2>8. q[c].addr \in Nat /\ q[c + 1].addr \in Nat /\ q[d].addr \in Nat /\ q[d + 1].addr \in Nat
    BY <1>3, <2>2
  <2>9. ~(c < d)
    BY <2>3, <2>6, <2>8
  <2>10. ~(d < c)
    BY <2>3, <2>7, <2>8
  <2> QED BY <2>9, <2>10 DEF c, d
<1> QED BY <1>1, <1>2, <1>8, <1>9

LEMMA RowOfIs ==
    ASSUME NEW p, NEW a, NEW row
    PROVE  row \in RowOf(p, a) <=> \E x : Speaks(p, x, a) /\ row = RowAt(p, x)
BY DEF RowOf, Speaks, RowAt

(* The nearest row before an address, if it does not end its sequence,     *)
(* speaks of the address: the next of its sequence comes later.            *)
LEMMA NearestSpeaks ==
    ASSUME NEW p \in Programs, NEW a \in Nat, NEW rows, NEW pos, Placed(p, rows, pos),
           NEW i \in 1 .. Len(rows), rows[i].addr <= a, ~rows[i].end_sequence,
           \A j \in 1 .. Len(rows) : rows[j].addr <= a => j <= i
    PROVE  Speaks(p, pos[i], a)
<1> DEFINE k == pos[i][1]
           m == pos[i][2]
           q == p.sequences[k]
<1>1. p.sequences \in Seq(Seq(Rows))
  BY LinesAssumption
<1>2. pos[i] \in Positions(p.sequences) /\ rows[i] = q[m]
  BY DEF Placed, RowAt
<1>3. k \in DOMAIN p.sequences /\ m \in DOMAIN q /\ pos[i] = <<k, m>> /\ k \in Nat
  BY <1>1, <1>2, PositionsAre
<1>4. /\ Len(q) \in Nat /\ DOMAIN q = 1 .. Len(q)
      /\ \A x \in 1 .. Len(q) : q[x] \in Rows /\ q[x].addr \in Nat
      /\ \A x \in 1 .. Len(q) : q[x].end_sequence <=> x = Len(q)
      /\ \A x, y \in 1 .. Len(q) : x <= y => q[x].addr <= q[y].addr
  BY <1>3, SequenceIs
<1> DEFINE y == <<k, m + 1>>
<1>5. /\ y \in Positions(p.sequences) /\ y[1] = k /\ y[2] = m + 1
      /\ m < Len(q) /\ m \in Nat /\ m \in 1 .. Len(q) /\ m + 1 \in 1 .. Len(q)
  <2>1. m \in 1 .. Len(q) /\ m # Len(q)
    BY <1>2, <1>3, <1>4
  <2>2. m < Len(q) /\ m \in Nat /\ m + 1 \in 1 .. Len(q)
    <3>1. Len(q) \in Nat
      BY <1>4
    <3> HIDE DEF q, m
    <3> QED BY <2>1, <3>1
  <2>3. m + 1 \in DOMAIN q
    BY <1>4, <2>2
  <2>4. y \in Positions(p.sequences)
    <3> HIDE DEF m
    <3> QED BY <1>1, <1>3, <2>3, PositionsAre
  <2> QED BY <2>1, <2>2, <2>4
<1>6. PICK j \in 1 .. Len(rows) : pos[j] = y
  BY <1>5 DEF Placed
<1>7. rows[j] = q[m + 1]
  <2>1. rows[j] = RowAt(p, y)
    BY <1>6 DEF Placed
  <2> QED BY <2>1 DEF RowAt
<1>8. q[m].addr <= q[m + 1].addr /\ q[m].addr \in Nat /\ q[m + 1].addr \in Nat
  <2>1. m <= m + 1
    BY <1>5
  <2> HIDE DEF q, m
  <2> QED BY <1>4, <1>5, <2>1
<1>9. ~(j < i) /\ j # i
  <2>1. ~Earlier(y, pos[i])
    BY <1>3, <1>5 DEF Earlier
  <2>2. j < i => rows[j].addr < rows[i].addr \/ Earlier(pos[j], pos[i])
    BY DEF Placed
  <2>3. pos[j][2] # pos[i][2]
    BY <1>5, <1>6
  <2>4. ~(rows[j].addr < rows[i].addr)
    <3> DEFINE u == q[m].addr
               v == q[m + 1].addr
    <3>1. u <= v /\ u \in Nat /\ v \in Nat /\ rows[i].addr = u /\ rows[j].addr = v
      BY <1>2, <1>7, <1>8
    <3> HIDE DEF u, v
    <3> QED BY <3>1
  <2> QED BY <1>6, <2>1, <2>2, <2>3, <2>4
<1>10. a < q[m + 1].addr
  <2> DEFINE v == q[m + 1].addr
  <2>1. ~(v <= a) /\ v \in Nat
    <3>1. Len(rows) \in Nat
      BY DEF Placed
    <3>2. ~(j <= i)
      BY <1>9, <3>1
    <3> QED BY <1>7, <1>8, <3>2
  <2> HIDE DEF v
  <2>2. a < v
    BY <2>1
  <2> QED BY <2>2 DEF v
<1> QED BY <1>2, <1>5, <1>10 DEF Speaks, SpeaksOf

(* If it does end its sequence, a row that speaks of the address begins    *)
(* there.                                                                  *)
LEMMA EndHides ==
    ASSUME NEW p \in Programs, NEW a \in Nat, NEW rows, NEW pos, Placed(p, rows, pos),
           NEW i \in 1 .. Len(rows), rows[i].addr <= a, rows[i].end_sequence,
           \A j \in 1 .. Len(rows) : rows[j].addr <= a => j <= i,
           NEW x, Speaks(p, x, a)
    PROVE  EndsAt(p, RowAt(p, x).addr)
<1> DEFINE k == pos[i][1]
           q == p.sequences[k]
           r == p.sequences[x[1]]
           e == q[Len(q)].addr
           b == q[1].addr
           rx == r[x[2]].addr
           ry == r[x[2] + 1].addr
           ra == r[1].addr
           rz == r[Len(r)].addr
<1>1. p.sequences \in Seq(Seq(Rows))
  BY LinesAssumption
<1>2. pos[i] \in Positions(p.sequences) /\ rows[i] = q[pos[i][2]]
  BY DEF Placed, RowAt
<1>3. k \in DOMAIN p.sequences /\ pos[i][2] \in DOMAIN q
  BY <1>1, <1>2, PositionsAre
<1>4. /\ Len(q) \in Nat /\ Len(q) >= 1 /\ DOMAIN q = 1 .. Len(q)
      /\ \A y \in 1 .. Len(q) : q[y].addr \in Nat
      /\ \A y \in 1 .. Len(q) : q[y].end_sequence <=> y = Len(q)
      /\ \A y, z \in 1 .. Len(q) : y <= z => q[y].addr <= q[z].addr
  BY <1>3, SequenceIs
<1>5. rows[i].addr = e /\ e \in Nat /\ b \in Nat /\ b <= e
  <2>1. pos[i][2] = Len(q)
    BY <1>2, <1>3, <1>4
  <2>2. 1 \in 1 .. Len(q) /\ Len(q) \in 1 .. Len(q) /\ 1 <= Len(q)
    BY <1>4
  <2>3. rows[i].addr = e
    BY <1>2, <2>1
  <2> HIDE DEF q
  <2> QED BY <1>4, <2>2, <2>3
<1>6. /\ x[1] \in DOMAIN p.sequences
      /\ x[2] \in 1 .. Len(r) /\ x[2] + 1 \in 1 .. Len(r)
      /\ ra <= rx /\ rx <= a /\ a < ry /\ ry <= rz
  BY SpeakingIs
<1>7. rx \in Nat /\ ry \in Nat /\ ra \in Nat /\ rz \in Nat
  <2>1. Len(r) \in Nat /\ Len(r) >= 1 /\ \A y \in 1 .. Len(r) : r[y].addr \in Nat
    BY <1>6, SequenceIs
  <2>2. 1 \in 1 .. Len(r) /\ Len(r) \in 1 .. Len(r)
    BY <2>1
  <2> HIDE DEF r
  <2> QED BY <1>6, <2>1, <2>2
<1>8. rx <= e
  <2>1. PICK j \in 1 .. Len(rows) : pos[j] = x
    BY DEF Placed, Speaks
  <2>2. rows[j].addr = rx
    BY <2>1 DEF Placed, RowAt
  <2>3. j <= i
    BY <1>6, <2>2
  <2>4. rows[j].addr <= rows[i].addr
    <3>1. rows \in Seq(Rows) /\ j \in DOMAIN rows /\ i \in DOMAIN rows
      BY DEF Placed
    <3>2. CASE j = i
      BY <1>5, <3>2
    <3>3. CASE j < i
      BY <3>1, <3>3, PlacedAscends DEF Ascending
    <3> QED BY <2>3, <3>2, <3>3
  <2> QED BY <1>5, <2>2, <2>4
<1>9. x[1] # k => e <= ra \/ rz <= b
  BY <1>3, <1>6, LinesAssumption DEF Apart
<1>10. x[1] = k => rz = e
  OBVIOUS
<1>11. e <= a
  BY <1>5
<1>12. rx = e
  <2> HIDE DEF e, b, rx, ry, ra, rz
  <2> QED BY <1>5, <1>6, <1>7, <1>8, <1>9, <1>10, <1>11
<1> QED BY <1>3, <1>12 DEF EndsAt, RowAt

(* What lookup answers.                                                    *)
LEMMA LookupSays ==
    ASSUME NEW p \in Programs, NEW a \in Nat, NEW rows, NEW pos, Placed(p, rows, pos)
    PROVE  \/ RowOf(p, a) = {} /\ lookup(rows, a) = None
           \/ RowOf(p, a) = {lookup(rows, a)}
           \/ lookup(rows, a) = None /\ \E row \in RowOf(p, a) : EndsAt(p, row.addr)
<1> DEFINE i == Nearest(rows, a)
<1>1. rows \in Seq(Rows) /\ DOMAIN rows = 1 .. Len(rows) /\ Len(rows) \in Nat /\ Ascending(rows)
  BY PlacedAscends DEF Placed
<1>2. CASE i = 0 /\ \A j \in DOMAIN rows : ~(rows[j].addr <= a)
  <2>1. lookup(rows, a) = None
    BY <1>2 DEF lookup
  <2>2. ASSUME NEW x, Speaks(p, x, a) PROVE FALSE
    <3>1. PICK j \in 1 .. Len(rows) : pos[j] = x
      BY <2>2 DEF Placed, Speaks
    <3>2. rows[j] = RowAt(p, x)
      BY <3>1 DEF Placed
    <3>3. RowAt(p, x).addr <= a
      BY <2>2 DEF Speaks, SpeaksOf, RowAt
    <3> QED BY <1>1, <1>2, <3>2, <3>3
  <2> QED BY <2>1, <2>2, RowOfIs
<1>3. CASE i \in DOMAIN rows /\ rows[i].addr <= a /\ \A j \in DOMAIN rows : rows[j].addr <= a => j <= i
  <2> HIDE DEF i
  <2>0. i # 0 /\ i \in 1 .. Len(rows)
    BY <1>1, <1>3
  <2>1. CASE ~rows[i].end_sequence
    <3>1. Speaks(p, pos[i], a)
      BY <1>1, <1>3, <2>0, <2>1, NearestSpeaks
    <3>2. rows[i] = RowAt(p, pos[i])
      BY <2>0 DEF Placed
    <3>3. lookup(rows, a) = rows[i]
      BY <2>0, <2>1 DEF lookup, i
    <3>4. \A x : Speaks(p, x, a) => x = pos[i]
      BY <3>1, OneSpeaks
    <3> QED BY <3>1, <3>2, <3>3, <3>4, RowOfIs
  <2>2. CASE rows[i].end_sequence
    <3>1. lookup(rows, a) = None
      BY <2>0, <2>2 DEF lookup, i
    <3>2. \A x : Speaks(p, x, a) => EndsAt(p, RowAt(p, x).addr)
      BY <1>1, <1>3, <2>0, <2>2, EndHides
    <3> QED BY <3>1, <3>2, RowOfIs
  <2> QED BY <2>1, <2>2
<1> QED BY <1>1, <1>2, <1>3, NearestIs

-----------------------------------------------------------------------------
(* The symbol table.                                                       *)

(* The symbols of .dynsym that are taken are listed in their order.        *)
LEMMA NewSymbols ==
    ASSUME NEW p \in Programs
    PROVE  /\ NewIn(p) \in Seq(Symbols)
           /\ \A r \in DOMAIN NewIn(p) : NewIn(p)[r] \in Functions(p)
           /\ \A i \in DOMAIN p.dynsyms : NewAt(p, i) =>
                  \E r \in DOMAIN NewIn(p) : NewIn(p)[r] = p.dynsyms[i]
<1> DEFINE D == p.dynsyms
           N == {i \in DOMAIN D : NewAt(p, i)}
           n == Cardinality(N)
           R == {z \in N \X N : z[1] < z[2]}
           l == Listed(N, R)
<1>1. D \in Seq(Symbols) /\ DOMAIN D = 1 .. Len(D) /\ Len(D) \in Nat
  BY LinesAssumption
<1>2. N \subseteq 1 .. Len(D) /\ IsFiniteSet(N) /\ n \in Nat
  <2>1. IsFiniteSet(1 .. Len(D))
    BY <1>1, FS_Interval
  <2>2. N \subseteq 1 .. Len(D)
    BY <1>1
  <2> HIDE DEF N
  <2> QED BY <2>1, <2>2, FS_Subset, FS_CardinalityType
<1>3. NewIn(p) = [r \in 1 .. n |-> D[l[r]]]
  BY DEF NewIn
<1>4. \A x, y : <<x, y>> \in R <=> x \in N /\ y \in N /\ x < y
  OBVIOUS
<1>5. \A i : i \in N <=> i \in 1 .. Len(D) /\ NewAt(p, i)
  BY <1>1
<1> HIDE DEF R, N, n
<1>6. StrictOrder(N, R)
  <2>1. \A x \in N : x \in Nat
    BY <1>1, <1>2
  <2> QED BY <1>4, <2>1 DEF StrictOrder
<1>7. InOrder(l, N, R)
  BY <1>2, <1>6, ListedInOrder
<1> HIDE DEF l
<1>8. l \in [1 .. n -> N] /\ \A x \in N : \E r \in 1 .. n : l[r] = x
  BY <1>7 DEF InOrder, n
<1>9. ASSUME NEW r \in 1 .. n PROVE l[r] \in DOMAIN D /\ D[l[r]] \in Symbols
  <2>1. l[r] \in N
    BY <1>8
  <2>2. l[r] \in DOMAIN D
    BY <1>1, <1>2, <2>1
  <2> HIDE DEF D
  <2> QED BY <1>1, <2>2
<1>10. NewIn(p) \in Seq(Symbols) /\ DOMAIN NewIn(p) = 1 .. n
  BY <1>2, <1>3, <1>9
<1>11. \A r \in 1 .. n : NewIn(p)[r] = D[l[r]]
  BY <1>3
<1> QED BY <1>1, <1>5, <1>8, <1>9, <1>10, <1>11 DEF Functions

(* Every function has an entry: a symbol of .dynsym is left out only where *)
(* there is one already, and that has the same size.                       *)
LEMMA SymbolsSorted ==
    ASSUME NEW p \in Programs
    PROVE  LET t == load(p).symbols IN
           /\ t \in Seq(Symbols) /\ Ascending(t)
           /\ \A i \in DOMAIN t : t[i] \in Functions(p)
           /\ \A s \in Functions(p) : \E i \in DOMAIN t : t[i].addr = s.addr /\ t[i].size = s.size
<1> DEFINE u == p.syms \o NewIn(p)
           t == SortByAddr(u)
           n == Len(u)
<1>0. load(p).symbols = t
  BY DEF load
<1>1. p.syms \in Seq(Symbols) /\ p.dynsyms \in Seq(Symbols) /\ NewIn(p) \in Seq(Symbols)
  BY LinesAssumption, NewSymbols
<1>2. u \in Seq(Symbols) /\ n \in Nat /\ DOMAIN u = 1 .. n
  BY <1>1
<1>3. \A s \in Symbols : s.addr \in Nat /\ s.size \in Nat
  BY LinesAssumption DEF Symbols
<1>4. \A i \in 1 .. n : u[i] \in Functions(p)
  <2> SUFFICES ASSUME NEW i \in 1 .. n PROVE u[i] \in Functions(p)
    OBVIOUS
  <2>1. CASE i <= Len(p.syms)
    <3>1. u[i] = p.syms[i] /\ i \in DOMAIN p.syms
      BY <1>1, <2>1
    <3> QED BY <3>1 DEF Functions
  <2>2. CASE ~(i <= Len(p.syms))
    <3>1. u[i] = NewIn(p)[i - Len(p.syms)] /\ i - Len(p.syms) \in DOMAIN NewIn(p)
      BY <1>1, <2>2
    <3> QED BY <3>1, NewSymbols
  <2> QED BY <2>1, <2>2
<1>5. \A i \in DOMAIN p.syms : \E j \in 1 .. n : u[j] = p.syms[i]
  <2> SUFFICES ASSUME NEW i \in DOMAIN p.syms PROVE \E j \in 1 .. n : u[j] = p.syms[i]
    OBVIOUS
  <2>1. i \in 1 .. n /\ u[i] = p.syms[i]
    BY <1>1
  <2> QED BY <2>1
<1>6. \A i \in DOMAIN NewIn(p) : \E j \in 1 .. n : u[j] = NewIn(p)[i]
  <2> SUFFICES ASSUME NEW i \in DOMAIN NewIn(p) PROVE \E j \in 1 .. n : u[j] = NewIn(p)[i]
    OBVIOUS
  <2>1. Len(p.syms) + i \in 1 .. n /\ u[Len(p.syms) + i] = NewIn(p)[i]
    BY <1>1
  <2> QED BY <2>1
<1> HIDE DEF u
<1>7. t \in Seq(Symbols) /\ Len(t) = n
  BY <1>2, <1>3, SortIsStable
<1>8. PICK f : Stable(u, t, f)
  BY <1>2, <1>3, SortIsStable
<1> HIDE DEF t
<1>9. /\ f \in [1 .. n -> 1 .. n]
      /\ \A x \in 1 .. n : \E i \in 1 .. n : f[i] = x
      /\ \A i \in 1 .. n : t[i] = u[f[i]]
  BY <1>8 DEF Stable
<1>10. DOMAIN t = 1 .. n
  BY <1>2, <1>7
<1>11. Ascending(t)
  <2> SUFFICES ASSUME NEW i \in 1 .. n, NEW j \in 1 .. n, i < j PROVE t[i].addr <= t[j].addr
    BY <1>10 DEF Ascending
  <2>1. Precedes(u, f[i], f[j])
    BY <1>8 DEF Stable
  <2>2. u[f[i]].addr \in Nat /\ u[f[j]].addr \in Nat
    <3>1. f[i] \in 1 .. n /\ f[j] \in 1 .. n
      BY <1>9
    <3> HIDE DEF n
    <3>2. u[f[i]] \in Symbols /\ u[f[j]] \in Symbols
      BY <1>2, <3>1
    <3> QED BY <1>3, <3>2
  <2>3. u[f[i]].addr <= u[f[j]].addr
    BY <2>1, <2>2 DEF Precedes
  <2> QED BY <1>9, <2>3
<1>12. \A i \in DOMAIN t : t[i] \in Functions(p)
  BY <1>4, <1>9, <1>10
<1>13. ASSUME NEW j \in 1 .. n PROVE \E i \in DOMAIN t : t[i] = u[j]
  <2>1. PICK i \in 1 .. n : f[i] = j
    BY <1>9
  <2>2. t[i] = u[j]
    BY <1>9, <2>1
  <2> QED BY <1>10, <2>2
<1>14. ASSUME NEW s \in Functions(p)
       PROVE  \E i \in DOMAIN t : t[i].addr = s.addr
  <2>1. CASE \E i \in DOMAIN p.syms : p.syms[i].addr = s.addr
    <3>1. PICK i \in DOMAIN p.syms : p.syms[i].addr = s.addr
      BY <2>1
    <3>2. PICK j \in 1 .. n : u[j] = p.syms[i]
      BY <1>5
    <3> QED BY <1>13, <3>1, <3>2
  <2>2. CASE \A i \in DOMAIN p.syms : p.syms[i].addr # s.addr
    <3> DEFINE S == {i \in DOMAIN p.dynsyms : p.dynsyms[i].addr = s.addr}
               m == First(S)
    <3>1. S # {}
      BY <2>2 DEF Functions
    <3>2. S \in SUBSET Nat
      BY <1>1
    <3>3. m \in S /\ \A j \in S : m <= j
      <4> HIDE DEF S
      <4> QED BY <3>1, <3>2, FirstOf
    <3> HIDE DEF m
    <3>4. \A j \in 1 .. m - 1 : j \in DOMAIN p.dynsyms /\ j \notin S
      BY <1>1, <3>3
    <3>5. NewAt(p, m)
      BY <2>2, <3>3, <3>4 DEF NewAt
    <3>6. PICK r \in DOMAIN NewIn(p) : NewIn(p)[r] = p.dynsyms[m]
      BY <3>3, <3>5, NewSymbols
    <3>7. PICK j \in 1 .. n : u[j] = NewIn(p)[r]
      BY <1>6
    <3> QED BY <1>13, <3>3, <3>6, <3>7
  <2> QED BY <2>1, <2>2
<1>15. \A s \in Functions(p) : \E i \in DOMAIN t : t[i].addr = s.addr /\ t[i].size = s.size
  BY <1>12, <1>14, LinesAssumption
<1> QED BY <1>0, <1>7, <1>11, <1>12, <1>15

-----------------------------------------------------------------------------
(* The other questions.                                                    *)

(* What may be broken at in the table are the statements of the sequences. *)
LEMMA BreakablesAre ==
    ASSUME NEW p \in Programs, NEW rows, NEW pos, Placed(p, rows, pos)
    PROVE  {row \in {rows[i] : i \in DOMAIN rows} : Breakable(row)} = Statements(p)
<1> DEFINE Stated(x) == x \in Positions(p.sequences) /\ x[2] < Len(p.sequences[x[1]])
<1>1. p.sequences \in Seq(Seq(Rows)) /\ DOMAIN rows = 1 .. Len(rows)
  BY LinesAssumption DEF Placed
<1>2. \A x \in Positions(p.sequences) : Stated(x) <=> ~RowAt(p, x).end_sequence
  <2> SUFFICES ASSUME NEW x \in Positions(p.sequences)
               PROVE  x[2] < Len(p.sequences[x[1]]) <=> ~RowAt(p, x).end_sequence
    OBVIOUS
  <2>1. /\ x[1] \in DOMAIN p.sequences /\ x[2] \in DOMAIN p.sequences[x[1]]
        /\ p.sequences[x[1]] \in Seq(Rows)
    BY <1>1, PositionsAre
  <2>2. RowAt(p, x).end_sequence <=> x[2] = Len(p.sequences[x[1]])
    BY <2>1, LinesAssumption DEF Sequence, RowAt
  <2> QED BY <2>1, <2>2
<1>3. \A row : row \in Statements(p) <=> row.is_stmt /\ \E x : Stated(x) /\ row = RowAt(p, x)
  BY DEF Statements, RowAt
<1> HIDE DEF Stated
<1>4. ASSUME NEW i \in DOMAIN rows, Breakable(rows[i]) PROVE rows[i] \in Statements(p)
  <2>1. pos[i] \in Positions(p.sequences) /\ rows[i] = RowAt(p, pos[i])
    BY <1>1 DEF Placed
  <2>2. Stated(pos[i]) /\ rows[i].is_stmt
    BY <1>2, <1>4, <2>1 DEF Breakable
  <2> QED BY <1>3, <2>1, <2>2
<1>5. ASSUME NEW row \in Statements(p)
      PROVE  row \in {rows[i] : i \in DOMAIN rows} /\ Breakable(row)
  <2>1. PICK x : Stated(x) /\ row = RowAt(p, x)
    BY <1>3
  <2>2. x \in Positions(p.sequences)
    BY <2>1 DEF Stated
  <2>3. PICK i \in 1 .. Len(rows) : pos[i] = x
    BY <2>2 DEF Placed
  <2>4. rows[i] = row
    BY <2>1, <2>3 DEF Placed
  <2>5. row.is_stmt /\ ~row.end_sequence
    BY <1>2, <1>3, <2>1, <2>2
  <2> QED BY <1>1, <2>4, <2>5 DEF Breakable
<1> QED BY <1>4, <1>5

(* break <line> takes, of the rows that may be broken at and are not       *)
(* before the line, one of the first line at its lowest address.           *)
LEMMA BestLine ==
    ASSUME NEW rows \in Seq(Rows), NEW line \in Nat,
           \E i \in DOMAIN rows : Breakable(rows[i]) /\ rows[i].line >= line
    PROVE  \E i \in DOMAIN rows :
              /\ resolve_file_line(rows, line) = rows[i] /\ Breakable(rows[i])
              /\ rows[i] \in Rows /\ rows[i].line >= line
              /\ \A j \in DOMAIN rows : Breakable(rows[j]) /\ rows[j].line >= line =>
                    \/ rows[i].line < rows[j].line
                    \/ rows[i].line = rows[j].line /\ rows[i].addr <= rows[j].addr
<1> DEFINE C == {i \in DOMAIN rows : Breakable(rows[i]) /\ rows[i].line >= line}
           Best(i) == \A j \in C : \/ rows[i].line < rows[j].line
                                   \/ rows[i].line = rows[j].line /\ rows[i].addr <= rows[j].addr
           best == CHOOSE i \in C : Best(i)
           lines == {rows[i].line : i \in C}
           top == {i \in C : rows[i].line = First(lines)}
           addrs == {rows[i].addr : i \in top}
<1>1. \A i \in DOMAIN rows : rows[i] \in Rows /\ rows[i].addr \in Nat /\ rows[i].line \in Nat
  <2>1. \A row \in Rows : row.line \in Nat
    BY DEF Rows
  <2> QED BY <2>1, Addresses
<1>2. C # {} /\ resolve_file_line(rows, line) = rows[best]
  BY DEF resolve_file_line
<1>3. First(lines) \in lines /\ \A l \in lines : First(lines) <= l
  <2>1. lines \in SUBSET Nat /\ lines # {}
    BY <1>1, <1>2
  <2> HIDE DEF lines
  <2> QED BY <2>1, FirstOf
<1>4. First(addrs) \in addrs /\ \A a \in addrs : First(addrs) <= a
  <2>1. top # {}
    <3> HIDE DEF C
    <3> QED BY <1>3
  <2>2. addrs \in SUBSET Nat /\ addrs # {}
    <3>1. top \subseteq DOMAIN rows
      OBVIOUS
    <3> HIDE DEF top
    <3> QED BY <1>1, <2>1, <3>1
  <2> HIDE DEF addrs
  <2> QED BY <2>2, FirstOf
<1>5. PICK i \in top : rows[i].addr = First(addrs)
  <2> HIDE DEF top
  <2> QED BY <1>4
<1>6. i \in C /\ rows[i].line = First(lines)
  <2> HIDE DEF C, lines
  <2> QED BY <1>5
<1>7. \A j \in C : rows[j].line \in lines /\ j \in DOMAIN rows
  OBVIOUS
<1>8. \A j \in C : rows[j].line = First(lines) => rows[j].addr \in addrs
  <2> HIDE DEF C, lines
  <2> QED OBVIOUS
<1> HIDE DEF lines, addrs, top
<1>9. ASSUME NEW j \in C
      PROVE  \/ rows[i].line < rows[j].line
             \/ rows[i].line = rows[j].line /\ rows[i].addr <= rows[j].addr
  <2>1. First(lines) <= rows[j].line /\ rows[j].line \in Nat /\ rows[i].line \in Nat
    BY <1>1, <1>3, <1>6, <1>7
  <2>2. rows[j].line = First(lines) => First(addrs) <= rows[j].addr
    BY <1>4, <1>8
  <2> HIDE DEF C
  <2> QED BY <1>5, <1>6, <2>1, <2>2
<1>10. best \in C /\ Best(best)
  <2>1. Best(i)
    BY <1>9
  <2> HIDE DEF Best, C
  <2> QED BY <1>6, <2>1
<1> HIDE DEF best
<1> QED BY <1>1, <1>2, <1>10

(* Where the function ends is after its entry, when it is known.           *)
LEMMA HighPcIs ==
    ASSUME NEW t \in Seq(Symbols), NEW s \in Symbols
    PROVE  HighPc(t, s) \in Nat /\ (s.size > 0 => HighPc(t, s) = s.addr + s.size)
<1> DEFINE later == {t[i].addr : i \in {j \in DOMAIN t : t[j].addr > s.addr}}
<1>1. \A x \in Symbols : x.addr \in Nat /\ x.size \in Nat
  BY LinesAssumption DEF Symbols
<1>2. later \in SUBSET Nat
  BY <1>1
<1>3. later # {} => First(later) \in Nat
  <2> HIDE DEF later
  <2> QED BY <1>2, FirstOf
<1>4. HighPc(t, s) = IF s.size > 0 THEN s.addr + s.size
                     ELSE IF later = {} THEN s.addr + 4096 ELSE First(later)
  BY DEF HighPc
<1> HIDE DEF later
<1> QED BY <1>1, <1>3, <1>4

(* break <function> takes a row after one at its entry, and all rows from  *)
(* there to it lie in the function and in one sequence.                    *)
LEMMA PrologueEnds ==
    ASSUME NEW rows \in Seq(Rows), Ascending(rows), NEW low \in Nat, NEW high \in Nat,
           NEW a \in skip_prologue(rows, low, high), a # None
    PROVE  \E k \in DOMAIN rows : rows[k].addr = a /\ Breakable(rows[k]) /\ low <= a /\ a < high
<1>1. DOMAIN rows = 1 .. Len(rows) /\ Len(rows) \in Nat /\ \A i \in DOMAIN rows : rows[i].addr \in Nat
  BY Addresses
<1>2. PICK i \in RowsAt(rows, low) : a = NextLine(rows, i, high)
  BY DEF skip_prologue
<1> DEFINE found == {k \in DOMAIN rows :
                        /\ i < k /\ rows[k].is_stmt /\ rows[k].line # rows[i].line
                        /\ \A j \in i + 1 .. k : ~Leaves(rows[j], high)}
           k == First(found)
<1>3. found # {} /\ a = rows[k].addr
  BY <1>2 DEF NextLine
<1>4. k \in found
  <2>1. found \in SUBSET Nat
    BY <1>1
  <2> HIDE DEF found
  <2> QED BY <1>3, <2>1, FirstOf
<1> HIDE DEF k
<1>5. i \in DOMAIN rows /\ rows[i].addr = low
  BY DEF RowsAt
<1>6. k \in DOMAIN rows /\ i < k /\ rows[k].is_stmt /\ ~Leaves(rows[k], high)
  BY <1>1, <1>4, <1>5
<1>7. rows[i].addr <= rows[k].addr
  BY <1>5, <1>6 DEF Ascending
<1>8. rows[k].addr < high /\ ~rows[k].end_sequence
  BY <1>1, <1>6 DEF Leaves
<1> QED BY <1>3, <1>5, <1>6, <1>7, <1>8 DEF Breakable

(* A row in a function of known size either is in a sequence that speaks   *)
(* of it, or one ends at the function's entry.                             *)
LEMMA RowInFunction ==
    ASSUME NEW p \in Programs, NEW rows, NEW pos, Placed(p, rows, pos),
           NEW s \in Functions(p), s \in Symbols, NEW k \in 1 .. Len(rows),
           s.addr <= rows[k].addr, rows[k].addr < s.addr + s.size
    PROVE  RowOf(p, rows[k].addr) # {} \/ (rows[k].addr = s.addr /\ EndsAt(p, rows[k].addr))
<1> DEFINE a == rows[k].addr
           m == Nearest(rows, a)
<1>1. rows \in Seq(Rows) /\ DOMAIN rows = 1 .. Len(rows) /\ Len(rows) \in Nat /\ Ascending(rows)
  BY PlacedAscends DEF Placed
<1>2. \A j \in 1 .. Len(rows) : rows[j].addr \in Nat
  BY <1>1, Addresses
<1>3. a \in Nat /\ rows[k].addr <= a
  BY <1>2
<1>4. /\ m \in 1 .. Len(rows) /\ rows[m].addr <= a
      /\ \A j \in 1 .. Len(rows) : rows[j].addr <= a => j <= m
  <2> HIDE DEF m
  <2>1. \/ m = 0 /\ \A j \in DOMAIN rows : ~(rows[j].addr <= a)
        \/ m \in DOMAIN rows /\ rows[m].addr <= a /\ \A j \in DOMAIN rows : rows[j].addr <= a => j <= m
    BY <1>1, <1>3, NearestIs DEF m
  <2> QED BY <1>1, <1>3, <2>1
<1> HIDE DEF m
<1>5. rows[m].addr = a
  <2>1. k <= m
    BY <1>3, <1>4
  <2>2. CASE k = m
    BY <2>2
  <2>3. CASE k < m
    <3>1. a <= rows[m].addr
      BY <1>1, <1>4, <2>3 DEF Ascending
    <3>2. rows[m].addr \in Nat
      BY <1>2, <1>4
    <3> HIDE DEF a
    <3> QED BY <1>3, <1>4, <3>1, <3>2
  <2> QED BY <1>1, <1>4, <2>1, <2>2, <2>3
<1>6. CASE ~rows[m].end_sequence
  <2>1. Speaks(p, pos[m], a)
    BY <1>3, <1>4, <1>6, NearestSpeaks
  <2> QED BY <2>1, RowOfIs
<1>7. CASE rows[m].end_sequence
  <2> DEFINE c == pos[m][1]
             q == p.sequences[c]
             e == q[Len(q)].addr
             b == q[1].addr
  <2>1. p.sequences \in Seq(Seq(Rows))
    BY LinesAssumption
  <2>2. pos[m] \in Positions(p.sequences) /\ rows[m] = q[pos[m][2]]
    BY <1>4 DEF Placed, RowAt
  <2>3. c \in DOMAIN p.sequences /\ pos[m][2] \in DOMAIN q
    BY <2>1, <2>2, PositionsAre
  <2>4. /\ Len(q) \in Nat /\ Len(q) >= 1 /\ DOMAIN q = 1 .. Len(q)
        /\ \A y \in 1 .. Len(q) : q[y].addr \in Nat
        /\ \A y \in 1 .. Len(q) : q[y].end_sequence <=> y = Len(q)
        /\ \A y, z \in 1 .. Len(q) : y <= z => q[y].addr <= q[z].addr
    BY <2>3, SequenceIs
  <2>5. pos[m][2] = Len(q)
    BY <1>7, <2>2, <2>3, <2>4
  <2>6. e = a
    BY <1>5, <2>2, <2>5
  <2>7. b <= e /\ b \in Nat
    <3>1. 1 \in 1 .. Len(q) /\ Len(q) \in 1 .. Len(q) /\ 1 <= Len(q)
      BY <2>4
    <3> HIDE DEF q
    <3> QED BY <2>4, <3>1
  <2>8. \/ s.addr + s.size <= b \/ e <= s.addr
        \/ b <= s.addr /\ s.addr + s.size <= e
    BY <2>3, LinesAssumption DEF InOneSequence
  <2>9. s.addr \in Nat /\ s.size \in Nat /\ s.addr <= a /\ a < s.addr + s.size
    BY LinesAssumption DEF Symbols
  <2>10. EndsAt(p, a)
    BY <2>3, <2>6 DEF EndsAt
  <2> DEFINE x == s.addr
             z == s.size
  <2>11. a = x
    <3> HIDE DEF a, b, e, x, z
    <3>1. x \in Nat /\ z \in Nat /\ x <= a /\ a < x + z
      BY <2>9 DEF x, z
    <3>2. x + z <= b \/ e <= x \/ (b <= x /\ x + z <= e)
      BY <2>8 DEF x, z
    <3> QED BY <1>3, <2>6, <2>7, <3>1, <3>2
  <2> QED BY <2>10, <2>11
<1> QED BY <1>6, <1>7

(* find_by_addr takes the last of the symbols that match.                  *)
LEMMA FoundByAddr ==
    ASSUME NEW t \in Seq(Symbols), NEW a \in Nat
    PROVE  \/ /\ find_by_addr(t, a) = None
              /\ \A j \in DOMAIN t : ~Inside(t[j], a) /\ ~Near(t[j], a)
           \/ \E i \in DOMAIN t :
                 /\ find_by_addr(t, a) = t[i]
                 /\ Inside(t[i], a) \/ Near(t[i], a)
                 /\ \A j \in DOMAIN t : Inside(t[j], a) => j <= i
<1> DEFINE M == {i \in DOMAIN t : Inside(t[i], a) \/ Near(t[i], a)}
           i == Last(M)
<1>1. find_by_addr(t, a) = IF M = {} THEN None ELSE t[i]
  BY DEF find_by_addr
<1>2. CASE M = {}
  BY <1>1, <1>2
<1>3. CASE M # {}
  <2>1. M \in SUBSET (0 .. Len(t)) /\ Len(t) \in Nat
    OBVIOUS
  <2>2. i \in M /\ \A j \in M : j <= i
    <3> HIDE DEF M
    <3> QED BY <1>3, <2>1, LastOf
  <2>3. find_by_addr(t, a) = t[i]
    BY <1>1, <1>3
  <2> HIDE DEF i
  <2> QED BY <2>2, <2>3
<1> QED BY <1>2, <1>3

(* A name that is there is found.                                          *)
LEMMA FoundByName ==
    ASSUME NEW t \in Seq(Symbols), NEW i \in DOMAIN t
    PROVE  \E j \in DOMAIN t : find_by_name(t, t[i].name) = t[j]
<1> DEFINE M == {j \in DOMAIN t : t[j].name = t[i].name}
<1>1. M # {} /\ M \in SUBSET Nat
  OBVIOUS
<1>2. First(M) \in M
  <2> HIDE DEF M
  <2> QED BY <1>1, FirstOf
<1>3. find_by_name(t, t[i].name) = t[First(M)]
  BY <1>1 DEF find_by_name
<1> QED BY <1>2, <1>3

-----------------------------------------------------------------------------
(* The session.                                                            *)

Loaded == program \in Programs /\ table = load(program)

(* What was answered is what the tables say.                               *)
LineAnswered(a)     == asked = <<"line", a>> /\ answer = lookup(table.rows, a)
SymbolAnswered(a)   == asked = <<"symbol", a>> /\ answer = find_by_addr(table.symbols, a)
BreakAnswered(n)    == asked = <<"break", n>> /\ answer = resolve_file_line(table.rows, n)
FunctionAnswered(s) == asked = <<"function", s>> /\ answer \in skip_prologue_addr(table, s)

Answered == \/ asked = <<"nothing">> /\ answer = None
            \/ \E a \in 0 .. Top : LineAnswered(a) \/ SymbolAnswered(a)
            \/ \E n \in LineNumbers : BreakAnswered(n)
            \/ \E i \in DOMAIN table.symbols : FunctionAnswered(table.symbols[i])

LinesInv == Loaded /\ Answered

LEMMA TablesAre ==
    ASSUME Loaded
    PROVE  /\ table.rows \in Seq(Rows) /\ Ascending(table.rows)
           /\ table.symbols \in Seq(Symbols) /\ Ascending(table.symbols)
           /\ \A i \in DOMAIN table.symbols : table.symbols[i] \in Functions(program)
           /\ \E pos : Placed(program, table.rows, pos)
<1>1. program \in Programs /\ table = load(program)
  BY DEF Loaded
<1>2. PICK pos : Placed(program, table.rows, pos)
  BY <1>1, RowsPlaced
<1>3. table.rows \in Seq(Rows) /\ Ascending(table.rows)
  <2>1. table.rows \in Seq(Rows)
    BY <1>2 DEF Placed
  <2>2. Ascending(table.rows)
    BY <1>2, PlacedAscends
  <2> QED BY <2>1, <2>2
<1>4. /\ table.symbols \in Seq(Symbols) /\ Ascending(table.symbols)
      /\ \A i \in DOMAIN table.symbols : table.symbols[i] \in Functions(program)
  BY <1>1, SymbolsSorted
<1> QED BY <1>2, <1>3, <1>4

LEMMA LinesInit == Init => LinesInv
BY DEF Init, LinesInv, Loaded, Answered

LEMMA LinesStep == LinesInv /\ [Next]_vars => LinesInv'
<1> SUFFICES ASSUME LinesInv, [Next]_vars PROVE LinesInv'
  OBVIOUS
<1>1. CASE UNCHANGED vars
  BY <1>1 DEF LinesInv, Loaded, Answered, LineAnswered, SymbolAnswered, BreakAnswered,
              FunctionAnswered, vars
<1>2. ASSUME NEW q, NEW a, Asks(q, a) PROVE Loaded' /\ table' = table /\ asked' = q /\ answer' = a
  BY <1>2 DEF Asks, LinesInv, Loaded
<1>3. CASE ListAt
  <2>1. PICK a \in 0 .. Top : Asks(<<"line", a>>, lookup(table.rows, a))
    BY <1>3 DEF ListAt
  <2>2. Loaded' /\ LineAnswered(a)'
    BY <1>2, <2>1 DEF LineAnswered
  <2> QED BY <2>2 DEF LinesInv, Answered
<1>4. CASE SymbolAt
  <2>1. PICK a \in 0 .. Top : Asks(<<"symbol", a>>, find_by_addr(table.symbols, a))
    BY <1>4 DEF SymbolAt
  <2>2. Loaded' /\ SymbolAnswered(a)'
    BY <1>2, <2>1 DEF SymbolAnswered
  <2> QED BY <2>2 DEF LinesInv, Answered
<1>5. CASE BreakAtLine
  <2>1. PICK n \in LineNumbers : Asks(<<"break", n>>, resolve_file_line(table.rows, n))
    BY <1>5 DEF BreakAtLine
  <2>2. Loaded' /\ BreakAnswered(n)'
    BY <1>2, <2>1 DEF BreakAnswered
  <2> QED BY <2>2 DEF LinesInv, Answered
<1>6. CASE BreakAtFunction
  <2>1. PICK i \in DOMAIN table.symbols :
           LET s == find_by_name(table.symbols, table.symbols[i].name) IN
           \E a \in skip_prologue_addr(table, s) : Asks(<<"function", s>>, a)
    BY <1>6 DEF BreakAtFunction
  <2>2. PICK j \in DOMAIN table.symbols :
           find_by_name(table.symbols, table.symbols[i].name) = table.symbols[j]
    BY FoundByName, TablesAre DEF LinesInv
  <2>3. PICK a \in skip_prologue_addr(table, table.symbols[j]) :
           Asks(<<"function", table.symbols[j]>>, a)
    BY <2>1, <2>2
  <2>4. Loaded' /\ table' = table /\ FunctionAnswered(table.symbols[j])'
    BY <1>2, <2>3 DEF FunctionAnswered
  <2> QED BY <2>4 DEF LinesInv, Answered
<1> QED BY <1>1, <1>3, <1>4, <1>5, <1>6 DEF Next

LEMMA LinesInvariant == Spec => []LinesInv
BY LinesInit, LinesStep, PTL DEF Spec

(* One case for each question.                                             *)
LEMMA Answers ==
    ASSUME LinesInv
    PROVE  \/ asked = <<"nothing">> /\ answer = None
           \/ \E a \in 0 .. Top : LineAnswered(a)
           \/ \E a \in 0 .. Top : SymbolAnswered(a)
           \/ \E n \in LineNumbers : BreakAnswered(n)
           \/ \E i \in DOMAIN table.symbols : FunctionAnswered(table.symbols[i])
BY DEF LinesInv, Answered

(* break <function>: where the breakpoint goes.                            *)
LEMMA FunctionSays ==
    ASSUME LinesInv, NEW i \in DOMAIN table.symbols, FunctionAnswered(table.symbols[i])
    PROVE  LET s == table.symbols[i] IN
           /\ s \in Symbols /\ s.addr \in Nat /\ s.size \in Nat
           /\ \E k \in DOMAIN table.rows :
                 /\ table.rows[k].addr = answer /\ Breakable(table.rows[k])
                 /\ s.addr <= answer /\ answer < HighPc(table.symbols, s)
<1> DEFINE s == table.symbols[i]
<1>1. /\ table.rows \in Seq(Rows) /\ Ascending(table.rows) /\ table.symbols \in Seq(Symbols)
  BY TablesAre DEF LinesInv
<1>2. s \in Symbols
  BY <1>1
<1> HIDE DEF s
<1>3. s.addr \in Nat /\ s.size \in Nat
  BY <1>2, LinesAssumption DEF Symbols
<1>4. HighPc(table.symbols, s) \in Nat
  BY <1>1, <1>2, HighPcIs
<1>5. answer \in skip_prologue(table.rows, s.addr, HighPc(table.symbols, s)) /\ answer # None
  BY DEF FunctionAnswered, skip_prologue_addr, s
<1>6. \E k \in DOMAIN table.rows :
         /\ table.rows[k].addr = answer /\ Breakable(table.rows[k])
         /\ s.addr <= answer /\ answer < HighPc(table.symbols, s)
  BY <1>1, <1>3, <1>4, <1>5, PrologueEnds
<1> QED BY <1>2, <1>3, <1>6 DEF s

-----------------------------------------------------------------------------
(* The tables are in the order the searches rely on, and every answer is a *)
(* row, a symbol or an address.                                            *)
THEOREM LinesTypes == Spec => []TypeOK
<1>1. LinesInv => TypeOK
  <2> SUFFICES ASSUME LinesInv PROVE TypeOK
    OBVIOUS
  <2>1. /\ table.rows \in Seq(Rows) /\ Ascending(table.rows)
        /\ table.symbols \in Seq(Symbols) /\ Ascending(table.symbols)
    BY TablesAre DEF LinesInv
  <2> DEFINE Typed == /\ asked[1] \in {"line", "break"} /\ answer # None => answer \in Rows
                      /\ asked[1] = "symbol" /\ answer # None => answer \in Symbols
                      /\ asked[1] = "function" => answer \in 1 .. Top
  <2>2. ASSUME asked = <<"nothing">>, answer = None PROVE Typed
    BY <2>2
  <2>3. ASSUME NEW a \in 0 .. Top, LineAnswered(a) PROVE Typed
    <3>1. asked[1] = "line"
      BY <2>3 DEF LineAnswered
    <3>2. lookup(table.rows, a) # None => lookup(table.rows, a) \in Rows
      <4>1. a \in Nat
        OBVIOUS
      <4> QED BY <2>1, <4>1, NearestIs DEF lookup
    <3> QED BY <2>3, <3>1, <3>2 DEF LineAnswered
  <2>4. ASSUME NEW a \in 0 .. Top, SymbolAnswered(a) PROVE Typed
    <3>1. asked[1] = "symbol" /\ a \in Nat
      BY <2>4 DEF SymbolAnswered
    <3>2. find_by_addr(table.symbols, a) = None \/ find_by_addr(table.symbols, a) \in Symbols
      BY <2>1, <3>1, FoundByAddr
    <3> QED BY <2>4, <3>1, <3>2 DEF SymbolAnswered
  <2>5. ASSUME NEW n \in LineNumbers, BreakAnswered(n) PROVE Typed
    <3>1. asked[1] = "break" /\ n \in Nat
      BY <2>5, LinesAssumption DEF BreakAnswered
    <3>2. answer = resolve_file_line(table.rows, n)
      BY <2>5 DEF BreakAnswered
    <3>3. CASE \E i \in DOMAIN table.rows : Breakable(table.rows[i]) /\ table.rows[i].line >= n
      BY <2>1, <3>1, <3>2, <3>3, BestLine
    <3>4. CASE ~\E i \in DOMAIN table.rows : Breakable(table.rows[i]) /\ table.rows[i].line >= n
      <4>1. answer = None
        BY <3>2, <3>4 DEF resolve_file_line
      <4> QED BY <3>1, <4>1
    <3> QED BY <3>3, <3>4
  <2>6. ASSUME NEW i \in DOMAIN table.symbols, FunctionAnswered(table.symbols[i]) PROVE Typed
    <3>1. asked[1] = "function"
      BY <2>6 DEF FunctionAnswered
    <3>2. PICK k \in DOMAIN table.rows : table.rows[k].addr = answer
      BY <2>6, FunctionSays
    <3>3. answer \in 1 .. Top
      BY <2>1, <3>2, Addresses
    <3> QED BY <3>1, <3>3
  <2>7. Typed
    <3> HIDE DEF Typed
    <3> QED BY <2>2, <2>3, <2>4, <2>5, <2>6, Answers
  <2> QED BY <2>1, <2>7 DEF TypeOK
<1> QED BY <1>1, LinesInvariant, PTL

(* Whatever the sequences, a search for the row of an address finds the    *)
(* one that speaks of it.                                                  *)
THEOREM LookupIsRight == Spec => []LookupFindsRow
<1>1. LinesInv => LookupFindsRow
  <2> SUFFICES ASSUME LinesInv, asked[1] = "line" PROVE LookupFindsRow
    BY DEF LookupFindsRow
  <2>1. PICK a \in 0 .. Top : LineAnswered(a)
    BY Answers DEF SymbolAnswered, BreakAnswered, FunctionAnswered
  <2>2. PICK pos : Placed(program, table.rows, pos)
    BY TablesAre DEF LinesInv
  <2>3. program \in Programs /\ a \in Nat
    BY DEF LinesInv, Loaded
  <2>4. \/ RowOf(program, a) = {} /\ lookup(table.rows, a) = None
        \/ RowOf(program, a) = {lookup(table.rows, a)}
        \/ lookup(table.rows, a) = None /\ \E row \in RowOf(program, a) : EndsAt(program, row.addr)
    BY <2>2, <2>3, LookupSays
  <2>5. asked[2] = a /\ answer = lookup(table.rows, a)
    BY <2>1 DEF LineAnswered
  <2> QED BY <2>4, <2>5 DEF LookupFindsRow
<1> QED BY <1>1, LinesInvariant, PTL

(* Whatever the sequences, a breakpoint on a line is set at a statement of *)
(* the first line from there on that has any, the one at the lowest        *)
(* address; and there is none only if no such line is left.                *)
THEOREM BreakFindsItsLine == Spec => []BreakFindsLine
<1>1. LinesInv => BreakFindsLine
  <2> SUFFICES ASSUME LinesInv, asked[1] = "break" PROVE BreakFindsLine
    BY DEF BreakFindsLine
  <2>1. PICK n \in LineNumbers : BreakAnswered(n)
    BY Answers DEF LineAnswered, SymbolAnswered, FunctionAnswered
  <2>2. PICK pos : Placed(program, table.rows, pos)
    BY TablesAre DEF LinesInv
  <2>3. program \in Programs /\ table.rows \in Seq(Rows) /\ n \in Nat
    BY TablesAre, LinesAssumption DEF LinesInv, Loaded
  <2>4. answer = resolve_file_line(table.rows, n) /\ asked[2] = n
    BY <2>1 DEF BreakAnswered
  <2> DEFINE after == {row \in Statements(program) : row.line >= n}
             rows == table.rows
  <2>5. \A row : row \in after <=>
           \E i \in DOMAIN rows : row = rows[i] /\ Breakable(rows[i]) /\ rows[i].line >= n
    BY <2>2, <2>3, BreakablesAre
  <2>6. \A i \in DOMAIN rows : rows[i] \in Rows
    BY <2>3
  <2>7. \A row \in Rows : row.line \in Nat /\ row.addr \in Nat
    BY Addresses DEF Rows
  <2> HIDE DEF after
  <2>8. CASE \A i \in DOMAIN rows : ~(Breakable(rows[i]) /\ rows[i].line >= n)
    <3>1. after = {}
      BY <2>5, <2>8
    <3>2. answer = None
      BY <2>4, <2>8 DEF resolve_file_line
    <3> QED BY <2>4, <3>1, <3>2 DEF BreakFindsLine, after
  <2>9. CASE \E i \in DOMAIN rows : Breakable(rows[i]) /\ rows[i].line >= n
    <3>1. PICK i \in DOMAIN rows :
             /\ answer = rows[i] /\ Breakable(rows[i]) /\ rows[i].line >= n
             /\ \A j \in DOMAIN rows : Breakable(rows[j]) /\ rows[j].line >= n =>
                   \/ rows[i].line < rows[j].line
                   \/ rows[i].line = rows[j].line /\ rows[i].addr <= rows[j].addr
      BY <2>3, <2>4, <2>9, BestLine
    <3>2. answer \in after
      BY <2>5, <3>1
    <3>3. ASSUME NEW row \in after
          PROVE  answer.line <= row.line /\ (row.line = answer.line => answer.addr <= row.addr)
      <4>1. PICK j \in DOMAIN rows : row = rows[j] /\ Breakable(rows[j]) /\ rows[j].line >= n
        BY <2>5
      <4>2. \/ answer.line < row.line
            \/ answer.line = row.line /\ answer.addr <= row.addr
        BY <3>1, <4>1
      <4>3. answer.line \in Nat /\ row.line \in Nat
        BY <2>6, <2>7, <3>1, <4>1
      <4> QED BY <4>2, <4>3
    <3> QED BY <2>4, <3>2, <3>3 DEF BreakFindsLine, after
  <2> QED BY <2>8, <2>9
<1> QED BY <1>1, LinesInvariant, PTL

(* A breakpoint on a function lies in it.                                  *)
THEOREM BreakStaysInside == Spec => []BreakInFunction
<1>1. LinesInv => BreakInFunction
  <2> SUFFICES ASSUME LinesInv, asked[1] = "function" PROVE BreakInFunction
    BY DEF BreakInFunction
  <2>1. PICK i \in DOMAIN table.symbols : FunctionAnswered(table.symbols[i])
    BY Answers DEF LineAnswered, SymbolAnswered, BreakAnswered
  <2> DEFINE s == table.symbols[i]
  <2>2. asked[2] = s
    BY <2>1 DEF FunctionAnswered
  <2>3. s \in Symbols /\ s.addr \in Nat /\ s.size \in Nat
    BY <2>1, FunctionSays
  <2>4. PICK k \in DOMAIN table.rows :
              /\ table.rows[k].addr = answer /\ Breakable(table.rows[k])
              /\ s.addr <= answer /\ answer < HighPc(table.symbols, s)
    BY <2>1, FunctionSays
  <2>5. PICK pos : Placed(program, table.rows, pos)
    BY TablesAre DEF LinesInv
  <2>6. /\ program \in Programs /\ table.symbols \in Seq(Symbols) /\ table.rows \in Seq(Rows)
        /\ s \in Functions(program)
    BY TablesAre DEF LinesInv, Loaded
  <2> HIDE DEF s
  <2>7. ASSUME s.size > 0
        PROVE  RowOf(program, answer) # {} \/ (answer = s.addr /\ EndsAt(program, answer))
    <3>1. HighPc(table.symbols, s) = s.addr + s.size
      BY <2>3, <2>6, <2>7, HighPcIs
    <3>2. k \in 1 .. Len(table.rows)
      BY <2>6
    <3> QED BY <2>3, <2>4, <2>5, <2>6, <3>1, <3>2, RowInFunction
  <2> QED BY <2>2, <2>4, <2>7 DEF BreakInFunction
<1> QED BY <1>1, LinesInvariant, PTL

(* The function an address lies in is found.                               *)
THEOREM SymbolIsFound == Spec => []SymbolFound
<1>1. LinesInv => SymbolFound
  <2> SUFFICES ASSUME LinesInv, asked[1] = "symbol" PROVE SymbolFound
    BY DEF SymbolFound
  <2>1. PICK a \in 0 .. Top : SymbolAnswered(a)
    BY Answers DEF LineAnswered, BreakAnswered, FunctionAnswered
  <2> DEFINE t == table.symbols
             around == {s \in Functions(program) : Inside(s, a)}
  <2>2. asked[2] = a /\ answer = find_by_addr(t, a) /\ a \in Nat
    BY <2>1 DEF SymbolAnswered
  <2>3. t \in Seq(Symbols) /\ Ascending(t) /\ program \in Programs
    BY TablesAre DEF LinesInv, Loaded
  <2>4. \A s \in Functions(program) : \E j \in DOMAIN t : t[j].addr = s.addr /\ t[j].size = s.size
    BY SymbolsSorted DEF LinesInv, Loaded
  <2>5. \A j \in DOMAIN t : t[j] \in Symbols /\ t[j].addr \in Nat /\ t[j].size \in Nat
    <3>1. \A s \in Symbols : s.addr \in Nat /\ s.size \in Nat
      BY LinesAssumption DEF Symbols
    <3> QED BY <2>3, <3>1
  <2> HIDE DEF t
  <2>6. \A s \in around : \E j \in DOMAIN t : t[j].addr = s.addr /\ Inside(t[j], a)
    BY <2>4 DEF Inside
  <2>7. CASE /\ find_by_addr(t, a) = None
             /\ \A j \in DOMAIN t : ~Inside(t[j], a) /\ ~Near(t[j], a)
    <3>1. around = {}
      BY <2>6, <2>7
    <3> QED BY <2>2, <2>7, <3>1 DEF SymbolFound
  <2>8. ASSUME NEW i \in DOMAIN t, find_by_addr(t, a) = t[i], Inside(t[i], a) \/ Near(t[i], a),
               \A j \in DOMAIN t : Inside(t[j], a) => j <= i
        PROVE  SymbolFound
    <3>1. answer = t[i] /\ answer # None
      BY <2>2, <2>5, <2>8, LinesAssumption
    <3>2. answer.addr <= a /\ (Inside(answer, a) \/ a - answer.addr < FallbackRange)
      BY <2>8, <3>1 DEF Inside, Near
    <3>3. Inside(answer, a) \/ answer.size = 0
      BY <2>8, <3>1 DEF Near
    <3>4. ASSUME NEW s \in around PROVE answer.addr >= s.addr
      <4>1. PICK j \in DOMAIN t : t[j].addr = s.addr /\ Inside(t[j], a)
        BY <2>6
      <4>2. j <= i
        BY <2>8, <4>1
      <4>3. t[j].addr <= t[i].addr
        <5>1. CASE j = i
          BY <2>5, <5>1
        <5>2. CASE j < i
          BY <2>3, <5>2 DEF Ascending
        <5> QED BY <2>3, <4>2, <5>1, <5>2
      <4> QED BY <2>5, <3>1, <4>1, <4>3
    <3> HIDE DEF around
    <3> QED BY <2>2, <3>1, <3>2, <3>3, <3>4 DEF SymbolFound, around
  <2> QED BY <2>2, <2>3, <2>7, <2>8, FoundByAddr
<1> QED BY <1>1, LinesInvariant, PTL
=============================================================================
