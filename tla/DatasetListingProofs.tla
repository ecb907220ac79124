------------------------ MODULE DatasetListingProofs ------------------------
(***************************************************************************)
(* What the pages of the list hold, for every number of datasets, size of  *)
(* page, filters and requests, whatever comes, goes, fails or is late.     *)
(*                                                                         *)
(* A query numbers its rows from 0, newest first.  A list that is loaded   *)
(* has scanned the rows up to some offset; a row that comes moves one that *)
(* it has taken, at most, past that offset, a row that goes moves one it   *)
(* has not taken before it.  The first may be repeated, the second skipped.*)
(***************************************************************************)
EXTENDS DatasetListing, FiniteSetTheorems, WellFoundedInduction, TLAPS

-----------------------------------------------------------------------------
(* The invariants *)

In(seq) == {seq[i] : i \in DOMAIN seq}

\* The offset up to which a request has scanned the rows of its query.
scanned(q) ==
    q.fetch_offset + (IF q.last_chunk_len > BATCH_SIZE THEN 0 ELSE q.last_chunk_len)

\* It found fewer rows than a page.
ranOut(q) == q.step # "fetch" /\ ~Enough(q.accumulated)

SoundRequest(q) ==
    /\ ~q.append => q.offset = 0
    /\ q.step = "fetch" => q.last_chunk_len \in {0, BATCH_SIZE + 1}
    /\ ranOut(q) => q.last_chunk_len <= BATCH_SIZE
    /\ q.offset <= q.fetch_offset /\ scanned(q) <= MaxRows
    /\ \A o \in DOMAIN q.accumulated : q.offset <= o /\ o < scanned(q)

RequestInv(q) ==
    /\ SoundRequest(q)
    /\ q.id <= page.requestId
    /\ \A r \in requests : r.id = q.id => r = q
    /\ current(q) => q.filters = page.filters /\ (q.append => browse.valid)
    /\ \A o \in DOMAIN q.accumulated :
          /\ q.accumulated[o] \in 1..created
          /\ current(q) => q.accumulated[o] \in browse.matched

ListInv ==
    /\ ListingTypeOK
    /\ \A q \in requests : RequestInv(q)
    /\ page.hasMore => browse.valid
    /\ browse.valid => ~page.loading /\ In(page.shown) \subseteq browse.matched
    /\ Query(page.filters) \subseteq browse.matched
    /\ In(page.shown) \subseteq 1..created
    /\ tabled \subseteq rows
    /\ browse.steady \subseteq Listed(page.filters)
    /\ deleting # 0 => browse.removed > 0 /\ deleting \notin rows
    /\ deleting <= created

\* How many elements of a set are smaller, how many are greater: the offset of a row
\* is the latter.
Below(S, x) == {y \in S : y < x}
Above(S, x) == {y \in S : y > x}
rank(S, x)  == Cardinality(Below(S, x))
Off(S, x)   == Cardinality(Above(S, x))

\* The list before the answer, and what it holds with the rows of the answer before t.
base(q)          == IF q.append THEN page.shown ELSE <<>>
Taken(s, acc, t) == In(s) \cup {acc[o] : o \in Below(DOMAIN acc, t)}

\* Of the rows Q of the query, the taken ones that are now at t or after, and the steady
\* ones that are now before t and were not taken.
Ahead(Q, E, t)          == {n \in E \cap Q : Off(Q, n) >= t}
Behind(Q, steady, E, t) == {n \in steady \ E : Off(Q, n) < t}

\* Repeated rows and those that may be repeated later are at most those added; skipped
\* ones are at most those removed.
FewRepeated(Q, added, s, acc, t) ==
    LET E == Taken(s, acc, t) IN
    Len(s) + Cardinality(Below(DOMAIN acc, t)) + Cardinality(Ahead(Q, E, t))
        <= Cardinality(E) + added

FewSkipped(Q, steady, removed, s, acc, t) ==
    Cardinality(Behind(Q, steady, Taken(s, acc, t), t)) <= removed

\* So it is wherever a request may end its page, and at the end if it has found it; and
\* where the list goes on.
RequestCount(Q, b, s, q) ==
    /\ \A t \in q.offset..scanned(q) :
          /\ FewRepeated(Q, b.added, s, q.accumulated, t)
          /\ FewSkipped(Q, b.steady, b.removed, s, q.accumulated, t)
    /\ ranOut(q) =>
          Cardinality(b.steady \ Taken(s, q.accumulated, scanned(q))) <= b.removed

PageCount(Q, b, p) ==
    /\ FewRepeated(Q, b.added, p.shown, <<>>, p.nextOffset)
    /\ p.hasMore => FewSkipped(Q, b.steady, b.removed, p.shown, <<>>, p.nextOffset)
    /\ ~p.hasMore => Cardinality(b.steady \ In(p.shown)) <= b.removed

CountInv ==
    LET Q == Query(page.filters) IN
    /\ \A q \in requests : current(q) => RequestCount(Q, browse, base(q), q)
    /\ browse.valid => PageCount(Q, browse, page)

\* While nothing changes a request finds the rows L of the list each at its offset, and
\* a list that is loaded ends where the next page starts.
Stable         == browse.removed = 0 /\ browse.added = 0 /\ ~browse.relisted
Until(Q, L, t) == {n \in L : Off(Q, n) < t}

RequestOrder(Q, L, next, q) ==
    /\ \A n \in Until(Q, L, scanned(q)) : Off(Q, n) >= q.offset =>
          Off(Q, n) \in DOMAIN q.accumulated /\ q.accumulated[Off(Q, n)] = n
    /\ \A o \in DOMAIN q.accumulated :
          q.accumulated[o] \in L /\ Off(Q, q.accumulated[o]) = o
    /\ ranOut(q) => Until(Q, L, scanned(q)) = L
    /\ ~q.append /\ q.step = "answered" => q.total = Cardinality(L)
    /\ q.append => q.offset = next

\* A list holds the rows before t, newest first.
InOrder(Q, L, s, t) ==
    /\ \A i, j \in DOMAIN s : i < j => s[i] > s[j]
    /\ In(s) = Until(Q, L, t)

PageOrder(Q, L, p) ==
    /\ InOrder(Q, L, p.shown, p.nextOffset)
    /\ p.hasMore <=> In(p.shown) # L
    /\ p.total = Cardinality(L)

OrderInv ==
    LET Q == Query(page.filters)
        L == Listed(page.filters)
    IN
    Stable =>
      /\ \A q \in requests : current(q) => RequestOrder(Q, L, page.nextOffset, q)
      /\ browse.valid => PageOrder(Q, L, page)

-----------------------------------------------------------------------------
(* Counting *)

\* A set of numbers has a first one, and a last one if it is bounded.
LEMMA FirstOf ==
    ASSUME NEW S \in SUBSET Nat, S # {}
    PROVE  \E x \in S : \A y \in S : x <= y
  <1>1. PICK x \in S : \A y \in S : ~(<<y, x>> \in OpToRel(<, Nat))
    BY NatLessThanWellFounded, WFMin
  <1>2. \A y \in S : ~(y < x)
    BY <1>1 DEF OpToRel
  <1> QED
    BY <1>2

\* A bounded set has a last element.
LEMMA LastOf ==
    ASSUME NEW n \in Nat, NEW S \in SUBSET (0..n), S # {}
    PROVE  \E x \in S : \A y \in S : y <= x
  <1> DEFINE U == {n - x : x \in S}
  <1>1. \A x \in S : x \in 0..n
    OBVIOUS
  <1>2. U \in SUBSET Nat /\ U # {}
    <2>1. \A u \in U : u \in Nat
      BY <1>1
    <2>2. PICK x : x \in S
      OBVIOUS
    <2>3. n - x \in U
      BY <2>2
    <2> HIDE DEF U
    <2> QED
      BY <2>1, <2>3
  <1>3. PICK u \in U : \A v \in U : u <= v
    BY <1>2, FirstOf
  <1>4. PICK x \in S : u = n - x
    BY <1>3
  <1>5. \A y \in S : n - x <= n - y
    BY <1>3, <1>4
  <1> QED
    BY <1>1, <1>5

\* Bounded sets are finite, and so are their subsets.
LEMMA Bounded ==
    ASSUME NEW n \in Nat, NEW S \in SUBSET (0..n)
    PROVE  /\ IsFiniteSet(S) /\ Cardinality(S) \in Nat /\ S \in SUBSET Nat
           /\ \A T \in SUBSET S : /\ IsFiniteSet(T) /\ Cardinality(T) \in Nat
                                  /\ Cardinality(T) <= Cardinality(S)
  <1>1. IsFiniteSet(0..n)
    BY FS_Interval
  <1>2. IsFiniteSet(S)
    BY <1>1, FS_Subset
  <1>3. ASSUME NEW T \in SUBSET S
        PROVE  /\ IsFiniteSet(T) /\ Cardinality(T) \in Nat
               /\ Cardinality(T) <= Cardinality(S)
    BY <1>2, FS_Subset, FS_CardinalityType
  <1> QED
    BY <1>2, <1>3, FS_CardinalityType

\* There are m numbers from 1 to m.
LEMMA FirstNumbers ==
    ASSUME NEW m \in Nat
    PROVE  IsFiniteSet(1..m) /\ Cardinality(1..m) = m
  <1>1. IsFiniteSet(1..m) /\ Cardinality(1..m) = IF 1 > m THEN 0 ELSE m - 1 + 1
    BY FS_Interval
  <1> QED
    BY <1>1

\* A set is as large as what it is mapped onto one to one.
LEMMA OneToOne ==
    ASSUME NEW S, IsFiniteSet(S), NEW T, NEW f \in [S -> T],
           \A x, y \in S : f[x] = f[y] => x = y,
           \A z \in T : \E x \in S : f[x] = z
    PROVE  IsFiniteSet(T) /\ Cardinality(T) = Cardinality(S)
  <1>1. f \in Bijection(S, T)
    BY DEF Bijection, Injection, Surjection, IsInjective
  <1> QED
    BY <1>1, FS_Bijection DEF ExistsBijection

\* A set whose elements are all the same has one at most.
LEMMA AtMostOne ==
    ASSUME NEW S, \A x, y \in S : x = y
    PROVE  IsFiniteSet(S) /\ Cardinality(S) \in Nat /\ Cardinality(S) <= 1
  <1>1. CASE S = {}
    BY <1>1, FS_EmptySet
  <1>2. CASE S # {}
    <2>1. PICK x : x \in S
      BY <1>2
    <2>2. S = {x}
      BY <2>1
    <2> QED
      BY <2>2, FS_Singleton
  <1> QED
    BY <1>1, <1>2

\* What Below and Above are made of.
LEMMA BelowIs ==
    /\ \A S, x, y : y \in Below(S, x) <=> y \in S /\ y < x
    /\ \A S, x, y : y \in Above(S, x) <=> y \in S /\ y > x
    /\ \A S, x : Below(S, x) \subseteq S /\ Above(S, x) \subseteq S
  BY DEF Below, Above

\* Ranks and offsets are numbers.
LEMMA RankNat ==
    ASSUME NEW n \in Nat, NEW S \in SUBSET (0..n)
    PROVE  \A x : /\ IsFiniteSet(Below(S, x)) /\ IsFiniteSet(Above(S, x))
                  /\ rank(S, x) \in Nat /\ Off(S, x) \in Nat
  <1>1. \A x : Below(S, x) \in SUBSET S /\ Above(S, x) \in SUBSET S
    BY BelowIs
  <1>2. \A T \in SUBSET S : IsFiniteSet(T) /\ Cardinality(T) \in Nat
    BY Bounded
  <1> QED
    BY <1>1, <1>2 DEF rank, Off

\* They count the elements on each side; a newer row has the smaller offset.
LEMMA RankType ==
    ASSUME NEW n \in Nat, NEW S \in SUBSET (0..n)
    PROVE  /\ \A x : rank(S, x) \in Nat /\ Off(S, x) \in Nat
           /\ \A x \in S : rank(S, x) + Off(S, x) + 1 = Cardinality(S)
           /\ \A x, y \in S : x < y => rank(S, x) < rank(S, y) /\ Off(S, y) < Off(S, x)
           /\ \A x, y \in S : rank(S, x) = rank(S, y) \/ Off(S, x) = Off(S, y) => x = y
  <1>1. IsFiniteSet(S) /\ Cardinality(S) \in Nat /\ \A x \in S : x \in Nat
    BY Bounded
  <1>2. \A x : rank(S, x) \in Nat /\ Off(S, x) \in Nat
    BY RankNat
  <1>3. ASSUME NEW x \in S
        PROVE  rank(S, x) + Off(S, x) + 1 = Cardinality(S)
    <2> DEFINE A == Below(S, x)
               B == Above(S, x)
    <2>1. \A y \in S : (y \in A <=> y < x) /\ (y \in B <=> y > x)
      BY BelowIs
    <2>2. A \subseteq S /\ B \subseteq S /\ IsFiniteSet(A) /\ IsFiniteSet(B)
          /\ rank(S, x) = Cardinality(A) /\ Off(S, x) = Cardinality(B)
      BY RankNat, BelowIs DEF rank, Off
    <2> HIDE DEF A, B
    <2>3. \A y \in S : (y \in A \/ y \in B <=> y # x) /\ ~(y \in A /\ y \in B)
      BY <1>1, <2>1
    <2>4. A \cap B = {} /\ A \cup B = S \ {x}
      BY <2>2, <2>3
    <2>5. Cardinality(A \cap B) = 0
      BY <2>4, FS_EmptySet
    <2>6. Cardinality(A \cup B) = Cardinality(A) + Cardinality(B) - Cardinality(A \cap B)
      BY <2>2, FS_Union
    <2>7. Cardinality(S \ {x}) = Cardinality(S) - 1
      BY <1>1, FS_RemoveElement
    <2>8. Cardinality(A) + Cardinality(B) = Cardinality(S) - 1
      BY <1>2, <2>2, <2>4, <2>5, <2>6, <2>7
    <2> QED
      BY <1>1, <1>2, <2>2, <2>8
  <1>4. ASSUME NEW x \in S, NEW y \in S, x < y
        PROVE  rank(S, x) < rank(S, y) /\ Off(S, y) < Off(S, x)
    <2>1. \A z \in S : z < x => z < y
      BY <1>1, <1>4
    <2>2. ~(x < x)
      BY <1>1
    <2>3. Below(S, x) \cup {x} \subseteq Below(S, y) /\ x \notin Below(S, x)
      <3>1. \A z : z \in Below(S, x) => z \in Below(S, y)
        BY <2>1, BelowIs
      <3>2. x \in Below(S, y) /\ x \notin Below(S, x)
        BY <1>4, <2>2, BelowIs
      <3> QED
        BY <3>1, <3>2
    <2>4. Cardinality(Below(S, x) \cup {x}) = rank(S, x) + 1
      BY <2>3, RankNat, FS_AddElement DEF rank
    <2>5. Cardinality(Below(S, x) \cup {x}) <= rank(S, y)
      BY <2>3, RankNat, FS_Subset DEF rank
    <2>6. rank(S, x) < rank(S, y)
      BY <1>2, <2>4, <2>5
    <2>7. /\ rank(S, x) + Off(S, x) + 1 = Cardinality(S)
          /\ rank(S, y) + Off(S, y) + 1 = Cardinality(S)
      BY <1>3
    <2> QED
      BY <1>1, <1>2, <2>6, <2>7
  <1>5. ASSUME NEW x \in S, NEW y \in S, rank(S, x) = rank(S, y) \/ Off(S, x) = Off(S, y)
        PROVE  x = y
    <2>1. ~(x < y) /\ ~(y < x)
      BY <1>2, <1>4, <1>5
    <2> QED
      BY <1>1, <2>1
  <1> QED
    BY <1>2, <1>3, <1>4, <1>5

\* Each rank is taken.
LEMMA RankOnto ==
    ASSUME NEW n \in Nat, NEW S \in SUBSET (0..n), NEW k \in Nat, k < Cardinality(S)
    PROVE  \E x \in S : rank(S, x) = k
  <1>1. IsFiniteSet(S) /\ Cardinality(S) \in Nat /\ \A x \in S : x \in Nat
    BY Bounded
  <1>2. \A x : rank(S, x) \in Nat
    BY RankNat
  <1> DEFINE T == {x \in S : rank(S, x) >= k}
  <1>3. T \in SUBSET Nat /\ T # {}
    <2>1. S # {}
      BY <1>1, FS_EmptySet
    <2>2. PICK m \in S : \A y \in S : y <= m
      BY <2>1, LastOf
    <2>3. \A y \in S : ~(y > m)
      BY <1>1, <2>2
    <2>4. Above(S, m) = {}
      BY <2>3, BelowIs
    <2>5. Off(S, m) = 0
      BY <2>4, FS_EmptySet DEF Off
    <2>6. rank(S, m) + 0 + 1 = Cardinality(S)
      BY <2>5, RankType
    <2>7. m \in T
      BY <1>1, <1>2, <2>6
    <2> QED
      BY <1>1, <2>7
  <1>4. PICK x \in T : \A y \in T : x <= y
    BY <1>3, FirstOf
  <1>5. x \in S /\ rank(S, x) >= k /\ \A y \in S : rank(S, y) >= k => x <= y
    BY <1>4
  <1> HIDE DEF T
  <1>6. ASSUME rank(S, x) # k
        PROVE  FALSE
    <2>1. Below(S, x) \in SUBSET (0..n) /\ Below(S, x) # {}
      <3>1. rank(S, x) # 0
        BY <1>2, <1>5, <1>6
      <3>2. Below(S, x) # {}
        BY <3>1, FS_EmptySet DEF rank
      <3>3. Below(S, x) \subseteq S
        BY BelowIs
      <3> QED
        BY <3>2, <3>3
    <2>2. PICK z \in Below(S, x) : \A y \in Below(S, x) : y <= z
      BY <2>1, LastOf
    <2>3. z \in S /\ z < x /\ \A y \in S : y < x => y <= z
      BY <2>2, BelowIs
    <2>4. \A y \in S : y < z <=> y < x /\ y # z
      BY <1>1, <1>5, <2>3
    <2>5. Below(S, z) = Below(S, x) \ {z}
      BY <2>4, BelowIs
    <2>6. Cardinality(Below(S, x) \ {z}) = Cardinality(Below(S, x)) - 1
      BY <2>2, RankNat, FS_RemoveElement
    <2>7. rank(S, z) = rank(S, x) - 1
      BY <2>5, <2>6 DEF rank
    <2>8. rank(S, z) >= k
      BY <1>2, <1>5, <1>6, <2>7
    <2>9. x <= z
      BY <1>5, <2>3, <2>8
    <2> QED
      BY <1>1, <1>5, <2>3, <2>9
  <1> QED
    BY <1>5, <1>6

\* So is each offset.
LEMMA OffOnto ==
    ASSUME NEW n \in Nat, NEW S \in SUBSET (0..n), NEW k \in Nat, k < Cardinality(S)
    PROVE  \E x \in S : Off(S, x) = k
  <1>1. Cardinality(S) \in Nat /\ \A x : rank(S, x) \in Nat /\ Off(S, x) \in Nat
    BY Bounded, RankType
  <1> DEFINE j == Cardinality(S) - 1 - k
  <1>2. j \in Nat /\ j < Cardinality(S) /\ j + k + 1 = Cardinality(S)
    BY <1>1
  <1> HIDE DEF j
  <1>3. PICK x \in S : rank(S, x) = j
    BY <1>2, RankOnto
  <1>4. rank(S, x) + Off(S, x) + 1 = Cardinality(S)
    BY RankType
  <1>5. Off(S, x) = k
    BY <1>1, <1>2, <1>3, <1>4
  <1> QED
    BY <1>5

\* Nth counts from the smallest.
LEMMA NthOf ==
    ASSUME NEW n \in Nat, NEW S \in SUBSET (0..n)
    PROVE  /\ \A i \in 1..Cardinality(S) : Nth(S, i) \in S /\ rank(S, Nth(S, i)) = i - 1
           /\ \A x \in S : /\ rank(S, x) + 1 \in 1..Cardinality(S)
                           /\ Nth(S, rank(S, x) + 1) = x
  <1>1. Cardinality(S) \in Nat
    BY Bounded
  <1>2. \A x : rank(S, x) \in Nat /\ Off(S, x) \in Nat
    BY RankNat
  <1>3. ASSUME NEW i \in 1..Cardinality(S)
        PROVE  Nth(S, i) \in S /\ rank(S, Nth(S, i)) = i - 1
    <2>1. i - 1 \in Nat /\ i - 1 < Cardinality(S)
      BY <1>1
    <2>2. \E x \in S : rank(S, x) = i - 1
      BY <2>1, RankOnto
    <2>3. Nth(S, i) = CHOOSE x \in S : rank(S, x) = i - 1
      BY DEF Nth, rank, Below
    <2> QED
      BY <2>2, <2>3
  <1>4. ASSUME NEW x \in S
        PROVE  rank(S, x) + 1 \in 1..Cardinality(S) /\ Nth(S, rank(S, x) + 1) = x
    <2>1. rank(S, x) + Off(S, x) + 1 = Cardinality(S)
      BY RankType
    <2>2. rank(S, x) + 1 \in 1..Cardinality(S)
      BY <1>1, <1>2, <2>1
    <2> DEFINE y == Nth(S, rank(S, x) + 1)
    <2>3. y \in S /\ rank(S, y) = (rank(S, x) + 1) - 1
      BY <1>3, <2>2
    <2> HIDE DEF y
    <2>4. rank(S, y) = rank(S, x)
      BY <1>2, <2>3
    <2>5. y = x
      BY <2>3, <2>4, RankType
    <2> QED
      BY <2>2, <2>5 DEF y
  <1> QED
    BY <1>3, <1>4

\* The first k elements are those before the next one, or all of them.
LEMMA NthFirst ==
    ASSUME NEW n \in Nat, NEW S \in SUBSET (0..n), NEW k \in Nat, k <= Cardinality(S),
           NEW t \in Nat,
           k < Cardinality(S) => t = Nth(S, k + 1),
           k = Cardinality(S) => \A x \in S : x < t
    PROVE  /\ \A i \in 1..k : Nth(S, i) \in Below(S, t)
           /\ \A x \in Below(S, t) : \E i \in 1..k : x = Nth(S, i)
           /\ Cardinality(Below(S, t)) = k
           /\ \A i, j \in 1..k : i < j => Nth(S, i) < Nth(S, j)
  <1>1. Cardinality(S) \in Nat /\ \A x \in S : x \in Nat
    BY Bounded
  <1>2. \A x : rank(S, x) \in Nat
    BY RankNat
  <1>3. \A i \in 1..Cardinality(S) : Nth(S, i) \in S /\ rank(S, Nth(S, i)) = i - 1
    BY NthOf
  <1>4. \A x \in S : rank(S, x) + 1 \in 1..Cardinality(S) /\ Nth(S, rank(S, x) + 1) = x
    BY NthOf
  <1>5. \A x, y \in S : x < y => rank(S, x) < rank(S, y)
    BY RankType
  <1>6. ASSUME k < Cardinality(S)
        PROVE  (\A x \in S : x < t <=> rank(S, x) < k) /\ Cardinality(Below(S, t)) = k
    <2>1. k + 1 \in 1..Cardinality(S)
      BY <1>1, <1>6
    <2>2. t \in S /\ rank(S, t) = (k + 1) - 1
      BY <1>3, <1>6, <2>1
    <2>3. \A x \in S : x < t <=> rank(S, x) < k
      BY <1>1, <1>2, <1>5, <2>2
    <2>4. Cardinality(Below(S, t)) = k
      BY <1>1, <2>2 DEF rank
    <2> QED
      BY <2>3, <2>4
  <1>7. ASSUME k = Cardinality(S)
        PROVE  (\A x \in S : x < t <=> rank(S, x) < k) /\ Cardinality(Below(S, t)) = k
    <2>1. \A x \in S : x < t /\ rank(S, x) < k
      BY <1>1, <1>2, <1>4, <1>7
    <2>2. Below(S, t) = S
      <3>1. \A x : x \in Below(S, t) <=> x \in S
        BY <2>1, BelowIs
      <3> QED
        BY <3>1
    <2> QED
      BY <1>7, <2>1, <2>2
  <1>8. /\ \A x \in S : x < t <=> rank(S, x) < k
        /\ Cardinality(Below(S, t)) = k
    <2>1. k < Cardinality(S) \/ k = Cardinality(S)
      BY <1>1
    <2> QED
      BY <1>6, <1>7, <2>1
  <1>9. ASSUME NEW i \in 1..k
        PROVE  Nth(S, i) \in S /\ rank(S, Nth(S, i)) = i - 1 /\ Nth(S, i) \in Below(S, t)
    <2>1. i \in 1..Cardinality(S) /\ i - 1 < k
      BY <1>1
    <2>2. Nth(S, i) \in S /\ rank(S, Nth(S, i)) = i - 1
      BY <1>3, <2>1
    <2>3. Nth(S, i) < t
      BY <1>8, <2>1, <2>2
    <2> QED
      BY <2>2, <2>3, BelowIs
  <1>10. ASSUME NEW x \in Below(S, t)
        PROVE  \E i \in 1..k : x = Nth(S, i)
    <2>1. x \in S /\ x < t
      BY BelowIs
    <2>2. rank(S, x) < k
      BY <1>8, <2>1
    <2>3. rank(S, x) + 1 \in 1..k
      BY <1>2, <2>2
    <2> QED
      BY <1>4, <2>1, <2>3
  <1>11. ASSUME NEW i \in 1..k, NEW j \in 1..k, i < j
         PROVE  Nth(S, i) < Nth(S, j)
    <2> DEFINE x == Nth(S, i)
               y == Nth(S, j)
    <2>1. x \in S /\ y \in S /\ rank(S, x) = i - 1 /\ rank(S, y) = j - 1
      BY <1>9
    <2> HIDE DEF x, y
    <2>2. ~(x = y) /\ ~(y < x)
      BY <1>2, <1>5, <1>11, <2>1
    <2>3. x < y
      BY <1>1, <2>1, <2>2
    <2> QED
      BY <2>3 DEF x, y
  <1> QED
    BY <1>8, <1>9, <1>10, <1>11

-----------------------------------------------------------------------------
(* Rows that come, go and are passed *)

\* What Ahead and Behind are made of.
LEMMA AheadIs ==
    /\ \A Q, E, t, n : n \in Ahead(Q, E, t) <=> n \in E /\ n \in Q /\ Off(Q, n) >= t
    /\ \A Q, steady, E, t, n :
          n \in Behind(Q, steady, E, t) <=> n \in steady /\ n \notin E /\ Off(Q, n) < t
  BY DEF Ahead, Behind

\* A row that comes moves older ones by one, and one at most past an offset: itself or
\* the last one before it.
LEMMA RowComes ==
    ASSUME NEW M \in Nat, NEW Q \in SUBSET (0..M), NEW c \in 0..M, c \notin Q,
           NEW E, NEW t \in Nat, NEW steady \in SUBSET Q
    PROVE  LET R == Q \cup {c} IN
           /\ Cardinality(Ahead(R, E, t)) <= Cardinality(Ahead(Q, E, t)) + 1
           /\ Cardinality(Behind(R, steady, E, t)) <= Cardinality(Behind(Q, steady, E, t))
  <1> DEFINE R == Q \cup {c}
  <1>1. R \in SUBSET (0..M) /\ c \in Nat /\ \A m \in R : m \in Nat
    OBVIOUS
  <1>2. \A n : Off(Q, n) \in Nat /\ Off(R, n) \in Nat
    BY <1>1, RankNat
  <1>3. ASSUME NEW n \in R
        PROVE  Off(R, n) = IF n < c THEN Off(Q, n) + 1 ELSE Off(Q, n)
    <2>1. \A m : m \in Above(R, n) <=> m \in Above(Q, n) \/ (m = c /\ n < c)
      BY <1>1, BelowIs
    <2>2. CASE n < c
      <3>1. Above(R, n) = Above(Q, n) \cup {c} /\ c \notin Above(Q, n)
        BY <2>1, <2>2, BelowIs
      <3>2. IsFiniteSet(Above(Q, n))
        BY RankNat
      <3> HIDE DEF R
      <3> QED
        BY <2>2, <3>1, <3>2, FS_AddElement DEF Off
    <2>3. CASE ~(n < c)
      <3>1. Above(R, n) = Above(Q, n)
        BY <2>1, <2>3
      <3> HIDE DEF R
      <3> QED
        BY <2>3, <3>1 DEF Off
    <2> QED
      BY <2>2, <2>3
  <1> DEFINE A == Ahead(Q, E, t)
             X == {n \in R : \/ n = c /\ Off(Q, c) >= t
                             \/ n \in Q /\ n < c /\ Off(Q, n) + 1 = t}
  <1>4. IsFiniteSet(X) /\ Cardinality(X) \in Nat /\ Cardinality(X) <= 1
    <2>1. ASSUME NEW n \in Q, n < c
          PROVE  Off(Q, c) <= Off(Q, n)
      <3>1. ASSUME NEW m \in Above(Q, c)
            PROVE  m \in Above(Q, n)
        <4>1. m \in Q /\ m > c
          BY BelowIs
        <4>2. m \in Nat /\ n \in Nat /\ c \in Nat
          BY <4>1
        <4>3. m > n
          BY <2>1, <4>1, <4>2
        <4> QED
          BY <4>1, <4>3, BelowIs
      <3>2. IsFiniteSet(Above(Q, n))
        BY RankNat
      <3> QED
        BY <3>1, <3>2, FS_Subset DEF Off
    <2>2. ASSUME NEW x \in X, NEW y \in X
          PROVE  x = y
      <3>1. CASE x = c \/ y = c
        BY <1>2, <2>1, <3>1
      <3>2. CASE x # c /\ y # c
        <4>1. x \in Q /\ y \in Q /\ Off(Q, x) = Off(Q, y)
          BY <1>2, <3>2
        <4> QED
          BY <4>1, RankType
      <3> QED
        BY <3>1, <3>2
    <2> QED
      BY <2>2, AtMostOne
  <1>5. IsFiniteSet(A) /\ Cardinality(A) \in Nat
    <2>1. A \subseteq Q
      BY AheadIs
    <2> QED
      BY <2>1, Bounded
  <1>6. Ahead(R, E, t) \subseteq A \cup X
    <2> SUFFICES ASSUME NEW n \in Ahead(R, E, t)
                 PROVE  n \in A \cup X
      OBVIOUS
    <2>1. n \in E /\ n \in R /\ Off(R, n) >= t
      BY AheadIs
    <2>2. Off(R, n) = IF n < c THEN Off(Q, n) + 1 ELSE Off(Q, n)
      BY <1>3, <2>1
    <2>3. n = c \/ n \in Q
      BY <2>1
    <2>4. CASE n = c
      <3>1. Off(Q, c) >= t
        BY <1>1, <2>1, <2>2, <2>4
      <3> QED
        BY <2>1, <2>4, <3>1
    <2>5. CASE n # c
      <3>1. n \in Q /\ (Off(Q, n) >= t \/ (n < c /\ Off(Q, n) + 1 = t))
        BY <1>2, <2>1, <2>2, <2>3, <2>5
      <3> QED
        BY <2>1, <3>1, AheadIs
    <2> QED
      BY <2>4, <2>5
  <1>7. Cardinality(Ahead(R, E, t)) <= Cardinality(A) + 1
    <2>1. IsFiniteSet(A \cup X) /\ Cardinality(A \cup X) <= Cardinality(A) + 1
      <3>1. IsFiniteSet(A \cap X) /\ Cardinality(A \cap X) \in Nat
        BY <1>5, FS_Intersection, FS_CardinalityType
      <3>2. IsFiniteSet(A \cup X)
            /\ Cardinality(A \cup X) = Cardinality(A) + Cardinality(X) - Cardinality(A \cap X)
        BY <1>4, <1>5, FS_Union
      <3> HIDE DEF A, X
      <3> QED
        BY <1>4, <1>5, <3>1, <3>2
    <2>2. /\ Cardinality(Ahead(R, E, t)) <= Cardinality(A \cup X)
          /\ Cardinality(Ahead(R, E, t)) \in Nat /\ Cardinality(A \cup X) \in Nat
      BY <1>6, <2>1, FS_Subset, FS_CardinalityType
    <2> HIDE DEF A, X, R
    <2> QED
      BY <1>5, <2>1, <2>2
  <1>8. Behind(R, steady, E, t) \subseteq Behind(Q, steady, E, t)
    <2> SUFFICES ASSUME NEW n \in Behind(R, steady, E, t)
                 PROVE  n \in Behind(Q, steady, E, t)
      OBVIOUS
    <2>1. n \in steady /\ n \notin E /\ Off(R, n) < t
      BY AheadIs
    <2>2. n \in steady /\ n \notin E /\ Off(R, n) < t /\ n \in Q
      BY <2>1
    <2>3. Off(R, n) = IF n < c THEN Off(Q, n) + 1 ELSE Off(Q, n)
      BY <1>3, <2>2
    <2>4. Off(Q, n) < t
      BY <1>2, <2>2, <2>3
    <2> QED
      BY <2>2, <2>4, AheadIs
  <1>9. IsFiniteSet(Behind(Q, steady, E, t))
    <2>1. Behind(Q, steady, E, t) \subseteq Q
      BY AheadIs
    <2> QED
      BY <2>1, Bounded
  <1> QED
    BY <1>7, <1>8, <1>9, FS_Subset

\* A row that goes moves older ones by one, and one at most before an offset.
LEMMA RowGoes ==
    ASSUME NEW M \in Nat, NEW Q \in SUBSET (0..M), NEW c,
           NEW E, NEW t \in Nat, NEW steady \in SUBSET Q
    PROVE  LET R == Q \ {c} IN
           /\ Cardinality(Ahead(R, E, t)) <= Cardinality(Ahead(Q, E, t))
           /\ Cardinality(Behind(R, steady \ {c}, E, t))
                 <= Cardinality(Behind(Q, steady, E, t)) + 1
  <1> DEFINE R == Q \ {c}
  <1>1. R \in SUBSET (0..M)
    OBVIOUS
  <1>2. \A n : Off(Q, n) \in Nat /\ Off(R, n) \in Nat
    BY <1>1, RankNat
  <1>3. ASSUME NEW n
        PROVE  Off(R, n) <= Off(Q, n) /\ Off(Q, n) <= Off(R, n) + 1
    <2>1. \A m : m \in Above(R, n) <=> m \in Above(Q, n) /\ m # c
      BY BelowIs
    <2>2. Above(R, n) = Above(Q, n) \ {c}
      BY <2>1
    <2>3. IsFiniteSet(Above(Q, n))
      BY RankNat
    <2>4. Cardinality(Above(R, n)) = IF c \in Above(Q, n) THEN Cardinality(Above(Q, n)) - 1
                                     ELSE Cardinality(Above(Q, n))
      BY <2>2, <2>3, FS_RemoveElement
    <2> HIDE DEF R
    <2> QED
      BY <1>2, <2>4 DEF Off
  <1> DEFINE B == Behind(Q, steady, E, t)
             X == {n \in Q : Off(Q, n) = t}
  <1>4. IsFiniteSet(X) /\ Cardinality(X) \in Nat /\ Cardinality(X) <= 1
    <2>1. ASSUME NEW x \in X, NEW y \in X
          PROVE  x = y
      <3>1. x \in Q /\ y \in Q /\ Off(Q, x) = Off(Q, y)
        OBVIOUS
      <3> QED
        BY <3>1, RankType
    <2> QED
      BY <2>1, AtMostOne
  <1>5. IsFiniteSet(B) /\ Cardinality(B) \in Nat
    <2>1. B \subseteq Q
      BY AheadIs
    <2> QED
      BY <2>1, Bounded
  <1>6. Behind(R, steady \ {c}, E, t) \subseteq B \cup X
    <2> SUFFICES ASSUME NEW n \in Behind(R, steady \ {c}, E, t)
                 PROVE  n \in B \cup X
      OBVIOUS
    <2>1. n \in steady /\ n \notin E /\ Off(R, n) < t
      BY AheadIs
    <2>2. n \in steady /\ n \notin E /\ Off(R, n) < t /\ n \in Q
      BY <2>1
    <2>3. Off(Q, n) < t \/ Off(Q, n) = t
      BY <1>2, <1>3, <2>2
    <2> QED
      BY <2>2, <2>3, AheadIs
  <1>7. Cardinality(Behind(R, steady \ {c}, E, t)) <= Cardinality(B) + 1
    <2>1. IsFiniteSet(B \cup X) /\ Cardinality(B \cup X) <= Cardinality(B) + 1
      <3>1. IsFiniteSet(B \cap X) /\ Cardinality(B \cap X) \in Nat
        BY <1>5, FS_Intersection, FS_CardinalityType
      <3>2. IsFiniteSet(B \cup X)
            /\ Cardinality(B \cup X) = Cardinality(B) + Cardinality(X) - Cardinality(B \cap X)
        BY <1>4, <1>5, FS_Union
      <3> HIDE DEF B, X
      <3> QED
        BY <1>4, <1>5, <3>1, <3>2
    <2>2. /\ Cardinality(Behind(R, steady \ {c}, E, t)) <= Cardinality(B \cup X)
          /\ Cardinality(Behind(R, steady \ {c}, E, t)) \in Nat /\ Cardinality(B \cup X) \in Nat
      BY <1>6, <2>1, FS_Subset, FS_CardinalityType
    <2> HIDE DEF B, X, R
    <2> QED
      BY <1>5, <2>1, <2>2
  <1>8. Ahead(R, E, t) \subseteq Ahead(Q, E, t)
    <2> SUFFICES ASSUME NEW n \in Ahead(R, E, t)
                 PROVE  n \in Ahead(Q, E, t)
      OBVIOUS
    <2>1. n \in E /\ n \in Q /\ Off(R, n) >= t
      BY AheadIs
    <2>2. Off(Q, n) >= t
      BY <1>2, <1>3, <2>1
    <2> QED
      BY <2>1, <2>2, AheadIs
  <1>9. IsFiniteSet(Ahead(Q, E, t))
    <2>1. Ahead(Q, E, t) \subseteq Q
      BY AheadIs
    <2> QED
      BY <2>1, Bounded
  <1> QED
    BY <1>7, <1>8, <1>9, FS_Subset

\* Going on from offset f to offset t with rows X: those taken before were counted as
\* ahead, and nothing steady is left behind that is in X.
LEMMA RowsPassed ==
    ASSUME NEW M \in Nat, NEW Q \in SUBSET (0..M), NEW E, IsFiniteSet(E),
           NEW f \in Nat, NEW t \in Nat, NEW X \in SUBSET Q,
           \A n \in X : f <= Off(Q, n) /\ Off(Q, n) < t, f <= t,
           NEW steady \in SUBSET Q,
           \A n \in steady : f <= Off(Q, n) /\ Off(Q, n) < t => n \in X
    PROVE  /\ Cardinality(X) + Cardinality(E) + Cardinality(Ahead(Q, E \cup X, t))
                 <= Cardinality(E \cup X) + Cardinality(Ahead(Q, E, f))
           /\ Behind(Q, steady, E \cup X, t) \subseteq Behind(Q, steady, E, f)
           /\ IsFiniteSet(X) /\ Cardinality(X) \in Nat
  <1>1. \A n : Off(Q, n) \in Nat
    BY RankNat
  <1> DEFINE A == Ahead(Q, E \cup X, t)
             B == Ahead(Q, E, f)
             C == E \cap X
  <1>2. /\ \A n : n \in A <=> (n \in E \/ n \in X) /\ n \in Q /\ Off(Q, n) >= t
        /\ \A n : n \in B <=> n \in E /\ n \in Q /\ Off(Q, n) >= f
        /\ \A n : n \in C <=> n \in E /\ n \in X
    <2>1. \A n : n \in A <=> n \in E \cup X /\ n \in Q /\ Off(Q, n) >= t
      BY AheadIs
    <2>2. \A n : n \in B <=> n \in E /\ n \in Q /\ Off(Q, n) >= f
      BY AheadIs
    <2>3. \A n : n \in C <=> n \in E /\ n \in X
      OBVIOUS
    <2>4. \A n : n \in E \cup X <=> n \in E \/ n \in X
      OBVIOUS
    <2> HIDE DEF A, B, C
    <2> QED
      BY <2>1, <2>2, <2>3, <2>4
  <1> HIDE DEF A, B, C
  <1>3. ASSUME NEW n \in A
        PROVE  n \in B /\ n \notin C
    <2>1. (n \in E \/ n \in X) /\ n \in Q /\ Off(Q, n) >= t
      BY <1>2
    <2>2. n \notin X
      BY <1>1, <2>1
    <2>3. Off(Q, n) >= f
      BY <1>1, <2>1
    <2> QED
      BY <1>2, <2>1, <2>2, <2>3
  <1>4. ASSUME NEW n \in C
        PROVE  n \in B
    <2>1. n \in E /\ n \in X /\ n \in Q
      BY <1>2
    <2>2. Off(Q, n) >= f
      BY <1>1, <2>1
    <2> QED
      BY <1>2, <2>1, <2>2
  <1>5. A \cup C \subseteq B /\ A \cap C = {}
    BY <1>3, <1>4
  <1>6. IsFiniteSet(A) /\ IsFiniteSet(B) /\ IsFiniteSet(C) /\ IsFiniteSet(X)
        /\ Cardinality(A) \in Nat /\ Cardinality(B) \in Nat /\ Cardinality(C) \in Nat
        /\ Cardinality(X) \in Nat /\ Cardinality(E) \in Nat
    <2>1. A \subseteq Q /\ B \subseteq Q /\ C \subseteq Q
      BY <1>2
    <2> QED
      BY <2>1, Bounded, FS_CardinalityType
  <1>7. Cardinality(E \cup X) = Cardinality(E) + Cardinality(X) - Cardinality(C)
    BY <1>6, FS_Union DEF C
  <1>8. Behind(Q, steady, E \cup X, t) \subseteq Behind(Q, steady, E, f)
    <2> SUFFICES ASSUME NEW n \in Behind(Q, steady, E \cup X, t)
                 PROVE  n \in Behind(Q, steady, E, f)
      OBVIOUS
    <2>1. n \in steady /\ n \notin E /\ n \notin X /\ Off(Q, n) < t
      BY AheadIs
    <2>2. Off(Q, n) < f
      BY <1>1, <2>1
    <2> QED
      BY <2>1, <2>2, AheadIs
  <1>9. Cardinality(A) + Cardinality(C) <= Cardinality(B)
    <2>1. IsFiniteSet(A \cup C)
          /\ Cardinality(A \cup C) = Cardinality(A) + Cardinality(C) - Cardinality(A \cap C)
      BY <1>6, FS_Union
    <2>2. Cardinality(A \cap C) = 0
      BY <1>5, FS_EmptySet
    <2>3. Cardinality(A \cup C) <= Cardinality(B)
      BY <1>5, <1>6, FS_Subset
    <2> QED
      BY <1>6, <2>1, <2>2, <2>3
  <1>10. Cardinality(X) + Cardinality(E) + Cardinality(A)
            <= Cardinality(E \cup X) + Cardinality(B)
    BY <1>6, <1>7, <1>9
  <1> QED
    BY <1>6, <1>8, <1>10 DEF A, B

-----------------------------------------------------------------------------
(* Lists *)

\* A function on 1..k is a list of k items.
LEMMA FunctionIsSeq ==
    ASSUME NEW S, NEW k \in Nat, NEW f \in [1..k -> S]
    PROVE  f \in Seq(S) /\ Len(f) = k /\ DOMAIN f = 1..k
  <1>1. f \in Seq(S) /\ DOMAIN f = 1..k
    BY SMT
  <1>2. Len(f) \in Nat /\ DOMAIN f = 1..Len(f)
    BY <1>1
  <1> QED
    BY <1>1, <1>2

\* What lists put together hold.
LEMMA InConcat ==
    ASSUME NEW S, NEW s \in Seq(S), NEW u \in Seq(S)
    PROVE  /\ s \o u \in Seq(S) /\ Len(s \o u) = Len(s) + Len(u)
           /\ In(s \o u) = In(s) \cup In(u)
           /\ In(s) \subseteq S
           /\ In(<<>>) = {}
  <1>1. /\ s \o u \in Seq(S) /\ Len(s \o u) = Len(s) + Len(u)
        /\ DOMAIN s = 1..Len(s) /\ DOMAIN u = 1..Len(u)
        /\ DOMAIN (s \o u) = 1..(Len(s) + Len(u)) /\ Len(s) \in Nat /\ Len(u) \in Nat
    OBVIOUS
  <1>2. \A i \in 1..(Len(s) + Len(u)) :
            (s \o u)[i] = IF i <= Len(s) THEN s[i] ELSE u[i - Len(s)]
    OBVIOUS
  <1>3. ASSUME NEW x \in In(s \o u)
        PROVE  x \in In(s) \/ x \in In(u)
    <2>1. PICK i \in 1..(Len(s) + Len(u)) : x = (s \o u)[i]
      BY <1>1 DEF In
    <2>2. CASE i <= Len(s)
      <3>1. i \in DOMAIN s /\ x = s[i]
        BY <1>1, <1>2, <2>1, <2>2
      <3> QED
        BY <3>1 DEF In
    <2>3. CASE ~(i <= Len(s))
      <3>1. i - Len(s) \in DOMAIN u /\ x = u[i - Len(s)]
        BY <1>1, <1>2, <2>1, <2>3
      <3> QED
        BY <3>1 DEF In
    <2> QED
      BY <2>2, <2>3
  <1>4. ASSUME NEW i \in DOMAIN s
        PROVE  s[i] \in In(s \o u)
    <2>1. i \in DOMAIN (s \o u) /\ (s \o u)[i] = s[i]
      BY <1>1, <1>2
    <2> QED
      BY <2>1 DEF In
  <1>5. ASSUME NEW i \in DOMAIN u
        PROVE  u[i] \in In(s \o u)
    <2>1. i + Len(s) \in 1..(Len(s) + Len(u)) /\ ~(i + Len(s) <= Len(s))
          /\ (i + Len(s)) - Len(s) = i
      BY <1>1
    <2>2. i + Len(s) \in DOMAIN (s \o u) /\ (s \o u)[i + Len(s)] = u[i]
      BY <1>1, <1>2, <2>1
    <2> QED
      BY <2>2 DEF In
  <1>6. In(s \o u) = In(s) \cup In(u)
    <2>1. \A x \in In(s) : x \in In(s \o u)
      BY <1>4 DEF In
    <2>2. \A x \in In(u) : x \in In(s \o u)
      BY <1>5 DEF In
    <2> QED
      BY <1>3, <2>1, <2>2
  <1>7. In(s) \subseteq S
    BY <1>1 DEF In
  <1>8. In(<<>>) = {}
    BY DEF In
  <1> QED
    BY <1>1, <1>6, <1>7, <1>8

\* A list without a row is shorter by one at least, if it held the row.
LEMMA WithoutIs ==
    ASSUME NEW M \in Nat, NEW s \in Seq(0..M), NEW x, NEW T \in SUBSET (0..M)
    PROVE  /\ Without(s, x) \in Seq(In(s))
           /\ In(Without(s, x)) = In(s) \ {x}
           /\ Len(Without(s, x)) + Cardinality(In(s) \cup T)
                 <= Len(s) + Cardinality(In(Without(s, x)) \cup T)
  <1> DEFINE K == {i \in DOMAIN s : s[i] # x}
             k == Cardinality(K)
             u == [i \in 1..k |-> s[Nth(K, i)]]
  <1>1. Len(s) \in Nat /\ DOMAIN s = 1..Len(s) /\ \A i \in DOMAIN s : s[i] \in 0..M
    OBVIOUS
  <1>2. /\ K \subseteq DOMAIN s /\ K \in SUBSET (0..Len(s))
        /\ \A i : i \in K <=> i \in DOMAIN s /\ s[i] # x
    BY <1>1
  <1>3. k \in Nat /\ IsFiniteSet(K)
    BY <1>1, <1>2, Bounded
  <1>4. Without(s, x) = u
    BY DEF Without
  <1> HIDE DEF K
  <1>5. /\ \A i \in 1..k : Nth(K, i) \in K
        /\ \A y \in K : \E i \in 1..k : y = Nth(K, i)
    BY <1>1, <1>2, NthOf
  <1>6. \A i \in 1..k : u[i] = s[Nth(K, i)] /\ Nth(K, i) \in DOMAIN s /\ u[i] # x
    BY <1>2, <1>5
  <1>7. u \in [1..k -> In(s)]
    BY <1>6 DEF In
  <1> HIDE DEF u
  <1>8. u \in Seq(In(s)) /\ Len(u) = k /\ DOMAIN u = 1..k
    BY <1>3, <1>7, FunctionIsSeq
  <1>9. In(u) = In(s) \ {x}
    <2>1. ASSUME NEW y \in In(u)
          PROVE  y \in In(s) /\ y # x
      BY <1>6, <1>8 DEF In
    <2>2. ASSUME NEW y \in In(s), y # x
          PROVE  y \in In(u)
      <3>1. PICK i \in DOMAIN s : y = s[i]
        BY DEF In
      <3>2. i \in K
        BY <1>2, <2>2, <3>1
      <3>3. PICK j \in 1..k : i = Nth(K, j)
        BY <1>5, <3>2
      <3>4. u[j] = y /\ j \in DOMAIN u
        BY <1>6, <1>8, <3>1, <3>3
      <3> QED
        BY <3>4 DEF In
    <2> QED
      BY <2>1, <2>2
  <1>10. In(s) \in SUBSET (0..M)
    BY <1>1 DEF In
  <1>11. Cardinality(DOMAIN s) = Len(s) /\ IsFiniteSet(DOMAIN s)
    BY <1>1, FirstNumbers
  <1>12. /\ IsFiniteSet(In(s) \cup T) /\ Cardinality(In(s) \cup T) \in Nat
         /\ IsFiniteSet(In(u) \cup T) /\ Cardinality(In(u) \cup T) \in Nat
    <2>1. In(s) \cup T \in SUBSET (0..M) /\ In(u) \cup T \in SUBSET (0..M)
      BY <1>9, <1>10
    <2> QED
      BY <2>1, Bounded
  <1>13. k + Cardinality(In(s) \cup T) <= Len(s) + Cardinality(In(u) \cup T)
    <2>1. CASE x \in In(s)
      <3>1. PICK i \in DOMAIN s : s[i] = x
        BY <2>1 DEF In
      <3>2. K \subseteq DOMAIN s \ {i}
        BY <1>2, <3>1
      <3>3. IsFiniteSet(DOMAIN s \ {i}) /\ Cardinality(DOMAIN s \ {i}) = Len(s) - 1
        BY <1>11, FS_RemoveElement
      <3>4. k <= Len(s) - 1
        BY <3>2, <3>3, FS_Subset
      <3>5. In(s) \cup T \subseteq (In(u) \cup T) \cup {x}
        BY <1>9
      <3>6. /\ IsFiniteSet((In(u) \cup T) \cup {x})
            /\ Cardinality((In(u) \cup T) \cup {x}) \in Nat
            /\ Cardinality((In(u) \cup T) \cup {x}) <= Cardinality(In(u) \cup T) + 1
        <4>1. /\ IsFiniteSet((In(u) \cup T) \cup {x})
              /\ Cardinality((In(u) \cup T) \cup {x}) =
                   IF x \in In(u) \cup T THEN Cardinality(In(u) \cup T)
                   ELSE Cardinality(In(u) \cup T) + 1
          BY <1>12, FS_AddElement
        <4> QED
          BY <1>12, <4>1
      <3>7. Cardinality(In(s) \cup T) <= Cardinality((In(u) \cup T) \cup {x})
        BY <3>5, <3>6, FS_Subset
      <3> HIDE DEF k
      <3> QED
        BY <1>1, <1>3, <1>12, <3>4, <3>6, <3>7
    <2>2. CASE x \notin In(s)
      <3>1. In(u) = In(s)
        BY <1>9, <2>2
      <3>2. k <= Len(s)
        BY <1>2, <1>11, FS_Subset
      <3> HIDE DEF k
      <3> QED
        BY <1>1, <1>3, <1>12, <3>1, <3>2
    <2> QED
      BY <2>1, <2>2
  <1>14. /\ u \in Seq(In(s)) /\ In(u) = In(s) \ {x}
         /\ Len(u) + Cardinality(In(s) \cup T) <= Len(s) + Cardinality(In(u) \cup T)
    BY <1>8, <1>9, <1>13
  <1> HIDE DEF k
  <1> QED
    BY <1>4, <1>14

\* The items of an answer are its rows before the next offset.
FirstItems(acc, k) == [i \in 1..k |-> acc[Nth(DOMAIN acc, i)]]

IsPage(list, acc, k, t, S) ==
    /\ list \in Seq(S) /\ Len(list) = k /\ DOMAIN list = 1..k
    /\ Cardinality(Below(DOMAIN acc, t)) = k
    /\ In(list) = {acc[o] : o \in Below(DOMAIN acc, t)}
    /\ \A i, j \in 1..k : i < j =>
          /\ Nth(DOMAIN acc, i) \in Below(DOMAIN acc, t)
          /\ Nth(DOMAIN acc, j) \in Below(DOMAIN acc, t)
          /\ Nth(DOMAIN acc, i) < Nth(DOMAIN acc, j)
          /\ list[i] = acc[Nth(DOMAIN acc, i)] /\ list[j] = acc[Nth(DOMAIN acc, j)]

\* The first items of what was found are such a page.
LEMMA ItemsAre ==
    ASSUME NEW M \in Nat, NEW acc, DOMAIN acc \in SUBSET (0..M),
           NEW k \in Nat, k <= Cardinality(DOMAIN acc), NEW t \in Nat,
           k < Cardinality(DOMAIN acc) => t = Nth(DOMAIN acc, k + 1),
           k = Cardinality(DOMAIN acc) => \A o \in DOMAIN acc : o < t,
           NEW S, \A o \in DOMAIN acc : acc[o] \in S
    PROVE  IsPage(FirstItems(acc, k), acc, k, t, S)
  <1> DEFINE D == DOMAIN acc
             list == FirstItems(acc, k)
  <1>1. /\ \A i \in 1..k : Nth(D, i) \in Below(D, t)
        /\ \A x \in Below(D, t) : \E i \in 1..k : x = Nth(D, i)
        /\ Cardinality(Below(D, t)) = k
        /\ \A i, j \in 1..k : i < j => Nth(D, i) < Nth(D, j)
    BY NthFirst
  <1>2. \A i \in 1..k : Nth(D, i) \in D /\ acc[Nth(D, i)] \in S
    BY <1>1, BelowIs
  <1>3. \A i \in 1..k : list[i] = acc[Nth(D, i)]
    BY DEF FirstItems
  <1>4. list \in [1..k -> S]
    BY <1>2 DEF FirstItems
  <1> HIDE DEF list
  <1>5. list \in Seq(S) /\ Len(list) = k /\ DOMAIN list = 1..k
    BY <1>4, FunctionIsSeq
  <1>6. ASSUME NEW x \in In(list)
        PROVE  x \in {acc[o] : o \in Below(D, t)}
    <2>1. PICK i \in 1..k : x = list[i]
      BY <1>5 DEF In
    <2> QED
      BY <1>1, <1>3, <2>1
  <1>7. ASSUME NEW o \in Below(D, t)
        PROVE  acc[o] \in In(list)
    <2>1. PICK i \in 1..k : o = Nth(D, i)
      BY <1>1
    <2>2. i \in DOMAIN list /\ list[i] = acc[o]
      BY <1>3, <1>5, <2>1
    <2> QED
      BY <2>2 DEF In
  <1>8. In(list) = {acc[o] : o \in Below(D, t)}
    BY <1>6, <1>7
  <1> HIDE DEF D
  <1> QED
    BY <1>1, <1>3, <1>5, <1>8 DEF D, list, IsPage

-----------------------------------------------------------------------------
(* Chunks *)

\* The rows of a query at offsets f to f + b: a chunk that is not full is the last one.
LEMMA ChunkIs ==
    ASSUME NEW M \in Nat, NEW Q \in SUBSET (1..M), NEW f \in Nat, f <= M,
           NEW b \in Nat, NEW chunk,
           \A n : n \in chunk <=> n \in Q /\ Off(Q, n) \in f..(f + b)
    PROVE  /\ Cardinality(chunk) \in 0..(b + 1)
           /\ f + Cardinality(chunk) <= M
           /\ Cardinality(chunk) <= b =>
                 \A n \in Q : f <= Off(Q, n) => Off(Q, n) < f + Cardinality(chunk)
  <1>1. Q \in SUBSET (0..M) /\ chunk \subseteq Q
    OBVIOUS
  <1>2. /\ \A n : rank(Q, n) \in Nat /\ Off(Q, n) \in Nat
        /\ IsFiniteSet(Q) /\ Cardinality(Q) \in Nat
    BY <1>1, RankNat, Bounded
  <1>3. IsFiniteSet(chunk) /\ Cardinality(chunk) \in Nat
    BY <1>1, Bounded
  <1>4. \A n \in Q : Off(Q, n) < Cardinality(Q)
    <2>1. \A n \in Q : rank(Q, n) + Off(Q, n) + 1 = Cardinality(Q)
      BY <1>1, RankType
    <2> QED
      BY <1>2, <2>1
  <1>5. Cardinality(Q) <= M
    <2>1. IsFiniteSet(1..M) /\ Cardinality(1..M) = M
      BY FirstNumbers
    <2> QED
      BY <2>1, FS_Subset
  <1> DEFINE c == Cardinality(Q)
             e == IF f + b < c THEN f + b ELSE c - 1
  <1>6. CASE c <= f
    <2>1. \A n \in Q : ~(f <= Off(Q, n))
      BY <1>2, <1>4, <1>6
    <2>2. \A n \in chunk : f <= Off(Q, n)
      BY <1>2
    <2>3. chunk = {}
      BY <1>1, <2>1, <2>2
    <2>4. Cardinality(chunk) = 0
      BY <2>3, FS_EmptySet
    <2> QED
      BY <2>1, <2>4
  <1>7. CASE c > f
    <2>1. e \in Nat /\ f <= e /\ e < c /\ e <= f + b
      BY <1>2, <1>7
    <2>2. ASSUME NEW n \in Q, Off(Q, n) \in f..(f + b)
          PROVE  Off(Q, n) \in f..e
      BY <1>2, <1>4, <2>2
    <2> DEFINE place == [n \in chunk |-> Off(Q, n)]
    <2>3. place \in [chunk -> f..e]
      BY <1>1, <2>2
    <2>4. \A x, y \in chunk : place[x] = place[y] => x = y
      BY <1>1, RankType
    <2>5. ASSUME NEW z \in f..e
          PROVE  \E x \in chunk : place[x] = z
      <3>1. z \in Nat /\ z < c /\ z \in f..(f + b)
        BY <1>2, <2>1
      <3>2. PICK x \in Q : Off(Q, x) = z
        BY <1>1, <3>1, OffOnto
      <3> QED
        BY <3>1, <3>2
    <2> HIDE DEF place, e
    <2>6. Cardinality(f..e) = Cardinality(chunk)
      BY <1>3, <2>3, <2>4, <2>5, OneToOne
    <2>7. Cardinality(f..e) = e - f + 1
      <3>1. Cardinality(f..e) = IF f > e THEN 0 ELSE e - f + 1
        BY <2>1, FS_Interval
      <3> QED
        BY <2>1, <3>1
    <2> HIDE DEF c
    <2>8. Cardinality(chunk) = e - f + 1
      BY <2>6, <2>7
    <2>9. c <= M /\ c \in Nat /\ \A n \in Q : Off(Q, n) < c
      BY <1>2, <1>4, <1>5 DEF c
    <2>10. Cardinality(chunk) <= b => c = e + 1
      BY <1>3, <2>1, <2>8, <2>9 DEF e
    <2> QED
      BY <1>2, <1>3, <2>1, <2>8, <2>9, <2>10
  <1>8. c <= f \/ c > f
    BY <1>2
  <1> QED
    BY <1>6, <1>7, <1>8

\* What a request has found becomes more, by rows X at offsets from f on.
Adds(acc, more, Q, X, f) ==
    /\ DOMAIN more = DOMAIN acc \cup {Off(Q, n) : n \in X}
    /\ \A o \in DOMAIN acc : o < f /\ more[o] = acc[o]
    /\ \A n \in X : f <= Off(Q, n) /\ more[Off(Q, n)] = n

\* What is found adds the rows X of a chunk C, each at its offset.
Extended(acc, Q, C, X) ==
    LET places == {Off(Q, n) : n \in X} IN
    [o \in DOMAIN acc \cup places |->
        IF o \in places THEN CHOOSE n \in C : Off(Q, n) = o ELSE acc[o]]

\* That is what fetch_chunk accumulates.
LEMMA ExtendedIs ==
    ASSUME NEW M \in Nat, NEW Q \in SUBSET (0..M), NEW C \in SUBSET Q,
           NEW X \in SUBSET C, NEW acc, NEW f \in Nat, DOMAIN acc \in SUBSET (0..M),
           \A o \in DOMAIN acc : o < f,
           \A n \in X : f <= Off(Q, n)
    PROVE  Adds(acc, Extended(acc, Q, C, X), Q, X, f)
  <1> DEFINE places == {Off(Q, n) : n \in X}
             more   == Extended(acc, Q, C, X)
  <1>1. \A o \in DOMAIN acc : o \in Nat
    OBVIOUS
  <1>2. \A n \in X : Off(Q, n) \in Nat
    BY RankNat
  <1>3. DOMAIN more = DOMAIN acc \cup places
    BY DEF Extended
  <1>4. \A o \in DOMAIN acc : o \notin places
    BY <1>1, <1>2
  <1>5. \A o \in DOMAIN acc \cup places :
            more[o] = IF o \in places THEN CHOOSE n \in C : Off(Q, n) = o ELSE acc[o]
    BY DEF Extended
  <1>6. ASSUME NEW o \in DOMAIN acc
        PROVE  more[o] = acc[o]
    BY <1>4, <1>5
  <1>7. ASSUME NEW n \in X
        PROVE  more[Off(Q, n)] = n
    <2>1. Off(Q, n) \in places
      OBVIOUS
    <2>2. more[Off(Q, n)] = CHOOSE m \in C : Off(Q, m) = Off(Q, n)
      BY <1>5, <2>1
    <2>3. \A m \in C : Off(Q, m) = Off(Q, n) => m = n
      BY RankType
    <2> QED
      BY <2>2, <2>3
  <1> HIDE DEF more
  <1> QED
    BY <1>3, <1>6, <1>7 DEF more, Adds

-----------------------------------------------------------------------------
(* The counts, as datasets come and go *)

\* A list and what a request found are numbers of rows.
LEMMA TakenIs ==
    ASSUME NEW M \in Nat, NEW s \in Seq(0..M), NEW acc, DOMAIN acc \in SUBSET (0..M),
           \A o \in DOMAIN acc : acc[o] \in 0..M
    PROVE  /\ Len(s) \in Nat
           /\ \A t, x : x \in Taken(s, acc, t) <=>
                 x \in In(s) \/ \E o \in Below(DOMAIN acc, t) : x = acc[o]
           /\ \A t : /\ Taken(s, acc, t) \in SUBSET (0..M)
                     /\ IsFiniteSet(Taken(s, acc, t)) /\ Cardinality(Taken(s, acc, t)) \in Nat
                     /\ Cardinality(Below(DOMAIN acc, t)) \in Nat
  <1>1. In(s) \subseteq 0..M /\ Len(s) \in Nat
    BY DEF In
  <1>2. \A t, x : x \in Taken(s, acc, t) <=>
                 x \in In(s) \/ \E o \in Below(DOMAIN acc, t) : x = acc[o]
    BY DEF Taken
  <1>3. ASSUME NEW t
        PROVE  Taken(s, acc, t) \in SUBSET (0..M) /\ Cardinality(Below(DOMAIN acc, t)) \in Nat
    <2>1. Below(DOMAIN acc, t) \subseteq DOMAIN acc
      BY BelowIs
    <2>2. \A x \in Taken(s, acc, t) : x \in 0..M
      BY <1>1, <1>2, <2>1
    <2>3. Cardinality(Below(DOMAIN acc, t)) \in Nat
      BY <2>1, Bounded
    <2> QED
      BY <2>2, <2>3
  <1>4. ASSUME NEW t
        PROVE  IsFiniteSet(Taken(s, acc, t)) /\ Cardinality(Taken(s, acc, t)) \in Nat
    BY <1>3, Bounded
  <1> QED
    BY <1>1, <1>2, <1>3, <1>4

\* The rows ahead and behind are finitely many.
LEMMA AheadNat ==
    ASSUME NEW M \in Nat, NEW Q \in SUBSET (0..M), NEW steady \in SUBSET Q
    PROVE  \A E, t : /\ IsFiniteSet(Ahead(Q, E, t)) /\ Cardinality(Ahead(Q, E, t)) \in Nat
                     /\ IsFiniteSet(Behind(Q, steady, E, t))
                     /\ Cardinality(Behind(Q, steady, E, t)) \in Nat
  <1>1. \A E, t : Ahead(Q, E, t) \in SUBSET Q /\ Behind(Q, steady, E, t) \in SUBSET Q
    BY AheadIs
  <1>2. \A T \in SUBSET Q : IsFiniteSet(T) /\ Cardinality(T) \in Nat
    BY Bounded
  <1> QED
    BY <1>1, <1>2

\* The counts once a row came, which the query returns or not.
LEMMA CountComes ==
    ASSUME NEW M \in Nat, NEW Q \in SUBSET (0..M), NEW c \in 0..M,
           NEW steady \in SUBSET Q, NEW R, R = Q \/ R = Q \cup {c},
           NEW s \in Seq(0..M), NEW acc, DOMAIN acc \in SUBSET (0..M),
           \A o \in DOMAIN acc : acc[o] \in 0..M,
           NEW added \in Nat, NEW removed \in Nat, NEW t \in Nat
    PROVE  /\ FewRepeated(Q, added, s, acc, t) => FewRepeated(R, added + 1, s, acc, t)
           /\ FewSkipped(Q, steady, removed, s, acc, t)
                 => FewSkipped(R, steady, removed, s, acc, t)
  <1> DEFINE E == Taken(s, acc, t)
  <1>1. Len(s) \in Nat /\ Cardinality(E) \in Nat /\ Cardinality(Below(DOMAIN acc, t)) \in Nat
    BY TakenIs
  <1> HIDE DEF E
  <1>2. R \in SUBSET (0..M) /\ steady \in SUBSET R
    OBVIOUS
  <1>3. /\ Cardinality(Ahead(Q, E, t)) \in Nat /\ Cardinality(Behind(Q, steady, E, t)) \in Nat
        /\ Cardinality(Ahead(R, E, t)) \in Nat /\ Cardinality(Behind(R, steady, E, t)) \in Nat
    BY <1>2, AheadNat
  <1>4. /\ Cardinality(Ahead(R, E, t)) <= Cardinality(Ahead(Q, E, t)) + 1
        /\ Cardinality(Behind(R, steady, E, t)) <= Cardinality(Behind(Q, steady, E, t))
    <2>1. CASE R = Q
      BY <1>3, <2>1
    <2>2. CASE R # Q
      <3>1. R = Q \cup {c} /\ c \notin Q
        BY <2>2
      <3> QED
        BY <3>1, RowComes
    <2> QED
      BY <2>1, <2>2
  <1> QED
    BY <1>1, <1>3, <1>4 DEF FewRepeated, FewSkipped, E

\* The counts once a row went, which the query returned or not.
LEMMA CountGoes ==
    ASSUME NEW M \in Nat, NEW Q \in SUBSET (0..M), NEW c,
           NEW steady \in SUBSET Q, NEW R, R = Q \/ R = Q \ {c}, steady \ {c} \subseteq R,
           NEW s \in Seq(0..M), NEW acc, DOMAIN acc \in SUBSET (0..M),
           \A o \in DOMAIN acc : acc[o] \in 0..M,
           NEW added \in Nat, NEW removed \in Nat, NEW t \in Nat
    PROVE  /\ FewRepeated(Q, added, s, acc, t) => FewRepeated(R, added, s, acc, t)
           /\ FewSkipped(Q, steady, removed, s, acc, t)
                 => FewSkipped(R, steady \ {c}, removed + 1, s, acc, t)
  <1> DEFINE E == Taken(s, acc, t)
  <1>1. Len(s) \in Nat /\ Cardinality(E) \in Nat /\ Cardinality(Below(DOMAIN acc, t)) \in Nat
    BY TakenIs
  <1> HIDE DEF E
  <1>2. R \in SUBSET (0..M) /\ steady \ {c} \in SUBSET R /\ steady \ {c} \in SUBSET Q
    OBVIOUS
  <1>3. /\ Cardinality(Ahead(Q, E, t)) \in Nat /\ Cardinality(Behind(Q, steady, E, t)) \in Nat
        /\ Cardinality(Ahead(R, E, t)) \in Nat
        /\ Cardinality(Behind(R, steady \ {c}, E, t)) \in Nat
        /\ IsFiniteSet(Behind(Q, steady, E, t))
    BY <1>2, AheadNat
  <1>4. /\ Cardinality(Ahead(R, E, t)) <= Cardinality(Ahead(Q, E, t))
        /\ Cardinality(Behind(R, steady \ {c}, E, t))
              <= Cardinality(Behind(Q, steady, E, t)) + 1
    <2>1. ASSUME R = Q
          PROVE  /\ Cardinality(Ahead(R, E, t)) <= Cardinality(Ahead(Q, E, t))
                 /\ Cardinality(Behind(R, steady \ {c}, E, t))
                       <= Cardinality(Behind(Q, steady, E, t)) + 1
      <3>1. \A n : n \in Behind(Q, steady \ {c}, E, t) => n \in Behind(Q, steady, E, t)
        BY AheadIs
      <3>2. Cardinality(Behind(Q, steady \ {c}, E, t)) <= Cardinality(Behind(Q, steady, E, t))
        BY <1>3, <3>1, FS_Subset
      <3> QED
        BY <1>3, <2>1, <3>2
    <2>2. ASSUME R = Q \ {c}
          PROVE  /\ Cardinality(Ahead(R, E, t)) <= Cardinality(Ahead(Q, E, t))
                 /\ Cardinality(Behind(R, steady \ {c}, E, t))
                       <= Cardinality(Behind(Q, steady, E, t)) + 1
      BY <2>2, RowGoes
    <2> QED
      BY <2>1, <2>2
  <1> QED
    BY <1>1, <1>3, <1>4 DEF FewRepeated, FewSkipped, E

\* Fewer steady rows are behind when one of them is none any more.
LEMMA CountDrops ==
    ASSUME NEW M \in Nat, NEW Q \in SUBSET (0..M), NEW steady \in SUBSET Q, NEW c,
           NEW removed \in Nat
    PROVE  /\ \A s, acc, t : FewSkipped(Q, steady, removed, s, acc, t)
                 => FewSkipped(Q, steady \ {c}, removed, s, acc, t)
           /\ \A E : Cardinality(steady \ E) <= removed
                 => /\ Cardinality((steady \ {c}) \ E) <= removed
                    /\ Cardinality((steady \ {c}) \ E) <= removed + 1
  <1>1. ASSUME NEW E, NEW t
        PROVE  /\ Cardinality(Behind(Q, steady \ {c}, E, t)) \in Nat
               /\ Cardinality(Behind(Q, steady, E, t)) \in Nat
               /\ Cardinality(Behind(Q, steady \ {c}, E, t))
                     <= Cardinality(Behind(Q, steady, E, t))
    <2>1. \A n : n \in Behind(Q, steady \ {c}, E, t) => n \in Behind(Q, steady, E, t)
      BY AheadIs
    <2>2. steady \ {c} \in SUBSET Q
      OBVIOUS
    <2>3. /\ Cardinality(Behind(Q, steady \ {c}, E, t)) \in Nat
          /\ IsFiniteSet(Behind(Q, steady, E, t)) /\ Cardinality(Behind(Q, steady, E, t)) \in Nat
      BY <2>2, AheadNat
    <2> QED
      BY <2>1, <2>3, FS_Subset
  <1>2. ASSUME NEW E
        PROVE  /\ Cardinality((steady \ {c}) \ E) \in Nat /\ Cardinality(steady \ E) \in Nat
               /\ Cardinality((steady \ {c}) \ E) <= Cardinality(steady \ E)
    <2>1. steady \ E \in SUBSET Q /\ (steady \ {c}) \ E \in SUBSET (steady \ E)
          /\ (steady \ {c}) \ E \in SUBSET Q
      OBVIOUS
    <2>2. IsFiniteSet(steady \ E)
      BY <2>1, Bounded
    <2> QED
      BY <2>1, <2>2, FS_Subset, FS_CardinalityType
  <1>3. ASSUME NEW s, NEW acc, NEW t, FewSkipped(Q, steady, removed, s, acc, t)
        PROVE  FewSkipped(Q, steady \ {c}, removed, s, acc, t)
    <2> DEFINE E == Taken(s, acc, t)
    <2>1. Cardinality(Behind(Q, steady, E, t)) <= removed
      BY <1>3 DEF FewSkipped
    <2> HIDE DEF E
    <2>2. Cardinality(Behind(Q, steady \ {c}, E, t)) <= removed
      BY <1>1, <2>1
    <2> QED
      BY <2>2 DEF FewSkipped, E
  <1>4. ASSUME NEW E, Cardinality(steady \ E) <= removed
        PROVE  /\ Cardinality((steady \ {c}) \ E) <= removed
               /\ Cardinality((steady \ {c}) \ E) <= removed + 1
    BY <1>2, <1>4
  <1> QED
    BY <1>3, <1>4

\* The counts once a row that went has left the list, too.
CountsGoTo(Q, steady, added, removed, s, u, acc, t) ==
    /\ FewRepeated(Q, added, s, acc, t) => FewRepeated(Q, added, u, acc, t)
    /\ FewSkipped(Q, steady, removed, s, acc, t) => FewSkipped(Q, steady, removed, u, acc, t)
    /\ steady \ Taken(u, acc, t) = steady \ Taken(s, acc, t)

\* The list without a row that went keeps the counts.
LEMMA CountWithout ==
    ASSUME NEW M \in Nat, NEW Q \in SUBSET (0..M), NEW steady \in SUBSET Q,
           NEW c, c \notin Q,
           NEW s \in Seq(0..M), NEW acc, DOMAIN acc \in SUBSET (0..M),
           \A o \in DOMAIN acc : acc[o] \in 0..M, Without(s, c) \in Seq(0..M),
           NEW added \in Nat, NEW removed \in Nat, NEW t \in Nat
    PROVE  CountsGoTo(Q, steady, added, removed, s, Without(s, c), acc, t)
  <1> DEFINE u == Without(s, c)
             T == {acc[o] : o \in Below(DOMAIN acc, t)}
             E == Taken(s, acc, t)
             F == Taken(u, acc, t)
  <1>1. E = In(s) \cup T /\ F = In(u) \cup T
    BY DEF Taken
  <1>2. T \in SUBSET (0..M)
    BY BelowIs
  <1>3. In(u) = In(s) \ {c} /\ Len(u) + Cardinality(E) <= Len(s) + Cardinality(F)
    <2> HIDE DEF T, E, F
    <2>1. /\ In(Without(s, c)) = In(s) \ {c}
          /\ Len(Without(s, c)) + Cardinality(In(s) \cup T)
                <= Len(s) + Cardinality(In(Without(s, c)) \cup T)
      BY <1>2, WithoutIs
    <2> QED
      BY <1>1, <2>1
  <1>4. /\ Len(s) \in Nat /\ Cardinality(E) \in Nat /\ Cardinality(Below(DOMAIN acc, t)) \in Nat
        /\ Len(u) \in Nat /\ Cardinality(F) \in Nat
    BY TakenIs
  <1>5. (\A n : n # c => (n \in E <=> n \in F)) /\ c \notin steady
    BY <1>1, <1>3
  <1> HIDE DEF E, F, u, T
  <1>6. Ahead(Q, F, t) = Ahead(Q, E, t)
    <2>1. \A n : n \in Ahead(Q, F, t) <=> n \in Ahead(Q, E, t)
      BY <1>5, AheadIs
    <2> QED
      BY <2>1, AheadIs DEF Ahead
  <1>7. Behind(Q, steady, F, t) = Behind(Q, steady, E, t)
    <2>1. \A n : n \in Behind(Q, steady, F, t) <=> n \in Behind(Q, steady, E, t)
      BY <1>5, AheadIs
    <2> QED
      BY <2>1, AheadIs DEF Behind
  <1>8. steady \ F = steady \ E
    BY <1>5
  <1>9. Cardinality(Ahead(Q, E, t)) \in Nat
    BY AheadNat
  <1> QED
    BY <1>3, <1>4, <1>6, <1>7, <1>8, <1>9 DEF FewRepeated, FewSkipped, E, F, u, CountsGoTo

-----------------------------------------------------------------------------
(* The counts, as a request goes on *)

\* The rows of X before t.
Upto(M, Q, X, t, Z) == Q \in SUBSET (0..M) /\ Z = {n \in X : Off(Q, n) < t}

\* What is found afterwards, offset by offset.
LEMMA AddsIs ==
    ASSUME NEW acc, NEW more, NEW Q, NEW X, NEW f, Adds(acc, more, Q, X, f)
    PROVE  /\ \A o : o \in DOMAIN more <=> o \in DOMAIN acc \/ \E n \in X : o = Off(Q, n)
           /\ \A o \in DOMAIN acc : o < f /\ more[o] = acc[o]
           /\ \A n \in X : f <= Off(Q, n) /\ more[Off(Q, n)] = n
  BY DEF Adds

\* Before f the request found what it had found.
LEMMA FoundBefore ==
    ASSUME NEW M \in Nat, NEW Q \in SUBSET (0..M), NEW X \in SUBSET Q, NEW f \in Nat,
           NEW acc, DOMAIN acc \in SUBSET (0..M), NEW more, Adds(acc, more, Q, X, f),
           NEW t \in Nat, t <= f
    PROVE  /\ Below(DOMAIN more, t) = Below(DOMAIN acc, t)
           /\ \A s : Taken(s, more, t) = Taken(s, acc, t)
  <1>1. \A n \in X : Off(Q, n) \in Nat
    BY RankNat
  <1>2. \A o \in DOMAIN acc : o \in Nat
    OBVIOUS
  <1>3. ASSUME NEW o
        PROVE  o \in Below(DOMAIN more, t) <=> o \in Below(DOMAIN acc, t)
    <2>1. o \in Below(DOMAIN more, t) <=> o \in DOMAIN more /\ o < t
      BY BelowIs
    <2>2. o \in Below(DOMAIN acc, t) <=> o \in DOMAIN acc /\ o < t
      BY BelowIs
    <2>3. ASSUME o \in DOMAIN more, o < t
          PROVE  o \in DOMAIN acc
      <3>1. ASSUME NEW n \in X, o = Off(Q, n)
            PROVE  FALSE
        <4>1. f <= Off(Q, n)
          BY AddsIs
        <4> QED
          BY <1>1, <2>3, <3>1, <4>1
      <3>2. o \in DOMAIN acc \/ \E n \in X : o = Off(Q, n)
        BY <2>3 DEF Adds
      <3> QED
        BY <3>1, <3>2
    <2>4. o \in DOMAIN acc => o \in DOMAIN more
      BY DEF Adds
    <2> QED
      BY <2>1, <2>2, <2>3, <2>4
  <1>4. Below(DOMAIN more, t) = Below(DOMAIN acc, t)
    BY <1>3, BelowIs DEF Below
  <1>5. \A o \in Below(DOMAIN acc, t) : more[o] = acc[o]
    BY BelowIs, AddsIs
  <1>6. {more[o] : o \in Below(DOMAIN more, t)} = {acc[o] : o \in Below(DOMAIN acc, t)}
    BY <1>4, <1>5
  <1> QED
    BY <1>4, <1>6 DEF Taken

\* There are as many offsets as rows.
LEMMA OffsetsAre ==
    ASSUME NEW M \in Nat, NEW Q \in SUBSET (0..M), NEW Z \in SUBSET Q
    PROVE  LET places == {Off(Q, n) : n \in Z} IN
           /\ IsFiniteSet(places) /\ Cardinality(places) = Cardinality(Z)
           /\ Cardinality(Z) \in Nat
  <1> DEFINE places == {Off(Q, n) : n \in Z}
             place  == [n \in Z |-> Off(Q, n)]
  <1>1. place \in [Z -> places]
    OBVIOUS
  <1>2. \A x, y \in Z : place[x] = place[y] => x = y
    BY RankType
  <1>3. \A z \in places : \E x \in Z : place[x] = z
    OBVIOUS
  <1>4. IsFiniteSet(Z) /\ Cardinality(Z) \in Nat
    BY Bounded
  <1> HIDE DEF place, places
  <1>5. IsFiniteSet(places) /\ Cardinality(places) = Cardinality(Z)
    BY <1>1, <1>2, <1>3, <1>4, OneToOne
  <1> QED
    BY <1>4, <1>5 DEF places

\* From f on it has found the rows of X, too.
LEMMA FoundAfter ==
    ASSUME NEW M \in Nat, NEW Q \in SUBSET (0..M), NEW X \in SUBSET Q, NEW f \in Nat,
           NEW acc, DOMAIN acc \in SUBSET (0..M), NEW more, Adds(acc, more, Q, X, f),
           NEW t \in Nat, f <= t,
           NEW Z, Upto(M, Q, X, t, Z)
    PROVE  /\ \A s : Taken(s, more, t) = Taken(s, acc, f) \cup Z
           /\ Cardinality(Below(DOMAIN more, t)) =
                 Cardinality(Below(DOMAIN acc, f)) + Cardinality(Z)
  <1>1. /\ \A n \in X : Off(Q, n) \in Nat /\ f <= Off(Q, n) /\ more[Off(Q, n)] = n
        /\ \A o \in DOMAIN acc : o \in Nat /\ o < f /\ o < t /\ more[o] = acc[o]
    <2>1. \A n \in X : Off(Q, n) \in Nat
      BY RankNat
    <2>2. \A o \in DOMAIN acc : o \in Nat
      OBVIOUS
    <2>3. \A o \in DOMAIN acc : o < f /\ more[o] = acc[o]
      BY AddsIs
    <2>4. \A o \in DOMAIN acc : o < t
      BY <2>2, <2>3
    <2> QED
      BY <2>1, <2>2, <2>3, <2>4, AddsIs
  <1>2. \A n : n \in Z <=> n \in X /\ Off(Q, n) < t
    BY DEF Upto
  <1> DEFINE D == DOMAIN acc
             places == {Off(Q, n) : n \in Z}
             B == Below(DOMAIN more, t)
  <1>3. Below(D, f) = D
    <2>1. \A o : o \in Below(D, f) <=> o \in D
      BY <1>1, BelowIs
    <2> QED
      BY <2>1
  <1>4. \A o : o \in B <=> o \in D \/ o \in places
    <2>1. ASSUME NEW o
          PROVE  o \in B <=> o \in DOMAIN more /\ o < t
      BY BelowIs
    <2>2. ASSUME NEW o
          PROVE  o \in DOMAIN more <=> o \in D \/ \E n \in X : o = Off(Q, n)
      BY DEF Adds
    <2>3. ASSUME NEW o
          PROVE  o \in places <=> \E n \in X : o = Off(Q, n) /\ Off(Q, n) < t
      BY <1>2
    <2>4. \A o \in D : o < t
      BY <1>1
    <2> HIDE DEF B, D, places
    <2> QED
      BY <2>1, <2>2, <2>3, <2>4
  <1>5. \A o \in D : o \notin places
    <2>1. \A n \in Z : Off(Q, n) \in Nat /\ f <= Off(Q, n)
      BY <1>1, <1>2
    <2>2. \A o \in D : o \in Nat /\ o < f
      BY <1>1
    <2> HIDE DEF D
    <2>3. ASSUME NEW o \in D, o \in places
          PROVE  FALSE
      <3>1. PICK n \in Z : o = Off(Q, n)
        BY <2>3
      <3>2. o \in Nat /\ o < f /\ f <= o
        BY <2>1, <2>2, <3>1
      <3> QED
        BY <3>2
    <2> QED
      BY <2>3
  <1>6. IsFiniteSet(places) /\ Cardinality(places) = Cardinality(Z) /\ Cardinality(Z) \in Nat
    <2>1. Z \in SUBSET Q
      BY <1>2
    <2> QED
      BY <2>1, OffsetsAre
  <1>7. IsFiniteSet(D) /\ Cardinality(D) \in Nat
    BY Bounded
  <1>8. Cardinality(B) = Cardinality(D) + Cardinality(Z)
    <2>1. B = D \cup places /\ D \cap places = {}
      BY <1>4, <1>5
    <2> HIDE DEF B, D, places
    <2>2. Cardinality(D \cup places) =
             Cardinality(D) + Cardinality(places) - Cardinality(D \cap places)
      BY <1>6, <1>7, FS_Union
    <2>3. Cardinality(D \cap places) = 0
      BY <2>1, FS_EmptySet
    <2> QED
      BY <1>6, <1>7, <2>1, <2>2, <2>3
  <1>9. ASSUME NEW s
        PROVE  \A x : x \in Taken(s, more, t) <=> x \in Taken(s, acc, f) \/ x \in Z
    <2>1. ASSUME NEW x
          PROVE  x \in Taken(s, more, t) <=> x \in In(s) \/ \E o \in B : x = more[o]
      BY DEF Taken
    <2>2. ASSUME NEW x
          PROVE  x \in Taken(s, acc, f) <=> x \in In(s) \/ \E o \in D : x = acc[o]
      BY <1>3 DEF Taken
    <2>3. \A o \in places : \E n \in Z : o = Off(Q, n) /\ more[o] = n
      BY <1>1, <1>2
    <2>4. \A n \in Z : Off(Q, n) \in places /\ more[Off(Q, n)] = n
      BY <1>1, <1>2
    <2>5. \A o \in D : more[o] = acc[o]
      BY <1>1
    <2> HIDE DEF B, D, places
    <2>6. ASSUME NEW x
          PROVE  (\E o \in B : x = more[o]) <=> (\E o \in D : x = acc[o]) \/ x \in Z
      BY <1>4, <2>3, <2>4, <2>5
    <2> QED
      BY <2>1, <2>2, <2>6
  <1>10. \A s : Taken(s, more, t) = Taken(s, acc, f) \cup Z
    BY <1>9
  <1> QED
    BY <1>3, <1>8, <1>10

\* So the counts are kept at every offset up to where the request has come.
CountsGoOn(Q, steady, added, removed, s, acc, f, more, t) ==
    /\ FewRepeated(Q, added, s, acc, f) => FewRepeated(Q, added, s, more, t)
    /\ FewSkipped(Q, steady, removed, s, acc, f) => FewSkipped(Q, steady, removed, s, more, t)

\* The counts go on at every offset the chunk reached.
LEMMA CountFinds ==
    ASSUME NEW M \in Nat, NEW Q \in SUBSET (0..M), NEW X \in SUBSET Q, NEW f \in Nat,
           NEW acc, DOMAIN acc \in SUBSET (0..M), \A o \in DOMAIN acc : acc[o] \in 0..M,
           NEW more, Adds(acc, more, Q, X, f), NEW s \in Seq(0..M),
           NEW steady \in SUBSET Q, NEW t \in Nat, f <= t,
           \A n \in steady : f <= Off(Q, n) /\ Off(Q, n) < t => n \in X,
           NEW added \in Nat, NEW removed \in Nat
    PROVE  CountsGoOn(Q, steady, added, removed, s, acc, f, more, t)
  <1> DEFINE Z == {n \in X : Off(Q, n) < t}
             E == Taken(s, acc, f)
             F == Taken(s, more, t)
  <1>1. Upto(M, Q, X, t, Z)
    BY DEF Upto
  <1>2. F = E \cup Z
    <2> HIDE DEF Z
    <2> QED
      BY <1>1, FoundAfter
  <1>3. Cardinality(Below(DOMAIN more, t)) =
             Cardinality(Below(DOMAIN acc, f)) + Cardinality(Z)
    <2> HIDE DEF Z, E, F
    <2> SUFFICES \A u : /\ Taken(u, more, t) = Taken(u, acc, f) \cup Z
                        /\ Cardinality(Below(DOMAIN more, t)) =
                              Cardinality(Below(DOMAIN acc, f)) + Cardinality(Z)
      OBVIOUS
    <2> QED
      BY <1>1, FoundAfter
  <1>4. /\ Len(s) \in Nat /\ IsFiniteSet(E) /\ Cardinality(E) \in Nat
        /\ Cardinality(Below(DOMAIN acc, f)) \in Nat /\ E \in SUBSET (0..M)
    BY TakenIs
  <1>5. /\ Z \in SUBSET Q /\ \A n \in Z : f <= Off(Q, n) /\ Off(Q, n) < t
        /\ \A n \in steady : f <= Off(Q, n) /\ Off(Q, n) < t => n \in Z
    BY AddsIs
  <1> HIDE DEF Z, E, F
  <1>6. /\ Cardinality(Z) + Cardinality(E) + Cardinality(Ahead(Q, E \cup Z, t))
               <= Cardinality(E \cup Z) + Cardinality(Ahead(Q, E, f))
        /\ Behind(Q, steady, E \cup Z, t) \subseteq Behind(Q, steady, E, f)
        /\ IsFiniteSet(Z) /\ Cardinality(Z) \in Nat
    BY <1>4, <1>5, RowsPassed
  <1>7. /\ Cardinality(Ahead(Q, E, f)) \in Nat /\ Cardinality(Ahead(Q, F, t)) \in Nat
        /\ IsFiniteSet(Behind(Q, steady, E, f)) /\ Cardinality(Behind(Q, steady, E, f)) \in Nat
        /\ Cardinality(Behind(Q, steady, F, t)) \in Nat
    BY AheadNat
  <1>8. Cardinality(Behind(Q, steady, F, t)) <= Cardinality(Behind(Q, steady, E, f))
    BY <1>2, <1>6, <1>7, FS_Subset
  <1>9. Cardinality(F) \in Nat
    <2>1. F \in SUBSET (0..M)
      BY <1>2, <1>4, <1>5
    <2> QED
      BY <2>1, Bounded
  <1>10. ASSUME FewRepeated(Q, added, s, acc, f)
        PROVE  FewRepeated(Q, added, s, more, t)
    <2>1. Len(s) + Cardinality(Below(DOMAIN acc, f)) + Cardinality(Ahead(Q, E, f))
             <= Cardinality(E) + added
      BY <1>10 DEF FewRepeated, E
    <2>2. Cardinality(Z) + Cardinality(E) + Cardinality(Ahead(Q, F, t))
             <= Cardinality(F) + Cardinality(Ahead(Q, E, f))
      BY <1>2, <1>6
    <2>3. Len(s) + Cardinality(Below(DOMAIN more, t)) + Cardinality(Ahead(Q, F, t))
             <= Cardinality(F) + added
      <3>1. /\ Len(s) \in Nat /\ Cardinality(E) \in Nat /\ Cardinality(Z) \in Nat
            /\ Cardinality(Below(DOMAIN acc, f)) \in Nat
        BY <1>4, <1>6
      <3>2. /\ Cardinality(Ahead(Q, E, f)) \in Nat /\ Cardinality(Ahead(Q, F, t)) \in Nat
            /\ Cardinality(F) \in Nat
        BY <1>7, <1>9
      <3> QED
        BY <1>3, <2>1, <2>2, <3>1, <3>2, SMTT(60)
    <2> QED
      BY <2>3 DEF FewRepeated, F
  <1>11. ASSUME FewSkipped(Q, steady, removed, s, acc, f)
        PROVE  FewSkipped(Q, steady, removed, s, more, t)
    <2>1. Cardinality(Behind(Q, steady, E, f)) <= removed
      BY <1>11 DEF FewSkipped, E
    <2>2. Cardinality(Behind(Q, steady, F, t)) <= removed
      BY <1>7, <1>8, <2>1
    <2> QED
      BY <2>2 DEF FewSkipped, F
  <1> QED
    BY <1>10, <1>11 DEF CountsGoOn

\* A list without further rows, and a list that an answer was put to.
LEMMA NothingTaken ==
    /\ DOMAIN <<>> = {} /\ In(<<>>) = {}
    /\ \A t : Below(DOMAIN <<>>, t) = {} /\ Cardinality(Below(DOMAIN <<>>, t)) = 0
    /\ \A s, t : Taken(s, <<>>, t) = In(s)
  <1>1. DOMAIN <<>> = {}
    OBVIOUS
  <1>2. \A t : Below(DOMAIN <<>>, t) = {}
    BY <1>1, BelowIs
  <1>3. Cardinality({}) = 0
    BY FS_EmptySet
  <1>4. \A s, t : Taken(s, <<>>, t) = In(s)
    BY <1>2 DEF Taken
  <1> QED
    BY <1>1, <1>2, <1>3, <1>4 DEF In

\* The list with an answer has the counts of the list and the answer.
LEMMA CountReceives ==
    ASSUME NEW M \in Nat, NEW Q \in SUBSET (0..M), NEW s \in Seq(0..M), NEW acc,
           NEW t, NEW u, Len(s) \in Nat, Cardinality(Below(DOMAIN acc, t)) \in Nat,
           In(u) = Taken(s, acc, t), Len(u) = Len(s) + Cardinality(Below(DOMAIN acc, t))
    PROVE  /\ \A added : FewRepeated(Q, added, s, acc, t) => FewRepeated(Q, added, u, <<>>, t)
           /\ \A steady, removed :
                 FewSkipped(Q, steady, removed, s, acc, t)
                     => FewSkipped(Q, steady, removed, u, <<>>, t)
  <1>1. Taken(u, <<>>, t) = Taken(s, acc, t)
    BY NothingTaken
  <1>2. Len(u) + Cardinality(Below(DOMAIN <<>>, t))
            = Len(s) + Cardinality(Below(DOMAIN acc, t))
    BY NothingTaken
  <1> QED
    BY <1>1, <1>2 DEF FewRepeated, FewSkipped

-----------------------------------------------------------------------------
(* What the invariant says of types *)

\* What is assumed of the constants.
LEMMA ConstantTypes ==
    /\ MaxRows \in Nat /\ BATCH_SIZE \in Nat /\ BATCH_SIZE > 0 /\ MaxRequests \in Nat
    /\ NoFilter \in Filters
  BY ListingAssumption

\* The types of a request.
LEMMA RequestTypes ==
    ASSUME NEW q \in Request
    PROVE  /\ q.id \in 1..MaxRequests /\ q.filters \in Filters /\ q.append \in BOOLEAN
           /\ q.step \in {"fetch", "count", "answered"} /\ q.total \in Int
           /\ q.offset \in Nat /\ q.fetch_offset \in Nat /\ q.last_chunk_len \in Nat
           /\ DOMAIN q.accumulated \in SUBSET (0..MaxRows)
           /\ \A o \in DOMAIN q.accumulated :
                 q.accumulated[o] \in 1..MaxRows /\ q.accumulated[o] \in 0..MaxRows
           /\ scanned(q) \in Nat
  <1>1. q.accumulated \in UNION {[S -> Rows] : S \in SUBSET (0..MaxRows)}
    BY DEF Request
  <1>2. PICK S \in SUBSET (0..MaxRows) : q.accumulated \in [S -> Rows]
    BY <1>1
  <1>3. /\ DOMAIN q.accumulated \in SUBSET (0..MaxRows)
        /\ \A o \in DOMAIN q.accumulated :
              q.accumulated[o] \in 1..MaxRows /\ q.accumulated[o] \in 0..MaxRows
    <2>1. DOMAIN q.accumulated = S /\ \A o \in S : q.accumulated[o] \in Rows
      BY <1>2
    <2>2. \A n \in Rows : n \in 1..MaxRows /\ n \in 0..MaxRows
      BY ConstantTypes DEF Rows
    <2> QED
      BY <1>2, <2>1, <2>2
  <1>4. /\ q.id \in 1..MaxRequests /\ q.filters \in Filters /\ q.append \in BOOLEAN
        /\ q.step \in {"fetch", "count", "answered"} /\ q.total \in Int
        /\ q.offset \in Nat /\ q.fetch_offset \in Nat /\ q.last_chunk_len \in Nat
    BY DEF Request
  <1>5. scanned(q) \in Nat
    BY <1>4, ConstantTypes DEF scanned
  <1> QED
    BY <1>3, <1>4, <1>5

\* The types of the rest.
LEMMA ListTypes ==
    ASSUME ListInv
    PROVE  /\ page \in Page /\ browse \in Browse /\ requests \in SUBSET Request
           /\ created \in 0..MaxRows /\ rows \in SUBSET (1..created)
           /\ matching \in [Filters -> SUBSET Rows] /\ browse.matched \in SUBSET Rows
           /\ page.shown \in Seq(0..MaxRows) /\ page.shown \in Seq(Rows)
           /\ page.filters \in Filters /\ page.nextOffset \in 0..MaxRows
           /\ page.requestId \in 1..MaxRequests
           /\ page.hasMore \in BOOLEAN /\ page.loading \in BOOLEAN
           /\ page.loadingMore \in BOOLEAN /\ page.total \in Int
           /\ browse.removed \in Nat /\ browse.added \in Nat /\ browse.valid \in BOOLEAN
           /\ browse.relisted \in BOOLEAN /\ browse.steady \in SUBSET Rows
           /\ browse.steady \in SUBSET Query(page.filters)
           /\ deleting \in 0..MaxRows /\ tabled \in SUBSET Rows /\ changes \in 0..MaxChanges
           /\ \A f \in Filters : /\ Query(f) \in SUBSET (1..MaxRows)
                                 /\ Query(f) \in SUBSET (0..MaxRows)
                                 /\ Query(f) \in SUBSET (1..created)
                                 /\ Listed(f) \in SUBSET Query(f)
           /\ \A q \in requests : base(q) \in Seq(0..MaxRows) /\ RequestInv(q)
  <1>1. ListingTypeOK /\ \A q \in requests : RequestInv(q)
    BY DEF ListInv
  <1>2. page \in Page /\ browse \in Browse /\ requests \in SUBSET Request
        /\ created \in 0..MaxRows /\ rows \in SUBSET (1..created)
        /\ matching \in [Filters -> SUBSET Rows]
        /\ deleting \in 0..MaxRows /\ tabled \in SUBSET Rows /\ changes \in 0..MaxChanges
    BY <1>1 DEF ListingTypeOK
  <1>3. /\ page.shown \in Seq(Rows)
        /\ page.filters \in Filters /\ page.nextOffset \in 0..MaxRows
        /\ page.requestId \in 1..MaxRequests
        /\ page.hasMore \in BOOLEAN /\ page.loading \in BOOLEAN
        /\ page.loadingMore \in BOOLEAN /\ page.total \in Int
    BY <1>2 DEF Page
  <1>4. /\ browse.removed \in Nat /\ browse.added \in Nat /\ browse.valid \in BOOLEAN
        /\ browse.relisted \in BOOLEAN /\ browse.steady \in SUBSET Rows
        /\ browse.matched \in SUBSET Rows
    BY <1>2 DEF Browse
  <1>5. page.shown \in Seq(0..MaxRows) /\ <<>> \in Seq(0..MaxRows)
    <2>1. Rows \subseteq 0..MaxRows
      BY ConstantTypes DEF Rows
    <2>2. Len(page.shown) \in Nat /\ page.shown \in [1..Len(page.shown) -> Rows]
      BY <1>3
    <2>3. page.shown \in [1..Len(page.shown) -> 0..MaxRows]
      BY <2>1, <2>2
    <2>4. page.shown \in Seq(0..MaxRows)
      BY <2>2, <2>3, FunctionIsSeq
    <2> QED
      BY <2>4
  <1>6. ASSUME NEW f \in Filters
        PROVE  /\ Query(f) \in SUBSET (1..MaxRows) /\ Query(f) \in SUBSET (0..MaxRows)
               /\ Query(f) \in SUBSET (1..created) /\ Listed(f) \in SUBSET Query(f)
    <2>1. Query(f) \in SUBSET (1..created)
      BY <1>2 DEF Query
    <2>2. 1..created \subseteq 1..MaxRows /\ 1..MaxRows \subseteq 0..MaxRows
      BY <1>2, ConstantTypes
    <2> QED
      BY <2>1, <2>2 DEF Listed
  <1>7. browse.steady \in SUBSET Query(page.filters)
    <2>1. browse.steady \subseteq Listed(page.filters)
      BY DEF ListInv
    <2> QED
      BY <1>3, <1>6, <2>1
  <1>8. \A q \in requests : base(q) \in Seq(0..MaxRows)
    BY <1>5 DEF base
  <1> QED
    BY <1>1, <1>2, <1>3, <1>4, <1>5, <1>6, <1>7, <1>8

\* The parts of the invariant again.
LEMMA InvParts ==
    ASSUME ListInv, NEW q \in requests
    PROVE  /\ SoundRequest(q) /\ q.id <= page.requestId
           /\ \A r \in requests : r.id = q.id => r = q
           /\ current(q) => q.filters = page.filters /\ (q.append => browse.valid)
           /\ \A o \in DOMAIN q.accumulated :
                 /\ q.accumulated[o] \in 1..created
                 /\ current(q) => q.accumulated[o] \in browse.matched
                 /\ q.offset <= o /\ o < scanned(q)
           /\ q.offset <= q.fetch_offset /\ q.offset <= scanned(q) /\ scanned(q) <= MaxRows
  <1>1. RequestInv(q) /\ q \in Request
    BY ListTypes
  <1>2. SoundRequest(q)
    BY <1>1 DEF RequestInv
  <1>3. q.offset <= q.fetch_offset /\ scanned(q) <= MaxRows
        /\ \A o \in DOMAIN q.accumulated : q.offset <= o /\ o < scanned(q)
    BY <1>2 DEF SoundRequest
  <1>4. q.offset <= scanned(q)
    BY <1>1, <1>3, RequestTypes, ConstantTypes DEF scanned
  <1> QED
    BY <1>1, <1>2, <1>3, <1>4 DEF RequestInv

-----------------------------------------------------------------------------
(* A chunk is fetched *)

\* What fetch_chunk makes of a request: it adds the listed rows X between where it was
\* and where it is, and stops below a page only when no row is left.
Fetched(q, r, X) ==
    LET Q == Query(q.filters) IN
    /\ requests' = (requests \ {q}) \cup {r} /\ r \in Request
    /\ r.id = q.id /\ r.filters = q.filters /\ r.append = q.append
    /\ r.offset = q.offset
    /\ X \in SUBSET Listed(q.filters)
    /\ Adds(q.accumulated, r.accumulated, Q, X, scanned(q))
    /\ scanned(q) <= scanned(r) /\ scanned(r) <= MaxRows /\ q.offset <= r.fetch_offset
    /\ \A n \in X : Off(Q, n) < scanned(r)
    /\ \A n \in Listed(q.filters) : scanned(q) <= Off(Q, n) /\ Off(Q, n) < scanned(r) => n \in X
    /\ ranOut(r) => /\ r.last_chunk_len <= BATCH_SIZE
                    /\ \A n \in Q : Off(Q, n) < scanned(r)
    /\ r.step = "fetch" => r.last_chunk_len = BATCH_SIZE + 1
    /\ ~r.append => r.step # "answered"

\* fetch_chunk does so.
LEMMA FetchedIs ==
    ASSUME ListInv, NEW q \in requests, fetch_chunk(q)
    PROVE  \E r, X : Fetched(q, r, X)
  <1> DEFINE Q == Query(q.filters)
             B == BATCH_SIZE
             F == q.fetch_offset
             C == {n \in Q : Off(Q, n) \in F..(F + B)}
             X == C \cap tabled
             acc == Extended(q.accumulated, Q, C, X)
             len == Cardinality(C)
             G == IF len <= B THEN F ELSE F + B + 1
             step == IF ~(len <= B) /\ ~Enough(acc) THEN "fetch"
                     ELSE IF q.offset = 0 THEN "count" ELSE "answered"
             r == [q EXCEPT !.accumulated = acc, !.last_chunk_len = len,
                            !.fetch_offset = G, !.step = step]
  <1>1. /\ requests' = (requests \ {q}) \cup {r} /\ q.step = "fetch"
    BY DEF fetch_chunk, Step, Extended, offset_of, Off, Above
  <1>2. q \in Request /\ SoundRequest(q)
    BY ListTypes, InvParts
  <1>3. /\ MaxRows \in Nat /\ B \in Nat /\ B > 0
        /\ q.offset \in Nat /\ F \in Nat /\ q.last_chunk_len \in Nat
        /\ DOMAIN q.accumulated \in SUBSET (0..MaxRows) /\ q.filters \in Filters
    BY <1>2, ConstantTypes, RequestTypes
  <1>4. scanned(q) = F /\ F <= MaxRows /\ q.offset <= F
    <2>1. q.last_chunk_len \in {0, B + 1}
      BY <1>1, <1>2 DEF SoundRequest
    <2>2. scanned(q) = F
      BY <1>3, <2>1 DEF scanned
    <2> QED
      BY <2>2, InvParts
  <1>5. /\ Q \in SUBSET (1..MaxRows) /\ Q \in SUBSET (0..MaxRows)
        /\ Listed(q.filters) = Q \cap tabled
    BY <1>3, ListTypes DEF Listed
  <1> HIDE DEF Q
  <1>6. \A n : Off(Q, n) \in Nat
    BY <1>3, <1>5, RankNat
  <1>7. \A n : n \in C <=> n \in Q /\ Off(Q, n) \in F..(F + B)
    OBVIOUS
  <1>8. /\ \A n : n \in X <=> n \in Q /\ n \in tabled /\ Off(Q, n) \in F..(F + B)
        /\ C \in SUBSET Q /\ X \in SUBSET C
    OBVIOUS
  <1> HIDE DEF C, X
  <1>9. /\ len \in 0..(B + 1)
        /\ F + len <= MaxRows
        /\ len <= B => \A n \in Q : F <= Off(Q, n) => Off(Q, n) < F + len
    BY <1>3, <1>4, <1>5, <1>7, ChunkIs
  <1>10. Adds(q.accumulated, acc, Q, X, scanned(q))
    <2>1. \A o \in DOMAIN q.accumulated : o < F
      BY <1>4, InvParts
    <2>2. \A n \in X : F <= Off(Q, n)
      BY <1>3, <1>6, <1>8
    <2> HIDE DEF F
    <2>3. Adds(q.accumulated, acc, Q, X, F)
      BY <1>3, <1>5, <1>8, <2>1, <2>2, ExtendedIs
    <2> QED
      BY <1>4, <2>3
  <1> HIDE DEF acc
  <1>11. /\ DOMAIN acc = DOMAIN q.accumulated \cup {Off(Q, n) : n \in X}
         /\ \A o \in DOMAIN q.accumulated : acc[o] = q.accumulated[o]
         /\ \A n \in X : acc[Off(Q, n)] = n
         /\ \A o \in DOMAIN acc : o \in DOMAIN q.accumulated \/ \E n \in X : o = Off(Q, n)
    <2>1. \A o : o \in DOMAIN acc <=> o \in DOMAIN q.accumulated \/ \E n \in X : o = Off(Q, n)
      BY <1>10, AddsIs
    <2> QED
      BY <1>10, <2>1 DEF Adds
  <1> HIDE DEF acc, len
  <1>12. /\ r.id = q.id /\ r.filters = q.filters /\ r.append = q.append /\ r.offset = q.offset
         /\ r.accumulated = acc /\ r.last_chunk_len = len /\ r.fetch_offset = G
         /\ r.step = step
    BY <1>2 DEF Request
  <1>13. r \in Request
    <2>1. acc \in UNION {[S -> Rows] : S \in SUBSET (0..MaxRows)}
      <3>1. \A o \in DOMAIN q.accumulated : q.accumulated[o] \in Rows
        BY <1>2, RequestTypes DEF Rows
      <3>2. \A n \in X : n \in Rows /\ Off(Q, n) \in 0..MaxRows
        <4>1. ASSUME NEW n \in X
              PROVE  Off(Q, n) <= MaxRows /\ n \in Rows
          <5>1. n \in Q /\ F <= Off(Q, n) /\ Off(Q, n) <= F + B
            BY <1>3, <1>6, <1>8
          <5>2. Off(Q, n) < F + len
            <6>1. CASE len <= B
              BY <1>9, <5>1, <6>1
            <6>2. CASE ~(len <= B)
              <7>1. len = B + 1
                BY <1>3, <1>9, <6>2
              <7> QED
                BY <1>3, <1>6, <5>1, <7>1
            <6> QED
              BY <6>1, <6>2
          <5>3. n \in Rows
            BY <1>5, <5>1 DEF Rows
          <5>4. len \in Nat
            BY <1>3, <1>9
          <5> QED
            BY <1>3, <1>6, <1>9, <5>2, <5>3, <5>4
        <4> QED
          BY <1>3, <1>6, <4>1
      <3>3. DOMAIN acc \in SUBSET (0..MaxRows)
        BY <1>3, <1>11, <3>2
      <3>4. \A o \in DOMAIN acc : acc[o] \in Rows
        BY <1>11, <3>1, <3>2
      <3>5. acc = [o \in DOMAIN acc |-> acc[o]]
        BY DEF acc, Extended
      <3>6. acc \in [DOMAIN acc -> Rows]
        BY <3>4, <3>5
      <3> QED
        BY <3>3, <3>6
    <2>2. len \in Nat /\ G \in Nat /\ step \in {"fetch", "count", "answered"}
      BY <1>3, <1>9
    <2> HIDE DEF G, step
    <2> QED
      BY <1>2, <2>1, <2>2 DEF Request
  <1>14. len \in Nat /\ G \in Nat /\ F <= G /\ scanned(r) = F + len
    <2>1. len \in Nat /\ (len <= B \/ len = B + 1)
      BY <1>3, <1>9
    <2>2. scanned(r) = G + IF len > B THEN 0 ELSE len
      BY <1>12 DEF scanned
    <2> HIDE DEF r, F, B
    <2>3. CASE len <= B
      BY <1>3, <2>1, <2>2, <2>3
    <2>4. CASE len = B + 1
      BY <1>3, <2>1, <2>2, <2>4
    <2> QED
      BY <2>1, <2>3, <2>4
  <1> HIDE DEF r
  <1>15. \A n \in X : Off(Q, n) < scanned(r)
    <2>1. ASSUME NEW n \in X
          PROVE  Off(Q, n) < F + len
      <3>1. n \in Q /\ F <= Off(Q, n) /\ Off(Q, n) <= F + B
        BY <1>3, <1>6, <1>8
      <3>2. len <= B \/ len = B + 1
        BY <1>3, <1>9
      <3>3. CASE len <= B
        BY <1>9, <3>1, <3>3
      <3>4. CASE len = B + 1
        BY <1>3, <1>6, <3>1, <3>4
      <3> QED
        BY <3>2, <3>3, <3>4
    <2> QED
      BY <1>14, <2>1
  <1>16. ASSUME NEW n \in Listed(q.filters), scanned(q) <= Off(Q, n), Off(Q, n) < scanned(r)
         PROVE  n \in X
    <2>1. n \in Q /\ n \in tabled
      BY <1>5
    <2>2. F <= Off(Q, n) /\ Off(Q, n) < F + len
      BY <1>4, <1>14, <1>16
    <2>3. Off(Q, n) \in F..(F + B)
      BY <1>3, <1>6, <1>9, <2>2
    <2> QED
      BY <1>8, <2>1, <2>3
  <1>17. ASSUME ranOut(r)
         PROVE  r.last_chunk_len <= B /\ \A n \in Q : Off(Q, n) < scanned(r)
    <2>1. len <= B
      BY <1>12, <1>17 DEF ranOut
    <2>2. ASSUME NEW n \in Q
          PROVE  Off(Q, n) < F + len
      <3>1. F <= Off(Q, n) => Off(Q, n) < F + len
        BY <1>9, <2>1
      <3>2. len \in Nat /\ Off(Q, n) \in Nat
        BY <1>6, <1>14
      <3> QED
        BY <1>3, <3>1, <3>2
    <2> QED
      BY <1>12, <1>14, <2>1, <2>2
  <1>18. r.step = "fetch" => r.last_chunk_len = B + 1
    BY <1>3, <1>9, <1>12
  <1>19. ~r.append => r.step # "answered"
    BY <1>2, <1>12 DEF SoundRequest
  <1>20. scanned(q) <= scanned(r) /\ scanned(r) <= MaxRows /\ q.offset <= r.fetch_offset
    BY <1>3, <1>4, <1>9, <1>12, <1>14
  <1>21. X \in SUBSET Listed(q.filters)
    BY <1>5, <1>8
  <1>22. Fetched(q, r, X)
    <2> HIDE DEF B, F, G, step
    <2> QED
      BY <1>1, <1>10, <1>12, <1>13, <1>15, <1>16, <1>17, <1>18, <1>19, <1>20, <1>21
         DEF Fetched, Q, B
  <1> QED
    BY <1>22

-----------------------------------------------------------------------------
(* Each step keeps what is said of each request *)

\* The requests that are left are as sound as they were.
LEMMA RequestsKept ==
    ASSUME ListInv, requests' \subseteq requests,
           page'.requestId = page.requestId, page'.filters = page.filters,
           browse.valid => browse'.valid, browse.matched \subseteq browse'.matched,
           created' \in Nat, created <= created'
    PROVE  requests' \in SUBSET Request /\ \A q \in requests' : RequestInv(q)'
  <1>1. ASSUME NEW q \in requests'
        PROVE  RequestInv(q)'
    <2>1. q \in requests
      OBVIOUS
    <2>2. /\ SoundRequest(q) /\ q.id <= page.requestId
          /\ \A r \in requests : r.id = q.id => r = q
          /\ current(q) => q.filters = page.filters /\ (q.append => browse.valid)
          /\ \A o \in DOMAIN q.accumulated :
                /\ q.accumulated[o] \in 1..created
                /\ current(q) => q.accumulated[o] \in browse.matched
      BY <2>1, InvParts
    <2>3. \A o \in DOMAIN q.accumulated :
              /\ q.accumulated[o] \in 1..created'
              /\ current(q) => q.accumulated[o] \in browse'.matched
      BY <2>2, ListTypes
    <2>4. SoundRequest(q)'
      BY <2>2 DEF SoundRequest, scanned, ranOut, Enough
    <2> QED
      BY <2>1, <2>2, <2>3, <2>4 DEF RequestInv, current
  <1> QED
    BY <1>1, ListTypes

\* One request goes on, the others are left as they are.
LEMMA RequestGoesOn ==
    ASSUME ListInv, NEW q \in requests, NEW r \in Request,
           requests' = (requests \ {q}) \cup {r}, r.id = q.id, r.filters = q.filters,
           r.append = q.append, SoundRequest(r),
           \A o \in DOMAIN r.accumulated :
              /\ r.accumulated[o] \in 1..created
              /\ current(q) => r.accumulated[o] \in browse.matched,
           page' = page, browse' = browse, created' = created
    PROVE  requests' \in SUBSET Request /\ \A p \in requests' : RequestInv(p)'
  <1>1. ASSUME NEW p \in requests'
        PROVE  RequestInv(p)'
    <2>1. p \in requests \/ p = r
      OBVIOUS
    <2>2. /\ p.id <= page.requestId
          /\ current(p) => p.filters = page.filters /\ (p.append => browse.valid)
      BY <2>1, InvParts DEF current
    <2>3. ASSUME NEW x \in requests', x.id = p.id
          PROVE  x = p
      <3>1. CASE x = r \/ p = r
        <4>1. \A y \in requests : y.id = q.id => y = q
          BY InvParts
        <4> QED
          BY <2>1, <2>3, <3>1, <4>1
      <3>2. CASE x # r /\ p # r
        <4>1. x \in requests /\ p \in requests
          BY <3>2
        <4> QED
          BY <2>3, <4>1, InvParts
      <3> QED
        BY <3>1, <3>2
    <2>4. /\ SoundRequest(p)
          /\ \A o \in DOMAIN p.accumulated :
                /\ p.accumulated[o] \in 1..created
                /\ current(p) => p.accumulated[o] \in browse.matched
      BY <2>1, InvParts DEF current
    <2>5. SoundRequest(p)'
      BY <2>4 DEF SoundRequest, scanned, ranOut, Enough
    <2> QED
      BY <2>2, <2>3, <2>4, <2>5 DEF RequestInv, current
  <1>2. requests' \in SUBSET Request
    BY ListTypes
  <1> QED
    BY <1>1, <1>2

\* A request that starts.
Starts(r, f, append, offset) ==
    /\ r \in Request /\ SoundRequest(r) /\ ~ranOut(r) /\ scanned(r) = offset
    /\ r.id = page.requestId + 1 /\ r.filters = f /\ r.append = append
    /\ r.offset = offset /\ r.accumulated = <<>> /\ r.step = "fetch"

\* The requests of the page do so.
LEMMA NewRequestIs ==
    ASSUME ListInv, NEW f \in Filters, NEW append \in BOOLEAN, NEW offset \in 0..MaxRows,
           page.requestId < MaxRequests, ~append => offset = 0
    PROVE  Starts(NewRequest(f, append, offset), f, append, offset)
  <1> DEFINE r == NewRequest(f, append, offset)
  <1>1. /\ r.id = page.requestId + 1 /\ r.filters = f /\ r.append = append
        /\ r.offset = offset /\ r.accumulated = <<>> /\ r.step = "fetch"
        /\ r.fetch_offset = offset /\ r.last_chunk_len = 0
    BY DEF NewRequest
  <1>2. <<>> \in UNION {[S -> Rows] : S \in SUBSET (0..MaxRows)}
    <2>1. <<>> \in [{} -> Rows]
      OBVIOUS
    <2>2. {} \in SUBSET (0..MaxRows)
      OBVIOUS
    <2> QED
      BY <2>1, <2>2
  <1>3. page.requestId + 1 \in 1..MaxRequests /\ offset \in Nat
    BY ListTypes, ConstantTypes
  <1>4. r \in Request
    <2> DEFINE U == UNION {[S -> Rows] : S \in SUBSET (0..MaxRows)}
    <2>1. Request =
            [ id : 1..MaxRequests, filters : Filters, append : BOOLEAN,
              step : {"fetch", "count", "answered"},
              offset : Nat, fetch_offset : Nat, last_chunk_len : Nat,
              accumulated : U, total : Int ]
      BY DEF Request
    <2>2. <<>> \in U
      BY <1>2
    <2> HIDE DEF U
    <2> QED
      BY <1>3, <2>1, <2>2 DEF NewRequest
  <1> HIDE DEF r
  <1>5. ~ranOut(r)
    BY <1>1 DEF ranOut
  <1>6. scanned(r) = offset
    BY <1>1, <1>3, ConstantTypes DEF scanned
  <1>7. SoundRequest(r)
    BY <1>1, <1>3, <1>5, <1>6, NothingTaken DEF SoundRequest
  <1> QED
    BY <1>1, <1>4, <1>5, <1>6, <1>7 DEF r, Starts

\* A request starts, the others are left as they are: its number is a new one.
LEMMA RequestStarts ==
    ASSUME ListInv, NEW r \in Request, requests' = requests \cup {r},
           r.id = page.requestId + 1, page'.requestId = r.id, r.filters = page'.filters,
           r.append => browse'.valid, SoundRequest(r), r.accumulated = <<>>,
           created' = created
    PROVE  requests' \in SUBSET Request /\ \A p \in requests' : RequestInv(p)'
  <1>1. ASSUME NEW p \in requests'
        PROVE  RequestInv(p)'
    <2>1. p \in requests \/ p = r
      OBVIOUS
    <2>2. page.requestId \in Nat /\ \A x \in requests : x.id \in Nat /\ x.id <= page.requestId
      BY ListTypes, InvParts, RequestTypes
    <2>3. \A x \in requests : x.id # r.id /\ x.id <= r.id /\ x.id # page'.requestId
      BY <2>2
    <2>4. p.id <= page'.requestId
      BY <2>1, <2>2, <2>3
    <2>5. \A x \in requests' : x.id = p.id => x = p
      BY <2>1, <2>3, InvParts
    <2>6. p.id = page'.requestId => p.filters = page'.filters /\ (p.append => browse'.valid)
      BY <2>1, <2>3
    <2>7. /\ SoundRequest(p)
          /\ \A o \in DOMAIN p.accumulated :
                /\ p.accumulated[o] \in 1..created
                /\ p.id = page'.requestId => p.accumulated[o] \in browse'.matched
      BY <2>1, <2>3, InvParts, NothingTaken
    <2>8. SoundRequest(p)'
      BY <2>7 DEF SoundRequest, scanned, ranOut, Enough
    <2> QED
      BY <2>4, <2>5, <2>6, <2>7, <2>8 DEF RequestInv, current
  <1>2. requests' \in SUBSET Request
    BY ListTypes
  <1> QED
    BY <1>1, <1>2

-----------------------------------------------------------------------------
(* An answer is received *)

\* The items are what was found before next_offset, in the order of the offsets.
LEMMA AnswerIs ==
    ASSUME ListInv, NEW q \in requests, q.step = "answered"
    PROVE  LET acc == q.accumulated
               t   == next_offset(q)
           IN
           /\ t \in q.offset..scanned(q) /\ t \in Nat
           /\ items(q) \in Seq(Rows) /\ items(q) \in Seq(0..MaxRows)
           /\ Len(items(q)) = Cardinality(Below(DOMAIN acc, t))
           /\ In(items(q)) = {acc[o] : o \in Below(DOMAIN acc, t)}
           /\ has_more(q) \in BOOLEAN
           /\ ~has_more(q) => ranOut(q) /\ t = scanned(q)
           /\ has_more(q) => t \in DOMAIN acc
           /\ \A i, j \in DOMAIN items(q) : i < j =>
                 \E o, p \in Below(DOMAIN acc, t) :
                     o < p /\ items(q)[i] = acc[o] /\ items(q)[j] = acc[p]
  <1> DEFINE acc == q.accumulated
             D == DOMAIN acc
             t == next_offset(q)
             k == page_length(q)
  <1>1. /\ D \in SUBSET (0..MaxRows) /\ MaxRows \in Nat
        /\ q.offset \in Nat /\ q.fetch_offset \in Nat /\ q.last_chunk_len \in Nat
        /\ scanned(q) \in Nat /\ q.offset <= scanned(q)
        /\ \A o \in D : acc[o] \in Rows /\ acc[o] \in 0..MaxRows
    BY ListTypes, RequestTypes, InvParts, ConstantTypes DEF Rows
  <1>2. \A o \in D : q.offset <= o /\ o < scanned(q) /\ o \in Nat
    BY <1>1, InvParts
  <1>3. Cardinality(D) \in Nat /\ BATCH_SIZE \in Nat
    BY <1>1, Bounded, ConstantTypes
  <1>4. has_more(q) <=> Cardinality(D) > BATCH_SIZE
    BY DEF has_more, Enough
  <1>5. ASSUME has_more(q)
        PROVE  /\ k = BATCH_SIZE /\ k < Cardinality(D) /\ t = Nth(D, k + 1) /\ t \in D
    <2>1. k = BATCH_SIZE /\ t = Nth(D, BATCH_SIZE + 1)
      BY <1>5 DEF page_length, next_offset
    <2>2. BATCH_SIZE + 1 \in 1..Cardinality(D)
      BY <1>3, <1>4, <1>5
    <2>3. Nth(D, BATCH_SIZE + 1) \in D
      BY <1>1, <2>2, NthOf
    <2> QED
      BY <1>4, <1>5, <2>1, <2>3
  <1>6. ASSUME ~has_more(q)
        PROVE  /\ k = Cardinality(D) /\ ranOut(q) /\ t = scanned(q)
               /\ \A o \in D : o < t
    <2>1. ranOut(q)
      BY <1>6 DEF ranOut, has_more
    <2>2. q.last_chunk_len <= BATCH_SIZE
      BY <2>1, InvParts DEF SoundRequest
    <2>3. scanned(q) = q.fetch_offset + q.last_chunk_len
      BY <1>1, <1>3, <2>2 DEF scanned
    <2>4. k = Cardinality(D) /\ t = q.fetch_offset + q.last_chunk_len
      BY <1>6 DEF page_length, next_offset
    <2> QED
      BY <1>2, <2>1, <2>3, <2>4
  <1>7. t \in q.offset..scanned(q) /\ t \in Nat /\ k \in Nat /\ k <= Cardinality(D)
    <2>1. CASE has_more(q)
      BY <1>1, <1>2, <1>3, <1>5, <2>1
    <2>2. CASE ~has_more(q)
      BY <1>1, <1>3, <1>6, <2>2
    <2> QED
      BY <2>1, <2>2
  <1>8. /\ k < Cardinality(D) => t = Nth(D, k + 1)
        /\ k = Cardinality(D) => \A o \in D : o < t
    <2>1. CASE has_more(q)
      BY <1>3, <1>5, <2>1
    <2>2. CASE ~has_more(q)
      BY <1>3, <1>6, <2>2
    <2> QED
      BY <2>1, <2>2
  <1>9. items(q) = FirstItems(acc, k)
    BY DEF items, FirstItems
  <1> HIDE DEF acc, t, k
  <1>10. /\ IsPage(FirstItems(acc, k), acc, k, t, Rows)
         /\ IsPage(FirstItems(acc, k), acc, k, t, 0..MaxRows)
    BY <1>1, <1>7, <1>8, ItemsAre
  <1>11. /\ items(q) \in Seq(Rows)
         /\ Len(items(q)) = k /\ Cardinality(Below(D, t)) = k
         /\ In(items(q)) = {acc[o] : o \in Below(D, t)}
         /\ DOMAIN items(q) = 1..k
         /\ \A i, j \in 1..k : i < j =>
               /\ Nth(D, i) \in Below(D, t) /\ Nth(D, j) \in Below(D, t)
               /\ Nth(D, i) < Nth(D, j)
               /\ items(q)[i] = acc[Nth(D, i)] /\ items(q)[j] = acc[Nth(D, j)]
    BY <1>9, <1>10 DEF IsPage
  <1> HIDE DEF D
  <1>12. \A i, j \in DOMAIN items(q) : i < j =>
             \E o, p \in Below(D, t) : o < p /\ items(q)[i] = acc[o] /\ items(q)[j] = acc[p]
    BY <1>11
  <1>13. items(q) \in Seq(0..MaxRows)
    BY <1>9, <1>10 DEF IsPage
  <1>14. has_more(q) \in BOOLEAN
    BY DEF has_more, Enough
  <1>15. ~has_more(q) => ranOut(q) /\ t = scanned(q)
    BY <1>6
  <1>16. has_more(q) => t \in D
    BY <1>5
  <1> QED
    BY <1>7, <1>11, <1>13, <1>12, <1>14, <1>15, <1>16 DEF acc, D, t

\* The list with the answer is what was taken.
LEMMA ShownIs ==
    ASSUME ListInv, NEW q \in requests, receive(q), current(q)
    PROVE  LET t == next_offset(q) IN
           /\ page' = [page EXCEPT !.shown = page'.shown,
                           !.total = IF q.append THEN page.total ELSE q.total,
                           !.hasMore = has_more(q), !.nextOffset = t,
                           !.loading = FALSE, !.loadingMore = FALSE]
           /\ page'.shown \in Seq(Rows) /\ page'.shown \in Seq(0..MaxRows)
           /\ In(page'.shown) = Taken(base(q), q.accumulated, t)
           /\ Len(page'.shown) = Len(base(q)) + Cardinality(Below(DOMAIN q.accumulated, t))
           /\ page'.shown = IF q.append THEN page.shown \o items(q) ELSE items(q)
  <1> DEFINE u == items(q)
             s == page.shown
             acc == q.accumulated
             t == next_offset(q)
             w == IF q.append THEN s \o u ELSE u
  <1>1. page \in Page
    BY ListTypes
  <1>2. page' = [page EXCEPT !.shown = w, !.total = IF q.append THEN page.total ELSE q.total,
                             !.hasMore = has_more(q), !.nextOffset = t,
                             !.loading = FALSE, !.loadingMore = FALSE]
    BY DEF receive
  <1>3. page'.shown = w
    BY <1>1, <1>2 DEF Page
  <1>4. /\ s \in Seq(Rows) /\ s \in Seq(0..MaxRows)
        /\ u \in Seq(Rows) /\ u \in Seq(0..MaxRows)
        /\ Len(u) = Cardinality(Below(DOMAIN acc, t))
        /\ In(u) = {acc[o] : o \in Below(DOMAIN acc, t)}
    BY ListTypes, AnswerIs DEF receive
  <1> HIDE DEF u, s, acc, t
  <1>5. /\ s \o u \in Seq(Rows) /\ s \o u \in Seq(0..MaxRows)
        /\ Len(s \o u) = Len(s) + Len(u) /\ In(s \o u) = In(s) \cup In(u)
        /\ In(<<>>) = {}
    BY <1>4, InConcat
  <1>6. Len(u) \in Nat /\ Len(<<>>) = 0
    BY <1>4
  <1>7. /\ w \in Seq(Rows) /\ w \in Seq(0..MaxRows)
        /\ In(w) = Taken(base(q), acc, t)
        /\ Len(w) = Len(base(q)) + Cardinality(Below(DOMAIN acc, t))
    <2>1. CASE q.append
      <3>1. base(q) = s /\ w = s \o u
        BY <2>1 DEF base, s
      <3> QED
        BY <1>4, <1>5, <3>1 DEF Taken
    <2>2. CASE ~q.append
      <3>1. base(q) = <<>> /\ w = u
        BY <2>2 DEF base
      <3>2. In(w) = Taken(base(q), acc, t)
        BY <1>4, <1>5, <3>1 DEF Taken
      <3>3. Len(w) = Len(base(q)) + Cardinality(Below(DOMAIN acc, t))
        BY <1>4, <1>6, <3>1
      <3> QED
        BY <1>4, <3>1, <3>2, <3>3
    <2> QED
      BY <2>1, <2>2
  <1> HIDE DEF w
  <1> QED
    BY <1>2, <1>3, <1>7 DEF w, u, s, acc, t

-----------------------------------------------------------------------------
(* ListInv is kept by each action *)

\* Other filters: the requests in progress are no longer current.
LEMMA ListSelect ==
    ASSUME ListInv, NEW f \in Filters, select_filters(f)
    PROVE  ListInv'
  <1> DEFINE r == NewRequest(f, FALSE, 0)
             b == NewBrowse(f)
             p == [page EXCEPT !.filters = f, !.loading = TRUE, !.hasMore = FALSE,
                               !.nextOffset = 0, !.requestId = @ + 1]
  <1>1. /\ page.requestId < MaxRequests /\ page' = p /\ requests' = requests \cup {r}
        /\ browse' = b /\ rows' = rows /\ matching' = matching
        /\ created' = created /\ tabled' = tabled
        /\ changes' = changes /\ deleting' = deleting
    BY DEF select_filters, dbVars
  <1>2. /\ r \in Request /\ SoundRequest(r)
        /\ r.id = page.requestId + 1 /\ r.filters = f /\ r.append = FALSE
        /\ r.accumulated = <<>>
    <2>1. 0 \in 0..MaxRows /\ FALSE \in BOOLEAN
      BY ConstantTypes
    <2>2. Starts(r, f, FALSE, 0)
      BY <1>1, <2>1, NewRequestIs
    <2> HIDE DEF r
    <2> QED
      BY <2>2 DEF Starts
  <1>3. /\ p \in Page /\ p.filters = f /\ ~p.hasMore /\ p.requestId = page.requestId + 1
        /\ p.shown = page.shown
    <2>1. page \in Page /\ page.requestId + 1 \in 1..MaxRequests
      BY <1>1, ListTypes, ConstantTypes
    <2>2. 0 \in 0..MaxRows
      BY ConstantTypes
    <2> QED
      BY <2>1, <2>2 DEF Page
  <1>4. /\ b \in Browse /\ b.steady = Listed(f) /\ b.matched = Query(f) /\ ~b.valid
        /\ (deleting # 0 => b.removed > 0)
    <2>1. Listed(f) \in SUBSET Rows /\ Query(f) \in SUBSET Rows
      BY ListTypes DEF Rows
    <2> QED
      BY <2>1 DEF NewBrowse, Browse
  <1> HIDE DEF r, b, p
  <1>5. requests' \in SUBSET Request /\ \A q \in requests' : RequestInv(q)'
    BY <1>1, <1>2, <1>3, RequestStarts
  <1>6. ListingTypeOK'
    BY <1>1, <1>3, <1>4, <1>5 DEF ListInv, ListingTypeOK
  <1>7. Listed(f)' = Listed(f) /\ Query(f)' = Query(f)
    BY <1>1 DEF Listed, Query
  <1>8. Listed(page.filters)' = Listed(f) /\ Query(page.filters)' = Query(f)
    BY <1>1, <1>3, <1>7 DEF Listed, Query
  <1> QED
    BY <1>1, <1>3, <1>4, <1>5, <1>6, <1>8 DEF ListInv

\* The next page.
LEMMA ListMore ==
    ASSUME ListInv, loadMore
    PROVE  ListInv'
  <1> DEFINE r == NewRequest(page.filters, TRUE, page.nextOffset)
             p == [page EXCEPT !.loadingMore = TRUE, !.requestId = @ + 1]
  <1>1. /\ page.requestId < MaxRequests /\ page' = p /\ requests' = requests \cup {r}
        /\ browse' = browse /\ rows' = rows /\ matching' = matching
        /\ created' = created /\ tabled' = tabled
        /\ changes' = changes /\ deleting' = deleting /\ page.hasMore
    BY DEF loadMore, dbVars
  <1>2. /\ r \in Request /\ SoundRequest(r)
        /\ r.id = page.requestId + 1 /\ r.filters = page.filters
        /\ r.accumulated = <<>>
    <2>1. Starts(r, page.filters, TRUE, page.nextOffset)
      BY <1>1, ListTypes, NewRequestIs
    <2> HIDE DEF r
    <2> QED
      BY <2>1 DEF Starts
  <1>3. /\ p \in Page /\ p.filters = page.filters /\ p.hasMore = page.hasMore
        /\ p.requestId = page.requestId + 1 /\ p.shown = page.shown /\ p.loading = page.loading
    <2>1. page \in Page /\ page.requestId + 1 \in 1..MaxRequests
      BY <1>1, ListTypes, ConstantTypes
    <2> QED
      BY <2>1 DEF Page
  <1> HIDE DEF r, p
  <1>4. browse.valid
    BY <1>1 DEF ListInv
  <1>5. requests' \in SUBSET Request /\ \A q \in requests' : RequestInv(q)'
    BY <1>1, <1>2, <1>3, <1>4, RequestStarts
  <1>6. ListingTypeOK'
    BY <1>1, <1>3, <1>5 DEF ListInv, ListingTypeOK
  <1>7. /\ Listed(page.filters)' = Listed(page.filters)
        /\ Query(page.filters)' = Query(page.filters)
    BY <1>1, <1>3 DEF Listed, Query
  <1> QED
    BY <1>1, <1>3, <1>5, <1>6, <1>7 DEF ListInv

\* A step that leaves everything but the requests.
LEMMA ListRequests ==
    ASSUME ListInv, UNCHANGED <<dbVars, page, deleting, browse>>,
           requests' \in SUBSET Request, \A q \in requests' : RequestInv(q)'
    PROVE  ListInv'
  <1>1. /\ rows' = rows /\ matching' = matching
        /\ created' = created /\ tabled' = tabled /\ changes' = changes
        /\ page' = page /\ deleting' = deleting /\ browse' = browse
    BY DEF dbVars
  <1>2. ListingTypeOK'
    BY <1>1 DEF ListInv, ListingTypeOK
  <1>3. /\ Listed(page.filters)' = Listed(page.filters)
        /\ Query(page.filters)' = Query(page.filters)
    BY <1>1 DEF Listed, Query
  <1> QED
    BY <1>1, <1>2, <1>3 DEF ListInv

\* A chunk: what it adds is found by the filter and was created.
LEMMA ListFetch ==
    ASSUME ListInv, NEW q \in requests, fetch_chunk(q)
    PROVE  ListInv'
  <1>1. PICK r, X : Fetched(q, r, X)
    BY FetchedIs
  <1> DEFINE Q == Query(q.filters)
  <1>2. /\ requests' = (requests \ {q}) \cup {r} /\ r \in Request
        /\ r.id = q.id /\ r.filters = q.filters /\ r.append = q.append
        /\ r.offset = q.offset /\ X \in SUBSET Listed(q.filters)
        /\ Adds(q.accumulated, r.accumulated, Q, X, scanned(q))
        /\ scanned(q) <= scanned(r) /\ scanned(r) <= MaxRows /\ q.offset <= r.fetch_offset
        /\ \A n \in X : Off(Q, n) < scanned(r)
        /\ ranOut(r) => r.last_chunk_len <= BATCH_SIZE
        /\ r.step = "fetch" => r.last_chunk_len = BATCH_SIZE + 1
    BY <1>1 DEF Fetched
  <1>3. /\ q.filters \in Filters /\ q.offset \in Nat /\ scanned(q) \in Nat
        /\ scanned(r) \in Nat /\ DOMAIN q.accumulated \in SUBSET (0..MaxRows)
    BY <1>2, ListTypes, RequestTypes
  <1>4. /\ Q \in SUBSET (0..MaxRows) /\ Q \subseteq 1..created /\ X \subseteq Q
        /\ current(q) => Q \subseteq browse.matched
    <2>1. current(q) => q.filters = page.filters
      BY InvParts
    <2>2. Query(page.filters) \subseteq browse.matched
      BY DEF ListInv
    <2> QED
      BY <1>2, <1>3, <2>1, <2>2, ListTypes
  <1>5. \A o \in DOMAIN q.accumulated :
            /\ q.accumulated[o] \in 1..created
            /\ current(q) => q.accumulated[o] \in browse.matched
            /\ q.offset <= o /\ o < scanned(q) /\ o \in Nat
    BY <1>3, InvParts
  <1>6. \A n \in X : Off(Q, n) \in Nat
    BY <1>4, ConstantTypes, RankNat
  <1> HIDE DEF Q
  <1>7. /\ \A o : o \in DOMAIN r.accumulated <=>
                 o \in DOMAIN q.accumulated \/ \E n \in X : o = Off(Q, n)
        /\ \A o \in DOMAIN q.accumulated : r.accumulated[o] = q.accumulated[o]
        /\ \A n \in X : scanned(q) <= Off(Q, n) /\ r.accumulated[Off(Q, n)] = n
    BY <1>2, AddsIs
  <1>8. q.offset <= scanned(q)
    BY InvParts
  <1>9. ASSUME NEW o \in DOMAIN r.accumulated
        PROVE  /\ q.offset <= o /\ o < scanned(r)
               /\ r.accumulated[o] \in 1..created
               /\ current(q) => r.accumulated[o] \in browse.matched
    <2>1. CASE o \in DOMAIN q.accumulated
      BY <1>2, <1>3, <1>5, <1>7, <2>1
    <2>2. CASE \E n \in X : o = Off(Q, n)
      <3>1. PICK n \in X : o = Off(Q, n)
        BY <2>2
      <3>2. q.offset <= o /\ o < scanned(r)
        BY <1>2, <1>3, <1>6, <1>7, <1>8, <3>1
      <3>3. r.accumulated[o] = n /\ n \in 1..created /\ (current(q) => n \in browse.matched)
        BY <1>4, <1>7, <3>1
      <3> QED
        BY <3>2, <3>3
    <2> QED
      BY <1>7, <2>1, <2>2
  <1>10. SoundRequest(r)
    <2>1. ~q.append => q.offset = 0
      BY InvParts DEF SoundRequest
    <2> QED
      BY <1>2, <1>9, <2>1 DEF SoundRequest
  <1>11. UNCHANGED <<dbVars, page, deleting, browse>>
    BY DEF fetch_chunk
  <1>12. page' = page /\ browse' = browse /\ created' = created
    BY <1>11 DEF dbVars
  <1>13. requests' \in SUBSET Request /\ \A p \in requests' : RequestInv(p)'
    BY <1>2, <1>9, <1>10, <1>12, RequestGoesOn
  <1> QED
    BY <1>11, <1>13, ListRequests

\* What count_listed makes of a request.
LEMMA CountedIs ==
    ASSUME ListInv, NEW q \in requests, count_listed(q)
    PROVE  \E r \in Request :
              /\ requests' = (requests \ {q}) \cup {r}
              /\ r.id = q.id /\ r.filters = q.filters /\ r.append = q.append
              /\ r.offset = q.offset /\ r.accumulated = q.accumulated
              /\ scanned(r) = scanned(q) /\ ranOut(r) = ranOut(q) /\ SoundRequest(r)
              /\ r.total = Cardinality(Listed(q.filters))
  <1> DEFINE r == [q EXCEPT !.step = "answered", !.total = Cardinality(Listed(q.filters))]
  <1>1. q \in Request /\ SoundRequest(q)
    BY ListTypes, InvParts
  <1>2. requests' = (requests \ {q}) \cup {r} /\ q.step = "count"
    BY DEF count_listed, Step
  <1>3. Cardinality(Listed(q.filters)) \in Nat
    <2>1. Query(q.filters) \in SUBSET (0..MaxRows)
          /\ Listed(q.filters) \in SUBSET Query(q.filters)
      BY <1>1, ListTypes, RequestTypes
    <2> QED
      BY <2>1, Bounded, ConstantTypes
  <1>4. /\ r \in Request
        /\ r.id = q.id /\ r.filters = q.filters /\ r.append = q.append
        /\ r.offset = q.offset /\ r.accumulated = q.accumulated
        /\ r.fetch_offset = q.fetch_offset /\ r.last_chunk_len = q.last_chunk_len
        /\ r.step = "answered" /\ r.total = Cardinality(Listed(q.filters))
    <2> DEFINE U == UNION {[S -> Rows] : S \in SUBSET (0..MaxRows)}
    <2>1. Request =
            [ id : 1..MaxRequests, filters : Filters, append : BOOLEAN,
              step : {"fetch", "count", "answered"},
              offset : Nat, fetch_offset : Nat, last_chunk_len : Nat,
              accumulated : U, total : Int ]
      BY DEF Request
    <2> DEFINE c == Cardinality(Listed(q.filters))
    <2>2. c \in Int
      BY <1>3
    <2> HIDE DEF U, c
    <2>3. r = [q EXCEPT !.step = "answered", !.total = c]
      BY DEF c
    <2> HIDE DEF r
    <2>4. /\ r \in Request /\ r.total = c
          /\ r.id = q.id /\ r.filters = q.filters /\ r.append = q.append
          /\ r.offset = q.offset /\ r.accumulated = q.accumulated
          /\ r.fetch_offset = q.fetch_offset /\ r.last_chunk_len = q.last_chunk_len
          /\ r.step = "answered"
      BY <1>1, <2>1, <2>2, <2>3
    <2> QED
      BY <2>4 DEF c
  <1> HIDE DEF r
  <1>5. scanned(r) = scanned(q) /\ ranOut(r) = ranOut(q)
    BY <1>2, <1>4 DEF scanned, ranOut
  <1>6. SoundRequest(r)
    BY <1>1, <1>4, <1>5 DEF SoundRequest
  <1> QED
    BY <1>2, <1>4, <1>5, <1>6

\* The total.
LEMMA ListCount ==
    ASSUME ListInv, NEW q \in requests, count_listed(q)
    PROVE  ListInv'
  <1>1. PICK r \in Request :
            /\ requests' = (requests \ {q}) \cup {r}
            /\ r.id = q.id /\ r.filters = q.filters /\ r.append = q.append
            /\ r.accumulated = q.accumulated /\ SoundRequest(r)
    BY CountedIs
  <1>2. UNCHANGED <<dbVars, page, deleting, browse>>
    BY DEF count_listed
  <1>3. page' = page /\ browse' = browse /\ created' = created
    BY <1>2 DEF dbVars
  <1>4. \A o \in DOMAIN r.accumulated :
            /\ r.accumulated[o] \in 1..created
            /\ current(q) => r.accumulated[o] \in browse.matched
    BY <1>1, InvParts
  <1>5. requests' \in SUBSET Request /\ \A p \in requests' : RequestInv(p)'
    BY <1>1, <1>3, <1>4, RequestGoesOn
  <1> QED
    BY <1>2, <1>5, ListRequests

\* An answer: the list holds what the request found, which the filter let through.
LEMMA ListReceive ==
    ASSUME ListInv, NEW q \in requests, receive(q)
    PROVE  ListInv'
  <1>1. /\ rows' = rows /\ matching' = matching /\ created' = created /\ tabled' = tabled
        /\ changes' = changes /\ deleting' = deleting
        /\ requests' = requests \ {q} /\ q.step = "answered"
    BY DEF receive, dbVars
  <1>2. CASE ~current(q)
    <2>1. UNCHANGED <<dbVars, page, deleting, browse>>
      BY <1>1, <1>2 DEF receive, dbVars
    <2>2. page' = page /\ browse' = browse
      BY <2>1
    <2>3. requests' \in SUBSET Request /\ \A p \in requests' : RequestInv(p)'
      BY <1>1, <2>2, ListTypes, RequestsKept
    <2> QED
      BY <2>1, <2>3, ListRequests
  <1>3. CASE current(q)
    <2> DEFINE u == page'.shown
               t == next_offset(q)
               total == IF q.append THEN page.total ELSE q.total
    <2>1. page' = [page EXCEPT !.shown = u, !.total = total,
                               !.hasMore = has_more(q), !.nextOffset = t,
                               !.loading = FALSE, !.loadingMore = FALSE]
      BY <1>3, ShownIs
    <2>2. /\ u \in Seq(Rows) /\ In(u) = Taken(base(q), q.accumulated, t)
      BY <1>3, ShownIs
    <2>3. browse' = [browse EXCEPT !.valid = TRUE]
      BY <1>3 DEF receive
    <2>4. browse' \in Browse /\ browse'.valid /\ browse'.steady = browse.steady
          /\ browse'.removed = browse.removed /\ browse'.matched = browse.matched
      BY <2>3, ListTypes DEF Browse
    <2>5. t \in 0..MaxRows /\ has_more(q) \in BOOLEAN /\ total \in Int
      <3>1. t \in q.offset..scanned(q) /\ t \in Nat /\ has_more(q) \in BOOLEAN
        BY <1>1, AnswerIs
      <3>2. q.offset \in Nat /\ scanned(q) \in Nat /\ scanned(q) <= MaxRows /\ q.total \in Int
        BY ListTypes, RequestTypes, InvParts
      <3> QED
        BY <3>1, <3>2, ConstantTypes, ListTypes
    <2> HIDE DEF t, total, u
    <2>6. /\ page' \in Page /\ page'.filters = page.filters
          /\ page'.requestId = page.requestId /\ ~page'.loading
      <3>1. page \in Page
        BY ListTypes
      <3> QED
        BY <2>1, <2>2, <2>5, <3>1 DEF Page
    <2>7. requests' \in SUBSET Request /\ \A p \in requests' : RequestInv(p)'
      BY <1>1, <2>4, <2>6, ListTypes, RequestsKept
    <2>8. In(u) \subseteq browse.matched /\ In(u) \subseteq 1..created
      <3>1. q.filters = page.filters /\ (q.append => browse.valid)
        BY <1>3, InvParts
      <3>2. \A o \in DOMAIN q.accumulated :
                q.accumulated[o] \in 1..created /\ q.accumulated[o] \in browse.matched
        BY <1>3, InvParts
      <3>3. In(base(q)) \subseteq browse.matched /\ In(base(q)) \subseteq 1..created
        <4>1. CASE q.append
          BY <3>1, <4>1 DEF base, ListInv
        <4>2. CASE ~q.append
          BY <4>2, NothingTaken DEF base
        <4> QED
          BY <4>1, <4>2
      <3>4. \A o \in Below(DOMAIN q.accumulated, t) :
                q.accumulated[o] \in 1..created /\ q.accumulated[o] \in browse.matched
        BY <3>2, BelowIs
      <3> QED
        BY <2>2, <3>3, <3>4 DEF Taken
    <2>9. ListingTypeOK'
      BY <1>1, <2>4, <2>6, <2>7 DEF ListInv, ListingTypeOK
    <2>10. /\ Listed(page.filters)' = Listed(page.filters)
        /\ Query(page.filters)' = Query(page.filters)
      BY <1>1, <2>6 DEF Listed, Query
    <2>11. In(page.shown)' = In(u)
      BY DEF u
    <2> QED
      BY <1>1, <2>4, <2>6, <2>7, <2>8, <2>9, <2>10, <2>11 DEF ListInv
  <1> QED
    BY <1>2, <1>3

\* A failed request.
LEMMA ListFail ==
    ASSUME ListInv, NEW q \in requests, fail(q)
    PROVE  ListInv'
  <1>1. /\ rows' = rows /\ matching' = matching /\ created' = created /\ tabled' = tabled
        /\ changes' = changes /\ deleting' = deleting /\ browse' = browse
        /\ requests' = requests \ {q}
        /\ page' = page \/ page' = [page EXCEPT !.loading = FALSE, !.loadingMore = FALSE]
    BY DEF fail, dbVars
  <1>2. /\ page' \in Page /\ page'.filters = page.filters
        /\ page'.requestId = page.requestId /\ page'.shown = page.shown
        /\ page'.hasMore = page.hasMore /\ (~page.loading => ~page'.loading)
    <2>1. page \in Page
      BY ListTypes
    <2> QED
      BY <1>1, <2>1 DEF Page
  <1>3. requests' \in SUBSET Request /\ \A p \in requests' : RequestInv(p)'
    BY <1>1, <1>2, ListTypes, RequestsKept
  <1>4. ListingTypeOK'
    BY <1>1, <1>2, <1>3 DEF ListInv, ListingTypeOK
  <1>5. /\ Listed(page.filters)' = Listed(page.filters)
        /\ Query(page.filters)' = Query(page.filters)
    BY <1>1, <1>2 DEF Listed, Query
  <1> QED
    BY <1>1, <1>2, <1>3, <1>4, <1>5 DEF ListInv

\* A dataset is created: the filters may let it through, and the page may list it.
LEMMA ListCreate ==
    ASSUME ListInv, NEW listed \in BOOLEAN, create_dataset(listed)
    PROVE  ListInv'
  <1> DEFINE n == created + 1
             new == browse.matched \cup ({n} \cap matching[page.filters])
             add == browse.added + 1
  <1>1. /\ rows' = rows \cup {n} /\ created' = n /\ matching' = matching
        /\ tabled' = tabled \/ tabled' = tabled \cup {n}
        /\ changes' \in 0..MaxChanges /\ deleting' = deleting /\ requests' = requests
        /\ page' = page /\ browse' = [browse EXCEPT !.added = add, !.matched = new]
        /\ created < MaxRows
    <2>1. changes < MaxChanges /\ changes' = changes + 1 /\ changes \in 0..MaxChanges
          /\ MaxChanges \in Nat
      BY ListTypes, ListingAssumption DEF create_dataset, Change
    <2>2. changes' \in 0..MaxChanges
      BY <2>1
    <2> QED
      BY <2>2 DEF create_dataset
  <1>2. created \in Nat /\ n \in 0..MaxRows /\ n \in Rows /\ n \in Nat /\ created <= n
        /\ 1..created \subseteq 1..n /\ n \in 1..n
    <2>1. created \in Nat /\ n \in 0..MaxRows /\ n \in Rows /\ n \in Nat /\ created <= n
      BY <1>1, ListTypes, ConstantTypes DEF Rows
    <2> QED
      BY <2>1
  <1> HIDE DEF n
  <1>3. new \in SUBSET Rows /\ add \in Nat /\ browse.matched \subseteq new
        /\ \A m \in matching[page.filters] : m \in rows \/ m = n => m \in new
    <2>1. \A m \in rows : m \in matching[page.filters] => m \in browse.matched
      BY DEF ListInv, Query
    <2> QED
      BY <1>2, <2>1, ListTypes
  <1> HIDE DEF new, add
  <1>4. /\ browse' \in Browse /\ browse'.valid = browse.valid /\ browse'.steady = browse.steady
        /\ browse'.removed = browse.removed /\ browse'.matched = new
    <2>1. browse \in Browse
      BY ListTypes
    <2> QED
      BY <1>1, <1>3, <2>1 DEF Browse
  <1>5. requests' \in SUBSET Request /\ \A p \in requests' : RequestInv(p)'
    BY <1>1, <1>2, <1>3, <1>4, RequestsKept
  <1>6. rows' \subseteq 1..n /\ tabled' \subseteq Rows /\ tabled' \subseteq rows'
    BY <1>1, <1>2, ListTypes DEF ListInv
  <1>7. ListingTypeOK'
    BY <1>1, <1>2, <1>4, <1>5, <1>6 DEF ListInv, ListingTypeOK
  <1>8. /\ Listed(page.filters) \subseteq Listed(page.filters)'
        /\ Query(page.filters)' \subseteq new
    BY <1>1, <1>3 DEF Listed, Query
  <1>9. deleting <= n /\ (deleting # 0 => deleting \notin rows')
    <2>1. /\ deleting \in Nat /\ deleting <= created
          /\ deleting # 0 => deleting \notin rows
      BY ListTypes, ConstantTypes DEF ListInv
    <2>2. deleting # n
      BY <1>2, <2>1 DEF n
    <2> QED
      BY <1>1, <1>2, <2>1, <2>2
  <1>10. /\ In(page.shown) \subseteq 1..n
         /\ browse.valid => In(page.shown) \subseteq browse.matched
    BY <1>2 DEF ListInv
  <1> QED
    BY <1>1, <1>2, <1>3, <1>4, <1>5, <1>6, <1>7, <1>8, <1>9, <1>10 DEF ListInv

\* What edit_dataset does to the query of the list: it leaves it, takes the row from it
\* or brings it to it.
Edited(n, f) ==
    /\ n \in rows /\ rows' = rows /\ created' = created /\ tabled' = tabled
    /\ page' = page /\ requests' = requests /\ deleting' = deleting
    /\ changes' \in 0..MaxChanges /\ matching' \in [Filters -> SUBSET Rows]
    /\ \/ Query(f)' = Query(f) /\ browse' = browse
       \/ /\ Query(f)' = Query(f) \ {n}
          /\ \E st, rem : /\ st = browse.steady \ {n} /\ rem = browse.removed + 1
                          /\ browse' = [browse EXCEPT !.removed = rem, !.steady = st]
       \/ /\ Query(f)' = Query(f) \cup {n}
          /\ \E new, add : /\ new = browse.matched \cup {n} /\ add = browse.added + 1
                           /\ browse' = [browse EXCEPT !.added = add, !.matched = new]

\* edit_dataset does so.
LEMMA EditIs ==
    ASSUME ListInv, NEW n \in Rows, NEW S \in SUBSET Filters, edit_dataset(n, S)
    PROVE  Edited(n, page.filters)
  <1> DEFINE f == page.filters
  <1>1. /\ n \in rows /\ rows' = rows /\ created' = created /\ tabled' = tabled
        /\ page' = page /\ requests' = requests /\ deleting' = deleting
        /\ matching' = [g \in Filters |-> IF g \in S THEN matching[g] \cup {n}
                                                     ELSE matching[g] \ {n}]
    BY DEF edit_dataset
  <1>2. changes' \in 0..MaxChanges
    <2>1. changes < MaxChanges /\ changes' = changes + 1 /\ changes \in 0..MaxChanges
          /\ MaxChanges \in Nat
      BY ListTypes, ListingAssumption DEF edit_dataset, Change
    <2> QED
      BY <2>1
  <1>3. matching' \in [Filters -> SUBSET Rows]
    <2>1. \A g \in Filters : matching[g] \in SUBSET Rows
      BY ListTypes
    <2>2. \A g \in Filters : (IF g \in S THEN matching[g] \cup {n}
                                         ELSE matching[g] \ {n}) \in SUBSET Rows
      BY <2>1
    <2> QED
      BY <1>1, <2>2
  <1>4. f \in Filters
    BY ListTypes
  <1>5. matching'[f] = IF f \in S THEN matching[f] \cup {n} ELSE matching[f] \ {n}
    BY <1>1, <1>4
  <1>6. Query(f)' = rows \cap matching'[f] /\ Query(f) = rows \cap matching[f]
    BY <1>1 DEF Query
  <1> HIDE DEF f
  <1>7. CASE (n \in matching[f] <=> f \in S) /\ browse' = browse
    <2>1. \A m : m \in Query(f)' <=> m \in Query(f)
      BY <1>5, <1>6, <1>7
    <2>2. Query(f)' = Query(f)
      BY <2>1
    <2> QED
      BY <1>1, <1>2, <1>3, <1>7, <2>2 DEF Edited, f
  <1>8. CASE /\ f \notin S
             /\ browse' = [browse EXCEPT !.removed = @ + 1, !.steady = @ \ {n}]
    <2>1. Query(f)' = Query(f) \ {n}
      BY <1>5, <1>6, <1>8
    <2> QED
      BY <1>1, <1>2, <1>3, <1>8, <2>1 DEF Edited, f
  <1>9. CASE /\ f \in S
             /\ browse' = [browse EXCEPT !.added = @ + 1, !.matched = @ \cup {n}]
    <2>1. Query(f)' = Query(f) \cup {n}
      BY <1>1, <1>5, <1>6, <1>9
    <2> QED
      BY <1>1, <1>2, <1>3, <1>9, <2>1 DEF Edited, f
  <1> QED
    BY <1>7, <1>8, <1>9 DEF edit_dataset, f

\* What follows of it for the invariant.
EditedList(f) ==
    /\ browse' \in Browse /\ browse'.valid = browse.valid
    /\ browse.removed > 0 => browse'.removed > 0
    /\ browse.matched \subseteq browse'.matched
    /\ Query(f)' \subseteq browse'.matched
    /\ browse'.steady \subseteq Query(f)' /\ browse'.steady \subseteq browse.steady

\* An edited dataset.
LEMMA ListEdit ==
    ASSUME ListInv, NEW n \in Rows, NEW S \in SUBSET Filters, edit_dataset(n, S)
    PROVE  ListInv'
  <1> DEFINE f == page.filters
  <1>1. /\ n \in rows /\ rows' = rows /\ created' = created /\ tabled' = tabled
        /\ page' = page /\ requests' = requests /\ deleting' = deleting
        /\ changes' \in 0..MaxChanges /\ matching' \in [Filters -> SUBSET Rows]
    BY EditIs DEF Edited
  <1>2. browse \in Browse
    BY ListTypes
  <1>3. EditedList(f)
    <2>1. Query(f) \subseteq browse.matched /\ browse.steady \subseteq Query(f)
      BY ListTypes DEF ListInv
    <2>2. CASE Query(f)' = Query(f) /\ browse' = browse
      BY <1>2, <2>1, <2>2 DEF EditedList
    <2>3. ASSUME NEW st, NEW rem, st = browse.steady \ {n}, rem = browse.removed + 1,
                 Query(f)' = Query(f) \ {n},
                 browse' = [browse EXCEPT !.removed = rem, !.steady = st]
          PROVE  EditedList(f)
      <3>1. rem \in Nat /\ rem > 0 /\ st \in SUBSET Rows
        BY <2>3, ListTypes
      <3>2. /\ browse' \in Browse /\ browse'.valid = browse.valid /\ browse'.steady = st
            /\ browse'.removed = rem /\ browse'.matched = browse.matched
        BY <1>2, <2>3, <3>1 DEF Browse
      <3> QED
        BY <2>1, <2>3, <3>1, <3>2, ListTypes DEF EditedList
    <2>4. ASSUME NEW new, NEW add, new = browse.matched \cup {n}, add = browse.added + 1,
                 Query(f)' = Query(f) \cup {n},
                 browse' = [browse EXCEPT !.added = add, !.matched = new]
          PROVE  EditedList(f)
      <3>1. add \in Nat /\ new \in SUBSET Rows
        BY <2>4, ListTypes
      <3>2. /\ browse' \in Browse /\ browse'.valid = browse.valid
            /\ browse'.steady = browse.steady
            /\ browse'.removed = browse.removed /\ browse'.matched = new
        BY <1>2, <2>4, <3>1 DEF Browse
      <3> QED
        BY <2>1, <2>4, <3>1, <3>2 DEF EditedList
    <2> QED
      BY <2>2, <2>3, <2>4, EditIs DEF Edited
  <1>4. requests' \in SUBSET Request /\ \A p \in requests' : RequestInv(p)'
    BY <1>1, <1>3, ListTypes, RequestsKept DEF EditedList
  <1>5. ListingTypeOK'
    BY <1>1, <1>3, <1>4 DEF ListInv, ListingTypeOK, EditedList
  <1>6. /\ Query(page.filters)' \subseteq browse'.matched
        /\ browse'.steady \subseteq Listed(page.filters)'
    <2>1. Listed(f)' = Query(f)' \cap tabled /\ browse.steady \subseteq tabled
      BY <1>1 DEF Listed, ListInv
    <2>2. Query(page.filters)' = Query(f)' /\ Listed(page.filters)' = Listed(f)'
      BY <1>1
    <2> QED
      BY <1>3, <2>1, <2>2 DEF EditedList
  <1> QED
    BY <1>1, <1>3, <1>4, <1>5, <1>6 DEF ListInv, EditedList

\* A table comes or goes.
LEMMA ListTable ==
    ASSUME ListInv, NEW n \in Rows, table_changes(n)
    PROVE  ListInv'
  <1>1. /\ rows' = rows /\ matching' = matching /\ created' = created /\ n \in rows
        /\ changes' \in 0..MaxChanges /\ deleting' = deleting /\ requests' = requests
        /\ page' = page
        /\ browse' = [browse EXCEPT !.relisted = TRUE, !.steady = @ \ {n}]
        /\ tabled' = tabled \ {n} \/ tabled' = tabled \cup {n}
    <2>1. changes < MaxChanges /\ changes' = changes + 1 /\ changes \in 0..MaxChanges
          /\ MaxChanges \in Nat
      BY ListTypes, ListingAssumption DEF table_changes, Change
    <2>2. changes' \in 0..MaxChanges
      BY <2>1
    <2> QED
      BY <2>2 DEF table_changes
  <1>2. /\ browse' \in Browse /\ browse'.valid = browse.valid
        /\ browse'.steady = browse.steady \ {n} /\ browse'.removed = browse.removed
        /\ browse'.matched = browse.matched
    BY <1>1, ListTypes DEF Browse
  <1>3. requests' \in SUBSET Request /\ \A p \in requests' : RequestInv(p)'
    BY <1>1, <1>2, ListTypes, RequestsKept
  <1>4. tabled' \subseteq Rows /\ tabled' \subseteq rows'
    BY <1>1, ListTypes DEF ListInv
  <1>5. ListingTypeOK'
    BY <1>1, <1>2, <1>3, <1>4 DEF ListInv, ListingTypeOK
  <1>6. browse'.steady \subseteq Listed(page.filters)'
    <2>1. browse.steady \subseteq Listed(page.filters)
      BY DEF ListInv
    <2> QED
      BY <1>1, <1>2, <2>1 DEF Listed, Query
  <1>7. Query(page.filters)' = Query(page.filters)
    BY <1>1 DEF Query
  <1> QED
    BY <1>1, <1>2, <1>3, <1>4, <1>5, <1>6, <1>7 DEF ListInv

\* A dataset is deleted, by another user or by this one.
LEMMA ListRemove ==
    ASSUME ListInv, NEW n \in Rows, Remove(n),
           UNCHANGED <<created, page, requests>>, deleting' = deleting \/ deleting' = n
    PROVE  ListInv'
  <1>1. /\ rows' = rows \ {n} /\ matching' = matching /\ created' = created
        /\ tabled' = tabled \ {n}
        /\ changes' \in 0..MaxChanges /\ requests' = requests /\ page' = page
        /\ browse' = [browse EXCEPT !.removed = @ + 1, !.steady = @ \ {n}]
    <2>1. changes < MaxChanges /\ changes' = changes + 1 /\ changes \in 0..MaxChanges
          /\ MaxChanges \in Nat
      BY ListTypes, ListingAssumption DEF Remove, Change
    <2>2. changes' \in 0..MaxChanges
      BY <2>1
    <2> QED
      BY <2>2 DEF Remove
  <1>2. /\ browse' \in Browse /\ browse'.valid = browse.valid
        /\ browse'.steady = browse.steady \ {n} /\ browse'.removed > 0
        /\ browse'.matched = browse.matched
    <2>1. browse \in Browse /\ browse.removed \in Nat
      BY ListTypes
    <2> DEFINE st == browse.steady \ {n}
               rem == browse.removed + 1
    <2>2. browse' = [browse EXCEPT !.removed = rem, !.steady = st]
      BY <1>1
    <2>3. rem \in Nat /\ rem > 0 /\ st \in SUBSET Rows
      BY <2>1, ListTypes
    <2> HIDE DEF st, rem
    <2>4. /\ browse' \in Browse /\ browse'.valid = browse.valid
          /\ browse'.steady = st /\ browse'.removed = rem
          /\ browse'.matched = browse.matched
      BY <2>1, <2>2, <2>3 DEF Browse
    <2> QED
      BY <2>3, <2>4 DEF st
  <1>3. requests' \in SUBSET Request /\ \A p \in requests' : RequestInv(p)'
    BY <1>1, <1>2, ListTypes, RequestsKept
  <1>4. tabled' \subseteq Rows /\ tabled' \subseteq rows' /\ rows' \subseteq 1..created
    BY <1>1, ListTypes DEF ListInv
  <1>5. deleting' \in 0..MaxRows /\ (deleting' # 0 => deleting' \notin rows')
        /\ deleting' <= created
    <2>1. n \in 0..MaxRows /\ n <= created /\ deleting <= created
      BY ListTypes, ConstantTypes DEF Rows, Remove, ListInv
    <2>2. deleting # 0 => deleting \notin rows
      BY DEF ListInv
    <2> QED
      BY <1>1, <2>1, <2>2, ListTypes
  <1>6. ListingTypeOK'
    BY <1>1, <1>2, <1>3, <1>4, <1>5 DEF ListInv, ListingTypeOK
  <1>7. browse'.steady \subseteq Listed(page.filters)'
    <2>1. browse.steady \subseteq Listed(page.filters)
      BY DEF ListInv
    <2> QED
      BY <1>1, <1>2, <2>1 DEF Listed, Query
  <1>8. Query(page.filters)' \subseteq Query(page.filters)
    BY <1>1 DEF Query
  <1> QED
    BY <1>1, <1>2, <1>3, <1>4, <1>5, <1>6, <1>7, <1>8 DEF ListInv

\* The list of the page once the dataset has left it.
LEMMA LeftIs ==
    ASSUME ListInv, deleted
    PROVE  LET u == Without(page.shown, deleting) IN
           /\ u \in Seq(Rows) /\ u \in Seq(0..MaxRows) /\ In(u) = In(page.shown) \ {deleting}
           /\ page' = [page EXCEPT !.shown = u, !.total = page'.total]
           /\ page'.total \in Int /\ page'.shown = u
  <1> DEFINE u == Without(page.shown, deleting)
             total == IF page.total = -1 THEN -1 ELSE page.total - 1
  <1>1. page \in Page /\ page.shown \in Seq(0..MaxRows) /\ page.shown \in Seq(Rows)
        /\ page.total \in Int
    BY ListTypes
  <1>2. u \in Seq(In(page.shown)) /\ In(u) = In(page.shown) \ {deleting}
    <2>1. {} \in SUBSET (0..MaxRows)
      OBVIOUS
    <2>2. /\ u \in Seq(In(page.shown)) /\ In(u) = In(page.shown) \ {deleting}
          /\ Len(u) + Cardinality(In(page.shown) \cup {})
                <= Len(page.shown) + Cardinality(In(u) \cup {})
      BY <1>1, <2>1, ConstantTypes, WithoutIs
    <2> QED
      BY <2>2
  <1> HIDE DEF u
  <1>3. u \in Seq(Rows) /\ u \in Seq(0..MaxRows)
    <2>1. In(page.shown) \subseteq Rows /\ In(page.shown) \subseteq 0..MaxRows
      <3>1. \A i \in DOMAIN page.shown : page.shown[i] \in Rows
        BY <1>1
      <3>2. Rows \subseteq 0..MaxRows
        BY ConstantTypes DEF Rows
      <3> QED
        BY <3>1, <3>2 DEF In
    <2>2. Len(u) \in Nat /\ u \in [1..Len(u) -> In(page.shown)]
      BY <1>2
    <2>3. u \in [1..Len(u) -> Rows] /\ u \in [1..Len(u) -> 0..MaxRows]
      BY <2>1, <2>2
    <2> QED
      BY <2>2, <2>3, FunctionIsSeq
  <1>4. page' = [page EXCEPT !.shown = u, !.total = total] /\ total \in Int
    BY <1>1 DEF deleted, u
  <1> HIDE DEF total
  <1>5. page'.total = total /\ page'.shown = u
    BY <1>1, <1>4 DEF Page
  <1> QED
    BY <1>2, <1>3, <1>4, <1>5 DEF u

\* The deleted dataset leaves the list.
LEMMA ListDeleted ==
    ASSUME ListInv, deleted
    PROVE  ListInv'
  <1> DEFINE u == Without(page.shown, deleting)
             total == page'.total
  <1>1. /\ rows' = rows /\ matching' = matching /\ created' = created /\ tabled' = tabled
        /\ changes' = changes /\ deleting' = 0 /\ browse' = browse /\ requests' = requests
    BY DEF deleted, dbVars
  <1>2. /\ u \in Seq(Rows) /\ In(u) = In(page.shown) \ {deleting}
        /\ page' = [page EXCEPT !.shown = u, !.total = total]
        /\ total \in Int
    BY LeftIs
  <1> HIDE DEF u, total
  <1>3. /\ page' \in Page /\ page'.filters = page.filters
        /\ page'.requestId = page.requestId /\ page'.shown = u
        /\ page'.hasMore = page.hasMore /\ page'.loading = page.loading
    <2>1. page \in Page
      BY ListTypes
    <2> QED
      BY <1>2, <2>1 DEF Page
  <1>4. requests' \in SUBSET Request /\ \A p \in requests' : RequestInv(p)'
    BY <1>1, <1>3, ListTypes, RequestsKept
  <1>5. ListingTypeOK' /\ 0 <= created
    <2>1. 0 \in 0..MaxRows /\ 0 <= created
      BY ListTypes, ConstantTypes
    <2> QED
      BY <1>1, <1>3, <1>4, <2>1 DEF ListInv, ListingTypeOK
  <1>6. /\ Listed(page.filters)' = Listed(page.filters)
        /\ Query(page.filters)' = Query(page.filters)
    BY <1>1, <1>3 DEF Listed, Query
  <1> QED
    BY <1>1, <1>2, <1>3, <1>4, <1>5, <1>6 DEF ListInv

-----------------------------------------------------------------------------
(* CountInv is kept by each action *)

\* A list and what was found for it, as the counts need them.
LEMMA EachIs ==
    ASSUME ListInv
    PROVE  /\ \A q \in requests :
                 /\ base(q) \in Seq(0..MaxRows) /\ In(base(q)) \subseteq 1..created
                 /\ DOMAIN q.accumulated \in SUBSET (0..MaxRows)
                 /\ \A o \in DOMAIN q.accumulated :
                       q.accumulated[o] \in 0..MaxRows /\ q.accumulated[o] \in 1..created
                 /\ q.offset..scanned(q) \subseteq Nat
                 /\ q.offset \in Nat /\ scanned(q) \in Nat /\ q.offset <= scanned(q)
           /\ In(page.shown) \subseteq 1..created /\ page.shown \in Seq(0..MaxRows)
           /\ DOMAIN <<>> \in SUBSET (0..MaxRows) /\ \A o \in DOMAIN <<>> : FALSE
           /\ page.nextOffset \in Nat
           /\ Query(page.filters) \in SUBSET (0..MaxRows)
           /\ browse.steady \in SUBSET Query(page.filters)
           /\ browse.removed \in Nat /\ browse.added \in Nat
           /\ MaxRows \in Nat
  <1>1. ASSUME NEW q \in requests
        PROVE  /\ base(q) \in Seq(0..MaxRows) /\ In(base(q)) \subseteq 1..created
               /\ DOMAIN q.accumulated \in SUBSET (0..MaxRows)
               /\ \A o \in DOMAIN q.accumulated :
                     q.accumulated[o] \in 0..MaxRows /\ q.accumulated[o] \in 1..created
               /\ q.offset..scanned(q) \subseteq Nat
               /\ q.offset \in Nat /\ scanned(q) \in Nat /\ q.offset <= scanned(q)
    <2>1. In(base(q)) \subseteq 1..created
      <3>1. In(page.shown) \subseteq 1..created
        BY DEF ListInv
      <3> QED
        BY <3>1, NothingTaken DEF base
    <2>2. base(q) \in Seq(0..MaxRows) /\ q \in Request
      BY ListTypes
    <2>3. q.offset \in Nat /\ scanned(q) \in Nat /\ q.offset <= scanned(q)
      BY <2>2, RequestTypes, InvParts
    <2>4. /\ DOMAIN q.accumulated \in SUBSET (0..MaxRows)
          /\ \A o \in DOMAIN q.accumulated : q.accumulated[o] \in 0..MaxRows
      BY <2>2, RequestTypes
    <2> QED
      BY <2>1, <2>2, <2>3, <2>4, InvParts
  <1>2. page.shown \in Seq(0..MaxRows) /\ page.nextOffset \in Nat /\ MaxRows \in Nat
        /\ Query(page.filters) \in SUBSET (0..MaxRows)
        /\ browse.steady \in SUBSET Query(page.filters)
        /\ browse.removed \in Nat /\ browse.added \in Nat
    BY ListTypes, ConstantTypes
  <1>3. In(page.shown) \subseteq 1..created
    BY DEF ListInv
  <1> QED
    BY <1>1, <1>2, <1>3, NothingTaken

\* A list that starts.
LEMMA CountStart ==
    ASSUME NEW M \in Nat, NEW Q \in SUBSET (0..M), NEW removed \in Nat
    PROVE  /\ FewRepeated(Q, 0, <<>>, <<>>, 0)
           /\ \A steady : FewSkipped(Q, steady, removed, <<>>, <<>>, 0)
  <1> DEFINE E == Taken(<<>>, <<>>, 0)
  <1>1. \A n : n \notin E
    BY NothingTaken
  <1>2. Cardinality(Below(DOMAIN <<>>, 0)) = 0 /\ Len(<<>>) = 0
    BY NothingTaken
  <1> HIDE DEF E
  <1>3. Cardinality(E) = 0
    <2>1. E = {}
      BY <1>1
    <2> QED
      BY <2>1, FS_EmptySet
  <1>4. Cardinality(Ahead(Q, E, 0)) = 0
    <2>1. \A n : n \notin Ahead(Q, E, 0)
      BY <1>1, AheadIs
    <2>2. Ahead(Q, E, 0) = {}
      BY <2>1
    <2> QED
      BY <2>2, FS_EmptySet
  <1>5. ASSUME NEW steady
        PROVE  Cardinality(Behind(Q, steady, E, 0)) = 0
    <2>1. \A n : Off(Q, n) \in Nat
      BY RankNat
    <2>2. \A n : n \notin Behind(Q, steady, E, 0)
      BY <2>1, AheadIs
    <2>3. Behind(Q, steady, E, 0) = {}
      BY <2>2
    <2> QED
      BY <2>3, FS_EmptySet
  <1> QED
    BY <1>2, <1>3, <1>4, <1>5 DEF FewRepeated, FewSkipped, E

\* Only what the counts are about matters.
LEMMA CountKept ==
    ASSUME ListInv, CountInv, requests' \subseteq requests,
           rows' = rows /\ matching' = matching,
           browse' = browse, page'.filters = page.filters, page'.shown = page.shown,
           page'.requestId = page.requestId, page'.hasMore = page.hasMore,
           page'.nextOffset = page.nextOffset
    PROVE  CountInv'
  <1>1. Query(page.filters)' = Query(page.filters)
    BY DEF Query
  <1>2. ASSUME NEW q \in requests', current(q)'
        PROVE  RequestCount(Query(page.filters), browse, base(q), q)
    BY <1>2 DEF CountInv, current
  <1>3. \A q : base(q)' = base(q)
    BY DEF base
  <1>4. browse.valid => PageCount(Query(page.filters), browse, page)
    BY DEF CountInv
  <1>5. browse.valid => PageCount(Query(page.filters), browse, page')
    BY <1>4 DEF PageCount
  <1> QED
    BY <1>1, <1>2, <1>3, <1>5 DEF CountInv

\* Other filters: the counts start again.
LEMMA CountSelect ==
    ASSUME ListInv, CountInv, NEW f \in Filters, select_filters(f)
    PROVE  CountInv'
  <1>1. PICK r : r = NewRequest(f, FALSE, 0)
    OBVIOUS
  <1> DEFINE b == NewBrowse(f)
             R == Query(page.filters)'
  <1>2. /\ page.requestId < MaxRequests
        /\ page' = [page EXCEPT !.filters = f, !.loading = TRUE, !.hasMore = FALSE,
                                !.nextOffset = 0, !.requestId = @ + 1]
        /\ requests' = requests \cup {r} /\ browse' = b
        /\ rows' = rows /\ matching' = matching
    BY <1>1 DEF select_filters, dbVars
  <1>3. Starts(r, f, FALSE, 0)
    <2>1. 0 \in 0..MaxRows /\ FALSE \in BOOLEAN
      BY ConstantTypes
    <2> QED
      BY <1>1, <1>2, <2>1, NewRequestIs
  <1>4. page'.requestId = page.requestId + 1 /\ page'.filters = f
    BY <1>2, ListTypes DEF Page
  <1>5. ~b.valid /\ b.added = 0 /\ b.removed \in Nat
    BY DEF NewBrowse
  <1>6. R \in SUBSET (0..MaxRows) /\ MaxRows \in Nat
    <2>1. R = Query(f)
      BY <1>2, <1>4 DEF Query
    <2> QED
      BY <2>1, ListTypes, ConstantTypes
  <1> HIDE DEF b
  <1>7. ASSUME NEW q \in requests', current(q)'
        PROVE  q = r
    <2>1. q \in requests => q.id <= page.requestId /\ q.id \in Nat /\ page.requestId \in Nat
      BY ListTypes, InvParts, RequestTypes
    <2>2. q.id = page.requestId + 1
      BY <1>4, <1>7 DEF current
    <2> QED
      BY <1>2, <2>1, <2>2
  <1>8. RequestCount(R, b, <<>>, r)
    <2>1. /\ r.offset = 0 /\ scanned(r) = 0 /\ r.accumulated = <<>> /\ ~ranOut(r)
      BY <1>3 DEF Starts
    <2>2. /\ FewRepeated(R, 0, <<>>, <<>>, 0)
          /\ FewSkipped(R, b.steady, b.removed, <<>>, <<>>, 0)
      BY <1>5, <1>6, CountStart
    <2>3. \A t \in 0..0 : t = 0
      OBVIOUS
    <2> QED
      BY <1>5, <2>1, <2>2, <2>3 DEF RequestCount
  <1>9. base(r)' = <<>>
    BY <1>3 DEF base, Starts
  <1> HIDE DEF R
  <1>10. \A q \in requests' : current(q)' => RequestCount(R, browse', base(q)', q)
    BY <1>2, <1>7, <1>8, <1>9
  <1> QED
    BY <1>2, <1>5, <1>10 DEF CountInv, R

\* The next page starts where the list ends.
LEMMA CountMore ==
    ASSUME ListInv, CountInv, loadMore
    PROVE  CountInv'
  <1>1. PICK r : r = NewRequest(page.filters, TRUE, page.nextOffset)
    OBVIOUS
  <1> DEFINE Q == Query(page.filters)
  <1>2. /\ page.requestId < MaxRequests /\ page.hasMore
        /\ page' = [page EXCEPT !.loadingMore = TRUE, !.requestId = @ + 1]
        /\ requests' = requests \cup {r} /\ browse' = browse
        /\ rows' = rows /\ matching' = matching
    BY <1>1 DEF loadMore, dbVars
  <1>3. Starts(r, page.filters, TRUE, page.nextOffset)
    BY <1>1, <1>2, ListTypes, NewRequestIs
  <1>4. /\ page'.requestId = page.requestId + 1 /\ page'.filters = page.filters
        /\ page'.shown = page.shown /\ page'.hasMore = page.hasMore
        /\ page'.nextOffset = page.nextOffset
    BY <1>2, ListTypes DEF Page
  <1>5. ASSUME NEW q \in requests', current(q)'
        PROVE  q = r
    <2>1. q \in requests => q.id <= page.requestId /\ q.id \in Nat /\ page.requestId \in Nat
      BY ListTypes, InvParts, RequestTypes
    <2>2. q.id = page.requestId + 1
      BY <1>4, <1>5 DEF current
    <2> QED
      BY <1>2, <2>1, <2>2
  <1>6. Query(page.filters)' = Q
    BY <1>2, <1>4 DEF Query
  <1>7. browse.valid /\ PageCount(Q, browse, page)
    BY <1>2 DEF ListInv, CountInv
  <1>8. RequestCount(Q, browse, page.shown, r)
    <2>1. /\ r.offset = page.nextOffset /\ scanned(r) = page.nextOffset
          /\ r.accumulated = <<>> /\ ~ranOut(r)
      BY <1>3 DEF Starts
    <2>2. /\ FewRepeated(Q, browse.added, page.shown, <<>>, page.nextOffset)
          /\ FewSkipped(Q, browse.steady, browse.removed, page.shown, <<>>, page.nextOffset)
      BY <1>2, <1>7 DEF PageCount
    <2>3. \A t \in page.nextOffset..page.nextOffset : t = page.nextOffset
      BY EachIs
    <2> HIDE DEF Q
    <2>4. \A t \in r.offset..scanned(r) :
              /\ FewRepeated(Q, browse.added, page.shown, r.accumulated, t)
              /\ FewSkipped(Q, browse.steady, browse.removed, page.shown, r.accumulated, t)
      BY <2>1, <2>2, <2>3
    <2> QED
      BY <2>1, <2>4 DEF RequestCount
  <1>9. base(r)' = page.shown
    BY <1>3, <1>4 DEF base, Starts
  <1>10. PageCount(Q, browse, page')
    BY <1>4, <1>7 DEF PageCount
  <1> HIDE DEF Q
  <1> QED
    BY <1>2, <1>5, <1>6, <1>8, <1>9, <1>10 DEF CountInv

\* A chunk: the counts hold up to where it ends.
LEMMA CountFetch ==
    ASSUME ListInv, CountInv, NEW q \in requests, fetch_chunk(q)
    PROVE  CountInv'
  <1>1. PICK r, X : Fetched(q, r, X)
    BY FetchedIs
  <1>2. /\ page' = page /\ browse' = browse /\ rows' = rows /\ matching' = matching
        /\ created' = created
    BY DEF fetch_chunk, dbVars
  <1> DEFINE Q == Query(page.filters)
             s == base(q)
             acc == q.accumulated
             more == r.accumulated
             f == scanned(q)
             L == Listed(page.filters)
  <1>3. /\ requests' = (requests \ {q}) \cup {r} /\ r \in Request
        /\ r.id = q.id /\ r.append = q.append /\ r.offset = q.offset
        /\ X \in SUBSET Listed(q.filters)
        /\ Adds(acc, more, Query(q.filters), X, f)
        /\ f <= scanned(r)
        /\ \A n \in Listed(q.filters) :
              f <= Off(Query(q.filters), n) /\ Off(Query(q.filters), n) < scanned(r) => n \in X
        /\ ranOut(r) => \A n \in Query(q.filters) : Off(Query(q.filters), n) < scanned(r)
    BY <1>1 DEF Fetched
  <1>4. ASSUME current(q)
        PROVE  RequestCount(Q, browse, s, r)
    <2>1. q.filters = page.filters
      BY <1>4, InvParts
    <2>2. RequestCount(Q, browse, s, q)
      BY <1>4 DEF CountInv
    <2>3. /\ s \in Seq(0..MaxRows) /\ DOMAIN acc \in SUBSET (0..MaxRows)
          /\ \A o \in DOMAIN acc : acc[o] \in 0..MaxRows
          /\ q.offset \in Nat /\ f \in Nat /\ q.offset <= f
          /\ Q \in SUBSET (0..MaxRows) /\ browse.steady \in SUBSET Q
          /\ browse.removed \in Nat /\ browse.added \in Nat /\ MaxRows \in Nat
      BY EachIs
    <2>4. scanned(r) \in Nat
      BY <1>3, RequestTypes
    <2>5. browse.steady \subseteq L
      BY DEF ListInv
    <2>6. L \in SUBSET Q
      BY DEF Listed
    <2>7. /\ X \in SUBSET Q /\ Adds(acc, more, Q, X, f) /\ f <= scanned(r)
          /\ \A n \in L : f <= Off(Q, n) /\ Off(Q, n) < scanned(r) => n \in X
          /\ ranOut(r) => \A n \in Q : Off(Q, n) < scanned(r)
      BY <1>3, <2>1, <2>6
    <2>8. \A n \in Q : Off(Q, n) \in Nat
      BY <2>3, RankNat
    <2>9. \A t \in q.offset..f :
             /\ FewRepeated(Q, browse.added, s, acc, t)
             /\ FewSkipped(Q, browse.steady, browse.removed, s, acc, t)
      BY <2>2 DEF RequestCount
    <2> HIDE DEF Q, s, acc, more, f, L
    <2>10. ASSUME NEW t \in q.offset..scanned(r)
           PROVE  /\ FewRepeated(Q, browse.added, s, more, t)
                  /\ FewSkipped(Q, browse.steady, browse.removed, s, more, t)
      <3>1. t \in Nat /\ q.offset <= t /\ t <= scanned(r)
        BY <2>3, <2>4
      <3>2. /\ MaxRows \in Nat /\ Q \in SUBSET (0..MaxRows) /\ X \in SUBSET Q /\ f \in Nat
            /\ DOMAIN acc \in SUBSET (0..MaxRows) /\ Adds(acc, more, Q, X, f)
        BY <2>3, <2>7
      <3>3. /\ \A o \in DOMAIN acc : acc[o] \in 0..MaxRows
            /\ s \in Seq(0..MaxRows) /\ browse.steady \in SUBSET Q
            /\ browse.removed \in Nat /\ browse.added \in Nat
        BY <2>3
      <3>4. CASE t <= f
        <4>1. /\ FewRepeated(Q, browse.added, s, acc, t)
              /\ FewSkipped(Q, browse.steady, browse.removed, s, acc, t)
          BY <2>3, <2>9, <3>1, <3>4
        <4>2. /\ Below(DOMAIN more, t) = Below(DOMAIN acc, t)
              /\ \A w : Taken(w, more, t) = Taken(w, acc, t)
          BY <3>1, <3>4, <3>2, FoundBefore
        <4>3. FewRepeated(Q, browse.added, s, more, t)
          BY <4>1, <4>2 DEF FewRepeated
        <4>4. FewSkipped(Q, browse.steady, browse.removed, s, more, t)
          BY <4>1, <4>2 DEF FewSkipped
        <4> QED
          BY <4>3, <4>4
      <3>5. CASE f <= t
        <4>1. /\ FewRepeated(Q, browse.added, s, acc, f)
              /\ FewSkipped(Q, browse.steady, browse.removed, s, acc, f)
          <5>1. f \in q.offset..f
            BY <2>3
          <5> QED
            BY <2>9, <5>1
        <4>2. \A n \in browse.steady : f <= Off(Q, n) /\ Off(Q, n) < t => n \in X
          <5>1. ASSUME NEW n \in browse.steady, f <= Off(Q, n), Off(Q, n) < t
                PROVE  n \in X
            <6>1. n \in L /\ Off(Q, n) \in Nat
              BY <2>3, <2>5, <2>8
            <6>2. Off(Q, n) < scanned(r)
              BY <2>4, <3>1, <5>1, <6>1
            <6> QED
              BY <2>7, <5>1, <6>1, <6>2
          <5> QED
            BY <5>1
        <4> QED
          <5>1. CountsGoOn(Q, browse.steady, browse.added, browse.removed, s, acc, f, more, t)
            BY <3>1, <3>5, <3>2, <3>3, <4>2, CountFinds
          <5> QED
            BY <4>1, <5>1 DEF CountsGoOn
      <3> QED
        BY <2>3, <3>1, <3>4, <3>5
    <2>11. ASSUME ranOut(r)
           PROVE  Cardinality(browse.steady \ Taken(s, more, scanned(r))) <= browse.removed
      <3> DEFINE E == Taken(s, more, scanned(r))
      <3>1. scanned(r) \in q.offset..scanned(r)
        BY <2>3, <2>4, <2>7
      <3>2. Cardinality(Behind(Q, browse.steady, E, scanned(r))) <= browse.removed
        BY <2>10, <3>1 DEF FewSkipped
      <3> HIDE DEF E
      <3>3. \A n : n \in browse.steady \ E <=> n \in Behind(Q, browse.steady, E, scanned(r))
        <4>1. \A n \in browse.steady : Off(Q, n) < scanned(r)
          BY <2>3, <2>7, <2>11
        <4> QED
          BY <4>1, AheadIs
      <3>4. browse.steady \ E = Behind(Q, browse.steady, E, scanned(r))
        BY <3>3
      <3> QED
        BY <3>2, <3>4 DEF E
    <2> QED
      BY <1>3, <2>10, <2>11 DEF RequestCount, more
  <1>5. \A p : base(p)' = base(p) /\ (current(p)' <=> current(p))
    BY <1>2 DEF base, current
  <1>6. base(r) = s /\ (current(r) <=> current(q))
    BY <1>3 DEF base, current
  <1>7. Query(page.filters)' = Q
    BY <1>2 DEF Query
  <1>8. ASSUME NEW p \in requests', current(p)
        PROVE  RequestCount(Q, browse, base(p), p)
    BY <1>3, <1>4, <1>6, <1>8 DEF CountInv
  <1>9. browse.valid => PageCount(Q, browse, page)
    BY DEF CountInv
  <1> HIDE DEF Q
  <1> QED
    BY <1>2, <1>5, <1>7, <1>8, <1>9 DEF CountInv

\* The total is not counted with.
LEMMA CountCount ==
    ASSUME ListInv, CountInv, NEW q \in requests, count_listed(q)
    PROVE  CountInv'
  <1>1. PICK r \in Request :
            /\ requests' = (requests \ {q}) \cup {r}
            /\ r.id = q.id /\ r.filters = q.filters /\ r.append = q.append
            /\ r.offset = q.offset /\ r.accumulated = q.accumulated
            /\ scanned(r) = scanned(q) /\ ranOut(r) = ranOut(q)
    BY CountedIs
  <1>2. page' = page /\ browse' = browse /\ rows' = rows /\ matching' = matching
    BY DEF count_listed, dbVars
  <1> DEFINE Q == Query(page.filters)
  <1>3. \A p : base(p)' = base(p) /\ (current(p)' <=> current(p))
    BY <1>2 DEF base, current
  <1>4. base(r) = base(q) /\ (current(r) <=> current(q))
    BY <1>1 DEF base, current
  <1>5. Query(page.filters)' = Q
    BY <1>2 DEF Query
  <1>6. \A p \in requests : current(p) => RequestCount(Q, browse, base(p), p)
    BY DEF CountInv
  <1>7. current(r) => RequestCount(Q, browse, base(r), r)
    BY <1>1, <1>4, <1>6 DEF RequestCount
  <1>8. browse.valid => PageCount(Q, browse, page)
    BY DEF CountInv
  <1> HIDE DEF Q
  <1> QED
    BY <1>1, <1>2, <1>3, <1>5, <1>6, <1>7, <1>8 DEF CountInv

\* An answer: its next offset is one of those the counts were kept for.
LEMMA CountReceive ==
    ASSUME ListInv, CountInv, NEW q \in requests, receive(q)
    PROVE  CountInv'
  <1>1. /\ rows' = rows /\ matching' = matching
        /\ requests' = requests \ {q} /\ q.step = "answered"
    BY DEF receive, dbVars
  <1>2. CASE ~current(q)
    <2>1. page' = page /\ browse' = browse
      BY <1>2 DEF receive
    <2> QED
      BY <1>1, <2>1, CountKept
  <1>3. CASE current(q)
    <2> DEFINE t == next_offset(q)
               Q == Query(page.filters)
               acc == q.accumulated
               s == base(q)
               u == page'.shown
    <2>1. /\ page' = [page EXCEPT !.shown = page'.shown,
                           !.total = IF q.append THEN page.total ELSE q.total,
                           !.hasMore = has_more(q), !.nextOffset = t,
                           !.loading = FALSE, !.loadingMore = FALSE]
          /\ In(u) = Taken(s, acc, t) /\ Len(u) = Len(s) + Cardinality(Below(DOMAIN acc, t))
      BY <1>3, ShownIs
    <2>2. /\ page'.filters = page.filters /\ page'.requestId = page.requestId
          /\ page'.hasMore = has_more(q) /\ page'.nextOffset = t
      <3>1. page \in Page
        BY ListTypes
      <3> QED
        BY <2>1, <3>1 DEF Page
    <2>3. /\ browse'.steady = browse.steady /\ browse'.removed = browse.removed
          /\ browse'.added = browse.added
      BY <1>3, ListTypes DEF receive, Browse
    <2>4. Query(page.filters)' = Q
      BY <1>1, <2>2 DEF Query
    <2>5. \A p \in requests' : ~current(p)'
      <3>1. \A p \in requests : p.id = q.id => p = q
        BY InvParts
      <3> QED
        BY <1>1, <1>3, <2>2, <3>1 DEF current
    <2>6. RequestCount(Q, browse, s, q)
      BY <1>3 DEF CountInv
    <2>7. /\ t \in q.offset..scanned(q) /\ (~has_more(q) => ranOut(q) /\ t = scanned(q))
      BY <1>1, AnswerIs
    <2>8. /\ FewRepeated(Q, browse.added, s, acc, t)
          /\ FewSkipped(Q, browse.steady, browse.removed, s, acc, t)
      BY <2>6, <2>7 DEF RequestCount
    <2>9. ~has_more(q) => Cardinality(browse.steady \ In(u)) <= browse.removed
      BY <2>1, <2>6, <2>7 DEF RequestCount
    <2>10. /\ FewRepeated(Q, browse.added, u, <<>>, t)
           /\ FewSkipped(Q, browse.steady, browse.removed, u, <<>>, t)
      <3>1. /\ s \in Seq(0..MaxRows) /\ DOMAIN acc \in SUBSET (0..MaxRows)
            /\ \A o \in DOMAIN acc : acc[o] \in 0..MaxRows
            /\ Q \in SUBSET (0..MaxRows) /\ MaxRows \in Nat
        BY EachIs
      <3> HIDE DEF s, acc, Q, u, t
      <3>2. Len(s) \in Nat /\ Cardinality(Below(DOMAIN acc, t)) \in Nat
        BY <3>1, TakenIs
      <3> QED
        BY <2>1, <2>8, <3>1, <3>2, CountReceives
    <2> HIDE DEF Q, t
    <2>11. PageCount(Q, browse', page')
      BY <2>2, <2>3, <2>9, <2>10 DEF PageCount
    <2> QED
      BY <2>4, <2>5, <2>11 DEF CountInv
  <1> QED
    BY <1>2, <1>3

\* A failed request leaves the list as it is.
LEMMA CountFail ==
    ASSUME ListInv, CountInv, NEW q \in requests, fail(q)
    PROVE  CountInv'
  <1>1. /\ rows' = rows /\ matching' = matching
        /\ browse' = browse /\ requests' = requests \ {q}
        /\ page' = page \/ page' = [page EXCEPT !.loading = FALSE, !.loadingMore = FALSE]
    BY DEF fail, dbVars
  <1>2. /\ page'.filters = page.filters /\ page'.shown = page.shown
        /\ page'.requestId = page.requestId /\ page'.hasMore = page.hasMore
        /\ page'.nextOffset = page.nextOffset
    <2>1. page \in Page
      BY ListTypes
    <2> QED
      BY <1>1, <2>1 DEF Page
  <1> QED
    BY <1>1, <1>2, CountKept

\* When datasets come or go the counts of every list, of the page or of a request, move.
Moves(Q, b, R, c, s, acc) ==
    \A t \in Nat :
        /\ FewRepeated(Q, b.added, s, acc, t) => FewRepeated(R, c.added, s, acc, t)
        /\ FewSkipped(Q, b.steady, b.removed, s, acc, t)
              => FewSkipped(R, c.steady, c.removed, s, acc, t)

IsFound(s, acc) ==
    /\ s \in Seq(0..MaxRows) /\ In(s) \subseteq 1..created
    /\ DOMAIN acc \in SUBSET (0..MaxRows)
    /\ \A o \in DOMAIN acc : acc[o] \in 0..MaxRows /\ acc[o] \in 1..created

\* If it keeps the counts of a list, it keeps those of all requests and of the page.
LEMMA CountMoves ==
    ASSUME ListInv, CountInv, requests' = requests, page' = page,
           browse'.valid = browse.valid, NEW R, Query(page.filters)' = R,
           NEW b, browse' = b,
           \A s, acc : IsFound(s, acc) => Moves(Query(page.filters), browse, R, b, s, acc),
           \A E : Cardinality(browse.steady \ E) <= browse.removed
                      => Cardinality(b.steady \ E) <= b.removed
    PROVE  CountInv'
  <1> DEFINE Q == Query(page.filters)
  <1>1. ASSUME NEW q \in requests, current(q)
        PROVE  RequestCount(R, b, base(q), q)
    <2> DEFINE s == base(q)
               acc == q.accumulated
    <2>1. RequestCount(Q, browse, s, q)
      BY <1>1 DEF CountInv
    <2>2. IsFound(s, acc) /\ q.offset..scanned(q) \subseteq Nat
      BY EachIs DEF IsFound
    <2>3. Moves(Q, browse, R, b, s, acc)
      BY <2>2
    <2> HIDE DEF Q, s
    <2>4. \A t \in q.offset..scanned(q) :
             /\ FewRepeated(R, b.added, s, acc, t)
             /\ FewSkipped(R, b.steady, b.removed, s, acc, t)
      BY <2>1, <2>2, <2>3 DEF RequestCount, Moves
    <2>5. ranOut(q) => Cardinality(b.steady \ Taken(s, acc, scanned(q))) <= b.removed
      BY <2>1 DEF RequestCount
    <2> QED
      BY <2>4, <2>5 DEF RequestCount, s
  <1>2. ASSUME browse.valid
        PROVE  PageCount(R, b, page)
    <2>1. PageCount(Q, browse, page)
      BY <1>2 DEF CountInv
    <2>2. IsFound(page.shown, <<>>) /\ page.nextOffset \in Nat
      BY EachIs DEF IsFound
    <2>3. Moves(Q, browse, R, b, page.shown, <<>>)
      BY <2>2
    <2> HIDE DEF Q
    <2> QED
      BY <2>1, <2>2, <2>3 DEF PageCount, Moves
  <1>3. \A q : base(q)' = base(q) /\ (current(q)' <=> current(q))
    BY DEF base, current
  <1> QED
    BY <1>1, <1>2, <1>3 DEF CountInv

\* A dataset is created: one more may be repeated.
LEMMA CountCreate ==
    ASSUME ListInv, CountInv, NEW listed \in BOOLEAN, create_dataset(listed)
    PROVE  CountInv'
  <1> DEFINE c == created + 1
             f == page.filters
             Q == Query(f)
  <1>1. /\ rows' = rows \cup {c} /\ matching' = matching /\ created < MaxRows
        /\ requests' = requests /\ page' = page
        /\ \E add, new : /\ add = browse.added + 1
                         /\ browse' = [browse EXCEPT !.added = add, !.matched = new]
    BY DEF create_dataset
  <1>2. PICK b : b = browse'
    OBVIOUS
  <1>3. /\ b.valid = browse.valid /\ b.steady = browse.steady
        /\ b.removed = browse.removed /\ b.added = browse.added + 1
    BY <1>1, <1>2, ListTypes DEF Browse
  <1>4. /\ created \in Nat /\ c \in 0..MaxRows /\ MaxRows \in Nat
        /\ browse.added \in Nat /\ browse.removed \in Nat
        /\ Q \in SUBSET (0..MaxRows) /\ browse.steady \in SUBSET Q
    BY <1>1, ListTypes, ConstantTypes, EachIs
  <1>5. PICK R : R = Query(f)'
    OBVIOUS
  <1>6. R = Q \/ R = Q \cup {c}
    <2>1. Query(f)' = (rows \cup {c}) \cap matching[f]
      BY <1>1 DEF Query
    <2>2. Q = rows \cap matching[f]
      BY DEF Query
    <2> HIDE DEF c, Q
    <2> QED
      BY <1>5, <2>1, <2>2
  <1> HIDE DEF c, Q
  <1>7. ASSUME NEW s, NEW acc, IsFound(s, acc)
        PROVE  Moves(Q, browse, R, b, s, acc)
    <2>1. /\ s \in Seq(0..MaxRows) /\ DOMAIN acc \in SUBSET (0..MaxRows)
          /\ \A o \in DOMAIN acc : acc[o] \in 0..MaxRows
      BY <1>7 DEF IsFound
    <2>2. ASSUME NEW t \in Nat
          PROVE  /\ FewRepeated(Q, browse.added, s, acc, t)
                        => FewRepeated(R, browse.added + 1, s, acc, t)
                 /\ FewSkipped(Q, browse.steady, browse.removed, s, acc, t)
                        => FewSkipped(R, browse.steady, browse.removed, s, acc, t)
      BY <1>4, <1>6, <2>1, CountComes
    <2> QED
      BY <1>3, <2>2 DEF Moves
  <1>8. \A E : Cardinality(browse.steady \ E) <= browse.removed
                  => Cardinality(b.steady \ E) <= b.removed
    BY <1>3
  <1> QED
    BY <1>1, <1>2, <1>3, <1>5, <1>7, <1>8, CountMoves DEF Q

\* A table comes or goes: the dataset is no longer one of the steady ones.
LEMMA CountTable ==
    ASSUME ListInv, CountInv, NEW n \in Rows, table_changes(n)
    PROVE  CountInv'
  <1> DEFINE Q == Query(page.filters)
             added == browse.added
             removed == browse.removed
             steady == browse.steady
  <1>1. /\ rows' = rows /\ matching' = matching /\ requests' = requests /\ page' = page
        /\ browse' = [browse EXCEPT !.relisted = TRUE, !.steady = @ \ {n}]
    BY DEF table_changes
  <1>2. PICK b : b = browse'
    OBVIOUS
  <1>3. /\ b.valid = browse.valid /\ b.steady = steady \ {n}
        /\ b.removed = removed /\ b.added = added
    BY <1>1, <1>2, ListTypes DEF Browse
  <1>4. /\ MaxRows \in Nat /\ removed \in Nat
        /\ Q \in SUBSET (0..MaxRows) /\ steady \in SUBSET Q
    BY EachIs
  <1>5. Query(page.filters)' = Q
    BY <1>1 DEF Query
  <1> HIDE DEF Q, removed, steady, added
  <1>6. /\ \A s, acc, t : FewSkipped(Q, steady, removed, s, acc, t)
              => FewSkipped(Q, steady \ {n}, removed, s, acc, t)
        /\ \A E : Cardinality(steady \ E) <= removed
              => /\ Cardinality((steady \ {n}) \ E) <= removed
                 /\ Cardinality((steady \ {n}) \ E) <= removed + 1
    BY <1>4, CountDrops
  <1>7. \A s, acc : IsFound(s, acc) => Moves(Q, browse, Q, b, s, acc)
    BY <1>3, <1>6 DEF Moves, steady, removed, added
  <1>8. \A E : Cardinality(browse.steady \ E) <= browse.removed
                  => Cardinality(b.steady \ E) <= b.removed
    BY <1>3, <1>6 DEF steady, removed
  <1> QED
    BY <1>1, <1>2, <1>3, <1>5, <1>7, <1>8, CountMoves DEF Q

\* A dataset is deleted: one more may be skipped.
LEMMA CountRemove ==
    ASSUME ListInv, CountInv, NEW n \in Rows, Remove(n), UNCHANGED <<created, page, requests>>
    PROVE  CountInv'
  <1> DEFINE f == page.filters
             Q == Query(f)
             added == browse.added
             removed == browse.removed
             steady == browse.steady
  <1>1. /\ rows' = rows \ {n} /\ matching' = matching
        /\ requests' = requests /\ page' = page
        /\ browse' = [browse EXCEPT !.removed = @ + 1, !.steady = @ \ {n}]
    BY DEF Remove
  <1>2. PICK b : b = browse'
    OBVIOUS
  <1>3. /\ b.valid = browse.valid /\ b.steady = steady \ {n}
        /\ b.removed = removed + 1 /\ b.added = added
    <2> DEFINE st == steady \ {n}
               rem == removed + 1
    <2>1. browse' = [browse EXCEPT !.removed = rem, !.steady = st]
      BY <1>1
    <2>2. browse \in Browse
      BY ListTypes
    <2> HIDE DEF st, rem
    <2>3. /\ b.valid = browse.valid /\ b.steady = st /\ b.removed = rem /\ b.added = added
      BY <1>2, <2>1, <2>2 DEF Browse
    <2> QED
      BY <2>3 DEF st, rem
  <1>4. /\ MaxRows \in Nat /\ removed \in Nat /\ added \in Nat
        /\ Q \in SUBSET (0..MaxRows) /\ steady \in SUBSET Q
    BY EachIs
  <1>5. PICK R : R = Query(f)'
    OBVIOUS
  <1>6. R = Q \/ R = Q \ {n}
    <2>1. Query(f)' = (rows \ {n}) \cap matching[f]
      BY <1>1 DEF Query
    <2>2. Q = rows \cap matching[f]
      BY DEF Query
    <2> HIDE DEF Q
    <2> QED
      BY <1>5, <2>1, <2>2
  <1> HIDE DEF Q, removed, steady, added
  <1>7. steady \ {n} \subseteq R
    BY <1>4, <1>6
  <1>8. ASSUME NEW s, NEW acc, IsFound(s, acc)
        PROVE  Moves(Q, browse, R, b, s, acc)
    <2>1. /\ s \in Seq(0..MaxRows) /\ DOMAIN acc \in SUBSET (0..MaxRows)
          /\ \A o \in DOMAIN acc : acc[o] \in 0..MaxRows
      BY <1>8 DEF IsFound
    <2>2. ASSUME NEW t \in Nat
          PROVE  /\ FewRepeated(Q, added, s, acc, t) => FewRepeated(R, added, s, acc, t)
                 /\ FewSkipped(Q, steady, removed, s, acc, t)
                        => FewSkipped(R, steady \ {n}, removed + 1, s, acc, t)
      BY <1>4, <1>6, <1>7, <2>1, CountGoes
    <2> QED
      BY <1>3, <2>2 DEF Moves, steady, removed, added
  <1>9. \A E : Cardinality(steady \ E) <= removed
                  => /\ Cardinality((steady \ {n}) \ E) <= removed
                     /\ Cardinality((steady \ {n}) \ E) <= removed + 1
    BY <1>4, CountDrops
  <1>10. \A E : Cardinality(browse.steady \ E) <= browse.removed
                   => Cardinality(b.steady \ E) <= b.removed
    BY <1>3, <1>9 DEF steady, removed
  <1> QED
    BY <1>1, <1>2, <1>3, <1>5, <1>8, <1>10, CountMoves DEF Q

\* A dataset is edited: the counts stay, or one more may be skipped, or repeated.
LEMMA CountEdit ==
    ASSUME ListInv, CountInv, NEW n \in Rows, NEW S \in SUBSET Filters, edit_dataset(n, S)
    PROVE  CountInv'
  <1> DEFINE f == page.filters
             Q == Query(f)
             added == browse.added
             removed == browse.removed
             steady == browse.steady
  <1>1. rows' = rows /\ requests' = requests /\ page' = page /\ Edited(n, f)
    BY EditIs DEF Edited
  <1>2. /\ MaxRows \in Nat /\ removed \in Nat /\ added \in Nat /\ n \in 0..MaxRows
        /\ Q \in SUBSET (0..MaxRows) /\ steady \in SUBSET Q /\ browse \in Browse
    BY EachIs, ListTypes, ConstantTypes DEF Rows
  <1>3. PICK R : R = Query(f)'
    OBVIOUS
  <1>4. PICK b : b = browse'
    OBVIOUS
  <1>5. \A s, acc : IsFound(s, acc) =>
            s \in Seq(0..MaxRows) /\ DOMAIN acc \in SUBSET (0..MaxRows)
            /\ \A o \in DOMAIN acc : acc[o] \in 0..MaxRows
    BY DEF IsFound
  <1>6. CASE R = Q /\ b = browse
    <2>1. \A s, acc : Moves(Q, browse, R, b, s, acc)
      BY <1>6 DEF Moves
    <2> QED
      BY <1>1, <1>3, <1>4, <1>6, <2>1, CountMoves DEF Q
  <1>7. ASSUME NEW st, NEW rem, st = steady \ {n}, rem = removed + 1,
               b = [browse EXCEPT !.removed = rem, !.steady = st], R = Q \ {n}
        PROVE  CountInv'
    <2>1. /\ b.valid = browse.valid /\ b.steady = st /\ b.removed = rem /\ b.added = added
      BY <1>2, <1>7 DEF Browse
    <2> HIDE DEF Q, removed, steady, added
    <2>2. steady \ {n} \subseteq R
      BY <1>2, <1>7
    <2>3. ASSUME NEW s, NEW acc, IsFound(s, acc)
          PROVE  Moves(Q, browse, R, b, s, acc)
      <3>1. ASSUME NEW t \in Nat
            PROVE  /\ FewRepeated(Q, added, s, acc, t) => FewRepeated(R, added, s, acc, t)
                   /\ FewSkipped(Q, steady, removed, s, acc, t)
                          => FewSkipped(R, steady \ {n}, removed + 1, s, acc, t)
        BY <1>2, <1>5, <1>7, <2>2, <2>3, CountGoes
      <3> QED
        BY <1>7, <2>1, <3>1 DEF Moves, steady, removed, added
    <2>4. \A E : Cardinality(steady \ E) <= removed
                    => Cardinality((steady \ {n}) \ E) <= removed + 1
      BY <1>2, CountDrops
    <2>5. \A E : Cardinality(browse.steady \ E) <= browse.removed
                     => Cardinality(b.steady \ E) <= b.removed
      BY <1>7, <2>1, <2>4 DEF steady, removed
    <2> QED
      BY <1>1, <1>3, <1>4, <2>1, <2>3, <2>5, CountMoves DEF Q
  <1>8. ASSUME NEW new, NEW add, add = added + 1,
               b = [browse EXCEPT !.added = add, !.matched = new], R = Q \cup {n}
        PROVE  CountInv'
    <2>1. /\ b.valid = browse.valid /\ b.steady = steady /\ b.removed = removed
          /\ b.added = add
      BY <1>2, <1>8 DEF Browse
    <2> HIDE DEF Q, removed, steady, added
    <2>2. ASSUME NEW s, NEW acc, IsFound(s, acc)
          PROVE  Moves(Q, browse, R, b, s, acc)
      <3>1. ASSUME NEW t \in Nat
            PROVE  /\ FewRepeated(Q, added, s, acc, t) => FewRepeated(R, added + 1, s, acc, t)
                   /\ FewSkipped(Q, steady, removed, s, acc, t)
                          => FewSkipped(R, steady, removed, s, acc, t)
        BY <1>2, <1>5, <1>8, <2>2, CountComes
      <3> QED
        BY <1>8, <2>1, <3>1 DEF Moves, steady, removed, added
    <2>3. \A E : Cardinality(browse.steady \ E) <= browse.removed
                     => Cardinality(b.steady \ E) <= b.removed
      BY <2>1 DEF steady, removed
    <2> QED
      BY <1>1, <1>3, <1>4, <2>1, <2>2, <2>3, CountMoves DEF Q
  <1> QED
    BY <1>1, <1>3, <1>4, <1>6, <1>7, <1>8 DEF Edited

\* The deleted dataset leaves the list.
LEMMA CountDeleted ==
    ASSUME ListInv, CountInv, deleted
    PROVE  CountInv'
  <1> DEFINE d == deleting
             u == Without(page.shown, d)
             total == page'.total
             Q == Query(page.filters)
             steady == browse.steady
             removed == browse.removed
             added == browse.added
  <1>1. /\ rows' = rows /\ matching' = matching
        /\ browse' = browse /\ requests' = requests /\ d # 0
    BY DEF deleted, dbVars
  <1>2. /\ u \in Seq(0..MaxRows)
        /\ page' = [page EXCEPT !.shown = u, !.total = total]
    BY LeftIs
  <1> HIDE DEF u, total
  <1>3. /\ page'.filters = page.filters /\ page'.shown = u
        /\ page'.requestId = page.requestId /\ page'.nextOffset = page.nextOffset
        /\ page'.hasMore = page.hasMore
    <2>1. page \in Page
      BY ListTypes
    <2> QED
      BY <1>2, <2>1 DEF Page
  <1>4. Query(page.filters)' = Q
    BY <1>1, <1>3 DEF Query
  <1>5. d \notin Q
    BY <1>1 DEF Query, ListInv
  <1>6. /\ MaxRows \in Nat /\ removed \in Nat /\ added \in Nat
        /\ Q \in SUBSET (0..MaxRows) /\ steady \in SUBSET Q
        /\ page.shown \in Seq(0..MaxRows)
    BY EachIs
  <1> HIDE DEF Q, steady, removed, added, d
  <1>7. ASSUME NEW acc, DOMAIN acc \in SUBSET (0..MaxRows),
               \A o \in DOMAIN acc : acc[o] \in 0..MaxRows, NEW t \in Nat
        PROVE  /\ FewRepeated(Q, added, page.shown, acc, t) => FewRepeated(Q, added, u, acc, t)
               /\ FewSkipped(Q, steady, removed, page.shown, acc, t)
                     => FewSkipped(Q, steady, removed, u, acc, t)
               /\ steady \ Taken(u, acc, t) = steady \ Taken(page.shown, acc, t)
    <2>1. CountsGoTo(Q, steady, added, removed, page.shown, u, acc, t)
      BY <1>2, <1>5, <1>6, <1>7, CountWithout DEF u
    <2> QED
      BY <2>1 DEF CountsGoTo
  <1>8. ASSUME NEW q \in requests, current(q)
        PROVE  RequestCount(Q, browse, base(q)', q)
    <2>1. RequestCount(Q, browse, base(q), q)
      BY <1>8 DEF CountInv, Q
    <2>2. CASE ~q.append
      <3>1. base(q)' = base(q)
        BY <2>2 DEF base
      <3> QED
        BY <2>1, <3>1
    <2>3. CASE q.append
      <3>1. base(q) = page.shown /\ base(q)' = u
        BY <1>3, <2>3 DEF base
      <3>2. /\ DOMAIN q.accumulated \in SUBSET (0..MaxRows)
            /\ \A o \in DOMAIN q.accumulated : q.accumulated[o] \in 0..MaxRows
            /\ q.offset..scanned(q) \subseteq Nat /\ scanned(q) \in Nat
        BY EachIs
      <3>3. RequestCount(Q, browse, page.shown, q)
        BY <2>1, <3>1
      <3>4. \A t \in q.offset..scanned(q) :
               /\ FewRepeated(Q, added, u, q.accumulated, t)
               /\ FewSkipped(Q, steady, removed, u, q.accumulated, t)
        BY <1>7, <3>2, <3>3 DEF RequestCount, steady, removed, added
      <3>5. ranOut(q) => Cardinality(steady \ Taken(u, q.accumulated, scanned(q))) <= removed
        BY <1>7, <3>2, <3>3 DEF RequestCount, steady, removed
      <3> QED
        BY <3>1, <3>4, <3>5 DEF RequestCount, steady, removed, added
    <2> QED
      BY <2>2, <2>3
  <1>9. ASSUME browse.valid
        PROVE  PageCount(Q, browse, page')
    <2>1. PageCount(Q, browse, page)
      BY <1>9 DEF CountInv, Q
    <2>2. DOMAIN <<>> \in SUBSET (0..MaxRows) /\ (\A o \in DOMAIN <<>> : <<>>[o] \in 0..MaxRows)
          /\ page.nextOffset \in Nat
      BY EachIs
    <2>3. \A t : Taken(u, <<>>, t) = In(u) /\ Taken(page.shown, <<>>, t) = In(page.shown)
      BY NothingTaken
    <2>4. /\ FewRepeated(Q, added, page.shown, <<>>, page.nextOffset)
                => FewRepeated(Q, added, u, <<>>, page.nextOffset)
          /\ FewSkipped(Q, steady, removed, page.shown, <<>>, page.nextOffset)
                => FewSkipped(Q, steady, removed, u, <<>>, page.nextOffset)
          /\ steady \ In(u) = steady \ In(page.shown)
      BY <1>7, <2>2, <2>3
    <2>5. /\ FewRepeated(Q, added, u, <<>>, page.nextOffset)
          /\ page.hasMore => FewSkipped(Q, steady, removed, u, <<>>, page.nextOffset)
          /\ ~page.hasMore => Cardinality(steady \ In(u)) <= removed
      BY <2>1, <2>4 DEF PageCount, steady, removed, added
    <2> QED
      BY <1>3, <2>5 DEF PageCount, steady, removed, added
  <1>10. \A q : current(q)' <=> current(q)
    BY <1>3 DEF current
  <1> QED
    BY <1>1, <1>4, <1>8, <1>9, <1>10 DEF CountInv

-----------------------------------------------------------------------------
(* The counts hold in every reachable state *)

\* The first request of the page.
LEMMA FirstRequest ==
    ASSUME Init
    PROVE  \E r \in Request :
              /\ requests = {r} /\ SoundRequest(r) /\ ~ranOut(r) /\ scanned(r) = 0
              /\ r.id = 1 /\ r.filters = NoFilter /\ r.append = FALSE
              /\ r.offset = 0 /\ r.accumulated = <<>> /\ r.step = "fetch"
  <1> DEFINE r == [ NewRequest(NoFilter, FALSE, 0) EXCEPT !.id = 1 ]
             U == UNION {[S -> Rows] : S \in SUBSET (0..MaxRows)}
  <1>1. requests = {r}
    BY DEF Init
  <1>2. /\ r.id = 1 /\ r.filters = NoFilter /\ r.append = FALSE
        /\ r.offset = 0 /\ r.accumulated = <<>> /\ r.step = "fetch"
        /\ r.fetch_offset = 0 /\ r.last_chunk_len = 0
    BY DEF NewRequest
  <1>3. <<>> \in U
    <2>1. <<>> \in [{} -> Rows]
      OBVIOUS
    <2>2. {} \in SUBSET (0..MaxRows)
      OBVIOUS
    <2> QED
      BY <2>1, <2>2
  <1>4. r \in Request
    <2>1. Request =
            [ id : 1..MaxRequests, filters : Filters, append : BOOLEAN,
              step : {"fetch", "count", "answered"},
              offset : Nat, fetch_offset : Nat, last_chunk_len : Nat,
              accumulated : U, total : Int ]
      BY DEF Request
    <2>2. 1 \in 1..MaxRequests
      BY ListingAssumption
    <2>3. PICK m \in Int : m = NewRequest(NoFilter, FALSE, 0).total
      BY DEF NewRequest
    <2> DEFINE c == NewRequest(NoFilter, FALSE, 0)
               e == [ id |-> 1, filters |-> NoFilter, append |-> FALSE, step |-> "fetch",
                      offset |-> 0, fetch_offset |-> 0, last_chunk_len |-> 0,
                      accumulated |-> <<>>, total |-> m ]
               D == {"id", "filters", "append", "step", "offset", "fetch_offset",
                     "last_chunk_len", "accumulated", "total"}
    <2>4. DOMAIN c = D
      BY DEF NewRequest
    <2>5. r = [k \in D |-> IF k = "id" THEN 1 ELSE c[k]]
      BY <2>4
    <2>6. e = [k \in D |-> e[k]] /\ e.id = 1
      OBVIOUS
    <2>7. \A k \in D : k # "id" => c[k] = e[k]
      <3>1. /\ c.filters = NoFilter /\ c.append = FALSE /\ c.step = "fetch"
            /\ c.offset = 0 /\ c.fetch_offset = 0 /\ c.last_chunk_len = 0
            /\ c.accumulated = <<>> /\ c.total = m
        BY <2>3 DEF NewRequest
      <3>2. /\ e.filters = NoFilter /\ e.append = FALSE /\ e.step = "fetch"
            /\ e.offset = 0 /\ e.fetch_offset = 0 /\ e.last_chunk_len = 0
            /\ e.accumulated = <<>> /\ e.total = m
        OBVIOUS
      <3> HIDE DEF c, e
      <3> QED
        BY <3>1, <3>2
    <2>8. e \in Request
      <3> HIDE DEF U
      <3> QED
        BY <1>3, <2>1, <2>2, <2>3, ConstantTypes
    <2> HIDE DEF c, e, D, r
    <2>9. r = e
      BY <2>5, <2>6, <2>7
    <2> QED
      BY <2>8, <2>9
  <1> HIDE DEF r
  <1>5. ~ranOut(r)
    BY <1>2 DEF ranOut
  <1>6. scanned(r) = 0
    BY <1>2, ConstantTypes DEF scanned
  <1>7. SoundRequest(r)
    BY <1>2, <1>5, <1>6, NothingTaken, ConstantTypes DEF SoundRequest
  <1> QED
    BY <1>1, <1>2, <1>4, <1>5, <1>6, <1>7

\* ListInv holds at first.
LEMMA ListInit ==
    ASSUME Init
    PROVE  ListInv
  <1>1. PICK r \in Request :
              /\ requests = {r} /\ SoundRequest(r) /\ ~ranOut(r) /\ scanned(r) = 0
              /\ r.id = 1 /\ r.filters = NoFilter /\ r.append = FALSE
              /\ r.offset = 0 /\ r.accumulated = <<>> /\ r.step = "fetch"
    BY FirstRequest
  <1>2. /\ created = InitialRows /\ rows = 1..InitialRows /\ tabled \subseteq rows
        /\ matching = InitialMatching /\ deleting = 0 /\ changes = 0
        /\ browse = NewBrowse(NoFilter)
        /\ page = [ filters |-> NoFilter, shown |-> <<>>, total |-> -1, hasMore |-> FALSE,
                    nextOffset |-> 0, requestId |-> 1, loading |-> TRUE,
                    loadingMore |-> FALSE ]
    BY DEF Init
  <1>3. /\ InitialRows \in 0..MaxRows /\ MaxRows \in Nat /\ NoFilter \in Filters
        /\ 1 \in 1..MaxRequests /\ MaxChanges \in Nat
    BY ListingAssumption
  <1>4. /\ page.filters = NoFilter /\ page.requestId = 1 /\ ~page.hasMore
        /\ page.shown = <<>>
    BY <1>2
  <1>5. page \in Page
    <2>1. <<>> \in Seq(Rows) /\ 0 \in 0..MaxRows
      BY <1>3
    <2> QED
      BY <1>2, <1>3, <2>1 DEF Page
  <1>6. /\ rows \subseteq 1..created /\ created \in 0..MaxRows /\ tabled \subseteq Rows
        /\ rows \subseteq Rows /\ matching \in [Filters -> SUBSET Rows]
    BY <1>2, <1>3, ListingAssumption DEF Rows
  <1>7. browse \in Browse /\ ~browse.valid /\ browse.steady = Listed(NoFilter)
        /\ browse.matched = Query(NoFilter)
    <2>1. Listed(NoFilter) \in SUBSET Rows /\ Query(NoFilter) \in SUBSET Rows
      BY <1>6 DEF Listed, Query
    <2> QED
      BY <1>2, <2>1 DEF NewBrowse, Browse
  <1>8. ListingTypeOK
    BY <1>1, <1>2, <1>3, <1>5, <1>6, <1>7 DEF ListingTypeOK
  <1>9. RequestInv(r)
    BY <1>1, <1>4, NothingTaken DEF RequestInv
  <1>10. \A n : n \notin In(page.shown)
    BY <1>4, NothingTaken
  <1> QED
    BY <1>1, <1>2, <1>3, <1>4, <1>7, <1>8, <1>9, <1>10 DEF ListInv

\* So does CountInv: nothing is taken.
LEMMA CountInit ==
    ASSUME Init
    PROVE  CountInv
  <1>1. PICK r \in Request :
              /\ requests = {r} /\ SoundRequest(r) /\ ~ranOut(r) /\ scanned(r) = 0
              /\ r.id = 1 /\ r.filters = NoFilter /\ r.append = FALSE
              /\ r.offset = 0 /\ r.accumulated = <<>> /\ r.step = "fetch"
    BY FirstRequest
  <1> DEFINE Q == Query(page.filters)
  <1>2. Q \in SUBSET (0..MaxRows) /\ MaxRows \in Nat
    BY ListInit, EachIs
  <1>3. browse.added = 0 /\ browse.removed = 0 /\ ~browse.valid
    BY DEF Init, NewBrowse
  <1>4. base(r) = <<>>
    BY <1>1 DEF base
  <1> HIDE DEF Q
  <1>5. /\ FewRepeated(Q, 0, <<>>, <<>>, 0)
        /\ FewSkipped(Q, browse.steady, 0, <<>>, <<>>, 0)
    BY <1>2, CountStart
  <1>6. \A t \in 0..0 : t = 0
    OBVIOUS
  <1>7. RequestCount(Q, browse, <<>>, r)
    BY <1>1, <1>3, <1>5, <1>6 DEF RequestCount
  <1> QED
    BY <1>1, <1>3, <1>4, <1>7 DEF CountInv, Q

\* Nothing moves by itself.
LEMMA Stutters ==
    ASSUME UNCHANGED vars
    PROVE  /\ ListInv => ListInv'
           /\ CountInv => CountInv'
           /\ OrderInv => OrderInv'
  <1>1. /\ rows' = rows /\ matching' = matching
        /\ created' = created /\ tabled' = tabled /\ changes' = changes
        /\ page' = page /\ requests' = requests /\ deleting' = deleting /\ browse' = browse
    BY DEF vars
  <1>2. ListingTypeOK' = ListingTypeOK
    BY <1>1 DEF ListingTypeOK
  <1>3. \A f : Query(f)' = Query(f) /\ Listed(f)' = Listed(f)
    BY <1>1 DEF Query, Listed
  <1>4. \A q : RequestInv(q)' = RequestInv(q) /\ base(q)' = base(q) /\ current(q)' = current(q)
    BY <1>1 DEF RequestInv, base, current
  <1>5. Stable' = Stable
    BY <1>1 DEF Stable
  <1>6. ListInv => ListInv'
    BY <1>1, <1>2, <1>3, <1>4 DEF ListInv
  <1>7. CountInv => CountInv'
    BY <1>1, <1>3, <1>4 DEF CountInv
  <1>8. OrderInv => OrderInv'
    BY <1>1, <1>3, <1>4, <1>5 DEF OrderInv
  <1> QED
    BY <1>6, <1>7, <1>8

\* Each step keeps ListInv.
LEMMA ListStep ==
    ASSUME ListInv, [Next]_vars
    PROVE  ListInv'
  <1>1. CASE \E f \in Filters : select_filters(f)
    BY <1>1, ListSelect
  <1>2. CASE loadMore
    BY <1>2, ListMore
  <1>3. CASE \E q \in requests : fetch_chunk(q)
    BY <1>3, ListFetch
  <1>4. CASE \E q \in requests : count_listed(q)
    BY <1>4, ListCount
  <1>5. CASE \E q \in requests : receive(q)
    BY <1>5, ListReceive
  <1>6. CASE \E q \in requests : fail(q)
    BY <1>6, ListFail
  <1>7. CASE \E listed \in BOOLEAN : create_dataset(listed)
    BY <1>7, ListCreate
  <1>8. CASE \E n \in Rows : table_changes(n)
    BY <1>8, ListTable
  <1>9. CASE \E n \in Rows : delete_dataset(n)
    <2>1. PICK n \in Rows : delete_dataset(n)
      BY <1>9
    <2> QED
      BY <2>1, ListRemove DEF delete_dataset
  <1>10. CASE \E n \in Rows : deleteIntegrityLink(n)
    <2>1. PICK n \in Rows : deleteIntegrityLink(n)
      BY <1>10
    <2> QED
      BY <2>1, ListRemove DEF deleteIntegrityLink
  <1>11. CASE deleted
    BY <1>11, ListDeleted
  <1>12. CASE UNCHANGED vars
    BY <1>12, Stutters
  <1>13. CASE \E n \in Rows, S \in SUBSET Filters : edit_dataset(n, S)
    BY <1>13, ListEdit
  <1> QED
    BY <1>1, <1>2, <1>3, <1>4, <1>5, <1>6, <1>7, <1>8, <1>9, <1>10, <1>11, <1>12,
       <1>13 DEF Next, Answer

\* Each step keeps CountInv.
LEMMA CountStep ==
    ASSUME ListInv, CountInv, [Next]_vars
    PROVE  CountInv'
  <1>1. CASE \E f \in Filters : select_filters(f)
    BY <1>1, CountSelect
  <1>2. CASE loadMore
    BY <1>2, CountMore
  <1>3. CASE \E q \in requests : fetch_chunk(q)
    BY <1>3, CountFetch
  <1>4. CASE \E q \in requests : count_listed(q)
    BY <1>4, CountCount
  <1>5. CASE \E q \in requests : receive(q)
    BY <1>5, CountReceive
  <1>6. CASE \E q \in requests : fail(q)
    BY <1>6, CountFail
  <1>7. CASE \E listed \in BOOLEAN : create_dataset(listed)
    BY <1>7, CountCreate
  <1>8. CASE \E n \in Rows : table_changes(n)
    BY <1>8, CountTable
  <1>9. CASE \E n \in Rows : delete_dataset(n)
    <2>1. PICK n \in Rows : delete_dataset(n)
      BY <1>9
    <2> QED
      BY <2>1, CountRemove DEF delete_dataset
  <1>10. CASE \E n \in Rows : deleteIntegrityLink(n)
    <2>1. PICK n \in Rows : deleteIntegrityLink(n)
      BY <1>10
    <2> QED
      BY <2>1, CountRemove DEF deleteIntegrityLink
  <1>11. CASE deleted
    BY <1>11, CountDeleted
  <1>12. CASE UNCHANGED vars
    BY <1>12, Stutters
  <1>13. CASE \E n \in Rows, S \in SUBSET Filters : edit_dataset(n, S)
    BY <1>13, CountEdit
  <1> QED
    BY <1>1, <1>2, <1>3, <1>4, <1>5, <1>6, <1>7, <1>8, <1>9, <1>10, <1>11, <1>12,
       <1>13 DEF Next, Answer

\* ListInv holds in every reachable state.
LEMMA ListInvAlways == Spec => []ListInv
  <1>1. Init => ListInv
    BY ListInit
  <1>2. ListInv /\ [Next]_vars => ListInv'
    BY ListStep
  <1> QED
    BY <1>1, <1>2, PTL DEF Spec

\* CountInv holds in every reachable state.
LEMMA CountInvAlways == Spec => []CountInv
  <1>1. Init => CountInv
    BY CountInit
  <1>2. ListInv /\ CountInv /\ [Next]_vars => CountInv'
    BY CountStep
  <1> QED
    BY <1>1, <1>2, ListInvAlways, PTL DEF Spec

\* Type correctness, for any number of rows and requests: what a request accumulates are
\* rows at offsets of the query, and the next offset is one, too.
THEOREM ListingTypeOKAlways == Spec => []ListingTypeOK
  <1>1. ListInv => ListingTypeOK
    BY DEF ListInv
  <1> QED
    BY <1>1, ListInvAlways, PTL

\* Once the list of the present filters has arrived, what it holds was let through by
\* them at some time since it was asked for, although answers to earlier filters may
\* still arrive (requestId in integrity-link-list.component.ts) and datasets be edited.
THEOREM ShownMatchesFiltersAlways == Spec => []ShownMatchesFilters
  <1>1. ListInv => ShownMatchesFilters
    BY DEF ListInv, ShownMatchesFilters, Shown, In
  <1> QED
    BY <1>1, ListInvAlways, PTL

\* A list loaded to its end misses at most one dataset for each row that left the query
\* while it was loaded, deleted or edited: none if no row did (next_offset of
\* list_integrity_links is the offset of a row).
THEOREM SkippedAtMostRemovedAlways == Spec => []SkippedAtMostRemoved
  <1>1. CountInv => SkippedAtMostRemoved
    BY DEF CountInv, PageCount, SkippedAtMostRemoved, Shown, In
  <1> QED
    BY <1>1, CountInvAlways, PTL

\* A list repeats at most one dataset for each row that came into the query meanwhile,
\* created or edited.
THEOREM RepeatedAtMostAddedAlways == Spec => []RepeatedAtMostAdded
  <1>1. ASSUME ListInv, CountInv, browse.valid
        PROVE  Len(page.shown) - Cardinality(Shown) <= browse.added
    <2> DEFINE Q == Query(page.filters)
               t == page.nextOffset
               A == Ahead(Q, In(page.shown), t)
    <2>1. Shown = In(page.shown)
      BY DEF Shown, In
    <2>2. /\ page.shown \in Seq(0..MaxRows) /\ MaxRows \in Nat /\ Q \in SUBSET (0..MaxRows)
          /\ In(page.shown) \subseteq 1..created /\ created \in 0..MaxRows
          /\ browse.added \in Nat /\ browse.steady \in SUBSET Q
      BY <1>1, EachIs, ListTypes
    <2>3. FewRepeated(Q, browse.added, page.shown, <<>>, t)
      BY <1>1 DEF CountInv, PageCount
    <2> HIDE DEF Q, t
    <2>4. Taken(page.shown, <<>>, t) = In(page.shown) /\ Cardinality(Below(DOMAIN <<>>, t)) = 0
      BY NothingTaken
    <2>5. Len(page.shown) + 0 + Cardinality(A) <= Cardinality(In(page.shown)) + browse.added
      BY <2>3, <2>4 DEF FewRepeated
    <2>6. Cardinality(A) \in Nat
      BY <2>2, AheadNat
    <2>7. In(page.shown) \in SUBSET (0..MaxRows)
      BY <2>2
    <2>8. Cardinality(In(page.shown)) \in Nat
      BY <2>2, <2>7, Bounded
    <2>9. Len(page.shown) \in Nat
      BY <2>2
    <2> HIDE DEF A
    <2> QED
      BY <2>1, <2>2, <2>5, <2>6, <2>8, <2>9
  <1>2. ListInv /\ CountInv => RepeatedAtMostAdded
    BY <1>1 DEF RepeatedAtMostAdded
  <1> QED
    BY <1>2, ListInvAlways, CountInvAlways, PTL

-----------------------------------------------------------------------------
(* The order of the list, while nothing changes *)

\* What Until is made of.
LEMMA UntilIs ==
    \A Q, L, t, n : n \in Until(Q, L, t) <=> n \in L /\ Off(Q, n) < t
  BY DEF Until

\* A list in descending order that holds the rows before an offset is the beginning of
\* the newest rows.
LEMMA NewestIs ==
    ASSUME NEW M \in Nat, NEW Q \in SUBSET (0..M), NEW L \in SUBSET Q, NEW t \in Nat,
           NEW s \in Seq(0..M), InOrder(Q, L, s, t)
    PROVE  /\ Len(Newest(L)) = Cardinality(L)
           /\ Len(s) <= Cardinality(L) /\ s = SubSeq(Newest(L), 1, Len(s))
           /\ In(s) # L <=> Len(s) < Cardinality(L)
  <1> DEFINE k == Len(s)
             c == Cardinality(L)
  <1>1. (\A i, j \in DOMAIN s : i < j => s[i] > s[j]) /\ In(s) = Until(Q, L, t)
    BY DEF InOrder
  <1>2. k \in Nat /\ DOMAIN s = 1..k /\ \A i \in 1..k : s[i] \in 0..M
    OBVIOUS
  <1>3. L \in SUBSET (0..M) /\ In(s) \subseteq L
    BY <1>1, UntilIs
  <1>4. c \in Nat /\ IsFiniteSet(L) /\ In(s) \in SUBSET (0..M)
    BY <1>3, Bounded
  <1>5. \A n : n \in In(s) <=> n \in L /\ Off(Q, n) < t
    BY <1>1, UntilIs
  <1>6. ASSUME NEW n \in In(s), NEW m \in L, m > n
        PROVE  m \in In(s)
    <2>1. n \in Q /\ m \in Q /\ n < m
      <3>1. n \in L /\ m \in L /\ n \in 0..M /\ m \in 0..M
        BY <1>3
      <3> QED
        BY <1>6, <3>1
    <2>2. Off(Q, m) < Off(Q, n) /\ Off(Q, m) \in Nat /\ Off(Q, n) \in Nat
      BY <2>1, RankType
    <2> QED
      BY <1>5, <2>2
  <1>7. \A n : n \in In(s) <=> \E i \in 1..k : n = s[i]
    BY <1>2 DEF In
  <1>8. \A i, j \in 1..k : i < j => s[i] > s[j]
    BY <1>1, <1>2
  <1> HIDE DEF k, c
  <1>9. Cardinality(In(s)) = k
    <2> DEFINE f == [i \in 1..k |-> s[i]]
    <2>1. f \in [1..k -> In(s)]
      BY <1>7
    <2>2. \A i, j \in 1..k : f[i] = f[j] => i = j
      <3>1. ASSUME NEW i \in 1..k, NEW j \in 1..k, s[i] = s[j]
            PROVE  i = j
        <4>1. s[i] \in Nat /\ ~(s[i] > s[j]) /\ ~(s[j] > s[i])
          BY <1>2, <3>1
        <4> QED
          BY <1>2, <1>8, <4>1
      <3> QED
        BY <3>1
    <2>3. \A n \in In(s) : \E i \in 1..k : f[i] = n
      BY <1>7
    <2>4. IsFiniteSet(1..k) /\ Cardinality(1..k) = k
      BY <1>2, FirstNumbers
    <2> HIDE DEF f
    <2> QED
      BY <2>1, <2>2, <2>3, <2>4, OneToOne
  <1>10. ASSUME NEW i \in 1..k
        PROVE  Off(L, s[i]) = i - 1
    <2> DEFINE f == [j \in 1..(i - 1) |-> s[j]]
               T == Above(L, s[i])
               J == 1..(i - 1)
    <2>1. i - 1 \in Nat /\ \A j \in 1..(i - 1) : j \in 1..k /\ j < i
      BY <1>2
    <2>2. \A n : n \in T <=> n \in L /\ n > s[i]
      BY BelowIs
    <2>3. \A j \in 1..(i - 1) : s[j] \in T
      BY <1>3, <1>7, <1>8, <2>1, <2>2
    <2>4. ASSUME NEW n \in T
          PROVE  \E j \in 1..(i - 1) : s[j] = n
      <3>1. n \in In(s)
        BY <1>6, <1>7, <2>2
      <3>2. PICK j \in 1..k : n = s[j]
        BY <1>7, <3>1
      <3>3. s[j] > s[i] /\ s[j] \in Nat /\ s[i] \in Nat
        BY <1>2, <2>2, <3>2
      <3>4. j < i
        <4>1. ~(i < j)
          BY <1>8, <3>3
        <4>2. i # j
          BY <3>3
        <4> QED
          BY <1>2, <4>1, <4>2
      <3> QED
        BY <1>2, <3>2, <3>4
    <2>5. \A x, y \in 1..(i - 1) : s[x] = s[y] => x = y
      <3>1. ASSUME NEW x \in 1..(i - 1), NEW y \in 1..(i - 1), s[x] = s[y]
            PROVE  x = y
        <4>1. x \in 1..k /\ y \in 1..k
          BY <2>1
        <4>2. s[x] \in Nat /\ ~(s[x] > s[y]) /\ ~(s[y] > s[x])
          BY <1>2, <3>1, <4>1
        <4> QED
          BY <1>2, <1>8, <4>1, <4>2
      <3> QED
        BY <3>1
    <2> HIDE DEF T
    <2>6. f \in [J -> T]
      BY <2>3
    <2>7. /\ \A x, y \in J : f[x] = f[y] => x = y
          /\ \A n \in T : \E j \in J : f[j] = n
      BY <2>4, <2>5
    <2>8. IsFiniteSet(J) /\ Cardinality(J) = i - 1
      BY <2>1, FirstNumbers
    <2> HIDE DEF f, J
    <2>9. Cardinality(T) = i - 1
      BY <2>6, <2>7, <2>8, OneToOne
    <2> QED
      BY <2>9 DEF T, Off
  <1>11. k <= c
    BY <1>3, <1>4, <1>9, FS_Subset DEF c
  <1>12. ASSUME NEW i \in 1..k
         PROVE  Nth(L, c + 1 - i) = s[i]
    <2>1. s[i] \in L
      BY <1>3, <1>7
    <2>2. rank(L, s[i]) + Off(L, s[i]) + 1 = c /\ rank(L, s[i]) \in Nat
      BY <1>3, <2>1, RankType DEF c
    <2>3. rank(L, s[i]) + 1 = c + 1 - i
      BY <1>2, <1>4, <1>10, <2>2
    <2>4. Nth(L, rank(L, s[i]) + 1) = s[i]
      BY <1>3, <2>1, NthOf
    <2> QED
      BY <2>3, <2>4
  <1>13. /\ Newest(L) = [i \in 1..c |-> Nth(L, c + 1 - i)]
         /\ \A i \in 1..c : Nth(L, c + 1 - i) \in L
    <2>1. Newest(L) = [i \in 1..c |-> Nth(L, c + 1 - i)]
      BY DEF Newest, c
    <2>2. ASSUME NEW i \in 1..c
          PROVE  Nth(L, c + 1 - i) \in L
      <3>1. c + 1 - i \in 1..c
        BY <1>4
      <3> QED
        BY <1>3, <3>1, NthOf DEF c
    <2> QED
      BY <2>1, <2>2
  <1>14. Newest(L) \in Seq(L) /\ Len(Newest(L)) = c
    <2>1. Newest(L) \in [1..c -> L]
      BY <1>13
    <2> QED
      BY <1>4, <2>1, FunctionIsSeq
  <1>15. \A i \in 1..k : Newest(L)[i] = s[i]
    <2>1. \A i \in 1..k : i \in 1..c
      BY <1>2, <1>4, <1>11
    <2> QED
      BY <1>12, <1>13, <2>1
  <1>16. s = SubSeq(Newest(L), 1, k)
    <2>1. s = [i \in 1..k |-> s[i]]
      BY <1>2
    <2>2. SubSeq(Newest(L), 1, k) = [i \in 1..k |-> Newest(L)[i]]
      BY <1>2, <1>4, <1>11, <1>14
    <2> QED
      BY <1>15, <2>1, <2>2
  <1>17. In(s) # L <=> k < c
    <2>1. Cardinality(L) = Cardinality(In(s)) => L = In(s)
      BY <1>3, <1>4, FS_Subset
    <2> QED
      BY <1>2, <1>4, <1>9, <1>11, <2>1 DEF c
  <1> QED
    BY <1>11, <1>14, <1>16, <1>17 DEF k, c

\* The order of the list says what PagesMakeTheList does.
LEMMA OrderedPages ==
    ASSUME ListInv, OrderInv
    PROVE  PagesMakeTheList
  <1> DEFINE Q == Query(page.filters)
             L == Listed(page.filters)
             s == page.shown
             t == page.nextOffset
  <1>1. SUFFICES ASSUME Stable, browse.valid
                 PROVE  /\ Len(s) <= Len(Newest(L))
                        /\ s = SubSeq(Newest(L), 1, Len(s))
                        /\ page.total = Len(Newest(L))
                        /\ page.hasMore <=> Len(s) < Len(Newest(L))
    BY DEF PagesMakeTheList, Stable
  <1>2. /\ MaxRows \in Nat /\ Q \in SUBSET (0..MaxRows) /\ L \in SUBSET Q
        /\ t \in Nat /\ s \in Seq(0..MaxRows)
    BY EachIs, ListTypes
  <1>3. PageOrder(Q, L, page)
    BY <1>1 DEF OrderInv
  <1>4. /\ InOrder(Q, L, s, t) /\ (page.hasMore <=> In(s) # L)
        /\ page.total = Cardinality(L)
    BY <1>3 DEF PageOrder
  <1> HIDE DEF Q, L, s, t
  <1>5. /\ Len(Newest(L)) = Cardinality(L)
        /\ Len(s) <= Cardinality(L) /\ s = SubSeq(Newest(L), 1, Len(s))
        /\ In(s) # L <=> Len(s) < Cardinality(L)
    BY <1>2, <1>4, NewestIs
  <1> QED
    BY <1>4, <1>5

\* A request that starts has found nothing yet.
LEMMA OrderStart ==
    ASSUME NEW M \in Nat, NEW Q \in SUBSET (0..M), NEW L \in SUBSET Q, NEW next \in Nat,
           NEW r, NEW f, NEW append, NEW offset \in Nat, Starts(r, f, append, offset),
           append => offset = next
    PROVE  RequestOrder(Q, L, next, r)
  <1>1. /\ ~ranOut(r) /\ scanned(r) = offset /\ r.append = append /\ r.offset = offset
        /\ r.accumulated = <<>> /\ r.step = "fetch"
    BY DEF Starts
  <1>2. \A n \in Until(Q, L, offset) : ~(Off(Q, n) >= offset)
    <2>1. \A n : Off(Q, n) \in Nat
      BY RankNat
    <2> QED
      BY <2>1, UntilIs
  <1>3. \A o : o \notin DOMAIN r.accumulated
    BY <1>1, NothingTaken
  <1> QED
    BY <1>1, <1>2, <1>3 DEF RequestOrder

\* Only what the order is about matters.
LEMMA OrderKept ==
    ASSUME ListInv, OrderInv, requests' \subseteq requests,
           rows' = rows /\ matching' = matching, tabled' = tabled,
           browse' = browse, page'.filters = page.filters, page'.shown = page.shown,
           page'.requestId = page.requestId, page'.hasMore = page.hasMore,
           page'.nextOffset = page.nextOffset, page'.total = page.total
    PROVE  OrderInv'
  <1>1. /\ Query(page.filters)' = Query(page.filters)
        /\ Listed(page.filters)' = Listed(page.filters)
        /\ Stable' = Stable
    BY DEF Query, Listed, Stable
  <1>2. Stable => /\ \A q \in requests' : current(q)' =>
                        RequestOrder(Query(page.filters), Listed(page.filters),
                                     page.nextOffset, q)
                  /\ browse.valid =>
                        PageOrder(Query(page.filters), Listed(page.filters), page)
    BY DEF OrderInv, current
  <1>3. Stable /\ browse.valid =>
            PageOrder(Query(page.filters), Listed(page.filters), page')
    BY <1>2 DEF PageOrder
  <1> QED
    BY <1>1, <1>2, <1>3 DEF OrderInv

\* A failed request leaves the list as it is.
LEMMA OrderFail ==
    ASSUME ListInv, OrderInv, NEW q \in requests, fail(q)
    PROVE  OrderInv'
  <1>1. /\ rows' = rows /\ matching' = matching
        /\ tabled' = tabled /\ browse' = browse /\ requests' = requests \ {q}
        /\ page' = page \/ page' = [page EXCEPT !.loading = FALSE, !.loadingMore = FALSE]
    BY DEF fail, dbVars
  <1>2. /\ page'.filters = page.filters /\ page'.shown = page.shown
        /\ page'.requestId = page.requestId /\ page'.hasMore = page.hasMore
        /\ page'.nextOffset = page.nextOffset /\ page'.total = page.total
    BY <1>1, ListTypes DEF Page
  <1> QED
    BY <1>1, <1>2, OrderKept

\* Other filters: nothing is found yet.
LEMMA OrderSelect ==
    ASSUME ListInv, OrderInv, NEW f \in Filters, select_filters(f)
    PROVE  OrderInv'
  <1>1. PICK r : r = NewRequest(f, FALSE, 0)
    OBVIOUS
  <1> DEFINE R == Query(page.filters)'
             L == Listed(page.filters)'
  <1>2. /\ page.requestId < MaxRequests
        /\ page' = [page EXCEPT !.filters = f, !.loading = TRUE, !.hasMore = FALSE,
                                !.nextOffset = 0, !.requestId = @ + 1]
        /\ requests' = requests \cup {r} /\ browse' = NewBrowse(f)
        /\ rows' = rows /\ matching' = matching
        /\ tabled' = tabled
    BY <1>1 DEF select_filters, dbVars
  <1>3. Starts(r, f, FALSE, 0)
    <2>1. 0 \in 0..MaxRows /\ FALSE \in BOOLEAN
      BY ConstantTypes
    <2> QED
      BY <1>1, <1>2, <2>1, NewRequestIs
  <1>4. /\ page'.requestId = page.requestId + 1 /\ page'.filters = f
        /\ page'.nextOffset = 0
    BY <1>2, ListTypes DEF Page
  <1>5. ~browse'.valid
    BY <1>2 DEF NewBrowse
  <1>6. R \in SUBSET (0..MaxRows) /\ MaxRows \in Nat /\ L \in SUBSET R
    <2>1. R = Query(f) /\ L = Listed(f)
      BY <1>2, <1>4 DEF Query, Listed
    <2> QED
      BY <2>1, ListTypes, ConstantTypes
  <1>7. ASSUME NEW q \in requests', current(q)'
        PROVE  q = r
    <2>1. q \in requests => q.id <= page.requestId /\ q.id \in Nat /\ page.requestId \in Nat
      BY ListTypes, InvParts, RequestTypes
    <2>2. q.id = page.requestId + 1
      BY <1>4, <1>7 DEF current
    <2> QED
      BY <1>2, <2>1, <2>2
  <1> HIDE DEF R, L
  <1>8. RequestOrder(R, L, 0, r)
    BY <1>3, <1>6, OrderStart
  <1>9. \A q \in requests' : current(q)' => RequestOrder(R, L, page'.nextOffset, q)
    BY <1>4, <1>7, <1>8
  <1> QED
    BY <1>5, <1>9 DEF OrderInv, R, L

\* The next page starts where the list ends.
LEMMA OrderMore ==
    ASSUME ListInv, OrderInv, loadMore
    PROVE  OrderInv'
  <1>1. PICK r : r = NewRequest(page.filters, TRUE, page.nextOffset)
    OBVIOUS
  <1> DEFINE Q == Query(page.filters)
             L == Listed(page.filters)
             t == page.nextOffset
  <1>2. /\ page.requestId < MaxRequests
        /\ page' = [page EXCEPT !.loadingMore = TRUE, !.requestId = @ + 1]
        /\ requests' = requests \cup {r} /\ browse' = browse
        /\ rows' = rows /\ matching' = matching
        /\ tabled' = tabled
    BY <1>1 DEF loadMore, dbVars
  <1>3. Starts(r, page.filters, TRUE, t)
    BY <1>1, <1>2, ListTypes, NewRequestIs
  <1>4. /\ page'.requestId = page.requestId + 1 /\ page'.filters = page.filters
        /\ page'.shown = page.shown /\ page'.hasMore = page.hasMore
        /\ page'.nextOffset = page.nextOffset /\ page'.total = page.total
    BY <1>2, ListTypes DEF Page
  <1>5. ASSUME NEW q \in requests', current(q)'
        PROVE  q = r
    <2>1. q \in requests => q.id <= page.requestId /\ q.id \in Nat /\ page.requestId \in Nat
      BY ListTypes, InvParts, RequestTypes
    <2>2. q.id = page.requestId + 1
      BY <1>4, <1>5 DEF current
    <2> QED
      BY <1>2, <2>1, <2>2
  <1>6. Query(page.filters)' = Q /\ Listed(page.filters)' = L /\ Stable' = Stable
    BY <1>2, <1>4 DEF Query, Listed, Stable
  <1>7. RequestOrder(Q, L, t, r)
    <2>1. Q \in SUBSET (0..MaxRows) /\ MaxRows \in Nat /\ L \in SUBSET Q /\ t \in Nat
      BY EachIs, ListTypes
    <2> HIDE DEF Q, L, t
    <2> QED
      BY <1>3, <2>1, OrderStart
  <1>8. Stable /\ browse.valid => PageOrder(Q, L, page')
    <2>1. Stable /\ browse.valid => PageOrder(Q, L, page)
      BY DEF OrderInv
    <2> QED
      BY <1>4, <2>1 DEF PageOrder
  <1> HIDE DEF Q, L
  <1> QED
    BY <1>2, <1>4, <1>5, <1>6, <1>7, <1>8 DEF OrderInv

\* Once a row came or went, or a table did, there is nothing left to say.
LEMMA OrderChanges ==
    ASSUME ListInv, \/ \E listed \in BOOLEAN : create_dataset(listed)
                    \/ \E n \in Rows : table_changes(n) \/ Remove(n)
                    \/ deleted
    PROVE  OrderInv'
  <1>1. browse \in Browse /\ browse.added \in Nat /\ browse.removed \in Nat
    BY ListTypes
  <1>2. CASE \E listed \in BOOLEAN : create_dataset(listed)
    <2>1. PICK add, new : /\ add = browse.added + 1
                          /\ browse' = [browse EXCEPT !.added = add, !.matched = new]
      BY <1>2 DEF create_dataset
    <2>2. browse'.added = browse.added + 1
      BY <1>1, <2>1 DEF Browse
    <2> QED
      BY <1>1, <2>2 DEF OrderInv, Stable
  <1>3. CASE \E n \in Rows : table_changes(n)
    <2>1. browse'.relisted
      BY <1>1, <1>3 DEF table_changes, Browse
    <2> QED
      BY <2>1 DEF OrderInv, Stable
  <1>4. CASE \E n \in Rows : Remove(n)
    <2>1. browse'.removed = browse.removed + 1
      BY <1>1, <1>4 DEF Remove, Browse
    <2> QED
      BY <1>1, <2>1 DEF OrderInv, Stable
  <1>5. CASE deleted
    <2>1. browse' = browse /\ browse.removed > 0
      BY <1>5 DEF deleted, ListInv
    <2> QED
      BY <1>1, <2>1 DEF OrderInv, Stable
  <1> QED
    BY <1>2, <1>3, <1>4, <1>5

\* An edited dataset: the query is the same, or there is nothing left to say.
LEMMA OrderEdit ==
    ASSUME ListInv, OrderInv, NEW n \in Rows, NEW S \in SUBSET Filters, edit_dataset(n, S)
    PROVE  OrderInv'
  <1> DEFINE f == page.filters
  <1>1. /\ page' = page /\ requests' = requests /\ tabled' = tabled /\ Edited(n, f)
    BY EditIs DEF Edited
  <1>2. browse \in Browse /\ browse.added \in Nat /\ browse.removed \in Nat
    BY ListTypes
  <1>3. CASE Query(f)' = Query(f) /\ browse' = browse
    <2>1. /\ Query(page.filters)' = Query(f) /\ Listed(page.filters)' = Listed(f)
          /\ Stable' = Stable
      BY <1>1, <1>3 DEF Listed, Stable
    <2>2. \A q : current(q)' = current(q)
      BY <1>1 DEF current
    <2> QED
      BY <1>1, <1>3, <2>1, <2>2 DEF OrderInv
  <1>4. ASSUME NEW st, NEW rem, rem = browse.removed + 1,
               browse' = [browse EXCEPT !.removed = rem, !.steady = st]
        PROVE  OrderInv'
    <2>1. browse'.removed = rem
      BY <1>2, <1>4 DEF Browse
    <2> QED
      BY <1>2, <1>4, <2>1 DEF OrderInv, Stable
  <1>5. ASSUME NEW new, NEW add, add = browse.added + 1,
               browse' = [browse EXCEPT !.added = add, !.matched = new]
        PROVE  OrderInv'
    <2>1. browse'.added = add
      BY <1>2, <1>5 DEF Browse
    <2> QED
      BY <1>2, <1>5, <2>1 DEF OrderInv, Stable
  <1> QED
    BY <1>1, <1>3, <1>4, <1>5 DEF Edited

\* A chunk adds the rows of the list between where the request was and where it is.
LEMMA OrderFinds ==
    ASSUME NEW M \in Nat, NEW Q \in SUBSET (0..M), NEW L \in SUBSET Q, NEW X \in SUBSET L,
           NEW next, NEW q, NEW r, RequestOrder(Q, L, next, q),
           Adds(q.accumulated, r.accumulated, Q, X, scanned(q)),
           r.append = q.append, r.offset = q.offset,
           scanned(q) \in Nat, scanned(r) \in Nat,
           \A n \in L : scanned(q) <= Off(Q, n) /\ Off(Q, n) < scanned(r) => n \in X,
           ranOut(r) => \A n \in Q : Off(Q, n) < scanned(r),
           ~r.append => r.step # "answered"
    PROVE  RequestOrder(Q, L, next, r)
  <1>1. \A n : Off(Q, n) \in Nat
    BY RankNat
  <1>2. /\ \A o : o \in DOMAIN r.accumulated <=>
                 o \in DOMAIN q.accumulated \/ \E n \in X : o = Off(Q, n)
        /\ \A o \in DOMAIN q.accumulated : r.accumulated[o] = q.accumulated[o]
        /\ \A n \in X : r.accumulated[Off(Q, n)] = n
    <2> DEFINE acc == q.accumulated
               more == r.accumulated
               f == scanned(q)
    <2>1. Adds(acc, more, Q, X, f)
      OBVIOUS
    <2> HIDE DEF acc, more, f
    <2>2. \A o : o \in DOMAIN more <=> o \in DOMAIN acc \/ \E n \in X : o = Off(Q, n)
      <3>1. DOMAIN more = DOMAIN acc \cup {Off(Q, n) : n \in X}
        BY <2>1 DEF Adds
      <3> QED
        BY <3>1
    <2>3. /\ \A o \in DOMAIN acc : more[o] = acc[o]
          /\ \A n \in X : more[Off(Q, n)] = n
      BY <2>1 DEF Adds
    <2> QED
      BY <2>2, <2>3 DEF acc, more
  <1>3. /\ \A n \in Until(Q, L, scanned(q)) : Off(Q, n) >= q.offset =>
              Off(Q, n) \in DOMAIN q.accumulated /\ q.accumulated[Off(Q, n)] = n
        /\ \A o \in DOMAIN q.accumulated :
              q.accumulated[o] \in L /\ Off(Q, q.accumulated[o]) = o
        /\ q.append => q.offset = next
    BY DEF RequestOrder
  <1>4. ASSUME NEW n \in Until(Q, L, scanned(r)), Off(Q, n) >= q.offset
        PROVE  Off(Q, n) \in DOMAIN r.accumulated /\ r.accumulated[Off(Q, n)] = n
    <2>1. n \in L /\ Off(Q, n) < scanned(r)
      BY UntilIs
    <2>2. CASE Off(Q, n) < scanned(q)
      <3>1. n \in Until(Q, L, scanned(q))
        BY <2>1, <2>2, UntilIs
      <3> QED
        BY <1>2, <1>3, <1>4, <3>1
    <2>3. CASE scanned(q) <= Off(Q, n)
      <3>1. n \in X
        BY <2>1, <2>3
      <3> QED
        BY <1>2, <3>1
    <2> QED
      BY <1>1, <2>2, <2>3
  <1>5. ASSUME NEW o \in DOMAIN r.accumulated
        PROVE  r.accumulated[o] \in L /\ Off(Q, r.accumulated[o]) = o
    <2>1. CASE o \in DOMAIN q.accumulated
      BY <1>2, <1>3, <2>1
    <2>2. CASE \E n \in X : o = Off(Q, n)
      BY <1>2, <2>2
    <2> QED
      BY <1>2, <2>1, <2>2
  <1>6. ASSUME ranOut(r)
        PROVE  Until(Q, L, scanned(r)) = L
    <2>1. \A n : n \in Until(Q, L, scanned(r)) <=> n \in L
      BY <1>6, UntilIs
    <2> QED
      BY <2>1
  <1> QED
    BY <1>3, <1>4, <1>5, <1>6 DEF RequestOrder

\* A chunk.
LEMMA OrderFetch ==
    ASSUME ListInv, OrderInv, NEW q \in requests, fetch_chunk(q)
    PROVE  OrderInv'
  <1>1. PICK r, X : Fetched(q, r, X)
    BY FetchedIs
  <1>2. /\ page' = page /\ browse' = browse /\ rows' = rows /\ matching' = matching
        /\ tabled' = tabled
    BY DEF fetch_chunk, dbVars
  <1> DEFINE Q == Query(page.filters)
             L == Listed(page.filters)
             t == page.nextOffset
  <1>3. /\ requests' = (requests \ {q}) \cup {r} /\ r \in Request
        /\ r.id = q.id /\ r.append = q.append /\ r.offset = q.offset
        /\ X \in SUBSET Listed(q.filters)
        /\ Adds(q.accumulated, r.accumulated, Query(q.filters), X, scanned(q))
        /\ \A n \in Listed(q.filters) :
              scanned(q) <= Off(Query(q.filters), n) /\ Off(Query(q.filters), n) < scanned(r)
                  => n \in X
        /\ ranOut(r) => \A n \in Query(q.filters) : Off(Query(q.filters), n) < scanned(r)
        /\ ~r.append => r.step # "answered"
    BY <1>1 DEF Fetched
  <1>4. ASSUME Stable, current(q)
        PROVE  RequestOrder(Q, L, t, r)
    <2>1. q.filters = page.filters
      BY <1>4, InvParts
    <2>2. RequestOrder(Q, L, t, q)
      BY <1>4 DEF OrderInv
    <2>3. /\ Q \in SUBSET (0..MaxRows) /\ MaxRows \in Nat /\ L \in SUBSET Q
          /\ scanned(q) \in Nat /\ scanned(r) \in Nat
      BY <1>3, EachIs, ListTypes, RequestTypes
    <2>4. /\ X \in SUBSET L /\ Adds(q.accumulated, r.accumulated, Q, X, scanned(q))
          /\ \A n \in L : scanned(q) <= Off(Q, n) /\ Off(Q, n) < scanned(r) => n \in X
          /\ ranOut(r) => \A n \in Q : Off(Q, n) < scanned(r)
      BY <1>3, <2>1
    <2>5. r.append = q.append /\ r.offset = q.offset /\ (~r.append => r.step # "answered")
      BY <1>3
    <2> HIDE DEF Q, L, t
    <2> QED
      BY <2>2, <2>3, <2>4, <2>5, OrderFinds
  <1>5. /\ Query(page.filters)' = Q /\ Listed(page.filters)' = L /\ Stable' = Stable
    BY <1>2 DEF Query, Listed, Stable
  <1>6. ASSUME Stable, NEW p \in requests', current(p)
        PROVE  RequestOrder(Q, L, t, p)
    <2>1. CASE p = r
      BY <1>3, <1>4, <1>6, <2>1 DEF current
    <2>2. CASE p \in requests
      BY <1>6, <2>2 DEF OrderInv
    <2> QED
      BY <1>3, <2>1, <2>2
  <1>7. \A p : current(p)' = current(p)
    BY <1>2 DEF current
  <1>8. Stable /\ browse.valid => PageOrder(Q, L, page)
    BY DEF OrderInv
  <1> HIDE DEF Q, L
  <1> QED
    BY <1>2, <1>5, <1>6, <1>7, <1>8 DEF OrderInv

\* The total is that of the list.
LEMMA OrderCount ==
    ASSUME ListInv, OrderInv, NEW q \in requests, count_listed(q)
    PROVE  OrderInv'
  <1>1. PICK r \in Request :
              /\ requests' = (requests \ {q}) \cup {r}
              /\ r.id = q.id /\ r.filters = q.filters /\ r.append = q.append
              /\ r.offset = q.offset /\ r.accumulated = q.accumulated
              /\ scanned(r) = scanned(q) /\ ranOut(r) = ranOut(q) /\ SoundRequest(r)
              /\ r.total = Cardinality(Listed(q.filters))
    BY CountedIs
  <1>2. /\ page' = page /\ browse' = browse /\ rows' = rows /\ matching' = matching
        /\ tabled' = tabled
    BY DEF count_listed, dbVars
  <1> DEFINE Q == Query(page.filters)
             L == Listed(page.filters)
             t == page.nextOffset
  <1>3. ASSUME Stable, current(q)
        PROVE  RequestOrder(Q, L, t, r)
    <2>1. RequestOrder(Q, L, t, q)
      BY <1>3 DEF OrderInv
    <2>2. r.total = Cardinality(L)
      BY <1>1, <1>3, InvParts
    <2> HIDE DEF Q, L, t
    <2> QED
      BY <1>1, <2>1, <2>2 DEF RequestOrder
  <1>4. /\ Query(page.filters)' = Q /\ Listed(page.filters)' = L /\ Stable' = Stable
    BY <1>2 DEF Query, Listed, Stable
  <1>5. ASSUME Stable, NEW p \in requests', current(p)
        PROVE  RequestOrder(Q, L, t, p)
    <2>1. CASE p = r
      BY <1>1, <1>3, <1>5, <2>1 DEF current
    <2>2. CASE p \in requests
      BY <1>5, <2>2 DEF OrderInv
    <2> QED
      BY <1>1, <2>1, <2>2
  <1>6. \A p : current(p)' = current(p)
    BY <1>2 DEF current
  <1>7. Stable /\ browse.valid => PageOrder(Q, L, page)
    BY DEF OrderInv
  <1> HIDE DEF Q, L
  <1> QED
    BY <1>2, <1>4, <1>5, <1>6, <1>7 DEF OrderInv

\* The list s ends at b, the items u are what a request found from there to t.
Continues(Q, L, s, u, acc, b, e, t) ==
    /\ b <= t /\ t <= e
    /\ InOrder(Q, L, s, b)
    /\ \A o \in DOMAIN acc : b <= o /\ acc[o] \in L /\ Off(Q, acc[o]) = o
    /\ \A n \in Until(Q, L, e) : Off(Q, n) >= b =>
          Off(Q, n) \in DOMAIN acc /\ acc[Off(Q, n)] = n
    /\ In(u) = {acc[o] : o \in Below(DOMAIN acc, t)}
    /\ \A i, j \in DOMAIN u : i < j =>
          \E o, p \in Below(DOMAIN acc, t) : o < p /\ u[i] = acc[o] /\ u[j] = acc[p]

\* The list with the items ends at t.
LEMMA OrderGoesOn ==
    ASSUME NEW M \in Nat, NEW Q \in SUBSET (0..M), NEW L \in SUBSET Q,
           NEW s \in Seq(0..M), NEW u \in Seq(0..M), NEW acc, NEW b \in Nat, NEW e \in Nat,
           NEW t \in Nat, Continues(Q, L, s, u, acc, b, e, t)
    PROVE  InOrder(Q, L, s \o u, t)
  <1>1. /\ b <= t /\ t <= e
        /\ \A i, j \in DOMAIN s : i < j => s[i] > s[j]
        /\ In(s) = Until(Q, L, b)
        /\ \A o \in DOMAIN acc : b <= o /\ acc[o] \in L /\ Off(Q, acc[o]) = o
        /\ \A n \in Until(Q, L, e) : Off(Q, n) >= b =>
              Off(Q, n) \in DOMAIN acc /\ acc[Off(Q, n)] = n
        /\ In(u) = {acc[o] : o \in Below(DOMAIN acc, t)}
        /\ \A i, j \in DOMAIN u : i < j =>
              \E o, p \in Below(DOMAIN acc, t) : o < p /\ u[i] = acc[o] /\ u[j] = acc[p]
    BY DEF Continues, InOrder
  <1>2. \A n : Off(Q, n) \in Nat
    BY RankNat
  <1>3. \A n \in L : n \in Q /\ n \in Nat
    OBVIOUS
  <1>4. ASSUME NEW m \in L, NEW n \in L, Off(Q, m) < Off(Q, n)
        PROVE  m > n
    <2>1. m \in Q /\ n \in Q /\ m \in Nat /\ n \in Nat
      BY <1>3
    <2>2. m < n => Off(Q, n) < Off(Q, m)
      BY <2>1, RankType
    <2>3. m # n
      BY <1>2, <1>4
    <2> QED
      BY <1>2, <1>4, <2>1, <2>2, <2>3
  <1>5. ASSUME NEW n \in In(u)
        PROVE  n \in L /\ b <= Off(Q, n) /\ Off(Q, n) < t
    <2>1. PICK o \in Below(DOMAIN acc, t) : n = acc[o]
      BY <1>1
    <2>2. o \in DOMAIN acc /\ o < t
      BY BelowIs
    <2> QED
      BY <1>1, <2>1, <2>2
  <1>6. ASSUME NEW n \in L, b <= Off(Q, n), Off(Q, n) < t
        PROVE  n \in In(u)
    <2>1. Off(Q, n) < e
      BY <1>1, <1>2, <1>6
    <2>2. n \in Until(Q, L, e)
      BY <2>1, UntilIs
    <2>3. Off(Q, n) \in DOMAIN acc /\ acc[Off(Q, n)] = n
      BY <1>1, <1>2, <1>6, <2>2
    <2>4. Off(Q, n) \in Below(DOMAIN acc, t)
      BY <1>6, <2>3, BelowIs
    <2> QED
      BY <1>1, <2>3, <2>4
  <1>7. \A n : n \in In(s) <=> n \in L /\ Off(Q, n) < b
    BY <1>1, UntilIs
  <1>8. In(s \o u) = Until(Q, L, t)
    <2>1. \A n : n \in In(s \o u) <=> n \in In(s) \/ n \in In(u)
      BY InConcat
    <2>2. \A n : n \in In(s) \/ n \in In(u) <=> n \in L /\ Off(Q, n) < t
      <3>1. ASSUME NEW n
            PROVE  n \in In(s) \/ n \in In(u) <=> n \in L /\ Off(Q, n) < t
        <4>1. n \in In(s) => n \in L /\ Off(Q, n) < t
          BY <1>1, <1>2, <1>7
        <4>2. n \in L /\ Off(Q, n) < t /\ n \notin In(s) => n \in In(u)
          BY <1>2, <1>6, <1>7
        <4> QED
          BY <1>5, <4>1, <4>2
      <3> QED
        BY <3>1
    <2> QED
      BY <2>1, <2>2, UntilIs
  <1>9. /\ DOMAIN s = 1..Len(s) /\ DOMAIN u = 1..Len(u)
        /\ DOMAIN (s \o u) = 1..(Len(s) + Len(u)) /\ Len(s) \in Nat /\ Len(u) \in Nat
        /\ \A i \in 1..(Len(s) + Len(u)) :
              (s \o u)[i] = IF i <= Len(s) THEN s[i] ELSE u[i - Len(s)]
    OBVIOUS
  <1>10. ASSUME NEW i \in DOMAIN u, NEW j \in DOMAIN u, i < j
        PROVE  u[i] > u[j]
    <2>1. PICK o, p \in Below(DOMAIN acc, t) : o < p /\ u[i] = acc[o] /\ u[j] = acc[p]
      BY <1>1, <1>10
    <2>2. o \in DOMAIN acc /\ p \in DOMAIN acc
      BY BelowIs
    <2>3. acc[o] \in L /\ acc[p] \in L /\ Off(Q, acc[o]) = o /\ Off(Q, acc[p]) = p
      BY <1>1, <2>2
    <2> QED
      BY <1>4, <2>1, <2>3
  <1>11. ASSUME NEW i \in DOMAIN s, NEW j \in DOMAIN u
         PROVE  s[i] > u[j]
    <2>1. s[i] \in In(s) /\ u[j] \in In(u)
      BY DEF In
    <2>2. Off(Q, s[i]) < Off(Q, u[j]) /\ s[i] \in L /\ u[j] \in L
      BY <1>2, <1>5, <1>7, <2>1
    <2> QED
      BY <1>4, <2>2
  <1>12. ASSUME NEW i \in DOMAIN (s \o u), NEW j \in DOMAIN (s \o u), i < j
         PROVE  (s \o u)[i] > (s \o u)[j]
    <2>1. i \in Nat /\ j \in Nat /\ 1 <= i /\ j <= Len(s) + Len(u)
      BY <1>9
    <2>2. CASE j <= Len(s)
      <3>1. i \in DOMAIN s /\ j \in DOMAIN s
        BY <1>9, <1>12, <2>1, <2>2
      <3>2. (s \o u)[i] = s[i] /\ (s \o u)[j] = s[j]
        BY <1>9, <1>12, <2>1, <2>2
      <3> QED
        BY <1>1, <1>12, <3>1, <3>2
    <2>3. CASE i <= Len(s) /\ ~(j <= Len(s))
      <3>1. i \in DOMAIN s /\ j - Len(s) \in DOMAIN u
        BY <1>9, <2>1, <2>3
      <3>2. (s \o u)[i] = s[i] /\ (s \o u)[j] = u[j - Len(s)]
        BY <1>9, <2>3
      <3> QED
        BY <1>11, <3>1, <3>2
    <2>4. CASE ~(i <= Len(s))
      <3>1. ~(j <= Len(s))
        BY <1>9, <1>12, <2>1, <2>4
      <3>2. i - Len(s) \in DOMAIN u /\ j - Len(s) \in DOMAIN u /\ i - Len(s) < j - Len(s)
        BY <1>9, <1>12, <2>1, <2>4, <3>1
      <3>3. (s \o u)[i] = u[i - Len(s)] /\ (s \o u)[j] = u[j - Len(s)]
        BY <1>9, <2>4, <3>1
      <3> QED
        BY <1>10, <3>2, <3>3
    <2> QED
      BY <2>2, <2>3, <2>4
  <1> QED
    BY <1>8, <1>12 DEF InOrder

\* An answer: the list goes on with its items.
LEMMA OrderReceive ==
    ASSUME ListInv, OrderInv, NEW q \in requests, receive(q)
    PROVE  OrderInv'
  <1>1. /\ rows' = rows /\ matching' = matching
        /\ tabled' = tabled /\ requests' = requests \ {q}
        /\ q.step = "answered"
    BY DEF receive, dbVars
  <1>2. CASE ~current(q)
    <2>1. page' = page /\ browse' = browse
      BY <1>2 DEF receive
    <2> QED
      BY <1>1, <2>1, OrderKept
  <1>3. CASE current(q)
    <2> DEFINE t == next_offset(q)
               Q == Query(page.filters)
               L == Listed(page.filters)
               acc == q.accumulated
               s == base(q)
               u == items(q)
               w == page'.shown
               total == IF q.append THEN page.total ELSE q.total
    <2>1. /\ page' = [page EXCEPT !.shown = w, !.total = total,
                           !.hasMore = has_more(q), !.nextOffset = t,
                           !.loading = FALSE, !.loadingMore = FALSE]
          /\ w = IF q.append THEN page.shown \o u ELSE u
      BY <1>3, ShownIs
    <2>2. /\ page'.filters = page.filters /\ page'.requestId = page.requestId
          /\ page'.hasMore = has_more(q) /\ page'.nextOffset = t /\ page'.total = total
      <3>1. page \in Page
        BY ListTypes
      <3> HIDE DEF t, total, w
      <3> QED
        BY <2>1, <3>1 DEF Page
    <2>3. Stable' = Stable
      BY <1>3, ListTypes DEF receive, Browse, Stable
    <2>4. Query(page.filters)' = Q /\ Listed(page.filters)' = L
      BY <1>1, <2>2 DEF Query, Listed
    <2>5. \A p \in requests' : ~current(p)'
      <3>1. \A p \in requests : p.id = q.id => p = q
        BY InvParts
      <3> QED
        BY <1>1, <1>3, <2>2, <3>1 DEF current
    <2>6. ASSUME Stable
          PROVE  PageOrder(Q, L, page')
      <3>1. RequestOrder(Q, L, page.nextOffset, q)
        BY <1>3, <2>6 DEF OrderInv
      <3>2. /\ t \in q.offset..scanned(q) /\ t \in Nat
            /\ u \in Seq(0..MaxRows) /\ In(u) = {acc[o] : o \in Below(DOMAIN acc, t)}
            /\ ~has_more(q) => ranOut(q) /\ t = scanned(q)
            /\ has_more(q) => t \in DOMAIN acc
            /\ \A i, j \in DOMAIN u : i < j =>
                  \E o, p \in Below(DOMAIN acc, t) : o < p /\ u[i] = acc[o] /\ u[j] = acc[p]
        BY <1>1, AnswerIs
      <3>3. /\ MaxRows \in Nat /\ Q \in SUBSET (0..MaxRows) /\ L \in SUBSET Q
            /\ s \in Seq(0..MaxRows) /\ q.offset \in Nat /\ scanned(q) \in Nat
            /\ \A o \in DOMAIN acc : q.offset <= o
        BY EachIs, ListTypes, InvParts
      <3>4. q.append => browse.valid /\ PageOrder(Q, L, page) /\ q.offset = page.nextOffset
        BY <1>3, <2>6, <3>1, InvParts DEF OrderInv, RequestOrder
      <3>5. ~q.append => q.offset = 0
        BY InvParts DEF SoundRequest
      <3>6. w = s \o u
        <4>1. CASE q.append
          BY <2>1, <4>1 DEF base
        <4>2. CASE ~q.append
          <5>1. s = <<>> /\ w = u
            BY <2>1, <4>2 DEF base
          <5>2. <<>> \o u = u
            BY <3>2
          <5> QED
            BY <5>1, <5>2
        <4> QED
          BY <4>1, <4>2
      <3>7. InOrder(Q, L, s, q.offset)
        <4>1. CASE q.append
          <5>1. s = page.shown
            BY <4>1 DEF base
          <5> QED
            BY <3>4, <4>1, <5>1 DEF PageOrder
        <4>2. CASE ~q.append
          <5>1. s = <<>> /\ q.offset = 0
            BY <3>5, <4>2 DEF base
          <5>2. \A n : n \notin In(s)
            BY <5>1, NothingTaken
          <5>3. \A n : Off(Q, n) \in Nat
            BY <3>3, RankNat
          <5> HIDE DEF Q
          <5>4. \A n : n \notin Until(Q, L, q.offset)
            BY <5>1, <5>3, UntilIs
          <5>5. \A i : i \notin DOMAIN s
            BY <5>1, NothingTaken
          <5> QED
            BY <5>2, <5>4, <5>5 DEF InOrder
        <4> QED
          BY <4>1, <4>2
      <3> HIDE DEF t, Q, L, acc, s, u, w
      <3>8. /\ \A n \in Until(Q, L, scanned(q)) : Off(Q, n) >= q.offset =>
                  Off(Q, n) \in DOMAIN acc /\ acc[Off(Q, n)] = n
            /\ \A o \in DOMAIN acc : acc[o] \in L /\ Off(Q, acc[o]) = o
            /\ ranOut(q) => Until(Q, L, scanned(q)) = L
            /\ ~q.append => q.total = Cardinality(L)
        BY <1>1, <3>1 DEF RequestOrder, acc
      <3>9. /\ q.offset <= t /\ t <= scanned(q)
            /\ \A o \in DOMAIN acc :
                  q.offset <= o /\ acc[o] \in L /\ Off(Q, acc[o]) = o
        BY <3>2, <3>3, <3>8
      <3>10. InOrder(Q, L, s \o u, t)
        <4>1. PICK b \in Nat : b = q.offset
          BY <3>3
        <4>2. PICK e \in Nat : e = scanned(q)
          BY <3>3
        <4>3. /\ MaxRows \in Nat /\ Q \in SUBSET (0..MaxRows) /\ L \in SUBSET Q
              /\ s \in Seq(0..MaxRows) /\ u \in Seq(0..MaxRows) /\ t \in Nat
          BY <3>2, <3>3
        <4>4. Continues(Q, L, s, u, acc, b, e, t)
          BY <3>2, <3>7, <3>8, <3>9, <4>1, <4>2 DEF Continues
        <4> QED
          BY <4>3, <4>4, OrderGoesOn
      <3>11. page'.hasMore <=> In(w) # L
        <4>1. CASE has_more(q)
          <5>1. acc[t] \in L /\ Off(Q, acc[t]) = t
            BY <3>2, <3>8, <4>1
          <5>2. acc[t] \notin In(w)
            BY <3>2, <3>6, <3>10, <5>1, UntilIs DEF InOrder
          <5> QED
            BY <2>2, <4>1, <5>1, <5>2
        <4>2. CASE ~has_more(q)
          <5>1. Until(Q, L, t) = L
            BY <3>2, <3>8, <4>2
          <5> QED
            BY <2>2, <3>6, <3>10, <4>2, <5>1 DEF InOrder
        <4> QED
          BY <4>1, <4>2
      <3>12. page'.total = Cardinality(L)
        BY <2>2, <3>4, <3>8 DEF PageOrder
      <3> QED
        BY <2>2, <3>6, <3>10, <3>11, <3>12 DEF PageOrder, w
    <2> HIDE DEF Q, L
    <2> QED
      BY <2>3, <2>4, <2>5, <2>6 DEF OrderInv
  <1> QED
    BY <1>2, <1>3

\* OrderInv holds at first.
LEMMA OrderInit ==
    ASSUME Init
    PROVE  OrderInv
  <1>1. PICK r \in Request :
              /\ requests = {r} /\ SoundRequest(r) /\ ~ranOut(r) /\ scanned(r) = 0
              /\ r.id = 1 /\ r.filters = NoFilter /\ r.append = FALSE
              /\ r.offset = 0 /\ r.accumulated = <<>> /\ r.step = "fetch"
    BY FirstRequest
  <1> DEFINE Q == Query(page.filters)
             L == Listed(page.filters)
  <1>2. Q \in SUBSET (0..MaxRows) /\ MaxRows \in Nat
    BY ListInit, EachIs
  <1>3. ~browse.valid
    BY DEF Init, NewBrowse
  <1> HIDE DEF Q, L
  <1>4. \A n : n \notin Until(Q, L, 0)
    <2>1. \A n : Off(Q, n) \in Nat
      BY <1>2, RankNat
    <2> QED
      BY <2>1, UntilIs
  <1>5. \A o : o \notin DOMAIN r.accumulated
    BY <1>1, NothingTaken
  <1>6. RequestOrder(Q, L, page.nextOffset, r)
    BY <1>1, <1>4, <1>5 DEF RequestOrder
  <1> QED
    BY <1>1, <1>3, <1>6 DEF OrderInv, Q, L

\* Each step keeps OrderInv.
LEMMA OrderStep ==
    ASSUME ListInv, OrderInv, [Next]_vars
    PROVE  OrderInv'
  <1>1. CASE \E f \in Filters : select_filters(f)
    BY <1>1, OrderSelect
  <1>2. CASE loadMore
    BY <1>2, OrderMore
  <1>3. CASE \E q \in requests : fetch_chunk(q)
    BY <1>3, OrderFetch
  <1>4. CASE \E q \in requests : count_listed(q)
    BY <1>4, OrderCount
  <1>5. CASE \E q \in requests : receive(q)
    BY <1>5, OrderReceive
  <1>6. CASE \E q \in requests : fail(q)
    BY <1>6, OrderFail
  <1>7. CASE \/ \E listed \in BOOLEAN : create_dataset(listed)
             \/ \E n \in Rows : table_changes(n)
             \/ deleted
    BY <1>7, OrderChanges
  <1>8. CASE \E n \in Rows : delete_dataset(n) \/ deleteIntegrityLink(n)
    <2>1. \E n \in Rows : Remove(n)
      BY <1>8 DEF delete_dataset, deleteIntegrityLink
    <2> QED
      BY <2>1, OrderChanges
  <1>9. CASE UNCHANGED vars
    BY <1>9, Stutters
  <1>10. CASE \E n \in Rows, S \in SUBSET Filters : edit_dataset(n, S)
    BY <1>10, OrderEdit
  <1> QED
    BY <1>1, <1>2, <1>3, <1>4, <1>5, <1>6, <1>7, <1>8, <1>9, <1>10 DEF Next, Answer

\* OrderInv holds in every reachable state.
LEMMA OrderInvAlways == Spec => []OrderInv
  <1>1. Init => OrderInv
    BY OrderInit
  <1>2. ListInv /\ OrderInv /\ [Next]_vars => OrderInv'
    BY OrderStep
  <1> QED
    BY <1>1, <1>2, ListInvAlways, PTL DEF Spec

\* While nothing changes, the pages put together are the list: each dataset once, newest
\* first, the total right, and "load more" offered until the last one
\* (list_integrity_links, whose pages skip rows without table).
THEOREM PagesMakeTheListAlways == Spec => []PagesMakeTheList
  <1>1. ListInv /\ OrderInv => PagesMakeTheList
    BY OrderedPages
  <1> QED
    BY <1>1, ListInvAlways, OrderInvAlways, PTL
=============================================================================
