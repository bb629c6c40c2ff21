--------------------------- MODULE ListProofs ---------------------------
(***************************************************************************)
(* Lemmas about Entries: what each operation makes of a list, for lists of *)
(* any length.                                                             *)
(*                                                                         *)
(* Each operation turns a well numbered list into a well numbered list.    *)
(* Deletion needs that sorting is a permutation, which is a pigeonhole     *)
(* argument; so does the step from distinct numbers in range to Packed.    *)
(***************************************************************************)
EXTENDS Entries, FiniteSetTheorems, TLAPS

-----------------------------------------------------------------------------
\* Lists

Row == [id : Nat, text : Labels, order : Int]

UniqueIds(es) == \A i, j \in DOMAIN es : es[i].id = es[j].id => i = j

UniqueOrders(es) == \A i, j \in DOMAIN es : es[i].order = es[j].order => i = j

\* What the operations keep: typed rows, no id and no order twice, and every
\* order in 0 .. Len(es) - 1.
WellNumbered(es) ==
    /\ es \in Seq(Row)
    /\ UniqueIds(es)
    /\ UniqueOrders(es)
    /\ \A i \in DOMAIN es : es[i].order \in 0..(Len(es) - 1)

LEMMA RowFacts ==
    ASSUME NEW es \in Seq(Row)
    PROVE  /\ Len(es) \in Nat
           /\ DOMAIN es = 1..Len(es)
           /\ \A i \in 1..Len(es) : /\ es[i] \in Row
                                    /\ es[i].id \in Nat
                                    /\ es[i].text \in Labels
                                    /\ es[i].order \in Int
<1>1. Len(es) \in Nat /\ DOMAIN es = 1..Len(es)
    OBVIOUS
<1>2. \A i \in 1..Len(es) : es[i] \in Row
    OBVIOUS
<1> QED
    BY <1>1, <1>2 DEF Row

-----------------------------------------------------------------------------
\* An injection of a finite set into one no larger reaches all of it.
LEMMA Pigeonhole ==
    ASSUME NEW S, NEW n \in Nat, IsFiniteSet(S), Cardinality(S) = n,
           NEW f \in [S -> 1..n],
           \A x, y \in S : f[x] = f[y] => x = y
    PROVE  \A p \in 1..n : \E x \in S : f[x] = p
<1>1. f \in Injection(S, 1..n)
    BY DEF Injection, IsInjective
<1>2. IsFiniteSet(1..n) /\ Cardinality(1..n) = n
    BY FS_Interval
<1>3. f \in Surjection(S, 1..n)
    BY <1>1, <1>2, FS_Injection
<1> QED
    BY <1>3 DEF Surjection

LEMMA Filled ==
    ASSUME NEW es, WellNumbered(es)
    PROVE  Packed(es)
<1> DEFINE n == Len(es)
           f == [i \in 1..n |-> es[i].order + 1]
<1>1. es \in Seq(Row) /\ n \in Nat /\ DOMAIN es = 1..n
    BY DEF WellNumbered
<1>2. \A i \in 1..n : es[i].order \in 0..(n - 1)
    BY <1>1 DEF WellNumbered
<1>3. f \in [1..n -> 1..n]
    BY <1>1, <1>2
<1>4. \A i, j \in 1..n : f[i] = f[j] => i = j
    BY <1>1, <1>2, SMTT(20) DEF WellNumbered, UniqueOrders
<1>5. IsFiniteSet(1..n) /\ Cardinality(1..n) = n
    BY <1>1, FS_Interval
<1> HIDE DEF f
<1>6. \A p \in 1..n : \E i \in 1..n : f[i] = p
    BY <1>1, <1>3, <1>4, <1>5, Pigeonhole, SMTT(20)
<1>7. \A p \in 1..n : \E i \in 1..n : es[i].order + 1 = p
    BY <1>6 DEF f
<1>8. ASSUME NEW p \in 1..n
      PROVE  \E i \in DOMAIN es : es[i].order = p - 1
    <2>1. PICK i \in 1..n : es[i].order + 1 = p
        BY <1>7
    <2>2. es[i].order = p - 1
        BY <2>1, <1>1, <1>2
    <2> QED
        BY <2>1, <2>2, <1>1
<1> QED
    BY <1>8 DEF Packed

-----------------------------------------------------------------------------
\* Sorting

\* The entries displayed no later than the one at i.
Above(es, i) ==
    {j \in DOMAIN es : \/ es[j].order < es[i].order
                       \/ es[j].order = es[i].order /\ j <= i}

\* Places are different and within the list, hence each of them is taken.
LEMMA Places ==
    ASSUME NEW es \in Seq(Row)
    PROVE  /\ \A i \in DOMAIN es : Place(es, i) \in 1..Len(es)
           /\ \A i, j \in DOMAIN es : Place(es, i) = Place(es, j) => i = j
           /\ \A p \in 1..Len(es) : \E i \in DOMAIN es : Place(es, i) = p
<1> DEFINE n == Len(es)
<1>1. n \in Nat /\ DOMAIN es = 1..n /\ IsFiniteSet(1..n) /\ Cardinality(1..n) = n
    <2>1. n \in Nat /\ DOMAIN es = 1..n
        BY RowFacts
    <2>2. IsFiniteSet(1..n) /\ Cardinality(1..n) = n
        BY <2>1, FS_Interval
    <2> QED
        BY <2>1, <2>2
<1>2. \A i \in 1..n : es[i].order \in Int
    BY RowFacts
<1>3. \A i \in 1..n : Place(es, i) = Cardinality(Above(es, i))
    BY <1>1 DEF Place, Above
<1>4. ASSUME NEW i \in 1..n
      PROVE  /\ Above(es, i) \in SUBSET (1..n)
             /\ IsFiniteSet(Above(es, i))
             /\ Cardinality(Above(es, i)) \in Nat
             /\ Cardinality(Above(es, i)) <= n
             /\ i \in Above(es, i)
    <2>1. Above(es, i) \in SUBSET (1..n)
        BY <1>1 DEF Above
    <2>2. IsFiniteSet(Above(es, i)) /\ Cardinality(Above(es, i)) <= n
        BY <1>1, <2>1, FS_Subset
    <2>3. Cardinality(Above(es, i)) \in Nat
        BY <2>2, FS_CardinalityType
    <2>4. i \in Above(es, i)
        BY <1>1, <1>2 DEF Above
    <2> QED
        BY <2>1, <2>2, <2>3, <2>4
<1>5. ASSUME NEW i \in 1..n
      PROVE  Cardinality(Above(es, i)) # 0
    BY <1>4, FS_EmptySet
<1>6. \A i \in 1..n : Place(es, i) \in 1..n
    BY <1>1, <1>3, <1>4, <1>5
<1>7. ASSUME NEW i \in 1..n, NEW j \in 1..n,
             es[i].order < es[j].order \/ (es[i].order = es[j].order /\ i < j)
      PROVE  Place(es, i) # Place(es, j)
    <2>1. Above(es, i) \in SUBSET Above(es, j)
        BY <1>1, <1>2, <1>7 DEF Above
    <2>2. j \notin Above(es, i)
        BY <1>1, <1>2, <1>7 DEF Above
    <2>3. Above(es, i) # Above(es, j)
        BY <2>2, <1>4
    <2>4. Cardinality(Above(es, i)) # Cardinality(Above(es, j))
        BY <2>1, <2>3, <1>4, FS_Subset
    <2> QED
        BY <2>4, <1>3
<1>8. \A i, j \in 1..n : Place(es, i) = Place(es, j) => i = j
    BY <1>1, <1>2, <1>7
<1> DEFINE f == [i \in 1..n |-> Place(es, i)]
<1>9. f \in [1..n -> 1..n]
    BY <1>6
<1>10. \A i, j \in 1..n : f[i] = f[j] => i = j
    BY <1>8
<1>11. n \in Nat /\ IsFiniteSet(1..n) /\ Cardinality(1..n) = n
    BY <1>1
<1> HIDE DEF f, n
<1>12. \A p \in 1..n : \E i \in 1..n : f[i] = p
    BY SMTT(60), <1>9, <1>10, <1>11, Pigeonhole
<1>13. \A p \in 1..n : \E i \in 1..n : Place(es, i) = p
    BY <1>12 DEF f
<1> QED
    BY <1>1, <1>6, <1>8, <1>13 DEF n

\* Sorting keeps the entries: no row is lost, none is doubled.
LEMMA ListedIsPermutation ==
    ASSUME NEW es \in Seq(Row)
    PROVE  /\ Listed(es) \in Seq(Row)
           /\ Len(Listed(es)) = Len(es)
           /\ \A p \in DOMAIN Listed(es) : \E i \in DOMAIN es : Listed(es)[p] = es[i]
           /\ UniqueIds(es) => UniqueIds(Listed(es))
<1> DEFINE n == Len(es)
           at(p) == CHOOSE i \in DOMAIN es : Place(es, i) = p
<1>1. n \in Nat /\ DOMAIN es = 1..n /\ \A i \in 1..n : es[i] \in Row
    BY RowFacts
<1>2. \A p \in 1..n : at(p) \in 1..n /\ Place(es, at(p)) = p
    BY <1>1, Places
<1>3. Listed(es) = [p \in 1..n |-> es[at(p)]]
    BY <1>1 DEF Listed
<1> HIDE DEF at
<1>4. Listed(es) \in Seq(Row) /\ Len(Listed(es)) = n /\ DOMAIN Listed(es) = 1..n
    BY <1>1, <1>2, <1>3
<1>5. \A p \in 1..n : Listed(es)[p] = es[at(p)]
    BY <1>3
<1>6. ASSUME UniqueIds(es)
      PROVE  UniqueIds(Listed(es))
    <2> SUFFICES ASSUME NEW p \in 1..n, NEW q \in 1..n,
                        es[at(p)].id = es[at(q)].id
                 PROVE  p = q
        BY <1>4, <1>5 DEF UniqueIds
    <2>1. at(p) = at(q)
        BY <1>1, <1>2, <1>6 DEF UniqueIds
    <2> QED
        BY <2>1, <1>2
<1> QED
    BY <1>1, <1>2, <1>4, <1>5, <1>6

-----------------------------------------------------------------------------
\* The operations

\* Ids are at most u.
Below(es, u) == \A i \in DOMAIN es : es[i].id \in 1..u

\* The list of a first start.
LEMMA FirstList ==
    ASSUME NEW t \in Labels, NEW u \in Labels
    PROVE  LET es == <<Entry(1, t, 1), Entry(2, u, 0)>>
           IN  WellNumbered(es) /\ Below(es, 2)
<1> DEFINE es == <<Entry(1, t, 1), Entry(2, u, 0)>>
<1>1. Entry(1, t, 1) \in Row /\ Entry(2, u, 0) \in Row
    BY DEF Entry, Row
<1>2. es \in Seq(Row) /\ Len(es) = 2 /\ DOMAIN es = 1..2
    BY <1>1
<1>3. es[1].id = 1 /\ es[2].id = 2 /\ es[1].order = 1 /\ es[2].order = 0
    BY DEF Entry
<1> HIDE DEF es
<1>4. WellNumbered(es)
    BY <1>2, <1>3 DEF WellNumbered, UniqueIds, UniqueOrders
<1>5. Below(es, 2)
    BY <1>2, <1>3 DEF Below
<1> QED
    BY <1>4, <1>5 DEF es

LEMMA CreatedKeeps ==
    ASSUME NEW es, WellNumbered(es), NEW u \in Nat, Below(es, u), NEW text \in Labels
    PROVE  /\ WellNumbered(Created(es, u + 1, text))
           /\ Below(Created(es, u + 1, text), u + 1)
<1> DEFINE n == Len(es)
           new == Created(es, u + 1, text)
<1>1. es \in Seq(Row)
    BY DEF WellNumbered
<1>2. /\ n \in Nat /\ DOMAIN es = 1..n
      /\ \A i \in 1..n : es[i] \in Row /\ es[i].order \in 0..(n - 1) /\ es[i].id \in 1..u
    BY <1>1, RowFacts DEF WellNumbered, Below
<1>3. [i \in DOMAIN es |-> [es[i] EXCEPT !.order = @ + 1]] \in Seq(Row)
    BY <1>2 DEF Row
<1>4. Entry(u + 1, text, 0) \in Row
    BY DEF Entry, Row
<1>5. /\ new \in Seq(Row)
      /\ Len(new) = n + 1
      /\ DOMAIN new = 1..(n + 1)
      /\ \A i \in 1..n : new[i] = [es[i] EXCEPT !.order = @ + 1]
      /\ new[n + 1] = Entry(u + 1, text, 0)
    BY <1>2, <1>3, <1>4 DEF Created
<1>6. \A i \in 1..n : new[i].id = es[i].id /\ new[i].order = es[i].order + 1
    BY <1>2, <1>5 DEF Row
<1>7. new[n + 1].id = u + 1 /\ new[n + 1].order = 0
    BY <1>5 DEF Entry
<1> HIDE DEF new
<1>8. \A i \in 1..n : /\ new[i].id \in 1..u /\ new[i].id # new[n + 1].id
                      /\ new[i].order \in 1..n /\ new[i].order # new[n + 1].order
    <2> SUFFICES ASSUME NEW i \in 1..n
                 PROVE  /\ new[i].id \in 1..u /\ new[i].id # new[n + 1].id
                        /\ new[i].order \in 1..n /\ new[i].order # new[n + 1].order
        OBVIOUS
    <2>1. es[i].id \in 1..u /\ es[i].order \in 0..(n - 1)
        BY <1>2
    <2>2. new[i].id = es[i].id /\ new[i].order = es[i].order + 1
        BY <1>6
    <2> QED
        BY <2>1, <2>2, <1>2, <1>7
<1>9. UniqueIds(new)
    <2> SUFFICES ASSUME NEW i \in 1..(n + 1), NEW j \in 1..(n + 1), new[i].id = new[j].id
                 PROVE  i = j
        BY <1>5 DEF UniqueIds
    <2>1. CASE i \in 1..n /\ j \in 1..n
        BY <2>1, <1>2, <1>6 DEF WellNumbered, UniqueIds
    <2>2. (i \in 1..n \/ i = n + 1) /\ (j \in 1..n \/ j = n + 1)
        BY <1>2
    <2> QED
        BY <2>1, <2>2, <1>8
<1>10. UniqueOrders(new)
    <2> SUFFICES ASSUME NEW i \in 1..(n + 1), NEW j \in 1..(n + 1), new[i].order = new[j].order
                 PROVE  i = j
        BY <1>5 DEF UniqueOrders
    <2>1. CASE i \in 1..n /\ j \in 1..n
        <3>1. es[i].order + 1 = es[j].order + 1 /\ es[i].order \in Int /\ es[j].order \in Int
            BY <2>1, <1>2, <1>6
        <3>2. es[i].order = es[j].order
            BY <3>1
        <3> QED
            BY <2>1, <3>2, <1>2 DEF WellNumbered, UniqueOrders
    <2>2. (i \in 1..n \/ i = n + 1) /\ (j \in 1..n \/ j = n + 1)
        BY <1>2
    <2> QED
        BY <2>1, <2>2, <1>8
<1>11. \A i \in 1..(n + 1) : new[i].order \in 0..((n + 1) - 1) /\ new[i].id \in 1..(u + 1)
    <2> SUFFICES ASSUME NEW i \in 1..(n + 1)
                 PROVE  new[i].order \in 0..((n + 1) - 1) /\ new[i].id \in 1..(u + 1)
        OBVIOUS
    <2>1. CASE i \in 1..n
        BY <2>1, <1>2, <1>8
    <2>2. CASE i = n + 1
        BY <2>2, <1>2, <1>7
    <2> QED
        BY <2>1, <2>2, <1>2
<1> USE DEF new
<1>12. WellNumbered(new)
    <2> HIDE DEF new
    <2> QED
        BY <1>5, <1>9, <1>10, <1>11 DEF WellNumbered
<1>13. Below(new, u + 1)
    <2> HIDE DEF new
    <2> QED
        BY <1>5, <1>11 DEF Below
<1> QED
    BY <1>12, <1>13

\* findLocked finds an id that is in the list.
LEMMA Found ==
    ASSUME NEW es, NEW id \in Ids(es)
    PROVE  At(es, id) \in DOMAIN es /\ es[At(es, id)].id = id
BY DEF At, Ids

LEMMA UpdatedKeeps ==
    ASSUME NEW es, WellNumbered(es), NEW u \in Nat, Below(es, u),
           NEW id \in Ids(es), NEW text \in Labels
    PROVE  WellNumbered(Updated(es, id, text)) /\ Below(Updated(es, id, text), u)
<1> DEFINE n == Len(es)
           new == Updated(es, id, text)
           k == At(es, id)
<1>1. /\ es \in Seq(Row) /\ n \in Nat /\ DOMAIN es = 1..n
      /\ \A i \in 1..n : es[i] \in Row
    BY RowFacts DEF WellNumbered
<1>2. k \in 1..n
    BY <1>1, Found
<1> HIDE DEF k
<1>3. new = [es EXCEPT ![k] = [es[k] EXCEPT !.text = text]]
    BY <1>1 DEF Updated, k
<1>4. [es[k] EXCEPT !.text = text] \in Row
    BY <1>1, <1>2 DEF Row
<1>5. new \in Seq(Row) /\ Len(new) = n /\ DOMAIN new = 1..n
    BY <1>1, <1>2, <1>3, <1>4
<1>6. \A i \in 1..n : new[i].id = es[i].id /\ new[i].order = es[i].order
    BY <1>1, <1>2, <1>3 DEF Row
<1> HIDE DEF new
<1> QED
    BY <1>1, <1>5, <1>6 DEF WellNumbered, UniqueIds, UniqueOrders, Below, new

LEMMA WithoutKeeps ==
    ASSUME NEW es \in Seq(Row), NEW k \in DOMAIN es
    PROVE  /\ Without(es, k) \in Seq(Row)
           /\ UniqueIds(es) => UniqueIds(Without(es, k))
           /\ \A i \in DOMAIN Without(es, k) : \E j \in DOMAIN es : Without(es, k)[i] = es[j]
           /\ Len(Without(es, k)) = Len(es) - 1
           /\ \A i \in 1..(Len(es) - 1) :
                 Without(es, k)[i] = es[IF i < k THEN i ELSE i + 1]
<1> DEFINE n == Len(es)
           from(i) == IF i < k THEN i ELSE i + 1
<1>1. n \in Nat /\ DOMAIN es = 1..n /\ k \in 1..n
    BY RowFacts
<1>2. SubSeq(es, 1, k - 1) \in Seq(Row) /\ Len(SubSeq(es, 1, k - 1)) = k - 1
    BY <1>1
<1>3. SubSeq(es, k + 1, n) \in Seq(Row) /\ Len(SubSeq(es, k + 1, n)) = n - k
    BY <1>1
<1>4. /\ Without(es, k) \in Seq(Row)
      /\ Len(Without(es, k)) = n - 1
      /\ DOMAIN Without(es, k) = 1..(n - 1)
    BY <1>1, <1>2, <1>3 DEF Without
<1>5. \A i \in 1..(n - 1) : Without(es, k)[i] = es[from(i)] /\ from(i) \in 1..n
    <2> SUFFICES ASSUME NEW i \in 1..(n - 1)
                 PROVE  Without(es, k)[i] = es[from(i)] /\ from(i) \in 1..n
        OBVIOUS
    <2>1. CASE i < k
        <3>1. i \in 1..(k - 1)
            BY <2>1, <1>1
        <3>2. Without(es, k)[i] = SubSeq(es, 1, k - 1)[i]
            BY <3>1, <1>1, <1>2, <1>3 DEF Without
        <3>3. SubSeq(es, 1, k - 1)[i] = es[i]
            BY <3>1, <1>1
        <3> QED
            BY <2>1, <3>1, <3>2, <3>3, <1>1
    <2>2. CASE i >= k
        <3> DEFINE m == i - (k - 1)
        <3>1. m \in 1..(n - k) /\ k + 1 + m - 1 = i + 1
            BY <2>2, <1>1
        <3>2. Without(es, k)[i] = SubSeq(es, k + 1, n)[m]
            BY <2>2, <1>1, <1>2, <1>3, SMTT(20) DEF Without
        <3> HIDE DEF m
        <3>3. SubSeq(es, k + 1, n)[m] = es[k + 1 + m - 1]
            BY <3>1, <1>1
        <3> QED
            BY <2>2, <3>1, <3>2, <3>3, <1>1
    <2> QED
        BY <2>1, <2>2, <1>1
<1>6. \A i, j \in 1..(n - 1) : from(i) = from(j) => i = j
    BY <1>1
<1> HIDE DEF from
<1>7. ASSUME UniqueIds(es)
      PROVE  UniqueIds(Without(es, k))
    <2> SUFFICES ASSUME NEW i \in 1..(n - 1), NEW j \in 1..(n - 1),
                        Without(es, k)[i].id = Without(es, k)[j].id
                 PROVE  i = j
        BY <1>4 DEF UniqueIds
    <2>1. es[from(i)].id = es[from(j)].id /\ from(i) \in 1..n /\ from(j) \in 1..n
        BY <1>5
    <2>2. from(i) = from(j)
        BY <2>1, <1>1, <1>7 DEF UniqueIds
    <2> QED
        BY <2>2, <1>6
<1>8. \A i \in DOMAIN Without(es, k) : \E j \in DOMAIN es : Without(es, k)[i] = es[j]
    BY <1>1, <1>4, <1>5
<1>9. \A i \in 1..(n - 1) : Without(es, k)[i] = es[IF i < k THEN i ELSE i + 1]
    BY <1>5 DEF from
<1> QED
    BY <1>4, <1>7, <1>8, <1>9

LEMMA DeletedKeeps ==
    ASSUME NEW es, WellNumbered(es), NEW u \in Nat, Below(es, u), NEW id \in Ids(es)
    PROVE  WellNumbered(Deleted(es, id)) /\ Below(Deleted(es, id), u)
<1> DEFINE left == Without(es, At(es, id))
           rest == Listed(left)
           n == Len(rest)
           new == Deleted(es, id)
<1>1. es \in Seq(Row) /\ UniqueIds(es) /\ At(es, id) \in DOMAIN es
    BY Found DEF WellNumbered
<1>2. left \in Seq(Row) /\ UniqueIds(left) /\ Below(left, u)
    BY <1>1, WithoutKeeps DEF Below
<1>3. rest \in Seq(Row) /\ UniqueIds(rest) /\ Below(rest, u)
    <2> HIDE DEF left
    <2> QED
        BY <1>2, ListedIsPermutation DEF Below
<1>4. new = [i \in DOMAIN rest |-> [rest[i] EXCEPT !.order = i - 1]]
    BY DEF Deleted
<1> HIDE DEF left, rest, new
<1>5. n \in Nat /\ DOMAIN rest = 1..n /\ \A i \in 1..n : rest[i] \in Row
    BY <1>3, RowFacts
<1>6. new \in Seq(Row) /\ Len(new) = n /\ DOMAIN new = 1..n
    BY <1>4, <1>5 DEF Row
<1>7. \A i \in 1..n : new[i].id = rest[i].id /\ new[i].order = i - 1
    BY <1>4, <1>5 DEF Row
<1>8. UniqueIds(new) /\ Below(new, u)
    BY <1>3, <1>5, <1>6, <1>7 DEF UniqueIds, Below
<1>9. UniqueOrders(new) /\ \A i \in 1..n : new[i].order \in 0..(n - 1)
    BY <1>5, <1>6, <1>7 DEF UniqueOrders
<1> QED
    BY <1>6, <1>8, <1>9 DEF WellNumbered, new

LEMMA ReorderedKeeps ==
    ASSUME NEW es, WellNumbered(es), NEW u \in Nat, Below(es, u),
           NEW ids \in [DOMAIN es -> Ids(es)], IsReordering(es, ids)
    PROVE  WellNumbered(Reordered(es, ids)) /\ Below(Reordered(es, ids), u)
<1> DEFINE n == Len(es)
           pos(i) == CHOOSE p \in DOMAIN ids : ids[p] = es[i].id
           new == Reordered(es, ids)
<1>1. /\ es \in Seq(Row) /\ n \in Nat /\ DOMAIN es = 1..n
      /\ \A i \in 1..n : es[i] \in Row
    BY RowFacts DEF WellNumbered
<1>2. \A i \in 1..n : pos(i) \in 1..n /\ ids[pos(i)] = es[i].id
    <2>1. DOMAIN ids = 1..n
        BY <1>1
    <2>2. ASSUME NEW i \in 1..n
          PROVE  \E p \in 1..n : ids[p] = es[i].id
        BY <1>1, <2>1 DEF IsReordering, Ids
    <2> QED
        BY <2>1, <2>2
<1>3. new = [i \in 1..n |-> [es[i] EXCEPT !.order = pos(i) - 1]]
    BY <1>1 DEF Reordered
<1> HIDE DEF pos, new
<1>4. \A i \in 1..n : [es[i] EXCEPT !.order = pos(i) - 1] \in Row
    <2> SUFFICES ASSUME NEW i \in 1..n
                 PROVE  [es[i] EXCEPT !.order = pos(i) - 1] \in Row
        OBVIOUS
    <2>1. pos(i) - 1 \in Int /\ es[i] \in Row
        BY <1>1, <1>2
    <2> QED
        BY <2>1 DEF Row
<1>5. /\ new \in Seq(Row) /\ Len(new) = n /\ DOMAIN new = 1..n
      /\ \A i \in 1..n : new[i].id = es[i].id /\ new[i].order = pos(i) - 1
    <2>0. new \in [1..n -> Row]
        BY <1>3, <1>4, Zenon
    <2>1. new \in Seq(Row) /\ Len(new) = n /\ DOMAIN new = 1..n
        BY <2>0, <1>1
    <2>2. \A i \in 1..n : new[i].id = es[i].id /\ new[i].order = pos(i) - 1
        BY <1>1, <1>3 DEF Row
    <2> QED
        BY <2>1, <2>2
<1>6. \A i, j \in 1..n : pos(i) = pos(j) => i = j
    <2> SUFFICES ASSUME NEW i \in 1..n, NEW j \in 1..n, pos(i) = pos(j)
                 PROVE  i = j
        OBVIOUS
    <2>1. es[i].id = es[j].id
        BY <1>2
    <2> QED
        BY <2>1, <1>1 DEF WellNumbered, UniqueIds
<1>7. \A i \in 1..n : new[i].order \in 0..(n - 1)
    BY <1>1, <1>2, <1>5
<1>8. UniqueOrders(new)
    <2> SUFFICES ASSUME NEW i \in 1..n, NEW j \in 1..n, new[i].order = new[j].order
                 PROVE  i = j
        BY <1>5 DEF UniqueOrders
    <2>1. pos(i) - 1 = pos(j) - 1 /\ pos(i) \in Int /\ pos(j) \in Int
        BY <1>2, <1>5
    <2>2. pos(i) = pos(j)
        BY <2>1
    <2> QED
        BY <2>2, <1>6
<1>9. UniqueIds(new) /\ Below(new, u)
    BY <1>1, <1>5 DEF WellNumbered, UniqueIds, Below
<1> QED
    BY <1>5, <1>7, <1>8, <1>9 DEF WellNumbered, new

\* The elements of a finite set of numbers can be counted off in order.
LEMMA CountedOff ==
    ASSUME NEW c \in Nat, NEW S \in SUBSET (1..c)
    PROVE  /\ Cardinality(S) \in Nat
           /\ \A m \in 1..Cardinality(S) :
                 \E k \in S : Cardinality({j \in S : j <= k}) = m
<1> DEFINE n == Cardinality(S)
           upTo(k) == {j \in S : j <= k}
           f == [k \in S |-> Cardinality(upTo(k))]
<1>1. IsFiniteSet(S) /\ n \in Nat
    <2>1. IsFiniteSet(1..c)
        BY FS_Interval
    <2>2. IsFiniteSet(S)
        BY <2>1, FS_Subset
    <2> QED
        BY <2>2, FS_CardinalityType
<1>2. ASSUME NEW k \in S
      PROVE  /\ upTo(k) \in SUBSET S /\ k \in upTo(k) /\ IsFiniteSet(upTo(k))
             /\ Cardinality(upTo(k)) \in 1..n
    <2>1. upTo(k) \in SUBSET S /\ k \in upTo(k)
        OBVIOUS
    <2>2. IsFiniteSet(upTo(k)) /\ Cardinality(upTo(k)) <= n
        BY <1>1, <2>1, FS_Subset
    <2>3. Cardinality(upTo(k)) \in Nat /\ Cardinality(upTo(k)) # 0
        BY <2>1, <2>2, FS_CardinalityType, FS_EmptySet
    <2> QED
        BY <1>1, <2>1, <2>2, <2>3
<1>3. ASSUME NEW x \in S, NEW y \in S, x < y
      PROVE  Cardinality(upTo(x)) # Cardinality(upTo(y))
    <2>1. S \in SUBSET Int /\ x \in Int /\ y \in Int
        OBVIOUS
    <2>2. ASSUME NEW j \in S, j <= x
          PROVE  j <= y
        BY <1>3, <2>1, <2>2
    <2>3. ~(y <= x)
        BY <1>3, <2>1
    <2>4. upTo(x) \in SUBSET upTo(y) /\ y \notin upTo(x)
        BY <2>2, <2>3
    <2>5. upTo(x) # upTo(y)
        BY <2>4, <1>2
    <2> HIDE DEF upTo
    <2> QED
        BY <2>4, <2>5, <1>2, FS_Subset
<1>4. f \in [S -> 1..n]
    BY <1>2
<1>5. \A x, y \in S : f[x] = f[y] => x = y
    <2> SUFFICES ASSUME NEW x \in S, NEW y \in S, x # y
                 PROVE  Cardinality(upTo(x)) # Cardinality(upTo(y))
        OBVIOUS
    <2>1. x < y \/ y < x
        OBVIOUS
    <2> HIDE DEF upTo
    <2> QED
        BY <2>1, <1>3
<1> HIDE DEF f
<1>6. \A p \in 1..n : \E x \in S : f[x] = p
    BY <1>1, <1>4, <1>5, Pigeonhole
<1> QED
    BY <1>1, <1>6 DEF f

\* The largest order of a well numbered list is that of its last place.
LEMMA Largest ==
    ASSUME NEW es, WellNumbered(es)
    PROVE  MaxOrder(es) = Len(es) - 1
<1> DEFINE n == Len(es)
<1>1. es \in Seq(Row) /\ n \in Nat /\ DOMAIN es = 1..n
    BY RowFacts DEF WellNumbered
<1>2. CASE es = <<>>
    BY <1>2 DEF MaxOrder
<1>3. CASE es # <<>>
    <2>1. n \in 1..n
        BY <1>1, <1>3
    <2>2. PICK i \in 1..n : es[i].order = n - 1
        BY <1>1, <2>1, Filled DEF Packed
    <2>3. \A j \in 1..n : es[j].order \in Int /\ es[j].order <= n - 1
        BY <1>1 DEF WellNumbered
    <2> DEFINE orders == {es[j].order : j \in DOMAIN es}
    <2>4. n - 1 \in orders /\ \A j \in DOMAIN es : es[j].order <= n - 1
        BY <1>1, <2>2, <2>3
    <2>5. ASSUME NEW m \in orders, \A j \in DOMAIN es : es[j].order <= m
          PROVE  m = n - 1
        <3>1. PICK j \in 1..n : m = es[j].order
            BY <1>1
        <3>2. m \in Int /\ m <= n - 1
            BY <2>3, <3>1
        <3>3. es[i].order <= m
            BY <1>1, <2>2, <2>5
        <3> HIDE DEF orders, n
        <3>4. n - 1 <= m /\ n \in Int
            BY <1>1, <2>2, <3>3
        <3> QED
            BY <3>2, <3>4
    <2>6. MaxOrder(es) = CHOOSE m \in orders : \A j \in DOMAIN es : es[j].order <= m
        BY <1>3 DEF MaxOrder
    <2> HIDE DEF orders
    <2> QED
        BY <2>4, <2>5, <2>6
<1> QED
    BY <1>2, <1>3

LEMMA ImportedKeeps ==
    ASSUME NEW es, WellNumbered(es), NEW u \in Nat, Below(es, u),
           NEW c \in Nat, NEW file \in [1..c -> Labels]
    PROVE  /\ Len(Imported(es, file, u + 1)) - Len(es) \in Nat
           /\ WellNumbered(Imported(es, file, u + 1))
           /\ Below(Imported(es, file, u + 1), u + (Len(Imported(es, file, u + 1)) - Len(es)))
<1> DEFINE n == Len(es)
           S == {k \in DOMAIN file : IsNew(es, file, k)}
           a == Cardinality(S)
           nth(m) == Nth(S, m)
           tail == [m \in 1..a |-> Entry(u + 1 + m - 1, file[nth(m)], MaxOrder(es) + m)]
           new == Imported(es, file, u + 1)
<1>1. /\ es \in Seq(Row) /\ n \in Nat /\ DOMAIN es = 1..n
      /\ \A i \in 1..n : es[i].order \in 0..(n - 1) /\ es[i].id \in 1..u
    BY RowFacts DEF WellNumbered, Below
<1>2. MaxOrder(es) = n - 1
    BY Largest
<1>3. S \in SUBSET (1..c)
    OBVIOUS
<1>4. a \in Nat /\ \A m \in 1..a : nth(m) \in 1..c
    <2> HIDE DEF S
    <2>1. a \in Nat /\ \A m \in 1..a : \E k \in S : Cardinality({j \in S : j <= k}) = m
        BY <1>3, CountedOff
    <2> QED
        BY <2>1, <1>3 DEF Nth
<1>5. new = es \o tail
    BY DEF Imported, Picked
<1> HIDE DEF S, a, nth, new
<1>6. \A m \in 1..a : tail[m] = Entry(u + m, file[nth(m)], n - 1 + m)
    BY <1>1, <1>2, <1>4
<1>7. tail \in [1..a -> Row]
    <2>1. ASSUME NEW m \in 1..a
          PROVE  tail[m] \in Row
        <3> DEFINE id == u + m
                   text == file[nth(m)]
                   order == n - 1 + m
        <3>1. id \in Nat /\ text \in Labels /\ order \in Int
            BY <1>1, <1>4
        <3>2. tail[m] = Entry(id, text, order)
            BY <1>6
        <3> HIDE DEF tail, id, text, order
        <3> QED
            BY <3>1, <3>2 DEF Row, Entry
    <2>2. tail = [m \in 1..a |-> tail[m]]
        OBVIOUS
    <2> HIDE DEF tail
    <2> QED
        BY <2>1, <2>2
<1> HIDE DEF tail
<1>8. tail \in Seq(Row) /\ Len(tail) = a
    BY <1>4, <1>7
<1>9. /\ new \in Seq(Row) /\ Len(new) = n + a /\ DOMAIN new = 1..(n + a)
      /\ \A i \in 1..n : new[i] = es[i]
    <2>1. new \in Seq(Row) /\ Len(new) = n + a
        <3> HIDE DEF n
        <3>1. \A s, t \in Seq(Row) : s \o t \in Seq(Row) /\ Len(s \o t) = Len(s) + Len(t)
            OBVIOUS
        <3> QED
            BY <3>1, <1>1, <1>5, <1>8 DEF n
    <2>2. DOMAIN new = 1..(n + a)
        BY <2>1
    <2>3. \A i \in 1..n : new[i] = es[i]
        BY <1>1, <1>4, <1>5, <1>8
    <2> QED
        BY <2>1, <2>2, <2>3
<1>10. \A i \in 1..(n + a) : i > n => new[i] = tail[i - n] /\ i - n \in 1..a
    BY <1>1, <1>4, <1>5, <1>8
<1>11. ASSUME NEW i \in 1..(n + a)
       PROVE  \/ /\ i \in 1..n
                 /\ new[i].id = es[i].id /\ new[i].id \in 1..u
                 /\ new[i].order = es[i].order /\ new[i].order \in 0..(n - 1)
              \/ /\ i > n
                 /\ new[i].id = u + (i - n)
                 /\ new[i].order = i - 1
    <2>1. CASE i \in 1..n
        BY <2>1, <1>1, <1>9
    <2>2. CASE i > n
        <3>1. new[i] = Entry(u + (i - n), file[nth(i - n)], n - 1 + (i - n))
            BY <2>2, <1>6, <1>10
        <3>2. n - 1 + (i - n) = i - 1
            BY <1>1, <1>4
        <3> QED
            BY <2>2, <3>1, <3>2 DEF Entry
    <2> QED
        BY <2>1, <2>2, <1>1
<1>12. ASSUME NEW i \in 1..(n + a), NEW j \in 1..(n + a)
       PROVE  /\ new[i].id = new[j].id => i = j
              /\ new[i].order = new[j].order => i = j
    <2>1. CASE i \in 1..n /\ j \in 1..n
        BY <2>1, <1>1, <1>9 DEF WellNumbered, UniqueIds, UniqueOrders
    <2>2. CASE i > n /\ j > n
        <3>1. i \notin 1..n /\ j \notin 1..n
            BY <2>2, <1>1
        <3>2. new[i].id = u + (i - n) /\ new[i].order = i - 1
            BY <3>1, <1>11
        <3>3. new[j].id = u + (j - n) /\ new[j].order = j - 1
            BY <3>1, <1>11
        <3> QED
            BY <3>2, <3>3, <1>1, <1>4
    <2>3. CASE i \in 1..n /\ j > n
        <3>1. new[i].id \in 1..u /\ new[j].id = u + (j - n)
            BY <2>3, <1>1, <1>11
        <3>2. new[i].order \in 0..(n - 1) /\ new[j].order = j - 1
            BY <2>3, <1>1, <1>11
        <3> QED
            BY <2>3, <3>1, <3>2, <1>1, <1>4
    <2>4. CASE i > n /\ j \in 1..n
        <3>1. new[j].id \in 1..u /\ new[i].id = u + (i - n)
            BY <2>4, <1>1, <1>11
        <3>2. new[j].order \in 0..(n - 1) /\ new[i].order = i - 1
            BY <2>4, <1>1, <1>11
        <3> QED
            BY <2>4, <3>1, <3>2, <1>1, <1>4
    <2> QED
        BY <2>1, <2>2, <2>3, <2>4, <1>1, <1>4
<1>13. \A i \in 1..(n + a) : new[i].order \in 0..((n + a) - 1) /\ new[i].id \in 1..(u + a)
    <2> SUFFICES ASSUME NEW i \in 1..(n + a)
                 PROVE  new[i].order \in 0..((n + a) - 1) /\ new[i].id \in 1..(u + a)
        OBVIOUS
    <2> QED
        BY <1>1, <1>4, <1>11
<1>14. WellNumbered(new)
    BY <1>9, <1>12, <1>13 DEF WellNumbered, UniqueIds, UniqueOrders
<1>15. Len(new) - n = a
    BY <1>1, <1>4, <1>9
<1>16. Below(new, u + (Len(new) - n))
    BY <1>9, <1>13, <1>15 DEF Below
<1> QED
    BY <1>4, <1>14, <1>15, <1>16 DEF new

-----------------------------------------------------------------------------
\* Filtering

\* The count of the elements up to k tells the elements of a finite set of
\* numbers apart, in order.
LEMMA CountsApart ==
    ASSUME NEW c \in Nat, NEW S \in SUBSET (1..c), NEW x \in S, NEW y \in S, x < y
    PROVE  /\ Cardinality({j \in S : j <= x}) \in Nat
           /\ Cardinality({j \in S : j <= y}) \in Nat
           /\ Cardinality({j \in S : j <= x}) < Cardinality({j \in S : j <= y})
<1> DEFINE X == {j \in S : j <= x}
           Y == {j \in S : j <= y}
<1>1. IsFiniteSet(S)
    <2>1. IsFiniteSet(1..c)
        BY FS_Interval
    <2> QED
        BY <2>1, FS_Subset
<1>2. X \in SUBSET Y /\ Y \in SUBSET S /\ y \in Y /\ y \notin X
    <2>1. \A j \in S : j \in Int
        OBVIOUS
    <2>2. x \in Int /\ y \in Int
        BY <2>1
    <2>3. \A j \in S : j <= x => j <= y
        BY <2>1, <2>2
    <2>4. y <= y /\ ~(y <= x)
        BY <2>2
    <2> QED
        BY <2>3, <2>4
<1> HIDE DEF X, Y
<1>3. IsFiniteSet(Y) /\ IsFiniteSet(X) /\ Cardinality(X) <= Cardinality(Y)
      /\ (Cardinality(Y) = Cardinality(X) => Y = X)
    <2>1. IsFiniteSet(Y)
        BY <1>1, <1>2, FS_Subset
    <2> QED
        BY <1>2, <2>1, FS_Subset
<1>4. Cardinality(X) \in Nat /\ Cardinality(Y) \in Nat
    BY <1>3, FS_CardinalityType
<1>5. Cardinality(X) < Cardinality(Y)
    BY <1>2, <1>3, <1>4
<1> QED
    BY <1>4, <1>5 DEF X, Y

\* Nth counts off a set of places in order, and misses none.
LEMMA NthCounts ==
    ASSUME NEW c \in Nat, NEW S \in SUBSET (1..c)
    PROVE  /\ Cardinality(S) \in Nat
           /\ \A m \in 1..Cardinality(S) :
                 Nth(S, m) \in S /\ Cardinality({j \in S : j <= Nth(S, m)}) = m
           /\ \A m, n \in 1..Cardinality(S) : m < n => Nth(S, m) < Nth(S, n)
           /\ \A k \in S : \E m \in 1..Cardinality(S) : Nth(S, m) = k
<1> DEFINE count(k) == Cardinality({j \in S : j <= k})
<1>1. /\ Cardinality(S) \in Nat
      /\ \A m \in 1..Cardinality(S) : \E k \in S : count(k) = m
    BY CountedOff
<1>2. \A x, y \in S : x < y => count(x) < count(y) /\ count(x) \in Nat /\ count(y) \in Nat
    BY CountsApart
<1>3. \A m : Nth(S, m) = CHOOSE k \in S : count(k) = m
    BY DEF Nth
<1>4. ASSUME NEW k \in S
      PROVE  count(k) \in 1..Cardinality(S)
    <2> DEFINE K == {j \in S : j <= k}
    <2>1. IsFiniteSet(S)
        <3>1. IsFiniteSet(1..c)
            BY FS_Interval
        <3> QED
            BY <3>1, FS_Subset
    <2>2. K \in SUBSET S /\ k \in K
        OBVIOUS
    <2> HIDE DEF K
    <2>3. IsFiniteSet(K) /\ Cardinality(K) <= Cardinality(S)
        BY <2>1, <2>2, FS_Subset
    <2>4. Cardinality(K) \in Nat /\ Cardinality(K) # 0
        BY <2>2, <2>3, FS_CardinalityType, FS_EmptySet
    <2>5. Cardinality(K) \in 1..Cardinality(S)
        BY <1>1, <2>3, <2>4
    <2> QED
        BY <2>5 DEF K
<1> HIDE DEF count
<1>5. \A m \in 1..Cardinality(S) : Nth(S, m) \in S /\ count(Nth(S, m)) = m
    BY <1>1, <1>3
<1>6. ASSUME NEW m \in 1..Cardinality(S), NEW n \in 1..Cardinality(S), m < n
      PROVE  Nth(S, m) < Nth(S, n)
    <2> DEFINE x == Nth(S, m)
               y == Nth(S, n)
    <2>1. x \in S /\ y \in S /\ count(x) = m /\ count(y) = n
        BY <1>5
    <2> HIDE DEF x, y
    <2>4. x \in Int /\ y \in Int
        BY <2>1
    <2>2. ~ (y < x) /\ x # y
        BY <2>1, <1>2, <1>6
    <2>3. x < y
        BY <2>4, <2>2
    <2> QED
        BY <2>3 DEF x, y
<1>7. ASSUME NEW k \in S
      PROVE  \E m \in 1..Cardinality(S) : Nth(S, m) = k
    <2> DEFINE m == count(k)
               x == Nth(S, m)
    <2>1. m \in 1..Cardinality(S) /\ x \in S /\ count(x) = m
        BY <1>4, <1>5
    <2>2. x = k
        <3> HIDE DEF x, m
        <3>1. x \in Int /\ k \in Int
            BY <2>1
        <3>2. x < k \/ k < x \/ x = k
            BY <3>1
        <3>3. m \in Nat
            BY <2>1
        <3>4. count(k) = m
            BY DEF m
        <3> QED
            BY <2>1, <3>2, <3>3, <3>4, <1>2
    <2> QED
        BY <2>1, <2>2
<1>8. \A m \in 1..Cardinality(S) : Cardinality({j \in S : j <= Nth(S, m)}) = m
    BY <1>5 DEF count
<1> QED
    BY <1>1, <1>5, <1>6, <1>7, <1>8

LEMMA PickedFrom ==
    ASSUME NEW T, NEW s \in Seq(T), NEW S \in SUBSET (1..Len(s))
    PROVE  /\ Cardinality(S) \in Nat
           /\ Picked(s, S) \in Seq(T)
           /\ Len(Picked(s, S)) = Cardinality(S)
           /\ DOMAIN Picked(s, S) = 1..Cardinality(S)
           /\ \A m \in 1..Cardinality(S) :
                 Nth(S, m) \in S /\ Nth(S, m) \in 1..Len(s) /\ Picked(s, S)[m] = s[Nth(S, m)]
           /\ \A m, n \in 1..Cardinality(S) : m < n => Nth(S, m) < Nth(S, n)
           /\ \A k \in S : \E m \in 1..Cardinality(S) : Nth(S, m) = k
<1>1. Len(s) \in Nat /\ s \in [1..Len(s) -> T]
    OBVIOUS
<1>2. /\ Cardinality(S) \in Nat
      /\ \A m \in 1..Cardinality(S) : Nth(S, m) \in S /\ Nth(S, m) \in 1..Len(s)
      /\ \A m, n \in 1..Cardinality(S) : m < n => Nth(S, m) < Nth(S, n)
      /\ \A k \in S : \E m \in 1..Cardinality(S) : Nth(S, m) = k
    <2>1. \A m \in 1..Cardinality(S) : Nth(S, m) \in S
        BY <1>1, NthCounts
    <2> QED
        BY <1>1, <2>1, NthCounts
<1>3. Picked(s, S) \in [1..Cardinality(S) -> T]
    <2>1. \A m \in 1..Cardinality(S) : s[Nth(S, m)] \in T
        BY <1>1, <1>2
    <2> QED
        BY <2>1 DEF Picked
<1>4. \A m \in 1..Cardinality(S) : Picked(s, S)[m] = s[Nth(S, m)]
    BY DEF Picked
<1>5. /\ Picked(s, S) \in Seq(T) /\ Len(Picked(s, S)) = Cardinality(S)
      /\ DOMAIN Picked(s, S) = 1..Cardinality(S)
    <2> DEFINE p == Picked(s, S)
               n == Cardinality(S)
    <2>1. n \in Nat /\ p \in [1..n -> T]
        BY <1>2, <1>3
    <2> HIDE DEF p, n
    <2>2. p \in Seq(T) /\ Len(p) = n /\ DOMAIN p = 1..n
        BY <2>1
    <2> QED
        BY <2>2 DEF p, n
<1> QED
    BY <1>2, <1>4, <1>5

\* All places but one: what comes after moves up.
LEMMA NthWithout ==
    ASSUME NEW c \in Nat, NEW q \in 1..c
    PROVE  /\ Cardinality((1..c) \ {q}) = c - 1
           /\ \A m \in 1..(c - 1) : Nth((1..c) \ {q}, m) = IF m < q THEN m ELSE m + 1
<1> DEFINE S == (1..c) \ {q}
<1>1. IsFiniteSet(1..c) /\ Cardinality(1..c) = c
    BY FS_Interval
<1>2. IsFiniteSet(S) /\ Cardinality(S) = c - 1
    BY <1>1, FS_RemoveElement
<1>3. ASSUME NEW m \in 1..(c - 1)
      PROVE  Nth(S, m) = IF m < q THEN m ELSE m + 1
    <2> DEFINE k == IF m < q THEN m ELSE m + 1
    <2>1. k \in S /\ k \in 1..c
        OBVIOUS
    <2>2. Cardinality({j \in S : j <= k}) = m
        <3>1. CASE m < q
            <4>1. {j \in S : j <= k} = 1..m
                BY <3>1
            <4>2. Cardinality(1..m) = m
                BY FS_Interval
            <4> QED
                BY <4>1, <4>2
        <3>2. CASE ~(m < q)
            <4>1. {j \in S : j <= k} = (1..(m + 1)) \ {q}
                BY <3>2
            <4>2. IsFiniteSet(1..(m + 1)) /\ Cardinality(1..(m + 1)) = m + 1
                BY FS_Interval
            <4>3. q \in 1..(m + 1)
                BY <3>2
            <4>4. Cardinality((1..(m + 1)) \ {q}) = Cardinality(1..(m + 1)) - 1
                BY <4>2, <4>3, FS_RemoveElement
            <4>5. Cardinality((1..(m + 1)) \ {q}) = m
                BY <4>2, <4>4
            <4> HIDE DEF k, S
            <4> QED
                BY <4>1, <4>5
        <3> QED
            BY <3>1, <3>2
    <2> HIDE DEF k, S
    <2>3. PICK n \in 1..Cardinality(S) : Nth(S, n) = k
        <3>1. S \in SUBSET (1..c)
            BY DEF S
        <3> QED
            BY <2>1, <3>1, NthCounts
    <2>4. Cardinality({j \in S : j <= Nth(S, n)}) = n
        <3>1. S \in SUBSET (1..c)
            BY DEF S
        <3> QED
            BY <3>1, NthCounts
    <2>5. n = m
        BY <2>2, <2>3, <2>4
    <2> QED
        BY <2>3, <2>5 DEF k
<1> QED
    BY <1>2, <1>3

LEMMA NthOfAll ==
    ASSUME NEW c \in Nat
    PROVE  /\ Cardinality(1..c) = c
           /\ \A m \in 1..c : Nth(1..c, m) = m
<1>1. Cardinality(1..c) = c
    BY FS_Interval
<1>2. ASSUME NEW m \in 1..c
      PROVE  Nth(1..c, m) = m
    <2>1. (1..c) \in SUBSET (1..c)
        OBVIOUS
    <2>2. PICK n \in 1..c : Nth(1..c, n) = m
        BY <1>1, <2>1, NthCounts
    <2>3. Cardinality({j \in 1..c : j <= m}) = n
        BY <1>1, <2>1, <2>2, NthCounts
    <2>4. {j \in 1..c : j <= m} = 1..m /\ Cardinality(1..m) = m
        BY FS_Interval
    <2> QED
        BY <2>2, <2>3, <2>4
<1> QED
    BY <1>1, <1>2

LEMMA PickedAll ==
    ASSUME NEW T, NEW s \in Seq(T)
    PROVE  Picked(s, 1..Len(s)) = s
<1>1. Len(s) \in Nat /\ DOMAIN s = 1..Len(s) /\ s = [m \in 1..Len(s) |-> s[m]]
    OBVIOUS
<1>2. Cardinality(1..Len(s)) = Len(s) /\ \A m \in 1..Len(s) : Nth(1..Len(s), m) = m
    BY <1>1, NthOfAll
<1>3. Picked(s, 1..Len(s)) = [m \in 1..Len(s) |-> s[m]]
    BY <1>2 DEF Picked
<1> QED
    BY <1>1, <1>3

LEMMA PickedWithout ==
    ASSUME NEW T, NEW s \in Seq(T), NEW q \in 1..Len(s)
    PROVE  /\ Picked(s, (1..Len(s)) \ {q}) \in Seq(T)
           /\ Len(Picked(s, (1..Len(s)) \ {q})) = Len(s) - 1
           /\ \A m \in 1..(Len(s) - 1) :
                 Picked(s, (1..Len(s)) \ {q})[m] = s[IF m < q THEN m ELSE m + 1]
<1> DEFINE S == (1..Len(s)) \ {q}
<1>1. Len(s) \in Nat
    OBVIOUS
<1>2. /\ Cardinality(S) = Len(s) - 1
      /\ \A m \in 1..(Len(s) - 1) : Nth(S, m) = IF m < q THEN m ELSE m + 1
    BY <1>1, NthWithout
<1>3. S \in SUBSET (1..Len(s))
    OBVIOUS
<1> HIDE DEF S
<1>4. Picked(s, S) \in Seq(T) /\ Len(Picked(s, S)) = Cardinality(S)
    BY <1>3, PickedFrom
<1>5. \A m \in 1..Cardinality(S) : Picked(s, S)[m] = s[Nth(S, m)]
    BY DEF Picked
<1>6. \A m \in 1..(Len(s) - 1) : Picked(s, S)[m] = s[IF m < q THEN m ELSE m + 1]
    BY <1>2, <1>5
<1> QED
    BY <1>2, <1>4, <1>6 DEF S

\* A set of places that is not empty has a first.
LEMMA First ==
    ASSUME NEW c \in Nat, NEW S \in SUBSET (1..c), S # {}
    PROVE  \E k \in S : \A j \in S : k <= j
<1>1. IsFiniteSet(S) /\ Cardinality(S) \in Nat /\ Cardinality(S) # 0
    <2>1. IsFiniteSet(1..c)
        BY FS_Interval
    <2>2. IsFiniteSet(S)
        BY <2>1, FS_Subset
    <2> QED
        BY <2>2, FS_CardinalityType, FS_EmptySet
<1>2. 1 \in 1..Cardinality(S)
    BY <1>1
<1> DEFINE k == Nth(S, 1)
<1>3. k \in S
    BY <1>2, NthCounts
<1>4. ASSUME NEW j \in S
      PROVE  k <= j
    <2>1. PICK m \in 1..Cardinality(S) : Nth(S, m) = j
        BY NthCounts
    <2>2. m = 1 \/ 1 < m
        BY <1>1
    <2>3. k = j \/ k < j
        BY <2>1, <2>2, <1>2, NthCounts
    <2> HIDE DEF k
    <2>4. k \in Int /\ j \in Int
        BY <1>3
    <2> QED
        BY <2>3, <2>4
<1> QED
    BY <1>3, <1>4

-----------------------------------------------------------------------------
\* What the operations do to the displayed order

LEMMA Counted ==
    ASSUME NEW S, NEW n \in Nat, NEW f \in [S -> 1..n],
           \A x, y \in S : f[x] = f[y] => x = y,
           \A p \in 1..n : \E x \in S : f[x] = p
    PROVE  IsFiniteSet(S) /\ Cardinality(S) = n
<1>1. f \in Injection(S, 1..n) /\ f \in Surjection(S, 1..n)
    BY DEF Injection, IsInjective, Surjection
<1>2. IsFiniteSet(1..n) /\ Cardinality(1..n) = n
    BY FS_Interval
<1> QED
    BY <1>1, <1>2, FS_Injection

LEMMA ListedAtPlace ==
    ASSUME NEW es \in Seq(Row), NEW i \in DOMAIN es
    PROVE  Listed(es)[Place(es, i)] = es[i]
<1>1. /\ Len(es) \in Nat /\ DOMAIN es = 1..Len(es)
      /\ Place(es, i) \in DOMAIN es
      /\ \A j \in DOMAIN es : Place(es, j) = Place(es, i) => j = i
    BY RowFacts, Places
<1>2. (CHOOSE j \in DOMAIN es : Place(es, j) = Place(es, i)) = i
    BY <1>1
<1> QED
    BY <1>1, <1>2 DEF Listed

\* In a well numbered list the order of an entry is its place.
LEMMA PlaceIsOrder ==
    ASSUME NEW es, WellNumbered(es), NEW i \in DOMAIN es
    PROVE  Place(es, i) = es[i].order + 1
<1> DEFINE n == Len(es)
           m == es[i].order + 1
           S == Above(es, i)
           f == [j \in S |-> es[j].order + 1]
<1>1. /\ es \in Seq(Row) /\ n \in Nat /\ DOMAIN es = 1..n
      /\ \A j \in 1..n : es[j].order \in 0..(n - 1)
      /\ \A j, k \in 1..n : es[j].order = es[k].order => j = k
    BY RowFacts DEF WellNumbered, UniqueOrders
<1>2. m \in 1..n /\ S = {j \in 1..n : es[j].order <= es[i].order}
    BY <1>1 DEF Above
<1>3. f \in [S -> 1..m]
    BY <1>1, <1>2
<1>4. \A x, y \in S : f[x] = f[y] => x = y
    <2> SUFFICES ASSUME NEW x \in S, NEW y \in S, f[x] = f[y]
                 PROVE  x = y
        OBVIOUS
    <2>1. x \in 1..n /\ y \in 1..n
        BY <1>2
    <2>2. es[x].order + 1 = es[y].order + 1 /\ es[x].order \in Int /\ es[y].order \in Int
        BY <1>1, <2>1
    <2>3. es[x].order = es[y].order
        BY <2>2
    <2> QED
        BY <1>1, <2>1, <2>3
<1>5. ASSUME NEW p \in 1..m
      PROVE  \E x \in S : f[x] = p
    <2>1. p \in 1..n
        BY <1>1, <1>2
    <2>2. PICK x \in 1..n : es[x].order = p - 1
        BY <1>1, <2>1, Filled DEF Packed
    <2>3. x \in S
        BY <1>1, <1>2, <2>2
    <2>4. f[x] = p
        BY <2>2, <2>3
    <2> QED
        BY <2>3, <2>4
<1> HIDE DEF f, S, m
<1>6. Cardinality(S) = m
    <2>1. m \in Nat
        BY <1>2
    <2> QED
        BY <2>1, <1>3, <1>4, <1>5, Counted
<1> QED
    BY <1>6 DEF S, m, Above, Place

\* Which entry a well numbered list shows at each place.
LEMMA ListedByOrder ==
    ASSUME NEW es, WellNumbered(es)
    PROVE  /\ Listed(es) \in Seq(Row)
           /\ Len(Listed(es)) = Len(es)
           /\ DOMAIN Listed(es) = 1..Len(es)
           /\ UniqueIds(Listed(es))
           /\ \A i \in DOMAIN es : Listed(es)[es[i].order + 1] = es[i]
           /\ \A p \in 1..Len(es) :
                 \E i \in DOMAIN es : es[i].order = p - 1 /\ Listed(es)[p] = es[i]
<1>1. es \in Seq(Row) /\ Len(es) \in Nat /\ DOMAIN es = 1..Len(es) /\ UniqueIds(es)
    BY RowFacts DEF WellNumbered
<1>2. /\ Listed(es) \in Seq(Row) /\ Len(Listed(es)) = Len(es)
      /\ UniqueIds(Listed(es))
    BY <1>1, ListedIsPermutation
<1>3. \A i \in DOMAIN es : Listed(es)[es[i].order + 1] = es[i]
    BY <1>1, PlaceIsOrder, ListedAtPlace
<1>4. ASSUME NEW p \in 1..Len(es)
      PROVE  \E i \in DOMAIN es : es[i].order = p - 1 /\ Listed(es)[p] = es[i]
    <2>1. PICK i \in DOMAIN es : es[i].order = p - 1
        BY Filled DEF Packed
    <2>2. es[i].order + 1 = p
        BY <2>1, <1>1
    <2> QED
        BY <2>1, <2>2, <1>3
<1> QED
    BY <1>1, <1>2, <1>3, <1>4

LEMMA CreatedRows ==
    ASSUME NEW es, WellNumbered(es), NEW id, NEW text
    PROVE  LET new == Created(es, id, text)
               n == Len(es)
           IN  /\ Len(new) = n + 1 /\ DOMAIN new = 1..(n + 1)
               /\ \A i \in 1..n : /\ new[i].id = es[i].id /\ new[i].text = es[i].text
                                  /\ new[i].order = es[i].order + 1
               /\ new[n + 1] = Entry(id, text, 0)
<1> DEFINE n == Len(es)
           moved == [i \in DOMAIN es |-> [es[i] EXCEPT !.order = @ + 1]]
           Any == {moved[i] : i \in 1..n} \cup {Entry(id, text, 0)}
<1>1. /\ es \in Seq(Row) /\ n \in Nat /\ DOMAIN es = 1..n
      /\ \A i \in 1..n : es[i] \in Row
    BY RowFacts DEF WellNumbered
<1>2. moved \in Seq(Any) /\ Len(moved) = n
    <2>1. moved \in [1..n -> Any]
        BY <1>1
    <2> HIDE DEF moved, Any
    <2> QED
        BY <1>1, <2>1
<1>3. \A i \in 1..n : /\ moved[i].id = es[i].id /\ moved[i].text = es[i].text
                      /\ moved[i].order = es[i].order + 1
    BY <1>1 DEF Row
<1>4. Created(es, id, text) = Append(moved, Entry(id, text, 0))
    BY DEF Created
<1> HIDE DEF moved
<1>5. Entry(id, text, 0) \in Any
    OBVIOUS
<1> HIDE DEF Any
<1> QED
    BY <1>1, <1>2, <1>3, <1>4, <1>5

LEMMA UpdatedRows ==
    ASSUME NEW es, WellNumbered(es), NEW id \in Ids(es), NEW text
    PROVE  LET new == Updated(es, id, text)
           IN  /\ Len(new) = Len(es) /\ DOMAIN new = DOMAIN es
               /\ \A i \in DOMAIN es :
                     /\ new[i].id = es[i].id /\ new[i].order = es[i].order
                     /\ new[i].text = IF es[i].id = id THEN text ELSE es[i].text
<1> DEFINE n == Len(es)
           k == At(es, id)
           new == Updated(es, id, text)
<1>1. /\ es \in Seq(Row) /\ n \in Nat /\ DOMAIN es = 1..n
      /\ \A i \in 1..n : es[i] \in Row
      /\ \A i, j \in 1..n : es[i].id = es[j].id => i = j
    BY RowFacts DEF WellNumbered, UniqueIds
<1>2. k \in 1..n /\ es[k].id = id
    BY <1>1, Found
<1> HIDE DEF k
<1>3. new = [es EXCEPT ![k] = [es[k] EXCEPT !.text = text]]
    BY <1>1 DEF Updated, k
<1>4. new = [i \in 1..n |-> IF i = k THEN [es[k] EXCEPT !.text = text] ELSE es[i]]
    BY <1>1, <1>3
<1>5. \A i \in 1..n : /\ new[i].id = es[i].id /\ new[i].order = es[i].order
                      /\ new[i].text = IF i = k THEN text ELSE es[i].text
    BY <1>1, <1>4 DEF Row
<1>6. \A i \in 1..n : es[i].id = id <=> i = k
    BY <1>1, <1>2
<1>7. DOMAIN new = 1..n /\ Len(new) = n
    <2>1. new \in Seq({new[i] : i \in 1..n})
        <3>1. new \in [1..n -> {new[i] : i \in 1..n}]
            BY <1>4
        <3> HIDE DEF new
        <3> QED
            BY <3>1, <1>1
    <2>2. DOMAIN new = 1..n
        BY <1>4
    <2> HIDE DEF new
    <2> QED
        BY <1>1, <2>1, <2>2
<1> QED
    BY <1>1, <1>5, <1>6, <1>7

LEMMA ReorderedRows ==
    ASSUME NEW es, WellNumbered(es), NEW ids \in Seq(Nat), IsReordering(es, ids)
    PROVE  LET new == Reordered(es, ids)
           IN  /\ Len(new) = Len(es) /\ DOMAIN new = DOMAIN es
               /\ \A i \in DOMAIN es :
                     /\ new[i].id = es[i].id /\ new[i].text = es[i].text
                     /\ new[i].order + 1 \in 1..Len(es)
                     /\ ids[new[i].order + 1] = es[i].id
<1> DEFINE n == Len(es)
           new == Reordered(es, ids)
           pos(i) == CHOOSE p \in DOMAIN ids : ids[p] = es[i].id
<1>1. /\ es \in Seq(Row) /\ n \in Nat /\ DOMAIN es = 1..n
      /\ \A i \in 1..n : es[i] \in Row
    BY RowFacts DEF WellNumbered
<1>2. DOMAIN ids = 1..n
    BY DEF IsReordering
<1>3. \A i \in 1..n : pos(i) \in 1..n /\ ids[pos(i)] = es[i].id
    <2>1. ASSUME NEW i \in 1..n
          PROVE  \E p \in 1..n : ids[p] = es[i].id
        BY <1>1, <1>2 DEF IsReordering, Ids
    <2> QED
        BY <1>2, <2>1
<1>4. new = [i \in 1..n |-> [es[i] EXCEPT !.order = pos(i) - 1]]
    BY <1>1 DEF Reordered
<1> HIDE DEF pos
<1>5. \A i \in 1..n : new[i].id = es[i].id /\ new[i].text = es[i].text /\ new[i].order = pos(i) - 1
    BY <1>1, <1>4 DEF Row
<1>6. \A i \in 1..n : pos(i) - 1 + 1 = pos(i)
    BY <1>3
<1>7. DOMAIN new = 1..n /\ Len(new) = n
    <2>1. new \in Seq({new[i] : i \in 1..n})
        <3> DEFINE N == {new[i] : i \in 1..n}
        <3>1. new \in [1..n -> N]
            BY <1>4
        <3> HIDE DEF new, N
        <3>2. new \in Seq(N)
            BY <3>1, <1>1
        <3> QED
            BY <3>2 DEF N
    <2>2. DOMAIN new = 1..n
        BY <1>4
    <2> HIDE DEF new
    <2> QED
        BY <1>1, <2>1, <2>2
<1> HIDE DEF new
<1> QED
    BY SMTT(60), <1>1, <1>3, <1>5, <1>6, <1>7 DEF new

\* A deletion moves the entries that were below up by one place.
LEMMA DeletedRows ==
    ASSUME NEW es, WellNumbered(es), NEW id \in Ids(es)
    PROVE  LET new == Deleted(es, id)
               k == At(es, id)
           IN  /\ Len(new) = Len(es) - 1 /\ DOMAIN new = 1..(Len(es) - 1)
               /\ \A i \in DOMAIN es \ {k} :
                     LET p == IF es[i].order < es[k].order THEN es[i].order + 1
                              ELSE es[i].order
                     IN  /\ p \in 1..(Len(es) - 1)
                         /\ new[p].id = es[i].id /\ new[p].text = es[i].text
                         /\ new[p].order = p - 1
<1> DEFINE n == Len(es)
           k == At(es, id)
           left == Without(es, k)
           rest == Listed(left)
           new == Deleted(es, id)
           from(i) == IF i < k THEN i ELSE i + 1
           at(i) == IF es[i].order < es[k].order THEN es[i].order + 1 ELSE es[i].order
<1>1. /\ es \in Seq(Row) /\ n \in Nat /\ DOMAIN es = 1..n
      /\ \A i \in 1..n : es[i].order \in 0..(n - 1)
      /\ \A i, j \in 1..n : es[i].order = es[j].order => i = j
    BY RowFacts DEF WellNumbered, UniqueOrders
<1>2. k \in 1..n
    BY <1>1, Found
<1>3. /\ left \in Seq(Row) /\ Len(left) = n - 1 /\ DOMAIN left = 1..(n - 1)
      /\ \A j \in 1..(n - 1) : left[j] = es[from(j)]
    <2>1. left \in Seq(Row) /\ Len(left) = n - 1
        BY <1>1, <1>2, WithoutKeeps
    <2>2. \A j \in 1..(n - 1) : left[j] = es[from(j)]
        BY <1>1, <1>2, WithoutKeeps
    <2> HIDE DEF left, from
    <2> QED
        BY SMTT(60), <1>1, <1>2, <2>1, <2>2
<1>4. /\ \A j \in 1..(n - 1) : from(j) \in (1..n) \ {k}
      /\ \A i, j \in 1..(n - 1) : from(i) = from(j) => i = j
      /\ \A i \in (1..n) \ {k} : \E j \in 1..(n - 1) : from(j) = i
    <2>1. \A j \in 1..(n - 1) : from(j) \in (1..n) \ {k}
        BY <1>1, <1>2
    <2>2. \A i, j \in 1..(n - 1) : from(i) = from(j) => i = j
        BY <1>1, <1>2
    <2>3. ASSUME NEW i \in (1..n) \ {k}
          PROVE  \E j \in 1..(n - 1) : from(j) = i
        <3>1. CASE i < k
            <4>1. i \in 1..(n - 1) /\ from(i) = i
                BY <3>1, <1>1, <1>2
            <4> QED
                BY <4>1
        <3>2. CASE i > k
            <4>1. i - 1 \in 1..(n - 1) /\ from(i - 1) = i
                BY <3>2, <1>1, <1>2
            <4> QED
                BY <4>1
        <3> QED
            BY <3>1, <3>2, <1>1, <1>2
    <2> QED
        BY <2>1, <2>2, <2>3
<1> HIDE DEF from, left, k
<1>5. ASSUME NEW i \in (1..n) \ {k}
      PROVE  /\ at(i) \in 1..(n - 1)
             /\ \A x \in (1..n) \ {k} : at(x) = at(i) => x = i
             /\ \A x \in (1..n) \ {k} : at(x) <= at(i) <=> es[x].order <= es[i].order
    <2>1. \A x \in (1..n) \ {k} : /\ es[x].order \in 0..(n - 1) /\ es[k].order \in 0..(n - 1)
                                  /\ es[x].order # es[k].order
                                  /\ (es[x].order = es[i].order => x = i)
        BY <1>1, <1>2
    <2>2. at(i) \in 1..(n - 1)
        BY <1>1, <2>1
    <2>3. ASSUME NEW x \in (1..n) \ {k}
          PROVE  (at(x) = at(i) => x = i) /\ (at(x) <= at(i) <=> es[x].order <= es[i].order)
        <3> DEFINE a == es[x].order
                   b == es[i].order
                   c == es[k].order
        <3>1. a \in Int /\ b \in Int /\ c \in Int /\ a # c /\ b # c
            BY <2>1
        <3>2. a = b => x = i
            BY <2>1
        <3>3. at(x) = (IF a < c THEN a + 1 ELSE a) /\ at(i) = (IF b < c THEN b + 1 ELSE b)
            OBVIOUS
        <3> HIDE DEF a, b, c, at
        <3>4. (at(x) = at(i) => a = b) /\ (at(x) <= at(i) <=> a <= b)
            BY <3>1, <3>3
        <3> QED
            BY <3>2, <3>4 DEF a, b
    <2> QED
        BY <2>2, <2>3
<1>6. ASSUME NEW p \in 1..(n - 1)
      PROVE  \E x \in (1..n) \ {k} : at(x) = p
    <2> DEFINE o == IF p <= es[k].order THEN p - 1 ELSE p
    <2>1. es[k].order \in 0..(n - 1)
        BY <1>1, <1>2
    <2>2. o \in 0..(n - 1) /\ o # es[k].order /\ o + 1 \in 1..n
        BY <1>1, <2>1
    <2>3. PICK x \in 1..n : es[x].order = (o + 1) - 1
        <3> HIDE DEF o
        <3> QED
            BY <1>1, <2>2, Filled DEF Packed
    <2>4. es[x].order = o
        BY <2>2, <2>3
    <2>5. x # k
        BY <2>2, <2>4
    <2>6. at(x) = p
        BY <2>1, <2>4, <1>1
    <2> QED
        BY <2>5, <2>6
<1>7. ASSUME NEW j \in 1..(n - 1)
      PROVE  Place(left, j) = at(from(j))
    <2> DEFINE m == at(from(j))
               S == Above(left, j)
               f == [x \in S |-> at(from(x))]
    <2>1. from(j) \in (1..n) \ {k} /\ m \in 1..(n - 1)
        BY <1>4, <1>5
    <2>2. S = {x \in 1..(n - 1) : es[from(x)].order <= es[from(j)].order}
        <3>1. \A x \in 1..(n - 1) : /\ left[x].order = es[from(x)].order
                                    /\ es[from(x)].order \in Int
                                    /\ (es[from(x)].order = es[from(j)].order => x = j)
            BY <1>1, <1>3, <1>4
        <3>2. \A x \in 1..(n - 1) :
                  (\/ left[x].order < left[j].order
                   \/ left[x].order = left[j].order /\ x <= j)
                  <=> es[from(x)].order <= es[from(j)].order
            BY <3>1
        <3> QED
            BY <1>3, <3>2 DEF Above
    <2>3. \A x \in S : x \in 1..(n - 1) /\ at(from(x)) \in 1..m
        <3> SUFFICES ASSUME NEW x \in S
                     PROVE  x \in 1..(n - 1) /\ at(from(x)) \in 1..m
            OBVIOUS
        <3>1. x \in 1..(n - 1) /\ from(x) \in (1..n) \ {k}
            BY <2>2, <1>4
        <3>2. es[from(x)].order <= es[from(j)].order
            BY <2>2
        <3>3. at(from(x)) \in 1..(n - 1) /\ at(from(x)) <= m
            BY <3>1, <3>2, <2>1, <1>5
        <3> HIDE DEF at, m
        <3> QED
            BY <3>1, <3>3, <2>1
    <2>4. f \in [S -> 1..m]
        BY <2>3
    <2>5. ASSUME NEW x \in S, NEW y \in S, f[x] = f[y]
          PROVE  x = y
        <3>1. at(from(x)) = at(from(y))
            <4> HIDE DEF at, S
            <4> QED
                BY <2>5
        <3>2. x \in 1..(n - 1) /\ y \in 1..(n - 1)
            BY <2>3
        <3>3. from(x) \in (1..n) \ {k} /\ from(y) \in (1..n) \ {k}
            BY <3>2, <1>4
        <3>4. from(x) = from(y)
            <4> HIDE DEF at
            <4> QED
                BY <3>1, <3>3, <1>5
        <3> QED
            BY <3>2, <3>4, <1>4
    <2>6. ASSUME NEW p \in 1..m
          PROVE  \E x \in S : f[x] = p
        <3>1. p \in 1..(n - 1) /\ p <= m
            <4> HIDE DEF m
            <4> QED
                BY <2>1, <1>1
        <3>2. PICK i \in (1..n) \ {k} : at(i) = p
            BY <3>1, <1>6
        <3>3. PICK x \in 1..(n - 1) : from(x) = i
            BY <1>4
        <3>4. es[i].order <= es[from(j)].order
            BY <3>1, <3>2, <2>1, <1>5
        <3>5. x \in S
            BY <3>3, <3>4, <2>2
        <3> QED
            BY <3>2, <3>3, <3>5
    <2> HIDE DEF f, S, m
    <2>7. Cardinality(S) = m
        <3>1. m \in Nat
            <4>1. \A x \in 1..(n - 1) : x \in Nat
                BY <1>1
            <4> QED
                BY <4>1, <2>1
        <3>2. \A x, y \in S : f[x] = f[y] => x = y
            BY <2>5
        <3>3. \A p \in 1..m : \E x \in S : f[x] = p
            BY <2>6
        <3> HIDE DEF at, n
        <3> QED
            BY <3>1, <2>4, <3>2, <3>3, Counted
    <2> QED
        BY <2>7 DEF S, m, Above, Place
<1>8. ASSUME NEW i \in (1..n) \ {k}
      PROVE  rest[at(i)] = es[i]
    <2>1. PICK j \in 1..(n - 1) : from(j) = i
        BY <1>4
    <2>2. rest[Place(left, j)] = left[j]
        BY <1>3, ListedAtPlace
    <2> QED
        BY <2>1, <2>2, <1>3, <1>7
<1>9. /\ rest \in Seq(Row) /\ Len(rest) = n - 1 /\ DOMAIN rest = 1..(n - 1)
      /\ \A p \in 1..(n - 1) : rest[p] \in Row
    <2>1. rest \in Seq(Row) /\ Len(rest) = n - 1
        BY <1>3, ListedIsPermutation
    <2> HIDE DEF rest
    <2> QED
        BY <2>1, RowFacts
<1>10. new = [p \in 1..(n - 1) |-> [rest[p] EXCEPT !.order = p - 1]]
    BY <1>9 DEF Deleted, left, k
<1> HIDE DEF rest
<1>11. \A p \in 1..(n - 1) : new[p].id = rest[p].id /\ new[p].text = rest[p].text /\ new[p].order = p - 1
    BY <1>9, <1>10 DEF Row
<1>12. DOMAIN new = 1..(n - 1) /\ Len(new) = n - 1
    <2>1. n - 1 \in Nat
        BY <1>1, <1>2
    <2>2. new \in [1..(n - 1) -> {new[i] : i \in 1..(n - 1)}]
        BY <1>10
    <2> HIDE DEF new
    <2> QED
        BY <2>1, <2>2
<1>13. ASSUME NEW i \in (1..n) \ {k}
       PROVE  /\ at(i) \in 1..(n - 1)
              /\ new[at(i)].id = es[i].id /\ new[at(i)].text = es[i].text
              /\ new[at(i)].order = at(i) - 1
    <2>1. at(i) \in 1..(n - 1) /\ rest[at(i)] = es[i]
        BY <1>5, <1>8
    <2> HIDE DEF at
    <2> QED
        BY <2>1, <1>11
<1> HIDE DEF new
<1> QED
    BY <1>1, <1>12, <1>13 DEF new, k

NewPlaces(es, file) == {k \in DOMAIN file : IsNew(es, file, k)}

\* What an import makes of a list: the new texts are behind it, each of them
\* under the next id and the next order.
ImportRows(es, file, u, new) ==
    LET n == Len(es)
        S == NewPlaces(es, file)
        a == Cardinality(S)
    IN  /\ a \in Nat /\ DOMAIN new = 1..(n + a)
        /\ \A i \in 1..n : new[i] = es[i]
        /\ \A m \in 1..a : /\ Nth(S, m) \in S
                           /\ new[n + m] = Entry(u + m, file[Nth(S, m)], n - 1 + m)
        /\ \A k \in S : \E m \in 1..a : Nth(S, m) = k

LEMMA ImportedRows ==
    ASSUME NEW es, WellNumbered(es), NEW u \in Nat,
           NEW c \in Nat, NEW file \in [1..c -> Labels]
    PROVE  ImportRows(es, file, u, Imported(es, file, u + 1))
<1> DEFINE n == Len(es)
           S == NewPlaces(es, file)
           a == Cardinality(S)
           picked == Picked(file, S)
           tail == [m \in DOMAIN picked |-> Entry(u + 1 + m - 1, picked[m], MaxOrder(es) + m)]
           new == Imported(es, file, u + 1)
           Any == {tail[m] : m \in 1..a}
<1>1. es \in Seq(Row) /\ n \in Nat /\ DOMAIN es = 1..n /\ MaxOrder(es) = n - 1
    BY RowFacts, Largest DEF WellNumbered
<1>2. file \in Seq(Labels) /\ Len(file) = c /\ S \in SUBSET (1..Len(file))
    BY DEF NewPlaces
<1>3. new = es \o tail
    BY DEF Imported, NewPlaces
<1> HIDE DEF S, a, picked, new
<1>4. /\ a \in Nat /\ DOMAIN picked = 1..a
      /\ \A m \in 1..a : Nth(S, m) \in S /\ picked[m] = file[Nth(S, m)]
      /\ \A k \in S : \E m \in 1..a : Nth(S, m) = k
    BY <1>2, PickedFrom, SMTT(20) DEF a, picked
<1>5. \A m \in 1..a : u + 1 + m - 1 = u + m /\ MaxOrder(es) + m = n - 1 + m
    BY <1>1, <1>4
<1>6. \A m \in 1..a : tail[m] = Entry(u + m, file[Nth(S, m)], n - 1 + m)
    BY <1>4, <1>5
<1>7. tail \in Seq(Any) /\ Len(tail) = a
    <2>1. tail \in [1..a -> Any]
        BY <1>4
    <2> HIDE DEF tail, Any
    <2> QED
        BY <2>1, <1>4
<1> HIDE DEF tail, Any
<1>8. /\ DOMAIN new = 1..(n + a)
      /\ \A i \in 1..n : new[i] = es[i]
      /\ \A m \in 1..a : new[n + m] = tail[m]
    <2> DEFINE All == Row \cup Any
    <2>1. es \in Seq(All) /\ tail \in Seq(All)
        BY <1>1, <1>7
    <2> HIDE DEF All
    <2>2. \A s, t \in Seq(All) :
              /\ DOMAIN (s \o t) = 1..(Len(s) + Len(t))
              /\ \A i \in 1..Len(s) : (s \o t)[i] = s[i]
              /\ \A m \in 1..Len(t) : (s \o t)[Len(s) + m] = t[m]
        OBVIOUS
    <2> QED
        BY <2>1, <2>2, <1>3, <1>7
<1>9. \A m \in 1..a : /\ Nth(S, m) \in S
                      /\ new[n + m] = Entry(u + m, file[Nth(S, m)], n - 1 + m)
    BY <1>4, <1>6, <1>8
<1> QED
    BY <1>4, <1>8, <1>9 DEF ImportRows, n, S, a, new

=============================================================================
