-------------------------- MODULE ScimListingProofs --------------------------
(***************************************************************************)
(* Proofs about ScimListing, for any directory and any size of a page:     *)
(* what a sync that ends has missed is bounded by what was removed while   *)
(* its pages were read, whether new entries come last and pages come from  *)
(* the cache, or they come anywhere and there is no cache.                 *)
(*                                                                         *)
(* What is true at the end of a sync is carried there by a count in its    *)
(* middle: how many of the entries there all the time lie behind the index *)
(* to go on from, and behind that of the checkpoint, without being stored. *)
(* An entry removed adds one at most, the one that moves over the index; a *)
(* page from the cache adds what has moved onto it since it was read, at   *)
(* most what was removed.                                                  *)
(*                                                                         *)
(* That a listing comes to its end rests on the totals the pages tell:     *)
(* none exceeds the entries there were and were made.                      *)
(***************************************************************************)
EXTENDS ScimListing, TLAPS, FiniteSetTheorems

USE ScimListingAssumption

-----------------------------------------------------------------------------
\* The two handlers decide alike whether there is another page (user.go:211,
\* group.go:89-95), so that the same index follows: "Is this actually a bug?"
\* (group.go:23) of the first index is settled by MissesAreBounded for both.
THEOREM HandlersAgree ==
    \A i, n \in Nat : MoreUsers(i, n) <=> MoreGroups(i, n)
  BY DEF MoreUsers, MoreGroups

LEMMA NextStartValue ==
    ASSUME NEW i \in Nat \ {0}, NEW n \in Nat
    PROVE  /\ NextStart(i, n) \in Nat
           /\ NextStart(i, n) = 0 => n < i + Count
           /\ NextStart(i, n) # 0 => NextStart(i, n) = i + Count
  BY DEF NextStart, MoreUsers, MoreGroups

LEMMA InitTypes == Init => TypeOK
<1> SUFFICES ASSUME Init PROVE TypeOK
  OBVIOUS
<1>1. pos = InitialPos /\ total = InitialTotal /\ steady = Present
  BY DEF Init
<1>2. /\ pos \in [Ids -> Nat] /\ total \in Nat
      /\ \A x \in Ids : pos[x] <= total
      /\ \A x, y \in Ids : pos[x] # 0 /\ pos[x] = pos[y] => x = y
  BY <1>1
<1>3. /\ config \in Configs /\ cache \subseteq Pages
      /\ next \in Nat /\ saved \in Nat /\ emitted \subseteq Ids
      /\ complete \in BOOLEAN
      /\ syncs \in Nat /\ adds \in Nat /\ removals \in Nat /\ removed \in Nat
  BY DEF Init
<1> QED
  BY <1>1, <1>2, <1>3 DEF TypeOK

LEMMA AddTypes == ASSUME TypeOK, NEW x \in Ids, Add(x) PROVE TypeOK'
<1> USE DEF TypeOK
<1>1. PICK i \in NewIndices :
        pos' = [y \in Ids |-> IF y = x THEN i
                              ELSE IF pos[y] >= i THEN pos[y] + 1 ELSE pos[y]]
  BY DEF Add
<1>2. i \in 1..(total + 1)
  BY DEF NewIndices
<1>3. total' = total + 1 /\ pos[x] = 0
  BY DEF Add
<1>4. pos' \in [Ids -> Nat] /\ \A y \in Ids : pos'[y] <= total'
  BY <1>1, <1>2, <1>3
<1>5. \A y \in Ids : pos[y] # 0 => pos'[y] # 0
  BY <1>1, <1>2, <1>3
<1>6. \A y, z \in Ids : pos'[y] # 0 /\ pos'[y] = pos'[z] => y = z
  BY <1>1, <1>2, <1>3
<1>7. steady' \subseteq Present'
  BY <1>5 DEF Add, Present
<1> QED
  BY <1>3, <1>4, <1>6, <1>7 DEF Add

LEMMA RemoveTypes == ASSUME TypeOK, NEW x \in Ids, Remove(x) PROVE TypeOK'
<1> USE DEF TypeOK
<1>1. /\ pos' = [y \in Ids |-> IF y = x THEN 0
                               ELSE IF pos[y] > pos[x] THEN pos[y] - 1 ELSE pos[y]]
      /\ total' = total - 1 /\ pos[x] # 0 /\ steady' = steady \ {x}
  BY DEF Remove
<1>2. pos[x] \in Nat /\ pos[x] <= total /\ total \in Nat
  OBVIOUS
<1>3. ASSUME NEW y \in Ids, y # x PROVE pos[y] \in Nat /\ (pos[y] # pos[x])
  BY <1>1, <1>3
<1>4. pos' \in [Ids -> Nat] /\ total' \in Nat
  BY <1>1, <1>2
<1>5. \A y \in Ids : pos'[y] <= total'
  BY <1>1, <1>2, <1>3
<1>6. \A y, z \in Ids : pos'[y] # 0 /\ pos'[y] = pos'[z] => y = z
  BY <1>1, <1>2, <1>3
<1>7. steady' \subseteq Present'
  BY <1>1, <1>2, <1>3 DEF Present
<1> QED
  BY <1>4, <1>5, <1>6, <1>7 DEF Remove

LEMMA BeginTypes == ASSUME TypeOK, Begin PROVE TypeOK'
<1> USE DEF TypeOK
<1>1. /\ pos' = pos /\ total' = total /\ cache' = cache
      /\ config' = config /\ adds' = adds /\ removals' = removals
      /\ syncs' = syncs + 1
      /\ next' = 1 /\ saved' = 1 /\ emitted' = {} /\ complete' = FALSE
  BY DEF Begin, FirstStart
<1>2. (steady \subseteq Present)' /\ (removed \in Nat)'
  BY <1>1 DEF Begin, Present
<1>3. /\ (pos \in [Ids -> Nat])' /\ (total \in Nat)'
      /\ (\A x \in Ids : pos[x] <= total)'
      /\ (\A x, y \in Ids : pos[x] # 0 /\ pos[x] = pos[y] => x = y)'
  BY <1>1
<1>4. (/\ config \in Configs /\ cache \subseteq Pages /\ emitted \subseteq Ids
       /\ complete \in BOOLEAN)'
  BY <1>1
<1>5. (next \in Nat /\ saved \in Nat /\ syncs \in Nat /\ adds \in Nat
       /\ removals \in Nat)'
  BY <1>1
<1> QED
  BY <1>2, <1>3, <1>4, <1>5

LEMMA ListPageTypes == ASSUME TypeOK, ListPage PROVE TypeOK'
<1> USE DEF TypeOK
<1>1. PICK page \in Answers(next) :
        /\ emitted' = emitted \cup page.ids
        /\ cache' = IF CacheEnabled THEN cache \cup {page} ELSE cache
        /\ next' = NextStart(next, page.total)
        /\ complete' = (next' = 0)
  BY DEF ListPage
<1>2. next \in Nat \ {0}
  BY DEF ListPage
<1>3. page \in Pages
  <2>1. PageNow(next) \in Pages
    BY DEF PageNow, Pages
  <2> QED
    BY <1>1, <2>1 DEF Answers
<1>4. page.total \in Nat /\ page.ids \subseteq Ids
  BY <1>3 DEF Pages
<1>5. (next \in Nat)'
  BY <1>1, <1>2, <1>4, NextStartValue
<1>6. UNCHANGED <<pos, total, saved, bounds, steady, removed>>
  BY DEF ListPage
<1>7. (cache \subseteq Pages /\ emitted \subseteq Ids)'
  BY <1>1, <1>3, <1>4
<1>8. (complete \in BOOLEAN)'
  BY <1>1
<1>9. /\ pos' = pos /\ total' = total /\ saved' = saved /\ syncs' = syncs
      /\ adds' = adds /\ removals' = removals /\ removed' = removed
      /\ config' = config
  BY <1>6 DEF bounds
<1>10. (steady \subseteq Present)'
  BY <1>6 DEF Present
<1>11. /\ (pos \in [Ids -> Nat])' /\ (total \in Nat)'
       /\ (\A x \in Ids : pos[x] <= total)'
       /\ (\A x, y \in Ids : pos[x] # 0 /\ pos[x] = pos[y] => x = y)'
  BY <1>9
<1>12. (config \in Configs /\ saved \in Nat /\ syncs \in Nat /\ adds \in Nat /\ removals \in Nat
        /\ removed \in Nat)'
  BY <1>9
<1> QED
  BY <1>5, <1>7, <1>8, <1>10, <1>11, <1>12

LEMMA NextTypes == TypeOK /\ [Next]_vars => TypeOK'
<1> SUFFICES ASSUME TypeOK, [Next]_vars PROVE TypeOK'
  OBVIOUS
<1>1. CASE Begin
  BY <1>1, BeginTypes
<1>2. CASE ListPage
  BY <1>2, ListPageTypes
<1>3. CASE Checkpoint
  BY <1>3 DEF TypeOK, Checkpoint, bounds, Present
<1>4. CASE Interrupt
  BY <1>4 DEF TypeOK, Interrupt, bounds, Present
<1>5. CASE DropEntries
  BY <1>5 DEF TypeOK, DropEntries, bounds, Present
<1>6. CASE \E x \in Ids : Add(x) \/ Remove(x)
  BY <1>6, AddTypes, RemoveTypes
<1>7. CASE UNCHANGED vars
  BY <1>7 DEF TypeOK, vars, Present
<1> QED
  BY <1>1, <1>2, <1>3, <1>4, <1>5, <1>6, <1>7 DEF Next

\* All variables of the model keep their types, and the indices of the
\* directory stay distinct.
THEOREM TypeCorrect == Spec => []TypeOK
  BY InitTypes, NextTypes, PTL DEF Spec

-----------------------------------------------------------------------------
\* The entries there all the time that a sync come to index i has left behind.
Behind(i) == {x \in steady \ emitted : pos[x] < i}

\* The entries that moved onto the cached page p since it was read.
Lost(p) == {x \in steady \ p.ids : p.start <= pos[x] /\ pos[x] < p.start + Count}

\* What is true of an index to go on from.
Reached(i) ==
    /\ i = 1 \/ (Count < i /\ i <= total + removed)
    /\ Cardinality(Behind(i)) <= Allowed(CacheEnabled, removed, i)

\* What is true of a page of whatever age.
Dated(p) ==
    /\ \A x \in steady : pos[x] <= p.total
    /\ p.total <= total + removed
    /\ Cardinality(Lost(p)) <= removed
    /\ p.total < p.start + Count => Lost(p) = {}

Counting ==
    /\ ~CacheEnabled => cache = {}
    /\ next # 0 => ~complete
    /\ \A p \in cache : Dated(p)
    /\ next # 0 => Reached(next) /\ Reached(saved)
    /\ MissesBounded

-----------------------------------------------------------------------------
\* The directory is finite: its indices are distinct and at most its total.
LEMMA DirectoryFinite ==
    ASSUME TypeOK
    PROVE  /\ IsFiniteSet(Present)
           /\ \A S : S \subseteq steady => IsFiniteSet(S) /\ Cardinality(S) \in Nat
<1> USE DEF TypeOK
<1> DEFINE f == [x \in Present |-> pos[x]]
<1>1. f \in [Present -> 1..total]
  BY DEF Present
<1>2. ASSUME NEW x \in Present, NEW y \in Present, f[x] = f[y] PROVE x = y
  BY <1>2 DEF Present
<1>3. f \in Injection(Present, 1..total)
  BY <1>1, <1>2 DEF Injection, IsInjective
<1>4. IsFiniteSet(1..total)
  BY FS_Interval
<1> HIDE DEF f
<1>5. IsFiniteSet(Present)
  BY <1>3, <1>4, FS_Injection
<1>6. ASSUME NEW S, S \subseteq steady PROVE IsFiniteSet(S) /\ Cardinality(S) \in Nat
  <2>1. S \in SUBSET Present
    BY <1>6
  <2>2. IsFiniteSet(S)
    BY <1>5, <2>1, FS_Subset
  <2> QED
    BY <2>2, FS_CardinalityType
<1> QED
  BY <1>5, <1>6

\* A set counts no more than one it is part of, and one more at most than a
\* set that lacks one of its elements.
LEMMA CountSubset ==
    ASSUME NEW S, NEW T, IsFiniteSet(T), S \subseteq T
    PROVE  Cardinality(S) \in Nat /\ Cardinality(T) \in Nat
           /\ Cardinality(S) <= Cardinality(T)
<1>1. S \in SUBSET T
  OBVIOUS
<1>2. IsFiniteSet(S) /\ Cardinality(S) <= Cardinality(T)
  BY <1>1, FS_Subset
<1> QED
  BY <1>2, FS_CardinalityType

LEMMA CountOneMore ==
    ASSUME NEW S, NEW T, IsFiniteSet(T), NEW x, S \subseteq T \cup {x}
    PROVE  Cardinality(S) \in Nat /\ Cardinality(S) <= Cardinality(T) + 1
<1>1. IsFiniteSet(T \cup {x}) /\ Cardinality(T \cup {x}) <= Cardinality(T) + 1
  <2>1. Cardinality(T) \in Nat
    BY FS_CardinalityType
  <2>2. /\ IsFiniteSet(T \cup {x})
        /\ Cardinality(T \cup {x}) =
              IF x \in T THEN Cardinality(T) ELSE Cardinality(T) + 1
    BY FS_AddElement
  <2> QED
    BY <2>1, <2>2
<1>2. /\ Cardinality(S) \in Nat /\ Cardinality(T \cup {x}) \in Nat
      /\ Cardinality(S) <= Cardinality(T \cup {x})
  BY <1>1, CountSubset
<1>3. Cardinality(T) \in Nat
  BY FS_CardinalityType
<1> QED
  BY <1>1, <1>2, <1>3

LEMMA CountUnion ==
    ASSUME NEW S, NEW T, NEW U, IsFiniteSet(T), IsFiniteSet(U), S \subseteq T \cup U
    PROVE  Cardinality(S) \in Nat /\ Cardinality(S) <= Cardinality(T) + Cardinality(U)
<1>1. IsFiniteSet(T \cup U)
      /\ Cardinality(T \cup U) = Cardinality(T) + Cardinality(U) - Cardinality(T \cap U)
  BY FS_Union
<1>2. IsFiniteSet(T \cap U)
  BY FS_Intersection
<1>3. Cardinality(T \cap U) \in Nat /\ Cardinality(T) \in Nat /\ Cardinality(U) \in Nat
  BY <1>2, FS_CardinalityType
<1>4. Cardinality(S) \in Nat /\ Cardinality(S) <= Cardinality(T \cup U)
  BY <1>1, CountSubset
<1> QED
  BY <1>1, <1>3, <1>4

\* How the division by the size of a page, and then what may be missed, grows
\* with the index and with the removals.
LEMMA DivisionGrows ==
    ASSUME NEW i \in Int, NEW j \in Int, i <= j
    PROVE  /\ i \div Count \in Int /\ j \div Count \in Int
           /\ i \div Count <= j \div Count
           /\ (i + Count) \div Count = (i \div Count) + 1
<1>1. ASSUME NEW a \in Int
      PROVE  /\ a \div Count \in Int /\ a % Count \in 0..(Count - 1)
             /\ a = Count * (a \div Count) + (a % Count)
             /\ (a + Count) \div Count = (a \div Count) + 1
  OBVIOUS
<1>2. i \div Count <= j \div Count
  <2>1. /\ i \div Count \in Int /\ i % Count \in 0..(Count - 1)
        /\ i = Count * (i \div Count) + (i % Count)
    BY <1>1
  <2>2. /\ j \div Count \in Int /\ j % Count \in 0..(Count - 1)
        /\ j = Count * (j \div Count) + (j % Count)
    BY <1>1
  <2> QED
    BY <2>1, <2>2
<1> QED
  BY <1>1, <1>2

LEMMA AllowedType ==
    ASSUME NEW c, NEW r \in Nat, NEW i \in Int
    PROVE  /\ Allowed(c, r, i) \in Int
           /\ r = 0 => Allowed(c, r, i) = 0
           /\ ~c => Allowed(c, r, i) = r
<1> DEFINE k == IF c THEN (i - 1) \div Count ELSE 1
<1>1. i - 1 \in Int /\ i - 1 <= i - 1
  OBVIOUS
<1>2. k \in Int
  BY <1>1, DivisionGrows
<1>3. Allowed(c, r, i) = r * k
  BY DEF Allowed
<1>4. ~c => k = 1
  OBVIOUS
<1> HIDE DEF k
<1>5. r * k \in Int /\ (r = 0 => r * k = 0) /\ (k = 1 => r * k = r)
  BY <1>2
<1> QED
  BY <1>3, <1>4, <1>5

LEMMA AllowedAtFirst ==
    ASSUME NEW c, NEW r \in Nat PROVE Allowed(c, r, 1) \in Nat
<1>1. 0 \div Count = 0
  OBVIOUS
<1> QED
  BY <1>1 DEF Allowed

LEMMA AllowedGrows ==
    ASSUME NEW c, NEW r \in Nat, NEW i \in Int, NEW j \in Int, i <= j
    PROVE  Allowed(c, r, i) <= Allowed(c, r, j)
<1> DEFINE k == IF c THEN (i - 1) \div Count ELSE 1
           l == IF c THEN (j - 1) \div Count ELSE 1
<1>1. i - 1 \in Int /\ j - 1 \in Int /\ i - 1 <= j - 1
  OBVIOUS
<1>2. k \in Int /\ l \in Int /\ k <= l
  BY <1>1, DivisionGrows
<1>3. Allowed(c, r, i) = r * k /\ Allowed(c, r, j) = r * l
  BY DEF Allowed
<1> HIDE DEF k, l
<1>4. r * k <= r * l
  BY <1>2
<1> QED
  BY <1>3, <1>4

LEMMA AllowedNextPage ==
    ASSUME NEW c, NEW r \in Nat, NEW i \in Int
    PROVE  c => Allowed(c, r, i + Count) = Allowed(c, r, i) + r
<1> SUFFICES ASSUME c PROVE Allowed(c, r, i + Count) = Allowed(c, r, i) + r
  OBVIOUS
<1> DEFINE k == (i - 1) \div Count
<1>1. i - 1 \in Int /\ i - 1 <= i - 1 /\ (i + Count) - 1 = (i - 1) + Count
  OBVIOUS
<1>2. k \in Int /\ ((i + Count) - 1) \div Count = k + 1
  BY <1>1, DivisionGrows
<1>3. Allowed(c, r, i + Count) = r * (k + 1) /\ Allowed(c, r, i) = r * k
  BY <1>2 DEF Allowed
<1> HIDE DEF k
<1>4. r * (k + 1) = r * k + r
  BY <1>2
<1> QED
  BY <1>3, <1>4

LEMMA AllowedOneMore ==
    ASSUME NEW c, NEW r \in Nat, NEW i \in Int, Count < i
    PROVE  Allowed(c, r, i) + 1 <= Allowed(c, r + 1, i)
<1> DEFINE k == IF c THEN (i - 1) \div Count ELSE 1
<1>1. i - 1 \in Int /\ Count \in Int /\ Count <= i - 1 /\ 0 <= 0
  OBVIOUS
<1>2. 0 \div Count = 0 /\ (0 + Count) \div Count = 1 /\ 0 + Count = Count
  BY DivisionGrows
<1>3. k \in Int /\ 1 <= k
  BY <1>1, <1>2, DivisionGrows
<1>4. Allowed(c, r, i) = r * k /\ Allowed(c, r + 1, i) = (r + 1) * k
  BY DEF Allowed
<1> HIDE DEF k
<1>5. (r + 1) * k = r * k + k /\ r * k \in Int
  BY <1>3
<1> QED
  BY <1>3, <1>4, <1>5

LEMMA AllowedMore ==
    ASSUME NEW c, NEW r \in Nat, NEW i \in Nat, 1 <= i
    PROVE  /\ Allowed(c, r, i) \in Int /\ Allowed(c, r + 1, i) \in Int
           /\ Allowed(c, r, i) <= Allowed(c, r + 1, i)
<1> DEFINE k == IF c THEN (i - 1) \div Count ELSE 1
<1>1. i - 1 \in Int /\ 0 <= i - 1
  OBVIOUS
<1>2. 0 \div Count = 0
  OBVIOUS
<1>3. k \in Int /\ 0 <= k
  BY <1>1, <1>2, DivisionGrows
<1>4. Allowed(c, r, i) = r * k /\ Allowed(c, r + 1, i) = (r + 1) * k
  BY DEF Allowed
<1> HIDE DEF k
<1>5. (r + 1) * k = r * k + k /\ r * k \in Int
  BY <1>3
<1> QED
  BY <1>3, <1>4, <1>5
-----------------------------------------------------------------------------
\* The page that is listed, from Slack or from the cache, is as a page of any
\* age is; without a cache it has lost nothing.
LEMMA AnswersDated ==
    ASSUME TypeOK, Counting, NEW page \in Answers(next), next # 0
    PROVE  /\ Dated(page) /\ page.start = next /\ page \in Pages
           /\ CacheEnabled \/ Lost(page) = {}
<1> USE DEF TypeOK
<1>1. CASE page = PageNow(next)
  <2>1. /\ page.start = next /\ page.total = total
        /\ page.ids = {x \in Ids : next <= pos[x] /\ pos[x] < next + Count}
    BY <1>1 DEF PageNow
  <2>2. page \in Pages
    BY <1>1 DEF PageNow, Pages
  <2>3. Lost(page) = {}
    BY <2>1 DEF Lost, Present
  <2>4. Cardinality(Lost(page)) = 0
    BY <2>3, FS_EmptySet
  <2>5. \A x \in steady : pos[x] <= page.total
    BY <2>1 DEF Present
  <2> QED
    BY <2>1, <2>2, <2>3, <2>4, <2>5 DEF Dated
<1>2. CASE page \in cache /\ page.start = next
  BY <1>2 DEF Counting
<1> QED
  BY <1>1, <1>2 DEF Answers

\* A page loses what it lost to the entries it leaves behind.
LEMMA ListPageCounting ==
    ASSUME TypeOK, Counting, ListPage PROVE Counting'
<1> USE DEF TypeOK
<1>1. PICK page \in Answers(next) :
        /\ emitted' = emitted \cup page.ids
        /\ cache' = IF CacheEnabled THEN cache \cup {page} ELSE cache
        /\ next' = NextStart(next, page.total)
        /\ complete' = (next' = 0)
  BY DEF ListPage
<1>2. /\ next # 0
      /\ UNCHANGED <<config, pos, total, saved, steady, removed>>
  BY DEF ListPage, bounds
<1>3. /\ Dated(page) /\ page.start = next /\ page \in Pages
      /\ CacheEnabled \/ Lost(page) = {}
  BY <1>2, AnswersDated
<1>4. page.total \in Nat /\ next \in Nat \ {0}
  BY <1>2, <1>3 DEF Pages
<1>5. Reached(next) /\ Reached(saved)
  BY <1>2 DEF Counting
<1>6. /\ next' = 0 => page.total < next + Count
      /\ next' # 0 => next' = next + Count
      /\ next' \in Nat
  BY <1>1, <1>4, NextStartValue
<1>7. next' # 0 => next + Count <= page.total
  BY <1>1, <1>4 DEF NextStart, MoreUsers, MoreGroups
<1>8. \A S : S \subseteq steady => IsFiniteSet(S) /\ Cardinality(S) \in Nat
  BY DirectoryFinite
<1>9. (~CacheEnabled => cache = {})' /\ (next # 0 => ~complete)'
  BY <1>1, <1>2 DEF Counting, CacheEnabled
<1>10. \A p : Dated(p) => Dated(p)'
  BY <1>2 DEF Dated, Lost
<1>11. (\A p \in cache : Dated(p))'
  BY <1>1, <1>3, <1>10 DEF Counting
<1>12. CacheEnabled' = CacheEnabled
  BY <1>2 DEF CacheEnabled
<1>13. Reached(saved)'
  <2>1. Behind(saved)' \subseteq Behind(saved) /\ IsFiniteSet(Behind(saved))
    BY <1>1, <1>2, <1>8 DEF Behind
  <2>2. /\ Cardinality(Behind(saved)') \in Nat /\ Cardinality(Behind(saved)) \in Nat
        /\ Cardinality(Behind(saved)') <= Cardinality(Behind(saved))
    BY <2>1, CountSubset
  <2>3. Allowed(CacheEnabled, removed, saved) \in Int
    BY AllowedType DEF CacheEnabled
  <2> QED
    BY <1>2, <1>5, <1>12, <2>2, <2>3 DEF Reached
\* What is left behind when the index has moved on by a page.
<1> DEFINE Left == {x \in steady \ emitted' : pos[x] < next + Count}
<1>14. Cardinality(Left) \in Nat
       /\ Cardinality(Left) <= Cardinality(Behind(next)) + Cardinality(Lost(page))
  <2>1. Left \subseteq Behind(next) \cup Lost(page)
    BY <1>1, <1>3 DEF Behind, Lost, Present
  <2>2. IsFiniteSet(Behind(next)) /\ IsFiniteSet(Lost(page))
    BY <1>8 DEF Behind, Lost
  <2> HIDE DEF Left
  <2> QED
    BY <2>1, <2>2, CountUnion
<1>15. /\ Cardinality(Lost(page)) \in Nat /\ Cardinality(Behind(next)) \in Nat
  BY <1>8 DEF Lost, Behind
<1>16. Allowed(CacheEnabled, removed, next) \in Int
  BY <1>4, AllowedType DEF CacheEnabled
<1>17. Cardinality(Behind(next)) <= Allowed(CacheEnabled, removed, next)
       /\ Cardinality(Lost(page)) <= removed
  BY <1>3, <1>5 DEF Reached, Dated
<1>18. Lost(page) = {} => Cardinality(Lost(page)) = 0
  BY FS_EmptySet
<1> HIDE DEF Left
<1>19. Cardinality(Left) <= Allowed(CacheEnabled, removed, next + Count)
  <2>1. CASE CacheEnabled
    <3>1. Allowed(CacheEnabled, removed, next + Count)
          = Allowed(CacheEnabled, removed, next) + removed
      <4>1. removed \in Nat /\ next \in Int
        BY <1>4
      <4>2. config.cached => Allowed(config.cached, removed, next + Count)
                             = Allowed(config.cached, removed, next) + removed
        BY <4>1, AllowedNextPage
      <4> QED
        BY <2>1, <4>2 DEF CacheEnabled
    <3> QED
      BY <1>14, <1>15, <1>16, <1>17, <3>1
  <2>2. CASE ~CacheEnabled
    <3>1. /\ Allowed(CacheEnabled, removed, next + Count) = removed
          /\ Allowed(CacheEnabled, removed, next) = removed
      <4>1. next + Count \in Int /\ next \in Int
        BY <1>4
      <4> QED
        BY <2>2, <4>1, AllowedType DEF CacheEnabled
    <3>2. Cardinality(Lost(page)) = 0
      BY <1>3, <1>18, <2>2
    <3> QED
      BY <1>14, <1>15, <1>17, <3>1, <3>2
  <2> QED
    BY <2>1, <2>2
<1>20. CASE next' # 0
  <2>1. next' = next + Count /\ Count < next' /\ next' <= total + removed
    BY <1>3, <1>4, <1>6, <1>7, <1>20 DEF Dated
  <2>2. Behind(next)' = Left
    BY <1>2, <2>1 DEF Behind, Left
  <2>3. Reached(next)'
    BY <1>2, <1>12, <1>19, <2>1, <2>2 DEF Reached
  <2>4. MissesBounded'
    BY <1>1, <1>20 DEF MissesBounded
  <2> QED
    BY <1>9, <1>11, <1>13, <2>3, <2>4 DEF Counting
\* At the end everything is behind, and the last page has lost nothing.
<1>21. CASE next' = 0
  <2>1. page.total < next + Count
    BY <1>6, <1>21
  <2>2. (steady \ emitted)' = Left
    <3>1. \A x \in steady : pos[x] \in Nat /\ pos[x] <= page.total
      BY <1>3 DEF Dated, Present
    <3> QED
      BY <1>2, <1>4, <2>1, <3>1 DEF Left
  <2>3. Cardinality(Lost(page)) = 0
    BY <1>3, <1>18, <2>1 DEF Dated
  <2>4. Cardinality(Left) <= Allowed(CacheEnabled, removed, next)
    BY <1>14, <1>15, <1>16, <1>17, <2>3
  <2> DEFINE most == total + removed
  <2>5. most \in Int /\ next \in Int
    BY <1>4
  <2>6. Allowed(CacheEnabled, removed, most) \in Int
    BY <2>5, AllowedType DEF CacheEnabled
  <2>7. Allowed(CacheEnabled, removed, next) <= Allowed(CacheEnabled, removed, most)
    <3>1. CASE next <= most
      <4> HIDE DEF most
      <4> QED
        BY <2>5, <3>1, AllowedGrows DEF CacheEnabled
    <3>2. CASE ~(next <= most)
      <4>1. removed = 0
        BY <1>4, <1>5, <3>2 DEF Reached
      <4> HIDE DEF most
      <4>2. /\ Allowed(CacheEnabled, removed, next) = 0
            /\ Allowed(CacheEnabled, removed, most) = 0
        BY <2>5, <4>1, AllowedType DEF CacheEnabled
      <4> QED
        BY <4>2
    <3> QED
      BY <3>1, <3>2
  <2>8. Cardinality(Left) <= Allowed(CacheEnabled, removed, most)
    <3> HIDE DEF most
    <3> QED
      BY <1>14, <1>16, <2>4, <2>6, <2>7
  <2>9. MissesBounded'
    BY <1>2, <1>12, <2>2, <2>8 DEF MissesBounded
  <2> QED
    BY <1>9, <1>11, <1>21, <2>9 DEF Counting
<1> QED
  BY <1>20, <1>21

LEMMA BeginCounting ==
    ASSUME TypeOK, Counting, Begin PROVE Counting'
<1> USE DEF TypeOK
<1>1. /\ next' = 1 /\ saved' = 1 /\ complete' = FALSE /\ emitted' = {}
      /\ steady' \subseteq Present /\ removed' \in Nat
      /\ cache # {} => steady' = steady /\ removed' = removed
      /\ UNCHANGED <<config, pos, total, cache>>
  BY DEF Begin, FirstStart, Present
<1>2. Behind(1)' = {}
  BY <1>1 DEF Behind, Present
<1>3. Allowed(CacheEnabled', removed', 1) \in Nat
  BY <1>1, AllowedAtFirst DEF CacheEnabled
<1>4. Cardinality(Behind(1)') = 0
  BY <1>2, FS_EmptySet
<1>5. Reached(next)' /\ Reached(saved)'
  <2>1. Behind(next)' = Behind(1)' /\ Behind(saved)' = Behind(1)'
    BY <1>1 DEF Behind
  <2> QED
    BY <1>1, <1>3, <1>4, <2>1 DEF Reached
<1>6. (\A p \in cache : Dated(p))'
  BY <1>1 DEF Counting, Dated, Lost
<1>7. MissesBounded'
  BY <1>1 DEF MissesBounded
<1> QED
  BY <1>1, <1>5, <1>6, <1>7 DEF Counting, CacheEnabled

\* A new entry moves the others up, if any: no index leaves more behind.
LEMMA AddCounting ==
    ASSUME TypeOK, Counting, AppendOnly \/ ~CacheEnabled, NEW x \in Ids, Add(x)
    PROVE  Counting'
<1> USE DEF TypeOK
<1>1. PICK i \in NewIndices :
        pos' = [y \in Ids |-> IF y = x THEN i
                              ELSE IF pos[y] >= i THEN pos[y] + 1 ELSE pos[y]]
  BY DEF Add
<1>2. /\ pos[x] = 0 /\ total' = total + 1
      /\ UNCHANGED <<config, cache, next, saved, emitted, complete, steady, removed>>
  BY DEF Add
<1>3. i \in 1..(total + 1)
  BY DEF NewIndices
<1>4. \A y \in steady : y \in Ids /\ y # x /\ pos[y] \in Nat /\ pos'[y] \in Nat
  BY <1>1, <1>2, <1>3 DEF Present
<1>5. \A y \in steady : pos[y] <= pos'[y]
  BY <1>1, <1>3, <1>4
<1>6. AppendOnly => \A y \in steady : pos'[y] = pos[y]
  BY <1>1, <1>4 DEF NewIndices
<1>7. ASSUME NEW p \in cache PROVE Dated(p)'
  <2>1. CacheEnabled /\ Dated(p) /\ p \in Pages
    BY DEF Counting
  <2>2. \A y \in steady : pos'[y] = pos[y]
    BY <1>6, <2>1
  <2>3. Lost(p)' = Lost(p)
    BY <1>2, <2>2 DEF Lost
  <2>4. p.total <= total' + removed'
    BY <1>2, <2>1 DEF Dated, Pages
  <2> QED
    BY <1>2, <2>1, <2>2, <2>3, <2>4 DEF Dated
<1>8. CacheEnabled' = CacheEnabled
  BY <1>2 DEF CacheEnabled
<1>9. ASSUME NEW j \in Nat, Reached(j)
      PROVE  /\ j = 1 \/ (Count < j /\ j <= total' + removed')
             /\ Cardinality({y \in steady \ emitted : pos'[y] < j})
                <= Allowed(CacheEnabled, removed, j)
  <2> DEFINE Now == {y \in steady \ emitted : pos'[y] < j}
  <2>1. Now \subseteq Behind(j)
    BY <1>4, <1>5 DEF Behind
  <2>2. IsFiniteSet(Behind(j))
    BY DirectoryFinite DEF Behind
  <2> HIDE DEF Now
  <2>3. /\ Cardinality(Now) \in Nat /\ Cardinality(Behind(j)) \in Nat
        /\ Cardinality(Now) <= Cardinality(Behind(j))
    BY <2>1, <2>2, CountSubset
  <2>4. Allowed(CacheEnabled, removed, j) \in Int
    BY AllowedType DEF CacheEnabled
  <2>5. Cardinality(Now) <= Allowed(CacheEnabled, removed, j)
    BY <1>9, <2>3, <2>4 DEF Reached
  <2>6. j = 1 \/ (Count < j /\ j <= total' + removed')
    BY <1>2, <1>9 DEF Reached
  <2> QED
    BY <2>5, <2>6 DEF Now
<1>10. ASSUME next # 0 PROVE Reached(next)' /\ Reached(saved)'
  <2>1. Reached(next) /\ Reached(saved)
    BY <1>10 DEF Counting
  <2>2. /\ Behind(next)' = {y \in steady \ emitted : pos'[y] < next}
        /\ Behind(saved)' = {y \in steady \ emitted : pos'[y] < saved}
    BY <1>2 DEF Behind
  <2>3. Reached(next)'
    BY <1>2, <1>8, <1>9, <2>1, <2>2 DEF Reached
  <2>4. Reached(saved)'
    BY <1>2, <1>8, <1>9, <2>1, <2>2 DEF Reached
  <2> QED
    BY <2>3, <2>4
<1>11. MissesBounded'
  <2> DEFINE most == total + removed
  <2>1. SUFFICES ASSUME complete
        PROVE Cardinality(steady \ emitted) <= Allowed(CacheEnabled, removed, most + 1)
    <3>1. total' + removed' = most + 1
      BY <1>2
    <3> QED
      BY <1>2, <1>8, <3>1 DEF MissesBounded
  <2>2. most \in Int /\ most + 1 \in Int /\ most <= most + 1
    OBVIOUS
  <2>3. Cardinality(steady \ emitted) <= Allowed(CacheEnabled, removed, most)
    BY <2>1 DEF Counting, MissesBounded
  <2> HIDE DEF most
  <2>4. /\ Allowed(CacheEnabled, removed, most) \in Int
        /\ Allowed(CacheEnabled, removed, most + 1) \in Int
    BY <2>2, AllowedType DEF CacheEnabled
  <2>5. Allowed(CacheEnabled, removed, most) <= Allowed(CacheEnabled, removed, most + 1)
    BY <2>2, AllowedGrows DEF CacheEnabled
  <2>6. Cardinality(steady \ emitted) \in Nat
    BY DirectoryFinite
  <2> QED
    BY <2>3, <2>4, <2>5, <2>6
<1> QED
  BY <1>2, <1>7, <1>8, <1>10, <1>11 DEF Counting

\* An entry removed moves one entry at most over an index, and one onto a page.
LEMMA RemoveCounting ==
    ASSUME TypeOK, Counting, NEW x \in Ids, Remove(x) PROVE Counting'
<1> USE DEF TypeOK
<1>1. /\ pos' = [y \in Ids |-> IF y = x THEN 0
                               ELSE IF pos[y] > pos[x] THEN pos[y] - 1 ELSE pos[y]]
      /\ pos[x] # 0 /\ pos[x] \in Nat /\ pos[x] <= total
      /\ total' = total - 1 /\ steady' = steady \ {x} /\ removed' = removed + 1
      /\ UNCHANGED <<config, cache, next, saved, emitted, complete>>
  BY DEF Remove
<1>2. total' + removed' = total + removed
  BY <1>1
<1>3. ASSUME NEW y \in steady'
      PROVE  /\ y \in steady /\ y \in Ids /\ y # x
             /\ pos[y] \in Nat \ {0} /\ pos'[y] \in Nat \ {0}
             /\ pos'[y] = pos[y] \/ pos'[y] = pos[y] - 1
  BY <1>1, <1>3 DEF Present
\* The only entry that comes to be before the index j, if there is one.
<1>4. ASSUME NEW j \in Nat
      PROVE  \E w : \A y \in steady' : pos'[y] < j => pos[y] < j \/ y = w
  <2>1. CASE \E w \in Ids : pos[w] = j /\ j # 0
    <3>1. PICK w \in Ids : pos[w] = j /\ j # 0
      BY <2>1
    <3>2. \A y \in steady' : pos'[y] < j => pos[y] < j \/ y = w
      BY <1>3, <3>1
    <3> QED
      BY <3>2
  <2>2. CASE ~ \E w \in Ids : pos[w] = j /\ j # 0
    <3>1. \A y \in steady' : pos'[y] < j => pos[y] < j \/ y = x
      BY <1>3, <2>2
    <3> QED
      BY <3>1
  <2> QED
    BY <2>1, <2>2
<1>5. CacheEnabled' = CacheEnabled
  BY <1>1 DEF CacheEnabled
<1>6. ASSUME NEW j \in Nat, Reached(j)
      PROVE  /\ j = 1 \/ (Count < j /\ j <= total' + removed')
             /\ Cardinality({y \in steady' \ emitted : pos'[y] < j})
                <= Allowed(CacheEnabled, removed + 1, j)
  <2> DEFINE Now == {y \in steady' \ emitted : pos'[y] < j}
  <2>1. CASE j = 1
    <3>1. Now = {}
      BY <1>3, <2>1
    <3>2. Cardinality(Now) = 0
      BY <3>1, FS_EmptySet
    <3>3. Allowed(CacheEnabled, removed + 1, 1) \in Nat
      BY AllowedAtFirst DEF CacheEnabled
    <3> HIDE DEF Now
    <3>4. Cardinality(Now) <= Allowed(CacheEnabled, removed + 1, j)
      BY <2>1, <3>2, <3>3
    <3> QED
      BY <2>1, <3>4 DEF Now
  <2>2. CASE j # 1
    <3>1. Count < j /\ j <= total + removed
      BY <1>6, <2>2 DEF Reached
    <3>2. PICK w : \A y \in steady' : pos'[y] < j => pos[y] < j \/ y = w
      BY <1>4
    <3>3. Now \subseteq Behind(j) \cup {w}
      BY <1>3, <3>2 DEF Behind
    <3>4. IsFiniteSet(Behind(j)) /\ Cardinality(Behind(j)) \in Nat
      BY DirectoryFinite DEF Behind
    <3> HIDE DEF Now
    <3>5. Cardinality(Now) \in Nat /\ Cardinality(Now) <= Cardinality(Behind(j)) + 1
      BY <3>3, <3>4, CountOneMore
    <3>6. Allowed(CacheEnabled, removed, j) + 1 <= Allowed(CacheEnabled, removed + 1, j)
      BY <3>1, AllowedOneMore DEF CacheEnabled
    <3>7. /\ Allowed(CacheEnabled, removed, j) \in Int
          /\ Allowed(CacheEnabled, removed + 1, j) \in Int
      <4>1. removed \in Nat /\ removed + 1 \in Nat /\ j \in Int
        OBVIOUS
      <4> QED
        BY <4>1, AllowedType DEF CacheEnabled
    <3>8. Cardinality(Behind(j)) <= Allowed(CacheEnabled, removed, j)
      BY <1>6 DEF Reached
    <3>9. Cardinality(Now) <= Allowed(CacheEnabled, removed + 1, j)
      BY <3>4, <3>5, <3>6, <3>7, <3>8
    <3> QED
      BY <1>2, <3>1, <3>9 DEF Now
  <2> QED
    BY <2>1, <2>2
<1>7. ASSUME NEW p \in cache PROVE Dated(p)'
  <2>1. Dated(p) /\ p \in Pages
    BY DEF Counting
  <2>2. p.start \in Nat /\ p.total \in Nat
    BY <2>1 DEF Pages
  <2> DEFINE end == p.start + Count
  <2>3. PICK w : \A y \in steady' : pos'[y] < end => pos[y] < end \/ y = w
    <3>1. end \in Nat
      BY <2>2
    <3> HIDE DEF end
    <3> QED
      BY <1>4, <3>1
  <2>4. Lost(p)' \subseteq Lost(p) \cup {w}
    BY <1>3, <2>2, <2>3 DEF Lost
  <2>5. IsFiniteSet(Lost(p)) /\ Cardinality(Lost(p)) \in Nat
    BY DirectoryFinite DEF Lost
  <2>6. Cardinality(Lost(p)') \in Nat /\ Cardinality(Lost(p)') <= Cardinality(Lost(p)) + 1
    BY <2>4, <2>5, CountOneMore
  <2>7. Cardinality(Lost(p)') <= removed'
    BY <1>1, <2>1, <2>5, <2>6 DEF Dated
  <2>8. \A y \in steady' : pos'[y] <= p.total
    BY <1>3, <2>1, <2>2 DEF Dated
  <2>9. p.total < p.start + Count => Lost(p)' = {}
    <3>1. SUFFICES ASSUME p.total < p.start + Count, NEW y \in Lost(p)' PROVE FALSE
      OBVIOUS
    <3>2. y \in steady' /\ y \notin p.ids /\ p.start <= pos'[y]
      BY DEF Lost
    <3>3. pos[y] <= p.total /\ p.start <= pos[y] /\ pos[y] < p.start + Count
      BY <1>3, <2>1, <2>2, <3>1, <3>2 DEF Dated
    <3>4. y \in Lost(p)
      BY <1>3, <3>2, <3>3 DEF Lost
    <3> QED
      BY <2>1, <3>1, <3>4 DEF Dated
  <2> QED
    BY <1>2, <2>1, <2>7, <2>8, <2>9 DEF Dated
<1>8. ASSUME next # 0 PROVE Reached(next)' /\ Reached(saved)'
  <2>1. Reached(next) /\ Reached(saved)
    BY <1>8 DEF Counting
  <2>2. /\ Behind(next)' = {y \in steady' \ emitted : pos'[y] < next}
        /\ Behind(saved)' = {y \in steady' \ emitted : pos'[y] < saved}
    BY <1>1 DEF Behind
  <2>3. Reached(next)'
    BY <1>1, <1>5, <1>6, <2>1, <2>2 DEF Reached
  <2>4. Reached(saved)'
    BY <1>1, <1>5, <1>6, <2>1, <2>2 DEF Reached
  <2> QED
    BY <2>3, <2>4
<1>9. MissesBounded'
  <2> DEFINE most == total + removed
  <2>1. SUFFICES ASSUME complete
        PROVE Cardinality(steady' \ emitted) <= Allowed(CacheEnabled, removed + 1, most)
    BY <1>1, <1>2, <1>5 DEF MissesBounded
  <2>2. most \in Nat /\ 1 <= most
    BY <1>1
  <2>3. Cardinality(steady \ emitted) <= Allowed(CacheEnabled, removed, most)
    BY <2>1 DEF Counting, MissesBounded
  <2>4. /\ Cardinality(steady' \ emitted) \in Nat /\ Cardinality(steady \ emitted) \in Nat
        /\ Cardinality(steady' \ emitted) <= Cardinality(steady \ emitted)
    <3>1. steady' \ emitted \subseteq steady \ emitted /\ IsFiniteSet(steady \ emitted)
      BY <1>1, DirectoryFinite
    <3> QED
      BY <3>1, CountSubset
  <2> HIDE DEF most
  <2>5. Allowed(CacheEnabled, removed, most) <= Allowed(CacheEnabled, removed + 1, most)
        /\ Allowed(CacheEnabled, removed, most) \in Int
        /\ Allowed(CacheEnabled, removed + 1, most) \in Int
    BY <2>2, AllowedMore DEF CacheEnabled
  <2> QED
    BY <2>3, <2>4, <2>5
<1> QED
  BY <1>1, <1>5, <1>7, <1>8, <1>9 DEF Counting

LEMMA NextCounting ==
    ASSUME \A c \in Configs : c.appendOnly \/ ~c.cached
    PROVE  TypeOK /\ Counting /\ [Next]_vars => Counting'
<1> SUFFICES ASSUME TypeOK, Counting, [Next]_vars PROVE Counting'
  OBVIOUS
<1>1. CASE Begin
  BY <1>1, BeginCounting
<1>2. CASE ListPage
  BY <1>2, ListPageCounting
\* The others change neither the directory nor what is stored.
<1>3. CASE Checkpoint \/ Interrupt \/ DropEntries \/ UNCHANGED vars
  <2>1. /\ UNCHANGED <<config, pos, total, emitted, complete, steady, removed>>
        /\ cache' \subseteq cache
    BY <1>3 DEF Checkpoint, Interrupt, DropEntries, vars, bounds
  <2>2. next' # 0 => next # 0 /\ next' \in {next, saved} /\ saved' \in {next, saved}
    BY <1>3 DEF Checkpoint, Interrupt, DropEntries, vars, bounds
  <2>3. next' # 0 => Reached(next)' /\ Reached(saved)'
    <3>1. SUFFICES ASSUME next' # 0 PROVE Reached(next)' /\ Reached(saved)'
      OBVIOUS
    <3>2. Reached(next) /\ Reached(saved)
      BY <2>2, <3>1 DEF Counting
    <3>3. CacheEnabled' = CacheEnabled
      BY <2>1 DEF CacheEnabled
    <3>4. Behind(next)' = {x \in steady \ emitted : pos[x] < next'}
          /\ Behind(saved)' = {x \in steady \ emitted : pos[x] < saved'}
      BY <2>1 DEF Behind
    <3> QED
      BY <2>1, <2>2, <3>1, <3>2, <3>3, <3>4 DEF Reached, Behind
  <2>4. (\A p \in cache : Dated(p))'
    BY <2>1 DEF Counting, Dated, Lost
  <2>5. MissesBounded'
    BY <2>1 DEF Counting, MissesBounded, CacheEnabled
  <2> QED
    BY <2>1, <2>2, <2>3, <2>4, <2>5 DEF Counting, CacheEnabled
<1>4. CASE \E x \in Ids : Add(x)
  <2>1. AppendOnly \/ ~CacheEnabled
    BY DEF TypeOK, AppendOnly, CacheEnabled
  <2> QED
    BY <1>4, <2>1, AddCounting
<1>5. CASE \E x \in Ids : Remove(x)
  BY <1>5, RemoveCounting
<1> QED
  BY <1>1, <1>2, <1>3, <1>4, <1>5 DEF Next

\* However the pages of listScimAPI and of List are interrupted, resumed and
\* mixed with pages of earlier syncs from the HTTP cache, and whatever is
\* entered (last, when there is a cache) and removed meanwhile: a sync that
\* ends misses no more users, or groups, there all the time than were removed,
\* for each edge between two pages if there is a cache, in all if there is none.
THEOREM MissesAreBounded ==
    ASSUME \A c \in Configs : c.appendOnly \/ ~c.cached
    PROVE  Spec => []MissesBounded
<1>1. Init => Counting
  BY DEF Init, Counting, MissesBounded
<1>2. Counting => MissesBounded
  BY DEF Counting
<1> QED
  BY <1>1, <1>2, TypeCorrect, NextCounting, PTL DEF Spec

\* What was removed since a sync began was removed.
LEMMA RemovedCounted == Spec => [](removed <= removals)
<1>1. Init => removed <= removals
  BY DEF Init
<1>2. TypeOK /\ removed <= removals /\ [Next]_vars => (removed <= removals)'
  <2> SUFFICES ASSUME TypeOK, removed <= removals, [Next]_vars
               PROVE  (removed <= removals)'
    OBVIOUS
  <2>1. removed \in Nat /\ removals \in Nat
    BY DEF TypeOK
  <2>2. \/ removals' = removals /\ removed' \in {0, removed}
        \/ removals' = removals + 1 /\ removed' = removed + 1
    BY DEF Next, vars, Begin, ListPage, Checkpoint, Interrupt, DropEntries, Add,
           Remove, bounds
  <2> QED
    BY <2>1, <2>2
<1> QED
  BY <1>1, <1>2, TypeCorrect, PTL DEF Spec

\* In particular, while nothing is removed, a sync that ends has stored every
\* user, or group, that was in the directory all the time: the pages of
\* listScimAPI and of List join without a gap.
THEOREM NothingIsMissed ==
    ASSUME \A c \in Configs : c.appendOnly \/ ~c.cached
    PROVE  Spec => []NothingMissed
<1>1. TypeOK /\ MissesBounded /\ removed <= removals => NothingMissed
  <2> SUFFICES ASSUME TypeOK, MissesBounded, removed <= removals,
                      complete, removals = 0
               PROVE  steady \ emitted = {}
    BY DEF NothingMissed
  <2> DEFINE most == total + removed
  <2>1. removed = 0 /\ removed \in Nat /\ most \in Int
    BY DEF TypeOK
  <2>2. Cardinality(steady \ emitted) <= Allowed(CacheEnabled, removed, most)
    BY DEF MissesBounded
  <2> HIDE DEF most
  <2>3. Allowed(CacheEnabled, removed, most) = 0
    BY <2>1, AllowedType DEF CacheEnabled
  <2>4. IsFiniteSet(steady \ emitted) /\ Cardinality(steady \ emitted) \in Nat
    BY DirectoryFinite
  <2>5. Cardinality(steady \ emitted) = 0
    BY <2>2, <2>3, <2>4
  <2> QED
    BY <2>4, <2>5, FS_EmptySet
<1> QED
  BY <1>1, TypeCorrect, RemovedCounted, MissesAreBounded, PTL
-----------------------------------------------------------------------------
(* How a listing comes to its end. *)

\* A page is the last one, or the next one begins further on, at an entry the
\* directory may have.
PagesGoOn ==
    ListPage => next' = 0 \/ (next < next' /\ next' <= InitialTotal + MaxAdds)

\* No page tells of more entries than there were and were made.
TotalsBounded ==
    /\ adds <= MaxAdds
    /\ total <= InitialTotal + adds
    /\ \A p \in cache : p.total <= InitialTotal + adds

LEMMA NextTotals == TypeOK /\ TotalsBounded /\ [Next]_vars => TotalsBounded'
<1> SUFFICES ASSUME TypeOK, TotalsBounded, [Next]_vars PROVE TotalsBounded'
  OBVIOUS
<1> USE DEF TotalsBounded, bounds
<1>0. /\ adds \in Nat /\ total \in Nat /\ InitialTotal \in Nat /\ MaxAdds \in Nat
      /\ \A p \in cache : p.total \in Nat
  BY DEF TypeOK, Pages
<1>1. CASE ListPage
  <2>1. PICK page \in Answers(next) :
          cache' = IF CacheEnabled THEN cache \cup {page} ELSE cache
    BY <1>1 DEF ListPage
  <2>2. page.total <= InitialTotal + adds
    BY DEF Answers, PageNow
  <2>3. UNCHANGED <<adds, total>>
    BY <1>1 DEF ListPage
  <2> QED
    BY <2>1, <2>2, <2>3
<1>2. ASSUME NEW x \in Ids, Add(x) PROVE TotalsBounded'
  BY <1>0, <1>2 DEF Add
<1>3. ASSUME NEW x \in Ids, Remove(x) PROVE TotalsBounded'
  BY <1>0, <1>3 DEF Remove
<1>4. CASE cache' \subseteq cache /\ UNCHANGED <<adds, total>>
  BY <1>4
<1>5. Begin \/ Checkpoint \/ Interrupt \/ DropEntries \/ UNCHANGED vars
        => cache' \subseteq cache /\ UNCHANGED <<adds, total>>
  BY DEF Begin, Checkpoint, Interrupt, DropEntries, vars
<1> QED
  BY <1>1, <1>2, <1>3, <1>4, <1>5 DEF Next

LEMMA PageGoesOn == TypeOK /\ TotalsBounded => PagesGoOn
<1> SUFFICES ASSUME TypeOK, TotalsBounded, ListPage, next' # 0
             PROVE  next < next' /\ next' <= InitialTotal + MaxAdds
  BY DEF PagesGoOn
<1>1. PICK page \in Answers(next) : next' = NextStart(next, page.total)
  BY DEF ListPage
<1>2. page.total <= InitialTotal + adds /\ page.total \in Nat
  BY DEF TypeOK, TotalsBounded, Answers, PageNow, Pages
<1>3. adds \in Nat /\ adds <= MaxAdds /\ next \in Nat
  BY DEF TypeOK, TotalsBounded
<1>4. next' = next + Count /\ page.total > next + Count - 1
  BY <1>1, <1>2, <1>3 DEF NextStart, MoreUsers, MoreGroups
<1> QED
  BY <1>2, <1>3, <1>4

\* The safety half of "the listing ends": each page leads to an index further
\* on, whatever total the page tells, from Slack or from the cache, and never
\* beyond the most entries the directory may have; only an interruption goes
\* back (user.go:208-213, group.go:89-95).
THEOREM ListingGoesOn == Spec => [][PagesGoOn]_vars
<1>1. Init => TotalsBounded
  BY DEF Init, TotalsBounded
<1> QED
  BY <1>1, TypeCorrect, NextTotals, PageGoesOn, PTL DEF Spec
=============================================================================
