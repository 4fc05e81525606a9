--------------------------- MODULE AbsSyncProofs ---------------------------
(***************************************************************************)
(* Proofs about AbsSync for every number of items, limit of the journal,   *)
(* use and restart: types, the order of what is sent, and that nothing     *)
(* recorded is lost.                                                       *)
(*                                                                         *)
(* The argument is about three copies of the journal: main's, that of the  *)
(* manual sync, and the file.  Each is in the order of recording, in each  *)
(* the entries of an item that are marked come before those that wait, and *)
(* each reaches, for every item it has, the entry the server took last.    *)
(***************************************************************************)
EXTENDS AbsSync, SequenceTheorems, WellFoundedInduction, TLAPS

-----------------------------------------------------------------------------
(* One copy j of the journal.                                              *)

Ordered(j) ==
  \A k, l \in 1..Len(j) : k < l => j[k].id < j[l].id /\ j[k].ts < j[l].ts

MarkedFirst(j) ==
  \A k, l \in 1..Len(j) :
    k < l /\ j[k].item = j[l].item /\ j[l].synced => j[k].synced

WithinRecorded(j, n) == \A k \in 1..Len(j) : j[k].id <= n

Good(j, n) == Ordered(j) /\ MarkedFirst(j) /\ WithinRecorded(j, n)

\* The newest entry of an item in j is not older than the one the server has.
Reaches(j, d) ==
  \A k \in 1..Len(j) : \E l \in 1..Len(j) :
    /\ l >= k
    /\ j[l].item = j[k].item
    /\ d[j[k].item] <= j[l].id

\* The same entries, but for their marks.
Same(j, g) ==
  /\ Len(j) = Len(g)
  /\ \A k \in 1..Len(j) : j[k].id = g[k].id /\ j[k].item = g[k].item

Journals == [{"main", "manual"} -> Seq(Entry)]

\* The fields of an entry.
LEMMA EntryFields ==
  ASSUME NEW e \in Entry
  PROVE  /\ e.id \in Nat /\ e.item \in Items /\ e.ts \in Nat /\ e.synced \in BOOLEAN
BY DEF Entry

\* An entry of a journal.
LEMMA EntryAt ==
  ASSUME NEW j \in Seq(Entry), NEW k \in 1..Len(j)
  PROVE  /\ j[k] \in Entry /\ j[k].id \in Nat /\ j[k].item \in Items
         /\ j[k].ts \in Nat /\ j[k].synced \in BOOLEAN
<1>1. j[k] \in Entry
  OBVIOUS
<1> QED BY <1>1, EntryFields

\* The empty journal.
LEMMA EmptyGood ==
  ASSUME NEW n, NEW d
  PROVE  <<>> \in Seq(Entry) /\ Good(<<>>, n) /\ Reaches(<<>>, d) /\ Same(<<>>, <<>>)
BY DEF Good, Ordered, MarkedFirst, WithinRecorded, Reaches, Same

\* What flush picks for an item is its newest entry.
LEMMA LatestIsNewest ==
  ASSUME NEW j \in Seq(Entry), Ordered(j), MarkedFirst(j),
         NEW k \in 1..Len(j), Latest(j, k),
         NEW l \in 1..Len(j), j[l].item = j[k].item
  PROVE  l <= k
<1> SUFFICES ASSUME k < l PROVE FALSE
  OBVIOUS
<1>1. l \in EntriesOf(j, j[k].item) /\ ~j[k].synced
  BY DEF EntriesOf, Latest
<1>2. j[l].synced \/ j[l].ts < j[k].ts \/ (j[l].ts = j[k].ts /\ l >= k)
  BY <1>1 DEF Latest
<1>3. j[k].ts < j[l].ts /\ j[k].ts \in Nat /\ j[l].ts \in Nat
  BY EntryAt DEF Ordered
<1>4. j[l].synced
  BY <1>2, <1>3
<1>5. j[k].synced
  BY <1>4 DEF MarkedFirst
<1> QED BY <1>1, <1>5

\* What waits in a journal that reaches the server is not older than what it has.
LEMMA LatestReaches ==
  ASSUME NEW j \in Seq(Entry), Ordered(j), MarkedFirst(j),
         NEW d \in [Items -> Nat], Reaches(j, d),
         NEW k \in 1..Len(j), Latest(j, k)
  PROVE  d[j[k].item] <= j[k].id
<1>1. PICK l \in 1..Len(j) : l >= k /\ j[l].item = j[k].item /\ d[j[k].item] <= j[l].id
  BY DEF Reaches
<1>2. l <= k
  BY <1>1, LatestIsNewest
<1>3. l = k
  BY <1>1, <1>2
<1> QED BY <1>1, <1>3

-----------------------------------------------------------------------------
(* Recording: an entry is appended and the first entries are pruned.       *)

\* A new entry at the end.
LEMMA AppendedGood ==
  ASSUME NEW j \in Seq(Entry), NEW n \in Nat, Good(j, n), NEW d \in [Items -> Nat],
         Reaches(j, d), NEW e \in Entry, e.id = n + 1, ~e.synced,
         \A k \in 1..Len(j) : j[k].ts < e.ts,
         d[e.item] <= n
  PROVE  /\ Append(j, e) \in Seq(Entry)
         /\ Good(Append(j, e), n + 1)
         /\ Reaches(Append(j, e), d)
<1> DEFINE g == Append(j, e)
<1>1. /\ g \in Seq(Entry) /\ Len(g) = Len(j) + 1 /\ Len(j) \in Nat
      /\ \A k \in 1..Len(j) : g[k] = j[k]
      /\ g[Len(j) + 1] = e
  BY AppendProperties
<1>2. \A k \in 1..Len(g) : k \in 1..Len(j) \/ k = Len(j) + 1
  BY <1>1
<1>3. \A k \in 1..Len(j) : j[k].id \in Nat /\ j[k].id <= n /\ j[k].item \in Items
  BY EntryAt DEF Good, WithinRecorded
<1>4. e.item \in Items /\ d[e.item] \in Nat
  BY EntryFields
<1> HIDE DEF g
<1>5. Ordered(g)
  <2> SUFFICES ASSUME NEW k \in 1..Len(g), NEW l \in 1..Len(g), k < l
               PROVE  g[k].id < g[l].id /\ g[k].ts < g[l].ts
    BY DEF Ordered
  <2>1. k \in 1..Len(j) /\ g[k] = j[k]
    BY <1>1
  <2>2. CASE l \in 1..Len(j)
    BY <2>1, <2>2, <1>1 DEF Good, Ordered
  <2>3. CASE l = Len(j) + 1
    <3>1. g[l] = e
      BY <2>3, <1>1
    <3> QED BY <3>1, <2>1, <1>3
  <2> QED BY <2>2, <2>3, <1>2
<1>6. MarkedFirst(g)
  <2> SUFFICES ASSUME NEW k \in 1..Len(g), NEW l \in 1..Len(g), k < l,
                      g[k].item = g[l].item, g[l].synced
               PROVE  g[k].synced
    BY DEF MarkedFirst
  <2>1. k \in 1..Len(j) /\ g[k] = j[k]
    BY <1>1
  <2>2. l # Len(j) + 1
    BY <1>1
  <2>3. l \in 1..Len(j) /\ g[l] = j[l]
    BY <2>2, <1>1, <1>2
  <2> QED BY <2>1, <2>3 DEF Good, MarkedFirst
<1>7. WithinRecorded(g, n + 1)
  <2> SUFFICES ASSUME NEW k \in 1..Len(g) PROVE g[k].id <= n + 1
    BY DEF WithinRecorded
  <2> QED BY <1>1, <1>2, <1>3
<1>8. Reaches(g, d)
  <2> SUFFICES ASSUME NEW k \in 1..Len(g)
               PROVE  \E l \in 1..Len(g) :
                        l >= k /\ g[l].item = g[k].item /\ d[g[k].item] <= g[l].id
    BY DEF Reaches
  <2>1. CASE g[k].item = e.item
    <3>1. Len(j) + 1 \in 1..Len(g) /\ Len(j) + 1 >= k
      BY <1>1
    <3>2. d[e.item] <= g[Len(j) + 1].id
      BY <1>1, <1>4
    <3> QED BY <3>1, <3>2, <2>1, <1>1
  <2>2. CASE g[k].item # e.item
    <3>1. k \in 1..Len(j) /\ g[k] = j[k]
      BY <2>2, <1>1, <1>2
    <3>2. PICK l \in 1..Len(j) : l >= k /\ j[l].item = j[k].item /\ d[j[k].item] <= j[l].id
      BY <3>1 DEF Reaches
    <3>3. l \in 1..Len(g) /\ g[l] = j[l]
      BY <1>1
    <3> QED BY <3>1, <3>2, <3>3
  <2> QED BY <2>1, <2>2
<1> QED BY <1>1, <1>5, <1>6, <1>7, <1>8 DEF Good, g

\* What pruning leaves of a long journal, as an offset into it.
LEMMA PrunedIs ==
  ASSUME NEW j \in Seq(Entry), Len(j) > JOURNAL_MAX
  PROVE  LET c == Len(j) - JOURNAL_MAX IN
         /\ c \in Nat /\ Len(j) = c + Len(Pruned(j))
         /\ Pruned(j) \in Seq(Entry) /\ Len(Pruned(j)) = JOURNAL_MAX
         /\ \A k \in 1..Len(Pruned(j)) : Pruned(j)[k] = j[c + k] /\ c + k \in 1..Len(j)
<1> DEFINE c == Len(j) - JOURNAL_MAX
           g == SubSeq(j, c + 1, Len(j))
<1>1. c \in Nat /\ Len(j) \in Nat /\ c <= Len(j) /\ c + 1 <= Len(j) + 1
  BY Limits
<1>2. /\ g \in Seq(Entry) /\ Len(g) = Len(j) - c
      /\ \A k \in 1..Len(g) : g[k] = j[c + k] /\ c + k \in 1..Len(j)
  <2>1. \A k \in (c + 1)..Len(j) : j[k] \in Entry
    BY <1>1, EntryAt
  <2>2. /\ g \in Seq(Entry)
        /\ Len(g) = IF c + 1 <= Len(j) THEN Len(j) - (c + 1) + 1 ELSE 0
        /\ \A k \in 1..(Len(j) - (c + 1) + 1) : g[k] = j[(c + 1) + k - 1]
    <3> HIDE DEF c
    <3>1. c + 1 \in Int /\ Len(j) \in Int
      BY <1>1
    <3> QED BY <2>1, <3>1, SubSeqProperties
  <2> HIDE DEF c, g
  <2>3. Len(g) = Len(j) - c
    BY <2>2, <1>1
  <2>4. ASSUME NEW k \in 1..Len(g) PROVE g[k] = j[c + k] /\ c + k \in 1..Len(j)
    <3>1. k \in 1..(Len(j) - (c + 1) + 1) /\ (c + 1) + k - 1 = c + k
      BY <2>3, <1>1
    <3> QED BY <3>1, <2>2, <2>3, <1>1
  <2> QED BY <2>2, <2>3, <2>4
<1>3. Pruned(j) = g
  BY DEF Pruned
<1> HIDE DEF c, g
<1>4. /\ c \in Nat /\ Len(j) = c + Len(Pruned(j)) /\ Pruned(j) \in Seq(Entry)
      /\ \A k \in 1..Len(Pruned(j)) : Pruned(j)[k] = j[c + k] /\ c + k \in 1..Len(j)
  BY <1>1, <1>2, <1>3
<1>5. Len(Pruned(j)) = JOURNAL_MAX
  BY <1>1, <1>2, <1>3, Limits DEF c
<1> QED BY <1>4, <1>5 DEF c

\* Pruning leaves entries of the journal.
LEMMA PrunedEntries ==
  ASSUME NEW j \in Seq(Entry)
  PROVE  /\ Pruned(j) \in Seq(Entry) /\ Len(Pruned(j)) <= Len(j)
         /\ \A k \in 1..Len(Pruned(j)) : \E l \in 1..Len(j) : Pruned(j)[k] = j[l]
<1>1. CASE Len(j) > JOURNAL_MAX
  <2>1. /\ Pruned(j) \in Seq(Entry) /\ Len(Pruned(j)) = JOURNAL_MAX
        /\ \A k \in 1..Len(Pruned(j)) : \E l \in 1..Len(j) : Pruned(j)[k] = j[l]
    BY <1>1, PrunedIs
  <2>2. JOURNAL_MAX <= Len(j)
    BY <1>1, Limits
  <2> QED BY <2>1, <2>2
<1>2. CASE ~(Len(j) > JOURNAL_MAX)
  <2>1. Pruned(j) = j /\ Len(j) <= Len(j)
    BY <1>2 DEF Pruned
  <2> QED BY <2>1
<1> QED BY <1>1, <1>2

\* And not more than its limit.
LEMMA PrunedKeeps ==
  ASSUME NEW j \in Seq(Entry), Len(j) <= JOURNAL_MAX + 1
  PROVE  Len(Pruned(j)) <= JOURNAL_MAX
<1>1. CASE Len(j) > JOURNAL_MAX
  <2>1. JOURNAL_MAX <= JOURNAL_MAX
    BY Limits
  <2> QED BY <1>1, <2>1, PrunedIs
<1>2. CASE ~(Len(j) > JOURNAL_MAX)
  <2>1. Pruned(j) = j
    BY <1>2 DEF Pruned
  <2>2. Len(j) <= JOURNAL_MAX
    BY <1>2, Limits
  <2> QED BY <2>1, <2>2
<1> QED BY <1>1, <1>2

\* Pruning keeps the end of the journal.
LEMMA PrunedGood ==
  ASSUME NEW j \in Seq(Entry), NEW n \in Nat, Good(j, n), NEW d, Reaches(j, d)
  PROVE  Pruned(j) \in Seq(Entry) /\ Good(Pruned(j), n) /\ Reaches(Pruned(j), d)
<1>1. CASE ~(Len(j) > JOURNAL_MAX)
  BY <1>1 DEF Pruned
<1>2. CASE Len(j) > JOURNAL_MAX
  <2> DEFINE c == Len(j) - JOURNAL_MAX
             g == Pruned(j)
  <2>1. c \in Nat
    BY <1>2, PrunedIs
  <2>2. /\ g \in Seq(Entry) /\ Len(g) = Len(j) - c /\ Len(j) \in Nat
        /\ \A k \in 1..Len(g) : g[k] = j[c + k] /\ c + k \in 1..Len(j)
    BY <1>2, PrunedIs
  <2> HIDE DEF c, g
  <2>4. Ordered(g)
    <3> SUFFICES ASSUME NEW k \in 1..Len(g), NEW l \in 1..Len(g), k < l
                 PROVE  g[k].id < g[l].id /\ g[k].ts < g[l].ts
      BY DEF Ordered
    <3>1. c + k < c + l
      BY <2>1
    <3> QED BY <3>1, <2>2 DEF Good, Ordered
  <2>5. MarkedFirst(g)
    <3> SUFFICES ASSUME NEW k \in 1..Len(g), NEW l \in 1..Len(g), k < l,
                        g[k].item = g[l].item, g[l].synced
                 PROVE  g[k].synced
      BY DEF MarkedFirst
    <3>1. c + k < c + l
      BY <2>1
    <3> QED BY <3>1, <2>2 DEF Good, MarkedFirst
  <2>6. WithinRecorded(g, n)
    BY <2>2 DEF Good, WithinRecorded
  <2>7. Reaches(g, d)
    <3> SUFFICES ASSUME NEW k \in 1..Len(g)
                 PROVE  \E l \in 1..Len(g) :
                          l >= k /\ g[l].item = g[k].item /\ d[g[k].item] <= g[l].id
      BY DEF Reaches
    <3>1. c + k \in 1..Len(j) /\ g[k] = j[c + k]
      BY <2>2
    <3>2. PICK m \in 1..Len(j) :
            m >= c + k /\ j[m].item = j[c + k].item /\ d[j[c + k].item] <= j[m].id
      BY <3>1 DEF Reaches
    <3>3. m - c \in 1..Len(g) /\ m - c >= k /\ c + (m - c) = m
      BY <3>2, <2>1, <2>2
    <3>4. g[m - c] = j[m]
      BY <3>3, <2>2
    <3> QED BY <3>1, <3>2, <3>3, <3>4
  <2> QED BY <2>2, <2>4, <2>5, <2>6, <2>7 DEF Good, g
<1> QED BY <1>1, <1>2

-----------------------------------------------------------------------------
(* Marking what was sent.                                                  *)

\* Marking changes only the marks, and of whole items.
LEMMA MarkedEntries ==
  ASSUME NEW j \in Seq(Entry)
  PROVE  /\ Marked(j) \in Seq(Entry) /\ Len(Marked(j)) = Len(j)
         /\ \A k \in 1..Len(j) :
              /\ Marked(j)[k].id = j[k].id /\ Marked(j)[k].item = j[k].item
              /\ Marked(j)[k].ts = j[k].ts
              /\ Marked(j)[k].synced <=>
                   (j[k].synced \/ \E e \in sending : e.item = j[k].item)
<1> DEFINE B(k) == j[k].synced \/ \E e \in sending : e.item = j[k].item
           m(k) == [j[k] EXCEPT !.synced = B(k)]
<1>1. \A k \in 1..Len(j) : B(k) \in BOOLEAN
  BY EntryAt
<1>2. Marked(j) = [k \in 1..Len(j) |-> m(k)]
  BY DEF Marked
<1> HIDE DEF B
<1>3. ASSUME NEW k \in 1..Len(j)
      PROVE  /\ m(k) \in Entry /\ m(k).id = j[k].id /\ m(k).item = j[k].item
             /\ m(k).ts = j[k].ts /\ m(k).synced = B(k)
  <2>1. j[k] \in Entry
    OBVIOUS
  <2>2. B(k) \in BOOLEAN
    BY <1>1
  <2>3. m(k) \in Entry
    BY <2>1, <2>2 DEF Entry
  <2>4. m(k).id = j[k].id /\ m(k).item = j[k].item /\ m(k).ts = j[k].ts
    BY <2>1 DEF Entry
  <2>5. m(k).synced = B(k)
    BY <2>1, Zenon DEF Entry
  <2> QED BY <2>3, <2>4, <2>5
<1> HIDE DEF m
<1>4. Len(j) \in Nat
  OBVIOUS
<1>5. Marked(j) \in Seq(Entry) /\ Len(Marked(j)) = Len(j)
  BY <1>2, <1>3, <1>4, IsASeq
<1>6. \A k \in 1..Len(j) : Marked(j)[k] = m(k)
  BY <1>2
<1> QED BY <1>3, <1>5, <1>6 DEF B

\* A marked journal is still good, and is the same journal.
LEMMA MarkedGood ==
  ASSUME NEW j \in Seq(Entry), NEW n, Good(j, n), NEW d, Reaches(j, d)
  PROVE  /\ Marked(j) \in Seq(Entry) /\ Good(Marked(j), n) /\ Reaches(Marked(j), d)
         /\ Same(Marked(j), j)
<1> DEFINE g == Marked(j)
<1>1. /\ g \in Seq(Entry) /\ Len(g) = Len(j)
      /\ \A k \in 1..Len(j) : g[k].id = j[k].id /\ g[k].item = j[k].item /\ g[k].ts = j[k].ts
  BY MarkedEntries
<1>2. \A k \in 1..Len(j) :
        g[k].synced <=> (j[k].synced \/ \E e \in sending : e.item = j[k].item)
  BY MarkedEntries
<1> HIDE DEF g
<1>3. Ordered(g)
  BY <1>1 DEF Good, Ordered
<1>4. MarkedFirst(g)
  <2> SUFFICES ASSUME NEW k \in 1..Len(j), NEW l \in 1..Len(j), k < l,
                      j[k].item = j[l].item, g[l].synced
               PROVE  g[k].synced
    BY <1>1 DEF MarkedFirst
  <2>1. CASE j[l].synced
    BY <2>1, <1>2 DEF Good, MarkedFirst
  <2>2. CASE \E e \in sending : e.item = j[l].item
    BY <2>2, <1>2
  <2> QED BY <2>1, <2>2, <1>2
<1>5. WithinRecorded(g, n)
  BY <1>1 DEF Good, WithinRecorded
<1>6. Reaches(g, d)
  BY <1>1 DEF Reaches
<1>7. Same(g, j)
  BY <1>1 DEF Same
<1> QED BY <1>1, <1>3, <1>4, <1>5, <1>6, <1>7 DEF Good, g

\* Sameness is symmetric and transitive, and carries reaching.
LEMMA SameProperties ==
  ASSUME NEW j, NEW g
  PROVE  /\ Same(j, j)
         /\ Same(j, g) => Same(g, j)
         /\ \A f : Same(j, g) /\ Same(g, f) => Same(j, f)
         /\ \A d : Same(j, g) /\ Reaches(j, d) => Reaches(g, d)
BY DEF Same, Reaches

\* What the server has of each item after it took s.
After(s, d) ==
  [i \in Items |-> IF \E e \in s : e.item = i
                   THEN (CHOOSE e \in s : e.item = i).id
                   ELSE d[i]]

\* What has reached the server stays reached when the newest entries are taken.
LEMMA TakenReaches ==
  ASSUME NEW j \in Seq(Entry), NEW n \in Nat, Good(j, n),
         NEW d \in [Items -> Nat], Reaches(j, d), \A i \in Items : d[i] <= n,
         NEW s, s \subseteq LatestEntries(j)
  PROVE  /\ After(s, d) \in [Items -> Nat] /\ Reaches(j, After(s, d))
         /\ \A i \in Items : d[i] <= After(s, d)[i] /\ After(s, d)[i] <= n
<1> DEFINE t == After(s, d)
<1>0. t = [i \in Items |-> IF \E e \in s : e.item = i
                           THEN (CHOOSE e \in s : e.item = i).id
                           ELSE d[i]]
  BY DEF After
<1> HIDE DEF t
<1>1. ASSUME NEW i \in Items, \E e \in s : e.item = i
      PROVE  \E k \in 1..Len(j) : Latest(j, k) /\ j[k].item = i /\ t[i] = j[k].id
  <2>1. PICK e \in s : e.item = i /\ t[i] = e.id
    BY <1>0, <1>1
  <2>2. PICK k \in 1..Len(j) : Latest(j, k) /\ e = j[k]
    BY <2>1 DEF LatestEntries
  <2> QED BY <2>1, <2>2
<1>2. ASSUME NEW i \in Items, ~ \E e \in s : e.item = i PROVE t[i] = d[i]
  BY <1>0, <1>2
<1>3. ASSUME NEW i \in Items PROVE t[i] \in Nat /\ d[i] <= t[i] /\ t[i] <= n
  <2>1. CASE \E e \in s : e.item = i
    <3>1. PICK k \in 1..Len(j) : Latest(j, k) /\ j[k].item = i /\ t[i] = j[k].id
      BY <2>1, <1>1
    <3>2. d[j[k].item] <= j[k].id
      BY <3>1, LatestReaches DEF Good
    <3>3. j[k].id \in Nat /\ j[k].id <= n
      BY EntryAt DEF Good, WithinRecorded
    <3> QED BY <3>1, <3>2, <3>3
  <2>2. CASE ~ \E e \in s : e.item = i
    BY <2>2, <1>2
  <2> QED BY <2>1, <2>2
<1>4. Reaches(j, t)
  <2> SUFFICES ASSUME NEW k \in 1..Len(j)
               PROVE  \E l \in 1..Len(j) :
                        l >= k /\ j[l].item = j[k].item /\ t[j[k].item] <= j[l].id
    BY DEF Reaches
  <2>1. j[k].item \in Items
    BY EntryAt
  <2>2. CASE \E e \in s : e.item = j[k].item
    <3>1. PICK l \in 1..Len(j) :
            Latest(j, l) /\ j[l].item = j[k].item /\ t[j[k].item] = j[l].id
      BY <2>1, <2>2, <1>1
    <3>2. k <= l
      BY <3>1, LatestIsNewest DEF Good
    <3>3. t[j[k].item] <= j[l].id
      BY <3>1, EntryAt
    <3> QED BY <3>1, <3>2, <3>3
  <2>3. CASE ~ \E e \in s : e.item = j[k].item
    <3>1. t[j[k].item] = d[j[k].item]
      BY <2>1, <2>3, <1>2
    <3> QED BY <3>1 DEF Reaches
  <2> QED BY <2>2, <2>3
<1>5. t \in [Items -> Nat]
  BY <1>0, <1>3
<1> QED BY <1>3, <1>4, <1>5 DEF t

-----------------------------------------------------------------------------
(* The invariant.                                                          *)

TypeInv ==
  /\ clock \in Nat
  /\ playing \in Items \cup {NoItem} /\ at \in Nat
  /\ saved \in [Items -> [pos: Nat, ts: Nat]]
  /\ server \in [Items -> [pos: Nat, lastUpdate: Nat]]

\* What the journals are, each for itself.
Copies ==
  /\ journal \in Journals /\ file \in Seq(Entry)
  /\ who \in {"main", "manual"} /\ next \in {"idle", "flush"}
  /\ recorded \in Nat /\ delivered \in [Items -> Nat]
  /\ \A i \in Items : delivered[i] <= recorded
  /\ \A w \in {"main", "manual"} : Good(journal[w], recorded)
  /\ Good(file, recorded)
  /\ Reaches(journal["main"], delivered) /\ Reaches(file, delivered)

\* What they are to each other at each step of an operation.
Agree ==
  /\ pc \notin {"save", "write"} => Same(file, journal["main"])
  /\ who = "manual" /\ pc # "idle" => Same(journal["manual"], journal["main"])
  /\ pc \in {"request", "reply"} => sending \subseteq LatestEntries(journal[who])

JournalInv == Copies /\ Agree

\* The journal an operation works on reaches the server as main's does.
LEMMA WorkingReaches ==
  ASSUME JournalInv, pc # "idle"
  PROVE  /\ Same(journal[who], journal["main"])
         /\ Reaches(journal[who], delivered)
<1>1. CASE who = "main"
  BY <1>1, SameProperties DEF JournalInv, Copies
<1>2. CASE who = "manual"
  <2>1. Same(journal[who], journal["main"])
    BY <1>2 DEF JournalInv, Agree
  <2>2. Same(journal["main"], journal[who])
    BY <2>1, SameProperties
  <2>3. Reaches(journal[who], delivered)
    BY <2>2, SameProperties DEF JournalInv, Copies
  <2> QED BY <2>1, <2>3
<1> QED BY <1>1, <1>2 DEF JournalInv, Copies

\* Entries within n are within n + 1.
LEMMA WithinMore ==
  ASSUME NEW j \in Seq(Entry), NEW n \in Nat, Good(j, n)
  PROVE  Good(j, n + 1)
<1>1. \A k \in 1..Len(j) : j[k].id \in Nat /\ j[k].id <= n
  BY EntryAt DEF Good, WithinRecorded
<1>2. WithinRecorded(j, n + 1)
  BY <1>1 DEF WithinRecorded
<1> QED BY <1>2 DEF Good

\* recordProgress, whoever calls it.
LEMMA RecordStep ==
  ASSUME "tie" \notin Faults, clock \in Nat, JournalInv, pc = "idle",
         NEW item \in Items, NEW pos \in Nat, recordProgress(item, pos),
         who' = "main", UNCHANGED <<file, delivered>>
  PROVE  JournalInv'
<1>1. CASE Debounced(journal.main, item, pos)
  <2>1. pc' = "flush" /\ UNCHANGED <<next, journal, recorded>>
    BY <1>1 DEF recordProgress
  <2> QED BY <2>1 DEF JournalInv, Copies, Agree
<1>2. CASE ~Debounced(journal.main, item, pos)
  <2> DEFINE j == journal["main"]
             e == [id |-> recorded + 1, item |-> item, pos |-> pos,
                   ts |-> clock, synced |-> FALSE]
             g == Append(j, e)
  <2>1. /\ pc' = "save" /\ next' = "flush" /\ recorded' = recorded + 1
        /\ journal' = [journal EXCEPT !["main"] = Pruned(g)]
        /\ \A k \in 1..Len(j) : j[k].ts < clock
    BY <1>2 DEF recordProgress, MayRecord
  <2>2. /\ recorded \in Nat /\ j \in Seq(Entry) /\ Good(j, recorded)
        /\ delivered \in [Items -> Nat] /\ Reaches(j, delivered)
        /\ delivered[item] <= recorded /\ journal \in Journals
    BY DEF JournalInv, Copies, Journals
  <2>3. e \in Entry /\ e.id = recorded + 1 /\ ~e.synced /\ e.ts = clock /\ e.item = item
    BY <2>2 DEF Entry
  <2> HIDE DEF e, j
  <2>4. g \in Seq(Entry) /\ Good(g, recorded + 1) /\ Reaches(g, delivered)
    BY <2>1, <2>2, <2>3, AppendedGood
  <2>5. recorded + 1 \in Nat
    BY <2>2
  <2> HIDE DEF g
  <2>6. /\ Pruned(g) \in Seq(Entry) /\ Good(Pruned(g), recorded + 1)
        /\ Reaches(Pruned(g), delivered)
    BY <2>4, <2>5, PrunedGood
  <2>7. /\ journal' \in Journals /\ journal'["main"] = Pruned(g)
        /\ journal'["manual"] = journal["manual"]
    BY <2>1, <2>2, <2>6 DEF Journals
  <2>8. journal["manual"] \in Seq(Entry) /\ Good(journal["manual"], recorded)
        /\ file \in Seq(Entry) /\ Good(file, recorded)
    BY DEF JournalInv, Copies, Journals
  <2>9. Good(journal["manual"], recorded + 1) /\ Good(file, recorded + 1)
    BY <2>2, <2>8, WithinMore
  <2>10. \A i \in Items : delivered[i] <= recorded + 1
    BY DEF JournalInv, Copies
  <2>11. Copies'
    BY <2>1, <2>5, <2>6, <2>7, <2>8, <2>9, <2>10 DEF JournalInv, Copies
  <2> QED BY <2>1, <2>11 DEF JournalInv, Agree
<1> QED BY <1>1, <1>2

\* The two halves of a save.
LEMMA SaveStep == ASSUME JournalInv, Save PROVE JournalInv'
<1>1. CASE SaveOpen
  <2>1. /\ pc = "save" /\ pc' = "write" /\ file' = <<>>
        /\ UNCHANGED <<who, next, sending, journal, recorded, delivered>>
    BY <1>1 DEF SaveOpen, history
  <2>2. file' \in Seq(Entry) /\ Good(file', recorded) /\ Reaches(file', delivered)
    BY <2>1, EmptyGood
  <2> QED BY <2>1, <2>2 DEF JournalInv, Copies, Agree
<1>2. CASE SaveWrite
  <2>1. /\ pc = "write" /\ pc' = next /\ next' = "idle" /\ file' = journal[who]
        /\ UNCHANGED <<who, sending, journal, recorded, delivered>>
    BY <1>2 DEF SaveWrite
  <2>2. Same(file', journal["main"]) /\ Reaches(file', delivered)
    BY <2>1, WorkingReaches
  <2>3. file' \in Seq(Entry) /\ Good(file', recorded)
    BY <2>1 DEF JournalInv, Copies, Journals
  <2>4. pc' \in {"idle", "flush"}
    BY <2>1 DEF JournalInv, Copies
  <2>5. Copies'
    BY <2>1, <2>2, <2>3 DEF JournalInv, Copies
  <2>6. who' = "manual" => Same(journal'["manual"], journal'["main"])
    BY <2>1 DEF JournalInv, Agree
  <2> QED BY <2>1, <2>2, <2>4, <2>5, <2>6 DEF JournalInv, Agree
<1> QED BY <1>1, <1>2 DEF Save

\* The server takes what was sent, and no item goes back.
LEMMA TakeStep ==
  ASSUME JournalInv, ServerTakes
  PROVE  JournalInv' /\ \A i \in Items : delivered'[i] >= delivered[i]
<1> DEFINE j == journal[who]
<1>1. /\ pc = "request" /\ pc' = "reply"
      /\ delivered' = After(sending, delivered)
      /\ UNCHANGED <<who, next, sending, journal, file, recorded>>
  BY DEF ServerTakes, diskVars, After
<1>2. /\ j \in Seq(Entry) /\ recorded \in Nat /\ Good(j, recorded)
      /\ delivered \in [Items -> Nat] /\ \A i \in Items : delivered[i] <= recorded
  BY DEF JournalInv, Copies, Journals
<1>3. Same(j, journal["main"]) /\ Reaches(j, delivered)
  BY <1>1, WorkingReaches
<1>4. sending \subseteq LatestEntries(j)
  BY <1>1 DEF JournalInv, Agree
<1> HIDE DEF j
<1>5. /\ delivered' \in [Items -> Nat] /\ Reaches(j, delivered')
      /\ \A i \in Items : delivered[i] <= delivered'[i] /\ delivered'[i] <= recorded
  BY <1>1, <1>2, <1>3, <1>4, TakenReaches
<1>6. Reaches(journal["main"], delivered')
  BY <1>3, <1>5, SameProperties
<1>7. Same(file, journal["main"])
  BY <1>1 DEF JournalInv, Agree
<1>8. Reaches(file, delivered')
  BY <1>6, <1>7, SameProperties
<1>9. Copies'
  BY <1>1, <1>5, <1>6, <1>8 DEF JournalInv, Copies
<1>10. Agree'
  BY <1>1 DEF JournalInv, Agree
<1>11. \A i \in Items : delivered'[i] >= delivered[i]
  BY <1>2, <1>5
<1> QED BY <1>9, <1>10, <1>11 DEF JournalInv

\* The other steps of a flush.
LEMMA FlushStep ==
  ASSUME JournalInv, FlushCollect \/ FlushSucceeds \/ FlushFails
  PROVE  JournalInv'
<1>1. CASE FlushCollect
  <2>1. /\ pc = "flush" /\ sending' = LatestEntries(journal[who])
        /\ pc' \in {"idle", "request"}
        /\ UNCHANGED <<who, next, journal, file, recorded, delivered>>
    BY <1>1 DEF FlushCollect, diskVars, history
  <2>2. Copies'
    BY <2>1 DEF JournalInv, Copies
  <2>3. Agree'
    BY <2>1 DEF JournalInv, Agree
  <2> QED BY <2>2, <2>3 DEF JournalInv
<1>2. CASE FlushFails
  <2>1. /\ pc' = "idle" /\ pc \in {"request", "reply"}
        /\ UNCHANGED <<who, next, journal, file, recorded, delivered>>
    BY <1>2 DEF FlushFails, diskVars, history
  <2> QED BY <2>1 DEF JournalInv, Copies, Agree
<1>3. CASE FlushSucceeds
  <2> DEFINE g == Marked(journal[who])
  <2>1. /\ pc = "reply" /\ pc' = "save" /\ next' = "idle"
        /\ journal' = [journal EXCEPT ![who] = g]
        /\ UNCHANGED <<who, file, recorded, delivered>>
    BY <1>3 DEF FlushSucceeds, history
  <2>2. /\ journal[who] \in Seq(Entry) /\ Good(journal[who], recorded)
        /\ journal \in Journals /\ who \in {"main", "manual"}
    BY DEF JournalInv, Copies, Journals
  <2>3. Same(journal[who], journal["main"]) /\ Reaches(journal[who], delivered)
    BY <2>1, WorkingReaches
  <2>4. /\ g \in Seq(Entry) /\ Good(g, recorded) /\ Reaches(g, delivered)
        /\ Same(g, journal[who])
    BY <2>2, <2>3, MarkedGood
  <2>5. Same(g, journal["main"])
    BY <2>3, <2>4, SameProperties
  <2> HIDE DEF g
  <2>6. /\ journal' \in Journals
        /\ \A w \in {"main", "manual"} : journal'[w] = IF w = who THEN g ELSE journal[w]
    BY <2>1, <2>2, <2>4 DEF Journals
  <2>7. \A w \in {"main", "manual"} : Good(journal'[w], recorded)
    BY <2>4, <2>6 DEF JournalInv, Copies
  <2>8. Reaches(journal'["main"], delivered)
    BY <2>4, <2>6 DEF JournalInv, Copies
  <2>9. Copies'
    BY <2>1, <2>6, <2>7, <2>8 DEF JournalInv, Copies
  <2>10. who' = "manual" => Same(journal'["manual"], journal'["main"])
    BY <2>1, <2>5, <2>6
  <2> QED BY <2>1, <2>9, <2>10 DEF JournalInv, Agree
<1> QED BY <1>1, <1>2, <1>3

\* The player, the timer, the manual sync, and what happens around them.
LEMMA OtherStep ==
  ASSUME "tie" \notin Faults, TypeInv, JournalInv,
         Player \/ Timer \/ Manual \/ Advance \/ Device \/ Restart
  PROVE  JournalInv'
<1>1. CASE TimerTick
  <2>1. playing \in Items /\ at \in Nat /\ clock \in Nat
    BY <1>1 DEF TimerTick, TypeInv
  <2> QED BY <1>1, <2>1, RecordStep DEF TimerTick
<1>2. CASE StopPlaying
  <2>1. playing \in Items /\ at \in Nat /\ clock \in Nat
    BY <1>2 DEF StopPlaying, TypeInv
  <2>2. CASE at > STOP_MIN
    BY <1>2, <2>1, <2>2, RecordStep DEF StopPlaying
  <2>3. CASE ~(at > STOP_MIN)
    <3>1. /\ pc = "idle" /\ pc' = "idle" /\ who' = "main"
          /\ UNCHANGED <<next, journal, file, recorded, delivered>>
      BY <1>2, <2>3 DEF StopPlaying
    <3> QED BY <3>1 DEF JournalInv, Copies, Agree
  <2> QED BY <2>2, <2>3
<1>3. CASE TimerTickIdle
  <2>1. /\ pc = "idle" /\ pc' = "flush" /\ who' = "main"
        /\ UNCHANGED <<next, journal, file, recorded, delivered>>
    BY <1>3 DEF TimerTickIdle, diskVars, history
  <2> QED BY <2>1 DEF JournalInv, Copies, Agree
<1>4. CASE ManualSync
  <2>1. /\ pc = "idle" /\ pc' = "compare" /\ who' = "manual"
        /\ journal' = [journal EXCEPT !["manual"] = file]
        /\ UNCHANGED <<next, file, recorded, delivered>>
    BY <1>4 DEF ManualSync, history
  <2>2. journal \in Journals /\ file \in Seq(Entry) /\ Good(file, recorded)
        /\ Same(file, journal["main"])
    BY <2>1 DEF JournalInv, Copies, Agree
  <2>3. journal' \in Journals /\ journal'["manual"] = file
        /\ journal'["main"] = journal["main"]
    BY <2>1, <2>2 DEF Journals
  <2>4. Copies'
    BY <2>1, <2>2, <2>3 DEF JournalInv, Copies
  <2> QED BY <2>1, <2>2, <2>3, <2>4 DEF JournalInv, Agree
<1>5. CASE \E item \in Items, online \in BOOLEAN : CompareItem(item, online)
  <2>1. /\ pc = "compare" /\ pc' \in {"flush", "compare"}
        /\ UNCHANGED <<who, next, sending, journal, file, recorded, delivered>>
    BY <1>5 DEF CompareItem, diskVars, history
  <2> QED BY <2>1 DEF JournalInv, Copies, Agree
<1>6. CASE \/ Advance \/ Device
           \/ \E pos \in Positions : Listen(pos)
           \/ \E item \in Items, online \in BOOLEAN, accept \in BOOLEAN :
                PlayItem(item, online, accept)
  <2>1. UNCHANGED <<pc, who, next, sending, journal, file, recorded, delivered>>
    BY <1>6 DEF Advance, Device, OtherDevice, Listen, PlayItem, opVars, diskVars, history
  <2> QED BY <2>1 DEF JournalInv, Copies, Agree
<1>7. CASE Restart
  <2>1. /\ journal' = [w \in {"main", "manual"} |-> IF w = "main" THEN file ELSE <<>>]
        /\ pc' = "idle" /\ who' = "main"
        /\ next' = "idle" /\ UNCHANGED <<file, recorded, delivered>>
    BY <1>7 DEF Restart, history
  <2>2. file \in Seq(Entry) /\ Good(file, recorded) /\ Reaches(file, delivered)
    BY DEF JournalInv, Copies
  <2>3. <<>> \in Seq(Entry) /\ Good(<<>>, recorded)
    BY EmptyGood
  <2>4. journal' \in Journals /\ journal'["main"] = file /\ journal'["manual"] = <<>>
    BY <2>1, <2>2, <2>3 DEF Journals
  <2>5. Same(file, file)
    BY SameProperties
  <2>6. Copies'
    BY <2>1, <2>2, <2>3, <2>4 DEF JournalInv, Copies
  <2> QED BY <2>1, <2>4, <2>5, <2>6 DEF JournalInv, Agree
<1> QED BY <1>1, <1>2, <1>3, <1>4, <1>5, <1>6, <1>7 DEF Player, Timer, Manual

\* What flush picks are entries.
LEMMA LatestAreEntries ==
  ASSUME NEW j \in Seq(Entry) PROVE LatestEntries(j) \subseteq Entry
BY EntryAt DEF LatestEntries

\* The positions and times of the player, the server and what is saved.
LEMMA TypeStep ==
  ASSUME TypeInv, pc = "request" => sending \subseteq Entry, [Next]_vars
  PROVE  TypeInv'
<1>1. ASSUME NEW item \in Items, NEW pos \in Nat, savePosition(item, pos)
      PROVE  saved' \in [Items -> [pos: Nat, ts: Nat]]
  <2>1. clock \in Nat /\ saved \in [Items -> [pos: Nat, ts: Nat]]
    BY DEF TypeInv
  <2> QED BY <1>1, <2>1 DEF savePosition
<1>2. CASE Save \/ FlushCollect \/ FlushSucceeds \/ FlushFails \/ TimerTickIdle
           \/ ManualSync \/ UNCHANGED vars
  <2>1. UNCHANGED <<clock, playing, at, saved, server>>
    BY <1>2 DEF Save, SaveOpen, SaveWrite, FlushCollect, FlushSucceeds, FlushFails,
        TimerTickIdle, ManualSync, vars, playVars
  <2> QED BY <2>1 DEF TypeInv
<1>3. CASE ServerTakes
  <2>1. /\ UNCHANGED <<clock, playing, at, saved>> /\ pc = "request"
        /\ server' = [i \in Items |->
             IF \E e \in sending : e.item = i
             THEN [pos |-> (CHOOSE e \in sending : e.item = i).pos, lastUpdate |-> clock]
             ELSE server[i]]
    BY <1>3 DEF ServerTakes, playVars
  <2>2. sending \subseteq Entry
    BY <2>1
  <2>3. \A e \in sending : e.pos \in Nat
    BY <2>2 DEF Entry
  <2>4. clock \in Nat /\ server \in [Items -> [pos: Nat, lastUpdate: Nat]]
    BY DEF TypeInv
  <2>5. server' \in [Items -> [pos: Nat, lastUpdate: Nat]]
    <3> SUFFICES ASSUME NEW i \in Items PROVE server'[i] \in [pos: Nat, lastUpdate: Nat]
      BY <2>1
    <3>1. CASE \E e \in sending : e.item = i
      <4>1. (CHOOSE e \in sending : e.item = i).pos \in Nat
        BY <3>1, <2>3
      <4> QED BY <3>1, <4>1, <2>1, <2>4
    <3>2. CASE ~ \E e \in sending : e.item = i
      BY <3>2, <2>1, <2>4
    <3> QED BY <3>1, <3>2
  <2> QED BY <2>1, <2>5 DEF TypeInv
<1>4. CASE TimerTick
  <2>1. playing \in Items /\ at \in Nat /\ savePosition(playing, at)
        /\ UNCHANGED <<clock, playing, at, server>>
    BY <1>4 DEF TimerTick, TypeInv, playVars
  <2> QED BY <2>1, <1>1 DEF TypeInv
<1>5. CASE StopPlaying
  <2>1. playing \in Items /\ at \in Nat /\ playing' = NoItem /\ at' = 0
        /\ UNCHANGED <<clock, server>>
        /\ (savePosition(playing, at) \/ UNCHANGED saved)
    BY <1>5 DEF StopPlaying, TypeInv
  <2> QED BY <2>1, <1>1 DEF TypeInv
<1>6. CASE \E item \in Items, online \in BOOLEAN, accept \in BOOLEAN :
             PlayItem(item, online, accept)
  <2>1. PICK item \in Items, online \in BOOLEAN, accept \in BOOLEAN :
          PlayItem(item, online, accept)
    BY <1>6
  <2>2. /\ playing' = item /\ at' \in {Offered(item, online), 0}
        /\ saved' \in {saved, [saved EXCEPT ![item] = [pos |-> 0, ts |-> 0]]}
        /\ UNCHANGED <<clock, server>>
    BY <2>1 DEF PlayItem
  <2>3. saved[item].pos \in Nat /\ server[item].pos \in Nat
    BY DEF TypeInv
  <2>4. Offered(item, online) \in Nat
    BY <2>3 DEF Offered
  <2>5. saved' \in [Items -> [pos: Nat, ts: Nat]]
    BY <2>2 DEF TypeInv
  <2> QED BY <2>2, <2>4, <2>5 DEF TypeInv
<1>7. CASE \E pos \in Positions : Listen(pos)
  BY <1>7, Limits DEF Listen, TypeInv
<1>8. CASE \E item \in Items, online \in BOOLEAN : CompareItem(item, online)
  <2>1. PICK item \in Items, online \in BOOLEAN : CompareItem(item, online)
    BY <1>8
  <2>2. /\ UNCHANGED <<clock, playing, at, server>>
        /\ savePosition(item, server[item].pos) \/ UNCHANGED saved
    BY <2>1 DEF CompareItem, playVars
  <2>3. server[item].pos \in Nat
    BY DEF TypeInv
  <2> QED BY <2>2, <2>3, <1>1 DEF TypeInv
<1>9. CASE Advance
  BY <1>9 DEF Advance, TypeInv, playVars
<1>10. CASE Device
  BY <1>10, Limits DEF Device, OtherDevice, TypeInv, playVars
<1>11. CASE Restart
  BY <1>11 DEF Restart, TypeInv
<1> QED BY <1>2, <1>3, <1>4, <1>5, <1>6, <1>7, <1>8, <1>9, <1>10, <1>11
        DEF Next, Flush, Player, Timer, Manual

\* Initially all is empty.
LEMMA InvInit == ASSUME Init PROVE TypeInv /\ JournalInv
<1>1. TypeInv
  BY DEF Init, TypeInv
<1>2. \A w \in {"main", "manual"} : journal[w] = <<>>
  BY DEF Init
<1>3. journal \in Journals /\ file = <<>> /\ file \in Seq(Entry)
  BY EmptyGood DEF Init, Journals
<1>4. delivered \in [Items -> Nat] /\ recorded = 0 /\ \A i \in Items : delivered[i] <= recorded
  BY DEF Init
<1>5. Copies
  BY <1>2, <1>3, <1>4, EmptyGood DEF Init, Copies
<1>6. Agree
  BY <1>2, <1>3, EmptyGood DEF Init, Agree
<1> QED BY <1>1, <1>5, <1>6 DEF JournalInv

\* Every step keeps the invariant, and only the server's taking changes what
\* it has.
LEMMA InvStep ==
  ASSUME "tie" \notin Faults, TypeInv, JournalInv, [Next]_vars
  PROVE  /\ TypeInv' /\ JournalInv'
         /\ \A i \in Items : delivered'[i] >= delivered[i]
<1>1. pc = "request" => sending \subseteq Entry
  BY LatestAreEntries DEF JournalInv, Copies, Agree, Journals
<1>2. TypeInv'
  BY <1>1, TypeStep
<1>3. \A i \in Items : delivered[i] \in Nat
  BY DEF JournalInv, Copies
<1>4. CASE ServerTakes
  BY <1>2, <1>4, TakeStep
<1>5. CASE Save \/ FlushCollect \/ FlushSucceeds \/ FlushFails
  <2>1. JournalInv'
    BY <1>5, SaveStep, FlushStep
  <2>2. delivered' = delivered
    BY <1>5 DEF Save, SaveOpen, SaveWrite, FlushCollect, FlushSucceeds, FlushFails, history
  <2> QED BY <2>1, <2>2, <1>2, <1>3
<1>6. CASE Player \/ Timer \/ Manual \/ Advance \/ Device \/ Restart
  <2>1. JournalInv'
    BY <1>6, OtherStep
  <2>2. delivered' = delivered
    BY <1>6 DEF Player, Timer, Manual, Advance, Device, Restart, StopPlaying, PlayItem,
        Listen, TimerTick, TimerTickIdle, ManualSync, CompareItem, OtherDevice, history
  <2> QED BY <2>1, <2>2, <1>2, <1>3
<1>7. CASE UNCHANGED vars
  <2>1. UNCHANGED <<pc, who, next, sending, journal, file, recorded, delivered>>
    BY <1>7 DEF vars, opVars, diskVars, history
  <2>2. JournalInv'
    BY <2>1 DEF JournalInv, Copies, Agree
  <2> QED BY <2>1, <2>2, <1>2, <1>3
<1> QED BY <1>4, <1>5, <1>6, <1>7 DEF Next, Flush

\* Lost replies, failed flushes, restarts at any step, the second instance of
\* the journal and the pruning never make the server's position go back to an
\* older one of this device, if no two entries share a second.
THEOREM NeverResendsOlder ==
  ASSUME "tie" \notin Faults
  PROVE  Spec => DeliveriesInOrder
<1> DEFINE Inv == TypeInv /\ JournalInv
           InOrder == \A i \in Items : delivered'[i] >= delivered[i]
<1>1. Init => Inv
  BY InvInit
<1>2. Inv /\ [Next]_vars => Inv' /\ InOrder
  BY InvStep
<1>3. InOrder <=> \A i \in Items : delivered'[i] >= delivered[i]
  OBVIOUS
<1> HIDE DEF Inv, InOrder
<1> QED BY <1>1, <1>2, <1>3, PTL DEF Spec, DeliveriesInOrder

-----------------------------------------------------------------------------
(* Types.  The newest entry saved is the maximum of a set: it exists        *)
(* because the set is bounded and the order of the naturals well-founded.   *)

\* A set of naturals that is not empty has a least element.
LEMMA LeastNat ==
  ASSUME NEW T, T \subseteq Nat, T # {}
  PROVE  \E x \in T : \A y \in T : x <= y
<1> DEFINE R == OpToRel(<, Nat)
<1>1. IsWellFoundedOn(R, Nat)
  BY NatLessThanWellFounded
<1>2. \A x, y \in Nat : <<x, y>> \in R <=> x < y
  BY DEF OpToRel
<1> HIDE DEF R
<1>3. PICK x \in T : \A y \in T : ~ (<<y, x>> \in R)
  BY <1>1, WFMin
<1>4. ASSUME NEW y \in T PROVE x <= y
  <2>1. x \in Nat /\ y \in Nat
    OBVIOUS
  <2>2. ~ (<<y, x>> \in R)
    BY <1>3
  <2>3. ~ (y < x)
    BY <2>1, <2>2, <1>2
  <2> QED BY <2>1, <2>3
<1> QED BY <1>4

\* And one that is bounded has a maximum.
LEMMA MaxOfBounded ==
  ASSUME NEW S, S \subseteq Nat, S # {}, NEW n \in Nat, \A x \in S : x <= n
  PROVE  Max(S) \in S /\ \A x \in S : x <= Max(S)
<1> DEFINE T == {n - x : x \in S}
<1>1. T \subseteq Nat /\ T # {}
  <2>1. ASSUME NEW x \in S PROVE n - x \in Nat
    <3>1. x \in Nat /\ x <= n
      OBVIOUS
    <3> QED BY <3>1
  <2>2. T # {}
    OBVIOUS
  <2> QED BY <2>1, <2>2
<1>2. PICK t \in T : \A u \in T : t <= u
  BY <1>1, LeastNat
<1>3. PICK m \in S : t = n - m
  BY <1>2
<1>4. ASSUME NEW x \in S PROVE m >= x
  <2>1. n - x \in T /\ x \in Nat /\ m \in Nat
    OBVIOUS
  <2>2. n - m <= n - x
    BY <2>1, <1>2, <1>3
  <2> QED BY <2>1, <2>2
<1>5. \E y \in S : \A x \in S : y >= x
  BY <1>4
<1>6. Max(S) \in S /\ \A x \in S : Max(S) >= x
  BY <1>5 DEF Max
<1>7. ASSUME NEW x \in S PROVE x <= Max(S)
  <2>1. x \in Nat /\ Max(S) \in Nat /\ Max(S) >= x
    BY <1>6
  <2> QED BY <2>1
<1> QED BY <1>6, <1>7

\* What the file holds of an item, and what was the newest.
Saved(j, i, n) == {n} \cup {e.id : e \in {j[k] : k \in EntriesOf(j, i)}}

LEMMA NewestSaved ==
  ASSUME NEW j \in Seq(Entry), NEW n \in Nat, WithinRecorded(j, n),
         NEW i \in Items, NEW m \in Nat
  PROVE  /\ Max(Saved(j, i, m)) \in Nat /\ m <= Max(Saved(j, i, m))
         /\ \A k \in 1..Len(j) : j[k].item = i => j[k].id <= Max(Saved(j, i, m))
         /\ \/ Max(Saved(j, i, m)) = m
            \/ \E k \in 1..Len(j) : j[k].item = i /\ j[k].id = Max(Saved(j, i, m))
<1> DEFINE S == Saved(j, i, m)
<1>1. ASSUME NEW x \in S
      PROVE  x = m \/ \E k \in 1..Len(j) : j[k].item = i /\ j[k].id = x
  BY DEF Saved, EntriesOf
<1>2. \A k \in 1..Len(j) : j[k].item = i => j[k].id \in S
  BY DEF Saved, EntriesOf
<1>3. m \in S
  BY DEF Saved
<1> HIDE DEF S
<1>4. ASSUME NEW x \in S PROVE x \in Nat /\ x <= m + n
  <2>1. CASE x = m
    BY <2>1
  <2>2. CASE \E k \in 1..Len(j) : j[k].item = i /\ j[k].id = x
    BY <2>2, EntryAt DEF WithinRecorded
  <2> QED BY <1>1, <2>1, <2>2
<1>5. Max(S) \in S /\ \A x \in S : x <= Max(S)
  <2>1. m + n \in Nat /\ S \subseteq Nat /\ S # {} /\ \A x \in S : x <= m + n
    BY <1>3, <1>4
  <2> QED BY <2>1, MaxOfBounded
<1>6. Max(S) \in Nat
  BY <1>4, <1>5
<1>7. m <= Max(S) /\ \A k \in 1..Len(j) : j[k].item = i => j[k].id <= Max(S)
  BY <1>2, <1>3, <1>5
<1>8. Max(S) = m \/ \E k \in 1..Len(j) : j[k].item = i /\ j[k].id = Max(S)
  BY <1>1, <1>5
<1> QED BY <1>6, <1>7, <1>8 DEF S

\* Every copy of the journal is within its limit, and its ids are recorded.
Kept(j) == j \in Seq(Entry) /\ Len(j) <= JOURNAL_MAX /\ WithinRecorded(j, recorded)

FlowInv ==
  /\ pc \in {"idle", "save", "write", "flush", "request", "reply", "compare"}
  /\ who \in {"main", "manual"} /\ next \in {"idle", "flush"}
  /\ todo \subseteq Items /\ sending \subseteq Entry
  /\ journal \in Journals
  /\ Kept(journal["main"]) /\ Kept(journal["manual"]) /\ Kept(file)
  /\ recorded \in Nat
  /\ newest \in [Items -> Nat] /\ delivered \in [Items -> Nat]

\* The empty journal is within every limit.
LEMMA EmptyKept == Kept(<<>>)
<1>1. <<>> \in Seq(Entry) /\ Good(<<>>, recorded)
  BY EmptyGood
<1>2. Len(<<>>) <= JOURNAL_MAX
  BY Limits
<1> QED BY <1>1, <1>2 DEF Kept, Good

\* recordProgress keeps the limit whatever was in the journal.
LEMMA RecordTypes ==
  ASSUME TypeInv, FlowInv, NEW item \in Items, NEW pos \in Nat,
         recordProgress(item, pos), who' = "main",
         UNCHANGED <<todo, sending, file, newest, delivered>>
  PROVE  FlowInv'
<1>1. CASE Debounced(journal.main, item, pos)
  <2>1. pc' = "flush" /\ UNCHANGED <<next, journal, recorded>>
    BY <1>1 DEF recordProgress
  <2> QED BY <2>1 DEF FlowInv, Kept
<1>2. CASE ~Debounced(journal.main, item, pos)
  <2> DEFINE j == journal["main"]
             e == [id |-> recorded + 1, item |-> item, pos |-> pos,
                   ts |-> clock, synced |-> FALSE]
             g == Append(j, e)
  <2>1. /\ pc' = "save" /\ next' = "flush" /\ recorded' = recorded + 1
        /\ journal' = [journal EXCEPT !["main"] = Pruned(g)]
    BY <1>2 DEF recordProgress
  <2>2. /\ recorded \in Nat /\ clock \in Nat /\ journal \in Journals
        /\ Kept(j) /\ Kept(journal["manual"]) /\ Kept(file)
    BY DEF TypeInv, FlowInv
  <2>3. e \in Entry /\ e.id = recorded + 1
    BY <2>2 DEF Entry
  <2>4. \A q \in Seq(Entry) : WithinRecorded(q, recorded) => WithinRecorded(q, recorded + 1)
    <3> SUFFICES ASSUME NEW q \in Seq(Entry), WithinRecorded(q, recorded),
                        NEW k \in 1..Len(q)
                 PROVE  q[k].id <= recorded + 1
      BY DEF WithinRecorded
    <3>1. q[k].id \in Nat /\ q[k].id <= recorded
      BY EntryAt DEF WithinRecorded
    <3> QED BY <3>1, <2>2
  <2> HIDE DEF e, j
  <2>5. /\ g \in Seq(Entry) /\ Len(g) = Len(j) + 1 /\ Len(j) <= JOURNAL_MAX
        /\ \A k \in 1..Len(g) : g[k].id <= recorded + 1
    <3>1. /\ g \in Seq(Entry) /\ Len(g) = Len(j) + 1 /\ Len(j) \in Nat
          /\ \A k \in 1..Len(j) : g[k] = j[k]
          /\ g[Len(j) + 1] = e
      BY <2>2, <2>3, AppendProperties DEF Kept
    <3>2. \A k \in 1..Len(j) : j[k].id <= recorded + 1
      BY <2>2, <2>4 DEF Kept, WithinRecorded
    <3>3. \A k \in 1..Len(g) : k \in 1..Len(j) \/ k = Len(j) + 1
      BY <3>1
    <3>4. Len(j) <= JOURNAL_MAX
      BY <2>2 DEF Kept
    <3>5. recorded + 1 <= recorded + 1
      BY <2>2
    <3> HIDE DEF g
    <3>6. ASSUME NEW k \in 1..Len(g) PROVE g[k].id <= recorded + 1
      BY <3>1, <3>2, <3>3, <3>5, <2>3
    <3> QED BY <3>1, <3>4, <3>6
  <2> HIDE DEF g
  <2>6. /\ Pruned(g) \in Seq(Entry) /\ Len(Pruned(g)) <= JOURNAL_MAX
        /\ WithinRecorded(Pruned(g), recorded + 1)
    <3>1. Len(g) <= JOURNAL_MAX + 1
      BY <2>2, <2>5, Limits DEF Kept
    <3>2. /\ Pruned(g) \in Seq(Entry) /\ Len(Pruned(g)) <= JOURNAL_MAX
          /\ \A k \in 1..Len(Pruned(g)) : \E l \in 1..Len(g) : Pruned(g)[k] = g[l]
      BY <2>5, <3>1, PrunedKeeps, PrunedEntries
    <3> QED BY <2>5, <3>2 DEF WithinRecorded
  <2>7. /\ journal' \in Journals /\ journal'["main"] = Pruned(g)
        /\ journal'["manual"] = journal["manual"]
    BY <2>1, <2>2, <2>6 DEF Journals
  <2>8. Kept(journal["manual"])' /\ Kept(file)'
    BY <2>1, <2>2, <2>4, <2>7 DEF Kept
  <2>9. Kept(journal["main"])'
    BY <2>1, <2>6, <2>7 DEF Kept
  <2>10. recorded' \in Nat
    BY <2>1, <2>2
  <2> QED BY <2>1, <2>7, <2>8, <2>9, <2>10 DEF FlowInv
<1> QED BY <1>1, <1>2

\* Saves, and the history they keep.
LEMMA SaveTypes == ASSUME FlowInv, Save PROVE FlowInv'
<1>1. CASE SaveOpen
  <2>1. /\ pc' = "write" /\ file' = <<>>
        /\ UNCHANGED <<who, next, todo, sending, journal, recorded, newest, delivered>>
    BY <1>1 DEF SaveOpen, history
  <2>2. Kept(file)'
    BY <2>1, Limits, EmptyGood DEF Kept, Good
  <2> QED BY <2>1, <2>2 DEF FlowInv, Kept
<1>2. CASE SaveWrite
  <2>1. /\ pc' = next /\ next' = "idle" /\ file' = journal[who]
        /\ newest' = [i \in Items |-> Max(Saved(file', i, newest[i]))]
        /\ UNCHANGED <<who, todo, sending, journal, recorded, delivered>>
    BY <1>2 DEF SaveWrite, Saved
  <2>2. Kept(journal[who]) /\ recorded \in Nat /\ newest \in [Items -> Nat]
    BY DEF FlowInv
  <2>3. \A i \in Items : Max(Saved(journal[who], i, newest[i])) \in Nat
    BY <2>2, NewestSaved DEF Kept
  <2>4. newest' \in [Items -> Nat]
    BY <2>1, <2>3
  <2>5. Kept(file)'
    BY <2>1, <2>2 DEF Kept
  <2> QED BY <2>1, <2>4, <2>5 DEF FlowInv, Kept
<1> QED BY <1>1, <1>2 DEF Save

\* The steps of a flush.
LEMMA FlushTypes == ASSUME FlowInv, Flush PROVE FlowInv'
<1>1. CASE FlushCollect
  <2>1. /\ sending' = LatestEntries(journal[who]) /\ pc' \in {"idle", "request"}
        /\ UNCHANGED <<who, next, todo, journal, file, recorded, newest, delivered>>
    BY <1>1 DEF FlushCollect, diskVars, history
  <2>2. sending' \subseteq Entry
    BY <2>1, LatestAreEntries DEF FlowInv, Kept
  <2> QED BY <2>1, <2>2 DEF FlowInv, Kept
<1>2. CASE ServerTakes
  <2>1. /\ pc' = "reply" /\ delivered' = After(sending, delivered)
        /\ UNCHANGED <<who, next, todo, sending, journal, file, recorded, newest>>
    BY <1>2 DEF ServerTakes, diskVars, After
  <2>2. delivered' \in [Items -> Nat]
    <3> SUFFICES ASSUME NEW i \in Items PROVE After(sending, delivered)[i] \in Nat
      BY <2>1 DEF After
    <3>1. CASE \E e \in sending : e.item = i
      <4>1. (CHOOSE e \in sending : e.item = i) \in Entry
        BY <3>1 DEF FlowInv
      <4>2. (CHOOSE e \in sending : e.item = i).id \in Nat
        BY <4>1, EntryFields
      <4> QED BY <3>1, <4>2 DEF After
    <3>2. CASE ~ \E e \in sending : e.item = i
      BY <3>2 DEF After, FlowInv
    <3> QED BY <3>1, <3>2
  <2> QED BY <2>1, <2>2 DEF FlowInv, Kept
<1>3. CASE FlushFails
  <2>1. /\ pc' = "idle" /\ sending' = {}
        /\ UNCHANGED <<who, next, todo, journal, file, recorded, newest, delivered>>
    BY <1>3 DEF FlushFails, diskVars, history
  <2> QED BY <2>1 DEF FlowInv, Kept
<1>4. CASE FlushSucceeds
  <2> DEFINE g == Marked(journal[who])
  <2>1. /\ pc' = "save" /\ next' = "idle" /\ sending' = {}
        /\ journal' = [journal EXCEPT ![who] = g]
        /\ UNCHANGED <<who, todo, file, recorded, newest, delivered>>
    BY <1>4 DEF FlushSucceeds, history
  <2>2. Kept(journal[who]) /\ journal \in Journals /\ who \in {"main", "manual"}
    BY DEF FlowInv
  <2>3. Kept(g)
    BY <2>2, MarkedEntries DEF Kept, WithinRecorded
  <2> HIDE DEF g
  <2>4. /\ journal' \in Journals
        /\ \A w \in {"main", "manual"} : journal'[w] = IF w = who THEN g ELSE journal[w]
    BY <2>1, <2>2, <2>3 DEF Journals, Kept
  <2>5. Kept(journal["main"])' /\ Kept(journal["manual"])' /\ Kept(file)'
    BY <2>1, <2>3, <2>4 DEF FlowInv, Kept
  <2> QED BY <2>1, <2>4, <2>5 DEF FlowInv
<1> QED BY <1>1, <1>2, <1>3, <1>4 DEF Flush

\* Everything else.
LEMMA OtherTypes ==
  ASSUME TypeInv, FlowInv,
         Player \/ Timer \/ Manual \/ Advance \/ Device \/ Restart \/ UNCHANGED vars
  PROVE  FlowInv'
<1>1. CASE TimerTick
  <2>1. playing \in Items /\ at \in Nat
    BY <1>1 DEF TimerTick, TypeInv
  <2> QED BY <1>1, <2>1, RecordTypes DEF TimerTick
<1>2. CASE StopPlaying
  <2>1. playing \in Items /\ at \in Nat
    BY <1>2 DEF StopPlaying, TypeInv
  <2>2. CASE at > STOP_MIN
    BY <1>2, <2>1, <2>2, RecordTypes DEF StopPlaying
  <2>3. CASE ~(at > STOP_MIN)
    <3>1. /\ who' = "main"
          /\ UNCHANGED <<pc, next, todo, sending, journal, file, recorded, newest, delivered>>
      BY <1>2, <2>3 DEF StopPlaying
    <3> QED BY <3>1 DEF FlowInv, Kept
  <2> QED BY <2>2, <2>3
<1>3. CASE TimerTickIdle
  <2>1. /\ pc' = "flush" /\ who' = "main"
        /\ UNCHANGED <<next, todo, sending, journal, file, recorded, newest, delivered>>
    BY <1>3 DEF TimerTickIdle, diskVars, history
  <2> QED BY <2>1 DEF FlowInv, Kept
<1>4. CASE ManualSync
  <2>1. /\ pc' = "compare" /\ who' = "manual" /\ todo' = Items
        /\ journal' = [journal EXCEPT !["manual"] = file]
        /\ UNCHANGED <<next, sending, file, recorded, newest, delivered>>
    BY <1>4 DEF ManualSync, history
  <2>2. journal \in Journals /\ Kept(file)
    BY DEF FlowInv
  <2>3. journal' \in Journals /\ journal'["manual"] = file
        /\ journal'["main"] = journal["main"]
    BY <2>1, <2>2 DEF Journals, Kept
  <2>4. Kept(journal["main"])' /\ Kept(journal["manual"])' /\ Kept(file)'
    BY <2>1, <2>2, <2>3 DEF FlowInv, Kept
  <2> QED BY <2>1, <2>3, <2>4 DEF FlowInv
<1>5. CASE \E item \in Items, online \in BOOLEAN : CompareItem(item, online)
  <2>1. /\ pc' \in {"flush", "compare"} /\ todo' \subseteq todo
        /\ UNCHANGED <<who, next, sending, journal, file, recorded, newest, delivered>>
    BY <1>5 DEF CompareItem, diskVars, history
  <2> QED BY <2>1 DEF FlowInv, Kept
<1>6. CASE \/ Advance \/ Device \/ UNCHANGED vars
           \/ \E pos \in Positions : Listen(pos)
           \/ \E item \in Items, online \in BOOLEAN, accept \in BOOLEAN :
                PlayItem(item, online, accept)
  <2>1. UNCHANGED <<pc, who, next, todo, sending, journal, file, recorded, newest, delivered>>
    BY <1>6 DEF Advance, Device, OtherDevice, Listen, PlayItem, vars, opVars, diskVars, history
  <2> QED BY <2>1 DEF FlowInv, Kept
<1>7. CASE Restart
  <2>1. /\ journal' = [w \in {"main", "manual"} |-> IF w = "main" THEN file ELSE <<>>]
        /\ pc' = "idle" /\ who' = "main" /\ next' = "idle" /\ todo' = {} /\ sending' = {}
        /\ UNCHANGED <<file, recorded, newest, delivered>>
    BY <1>7 DEF Restart, history
  <2>2. Kept(file) /\ Kept(<<>>)
    BY EmptyKept DEF FlowInv
  <2>3. journal' \in Journals /\ journal'["main"] = file /\ journal'["manual"] = <<>>
    BY <2>1, <2>2 DEF Journals, Kept
  <2>4. Kept(journal["main"])' /\ Kept(journal["manual"])' /\ Kept(file)'
    BY <2>1, <2>2, <2>3 DEF Kept
  <2> QED BY <2>1, <2>3, <2>4 DEF FlowInv
<1> QED BY <1>1, <1>2, <1>3, <1>4, <1>5, <1>6, <1>7 DEF Player, Timer, Manual

\* Every variable keeps its type, and no copy of the journal outgrows its limit.
THEOREM TypesHold == Spec => []TypeOK
<1>1. Init => TypeInv /\ FlowInv
  <2> SUFFICES ASSUME Init PROVE TypeInv /\ FlowInv
    OBVIOUS
  <2>1. TypeInv
    BY DEF Init, TypeInv
  <2>2. journal["main"] = <<>> /\ journal["manual"] = <<>> /\ file = <<>>
    BY DEF Init
  <2>3. Kept(<<>>)
    BY EmptyKept
  <2>4. journal \in Journals
    BY EmptyGood DEF Init, Journals
  <2> QED BY <2>1, <2>2, <2>3, <2>4 DEF Init, FlowInv
<1>2. TypeInv /\ FlowInv /\ [Next]_vars => TypeInv' /\ FlowInv'
  <2> SUFFICES ASSUME TypeInv, FlowInv, [Next]_vars PROVE TypeInv' /\ FlowInv'
    OBVIOUS
  <2>1. TypeInv'
    BY TypeStep DEF FlowInv
  <2>2. FlowInv'
    BY SaveTypes, FlushTypes, OtherTypes DEF Next
  <2> QED BY <2>1, <2>2
<1>3. TypeInv /\ FlowInv => TypeOK
  BY DEF TypeInv, FlowInv, TypeOK, Kept, Journals
<1> QED BY <1>1, <1>2, <1>3, PTL DEF Spec

-----------------------------------------------------------------------------
(* Nothing is lost.                                                        *)

\* An entry is marked only when the server has it or a newer one.
MarksDelivered(j, d) ==
  \A k \in 1..Len(j) : j[k].synced => j[k].id <= d[j[k].item]

\* What was saved and is not delivered is in j, or something newer is.
Holds(j, w, d) ==
  \A i \in Items : d[i] < w[i] => \E k \in 1..Len(j) : j[k].item = i /\ w[i] <= j[k].id

\* The last entry of an item, once taken, is what the server has.
Answered ==
  pc = "reply" =>
    \A e \in sending : \A k \in 1..Len(journal[who]) :
      journal[who][k].item = e.item => journal[who][k].id <= delivered[e.item]

LossInv ==
  /\ newest \in [Items -> Nat]
  /\ \A i \in Items : newest[i] <= recorded
  /\ \A k \in 1..Len(file) : file[k].id <= newest[file[k].item]
  /\ \A w \in {"main", "manual"} :
       MarksDelivered(journal[w], delivered) /\ Len(journal[w]) <= recorded
  /\ MarksDelivered(file, delivered) /\ Len(file) <= recorded
  /\ Holds(journal["main"], newest, delivered)
  /\ pc # "write" => Holds(file, newest, delivered)
  /\ Answered

\* The pruning cannot reach the newest entry of an item.
RoomForAll ==
  \/ \E x : Items = {x}
  \/ MaxRecords \in Nat /\ MaxRecords <= JOURNAL_MAX

\* Journals that are the same hold the same.
LEMMA SameHolds ==
  ASSUME NEW j, NEW g, NEW w, NEW d, Same(j, g), Holds(j, w, d)
  PROVE  Holds(g, w, d)
BY DEF Same, Holds

\* A new entry leaves its journal with all that was in it, or with the only item's.
LEMMA RecordHolds ==
  ASSUME RoomForAll, recorded < MaxRecords, recorded \in Nat,
         NEW j \in Seq(Entry), Len(j) <= recorded,
         NEW w \in [Items -> Nat], \A i \in Items : w[i] <= recorded,
         NEW d, Holds(j, w, d), MarksDelivered(j, d),
         NEW e \in Entry, e.id = recorded + 1, ~e.synced
  PROVE  LET g == Pruned(Append(j, e)) IN
         /\ Holds(g, w, d) /\ MarksDelivered(g, d) /\ Len(g) <= recorded + 1
<1> DEFINE a == Append(j, e)
           g == Pruned(a)
<1>1. /\ a \in Seq(Entry) /\ Len(a) = Len(j) + 1 /\ Len(j) \in Nat
      /\ \A k \in 1..Len(j) : a[k] = j[k]
      /\ a[Len(j) + 1] = e
  BY AppendProperties
<1>2. \A k \in 1..Len(a) : k \in 1..Len(j) \/ k = Len(j) + 1
  BY <1>1
<1>3. e.item \in Items
  BY EntryFields
<1> HIDE DEF a
<1>4. /\ g \in Seq(Entry) /\ Len(g) <= Len(a)
      /\ \A k \in 1..Len(g) : \E l \in 1..Len(a) : g[k] = a[l]
  BY <1>1, PrunedEntries
<1>5. MarksDelivered(a, d)
  <2> SUFFICES ASSUME NEW k \in 1..Len(a), a[k].synced PROVE a[k].id <= d[a[k].item]
    BY DEF MarksDelivered
  <2>1. k # Len(j) + 1
    BY <1>1
  <2>2. k \in 1..Len(j) /\ a[k] = j[k]
    BY <2>1, <1>1, <1>2
  <2> QED BY <2>2 DEF MarksDelivered
<1>6. MarksDelivered(g, d)
  BY <1>4, <1>5 DEF MarksDelivered
<1>7. Len(g) <= recorded + 1
  <2>1. Len(g) \in Nat /\ Len(a) \in Nat /\ Len(a) <= recorded + 1
    BY <1>1, <1>4
  <2> QED BY <2>1, <1>4
<1>8. Holds(g, w, d)
  <2>1. CASE ~(Len(a) > JOURNAL_MAX)
    <3>1. g = a
      BY <2>1 DEF Pruned
    <3>2. \A k \in 1..Len(j) : k \in 1..Len(a)
      BY <1>1
    <3>3. Holds(a, w, d)
      BY <1>1, <3>2 DEF Holds
    <3> QED BY <3>1, <3>3
  <2>2. CASE Len(a) > JOURNAL_MAX
    <3>1. ~(MaxRecords \in Nat /\ MaxRecords <= JOURNAL_MAX)
      BY <2>2, <1>1, Limits
    <3>2. PICK x : Items = {x}
      BY <3>1 DEF RoomForAll
    <3>3. \A i \in Items : i = e.item
      BY <3>2, <1>3
    <3>4. JOURNAL_MAX \in 1..Len(g) /\ g[JOURNAL_MAX] = e
      <4> DEFINE c == Len(a) - JOURNAL_MAX
      <4>1. /\ c \in Nat /\ Len(g) = JOURNAL_MAX
            /\ \A k \in 1..Len(g) : g[k] = a[c + k]
        BY <2>2, <1>1, PrunedIs
      <4>2. JOURNAL_MAX \in 1..JOURNAL_MAX /\ c + JOURNAL_MAX = Len(j) + 1
        BY <1>1, Limits
      <4> HIDE DEF c, g
      <4>3. g[JOURNAL_MAX] = a[c + JOURNAL_MAX]
        BY <4>1, <4>2
      <4> QED BY <4>1, <4>2, <4>3, <1>1
    <3> HIDE DEF g
    <3>5. ASSUME NEW i \in Items PROVE w[i] <= e.id
      BY <3>5
    <3> QED BY <3>3, <3>4, <3>5 DEF Holds
  <2> QED BY <2>1, <2>2
<1> QED BY <1>6, <1>7, <1>8 DEF a

\* recordProgress loses nothing.
LEMMA RecordLoss ==
  ASSUME RoomForAll, JournalInv, LossInv, clock \in Nat, pc = "idle",
         NEW item \in Items, NEW pos \in Nat, recordProgress(item, pos),
         who' = "main", UNCHANGED <<file, newest, delivered>>
  PROVE  LossInv'
<1>1. CASE Debounced(journal.main, item, pos)
  <2>1. pc' = "flush" /\ UNCHANGED <<next, journal, recorded>>
    BY <1>1 DEF recordProgress
  <2> QED BY <2>1 DEF LossInv, Answered
<1>2. CASE ~Debounced(journal.main, item, pos)
  <2> DEFINE j == journal["main"]
             e == [id |-> recorded + 1, item |-> item, pos |-> pos,
                   ts |-> clock, synced |-> FALSE]
             g == Pruned(Append(j, e))
  <2>1. /\ pc' = "save" /\ recorded' = recorded + 1 /\ recorded < MaxRecords
        /\ journal' = [journal EXCEPT !["main"] = g]
    BY <1>2 DEF recordProgress, MayRecord
  <2>2. /\ recorded \in Nat /\ j \in Seq(Entry) /\ journal \in Journals
        /\ newest \in [Items -> Nat] /\ \A i \in Items : newest[i] <= recorded
        /\ Holds(j, newest, delivered) /\ MarksDelivered(j, delivered) /\ Len(j) <= recorded
    BY DEF JournalInv, Copies, Journals, LossInv
  <2>3. e \in Entry /\ e.id = recorded + 1 /\ ~e.synced
    BY <2>2 DEF Entry
  <2> HIDE DEF e, j
  <2>4. /\ Holds(g, newest, delivered) /\ MarksDelivered(g, delivered)
        /\ Len(g) <= recorded + 1
    BY <2>1, <2>2, <2>3, RecordHolds
  <2> HIDE DEF g
  <2>5. journal'["main"] = g /\ journal'["manual"] = journal["manual"]
    BY <2>1, <2>2 DEF Journals
  <2>6. /\ Len(journal["manual"]) <= recorded + 1 /\ Len(file) <= recorded + 1
        /\ \A i \in Items : newest[i] <= recorded + 1
    <3>1. /\ Len(journal["manual"]) \in Nat /\ Len(journal["manual"]) <= recorded
          /\ Len(file) \in Nat /\ Len(file) <= recorded
      BY DEF JournalInv, Copies, Journals, LossInv
    <3> QED BY <2>2, <3>1
  <2>7. MarksDelivered(journal["manual"], delivered) /\ pc' # "reply" /\ pc # "write"
    BY <2>1 DEF LossInv
  <2> QED BY <2>1, <2>4, <2>5, <2>6, <2>7 DEF LossInv, Answered
<1> QED BY <1>1, <1>2

\* A save takes over what the working journal holds.
LEMMA SaveLoss == ASSUME JournalInv, LossInv, Save PROVE LossInv'
<1>1. CASE SaveOpen
  <2>1. /\ pc' = "write" /\ file' = <<>>
        /\ UNCHANGED <<who, sending, journal, recorded, newest, delivered>>
    BY <1>1 DEF SaveOpen, history
  <2>2. Len(file') = 0 /\ Len(file') <= recorded
    BY <2>1 DEF JournalInv, Copies
  <2>3. MarksDelivered(file', delivered) /\ \A k \in 1..Len(file') : FALSE
    BY <2>2 DEF MarksDelivered
  <2> QED BY <2>1, <2>2, <2>3 DEF LossInv, Answered
<1>2. CASE SaveWrite
  <2> DEFINE j == journal[who]
             w == newest'
  <2>1. /\ pc = "write" /\ pc' = next /\ file' = j
        /\ w = [i \in Items |-> Max(Saved(j, i, newest[i]))]
        /\ UNCHANGED <<who, sending, journal, recorded, delivered>>
    BY <1>2 DEF SaveWrite, Saved
  <2>2. /\ j \in Seq(Entry) /\ recorded \in Nat /\ WithinRecorded(j, recorded)
        /\ newest \in [Items -> Nat] /\ \A i \in Items : newest[i] <= recorded
        /\ MarksDelivered(j, delivered) /\ Len(j) <= recorded
        /\ pc' \in {"idle", "flush"}
    BY <2>1 DEF JournalInv, Copies, Journals, Good, LossInv
  <2>3. Same(j, journal["main"]) /\ Same(journal["main"], j)
    BY <2>1, WorkingReaches, SameProperties
  <2>4. Holds(j, newest, delivered)
    BY <2>3, SameHolds DEF LossInv
  <2> HIDE DEF j
  <2>5. ASSUME NEW i \in Items
        PROVE  /\ w[i] \in Nat
               /\ \A k \in 1..Len(j) : j[k].item = i => j[k].id <= w[i]
               /\ w[i] = newest[i] \/ \E k \in 1..Len(j) : j[k].item = i /\ j[k].id = w[i]
    <3>1. newest[i] \in Nat /\ w[i] = Max(Saved(j, i, newest[i]))
      BY <2>1, <2>2
    <3> HIDE DEF w
    <3> DEFINE x == Max(Saved(j, i, newest[i]))
    <3>2. /\ x \in Nat
          /\ \A k \in 1..Len(j) : j[k].item = i => j[k].id <= x
          /\ x = newest[i] \/ \E k \in 1..Len(j) : j[k].item = i /\ j[k].id = x
      BY <3>1, <2>2, NewestSaved
    <3> HIDE DEF x
    <3>3. w[i] = x
      BY <3>1 DEF x
    <3> QED BY <3>2, <3>3
  <2> HIDE DEF w
  <2>6. w \in [Items -> Nat]
    BY <2>1, <2>5
  <2>7. \A i \in Items : w[i] <= recorded
    BY <2>2, <2>5 DEF WithinRecorded
  <2>8. \A k \in 1..Len(j) : j[k].id <= w[j[k].item]
    BY <2>2, <2>5, EntryAt
  <2>9. Holds(j, w, delivered)
    <3> SUFFICES ASSUME NEW i \in Items, delivered[i] < w[i]
                 PROVE  \E k \in 1..Len(j) : j[k].item = i /\ w[i] <= j[k].id
      BY DEF Holds
    <3>1. CASE w[i] = newest[i]
      BY <3>1, <2>4 DEF Holds
    <3>2. CASE \E k \in 1..Len(j) : j[k].item = i /\ j[k].id = w[i]
      BY <3>2, <2>5
    <3> QED BY <3>1, <3>2, <2>5
  <2>10. Holds(journal["main"], w, delivered)
    BY <2>3, <2>9, SameHolds
  <2> QED BY <2>1, <2>2, <2>6, <2>7, <2>8, <2>9, <2>10 DEF LossInv, Answered, w
<1> QED BY <1>1, <1>2 DEF Save

\* What the server takes can be marked with all that is older.
LEMMA TakeLoss == ASSUME JournalInv, LossInv, ServerTakes PROVE LossInv'
<1> DEFINE j == journal[who]
<1>1. /\ pc = "request" /\ pc' = "reply" /\ delivered' = After(sending, delivered)
      /\ UNCHANGED <<who, sending, journal, file, recorded, newest>>
  BY DEF ServerTakes, diskVars, After
<1>2. /\ delivered \in [Items -> Nat] /\ delivered' \in [Items -> Nat]
      /\ \A i \in Items : delivered'[i] >= delivered[i]
  BY TakeStep DEF JournalInv, Copies
<1>3. ASSUME NEW g \in Seq(Entry), MarksDelivered(g, delivered)
      PROVE  MarksDelivered(g, delivered')
  <2> SUFFICES ASSUME NEW k \in 1..Len(g), g[k].synced
               PROVE  g[k].id <= delivered'[g[k].item]
    BY DEF MarksDelivered
  <2>1. g[k].item \in Items /\ g[k].id \in Nat
    BY EntryAt
  <2>2. g[k].id <= delivered[g[k].item]
    BY <1>3 DEF MarksDelivered
  <2> QED BY <2>1, <2>2, <1>2
<1>4. ASSUME NEW g, Holds(g, newest, delivered)
      PROVE  Holds(g, newest, delivered')
  <2>1. \A i \in Items : delivered'[i] < newest[i] => delivered[i] < newest[i]
    BY <1>2 DEF LossInv
  <2> QED BY <1>4, <2>1 DEF Holds
<1>5. Answered'
  <2> SUFFICES ASSUME NEW e \in sending, NEW k \in 1..Len(j), j[k].item = e.item
               PROVE  j[k].id <= delivered'[e.item]
    BY <1>1 DEF Answered
  <2>1. j \in Seq(Entry) /\ Ordered(j) /\ MarkedFirst(j) /\ sending \subseteq LatestEntries(j)
    BY <1>1 DEF JournalInv, Copies, Agree, Journals, Good
  <2> HIDE DEF j
  <2>2. PICK f \in sending : f.item = e.item /\ delivered'[e.item] = f.id
    <3>1. e.item \in Items
      BY <2>1, EntryAt
    <3> QED BY <1>1, <3>1 DEF After
  <2>3. PICK m \in 1..Len(j) : Latest(j, m) /\ f = j[m]
    BY <2>1, <2>2 DEF LatestEntries
  <2>4. k <= m
    BY <2>1, <2>2, <2>3, LatestIsNewest
  <2>5. j[k].id \in Nat /\ j[m].id \in Nat
    BY <2>1, EntryAt
  <2>6. k < m => j[k].id < j[m].id
    BY <2>1 DEF Ordered
  <2>7. j[k].id <= j[m].id
    BY <2>4, <2>5, <2>6
  <2> QED BY <2>2, <2>3, <2>7
<1>6. \A w \in {"main", "manual"} : MarksDelivered(journal[w], delivered')
  BY <1>3 DEF JournalInv, Copies, Journals, LossInv
<1>7. MarksDelivered(file, delivered')
  BY <1>3 DEF JournalInv, Copies, LossInv
<1>8. Holds(journal["main"], newest, delivered') /\ Holds(file, newest, delivered')
  BY <1>1, <1>4 DEF LossInv
<1> QED BY <1>1, <1>5, <1>6, <1>7, <1>8 DEF LossInv

\* The other steps of a flush.
LEMMA FlushLoss ==
  ASSUME JournalInv, LossInv, FlushCollect \/ FlushSucceeds \/ FlushFails
  PROVE  LossInv'
<1>1. CASE FlushCollect \/ FlushFails
  <2>1. /\ pc # "write" /\ pc' \in {"idle", "request"}
        /\ UNCHANGED <<who, journal, file, recorded, newest, delivered>>
    BY <1>1 DEF FlushCollect, FlushFails, diskVars, history
  <2> QED BY <2>1 DEF LossInv, Answered
<1>2. CASE FlushSucceeds
  <2> DEFINE j == journal[who]
             g == Marked(j)
  <2>1. /\ pc = "reply" /\ pc' = "save"
        /\ journal' = [journal EXCEPT ![who] = g]
        /\ UNCHANGED <<who, file, recorded, newest, delivered>>
    BY <1>2 DEF FlushSucceeds, history
  <2>2. /\ j \in Seq(Entry) /\ journal \in Journals /\ who \in {"main", "manual"}
        /\ MarksDelivered(j, delivered) /\ Len(j) <= recorded
    BY DEF JournalInv, Copies, Journals, LossInv
  <2>3. \A e \in sending : \A k \in 1..Len(j) :
          j[k].item = e.item => j[k].id <= delivered[e.item]
    BY <2>1 DEF LossInv, Answered
  <2>4. /\ Len(g) = Len(j)
        /\ \A k \in 1..Len(j) :
             /\ g[k].id = j[k].id /\ g[k].item = j[k].item
             /\ g[k].synced <=> (j[k].synced \/ \E e \in sending : e.item = j[k].item)
    BY <2>2, MarkedEntries
  <2> HIDE DEF g
  <2>5. MarksDelivered(g, delivered)
    <3> SUFFICES ASSUME NEW k \in 1..Len(j), g[k].synced
                 PROVE  j[k].id <= delivered[j[k].item]
      BY <2>4 DEF MarksDelivered
    <3>1. CASE j[k].synced
      BY <3>1, <2>2 DEF MarksDelivered
    <3>2. CASE \E e \in sending : e.item = j[k].item
      BY <3>2, <2>3
    <3> QED BY <3>1, <3>2, <2>4
  <2>6. \A w \in {"main", "manual"} : journal'[w] = IF w = who THEN g ELSE journal[w]
    BY <2>1, <2>2 DEF Journals
  <2>7. \A w \in {"main", "manual"} :
          MarksDelivered(journal'[w], delivered) /\ Len(journal'[w]) <= recorded
    BY <2>2, <2>4, <2>5, <2>6 DEF LossInv
  <2>8. Holds(journal'["main"], newest, delivered)
    <3>1. CASE who = "main"
      <4>1. Holds(j, newest, delivered)
        BY <3>1 DEF LossInv
      <4>2. Same(j, g)
        BY <2>4 DEF Same
      <4> QED BY <3>1, <4>1, <4>2, <2>6, SameHolds
    <3>2. CASE who # "main"
      BY <3>2, <2>6 DEF LossInv
    <3> QED BY <3>1, <3>2
  <2> QED BY <2>1, <2>7, <2>8 DEF LossInv, Answered
<1> QED BY <1>1, <1>2

\* The player, the timer, the manual sync, and what happens around them.
LEMMA OtherLoss ==
  ASSUME RoomForAll, "torn" \notin Faults, TypeInv, JournalInv, LossInv,
         Player \/ Timer \/ Manual \/ Advance \/ Device \/ Restart \/ UNCHANGED vars
  PROVE  LossInv'
<1>1. CASE TimerTick
  <2>1. playing \in Items /\ at \in Nat /\ clock \in Nat
    BY <1>1 DEF TimerTick, TypeInv
  <2> QED BY <1>1, <2>1, RecordLoss DEF TimerTick
<1>2. CASE StopPlaying
  <2>1. playing \in Items /\ at \in Nat /\ clock \in Nat
    BY <1>2 DEF StopPlaying, TypeInv
  <2>2. CASE at > STOP_MIN
    BY <1>2, <2>1, <2>2, RecordLoss DEF StopPlaying
  <2>3. CASE ~(at > STOP_MIN)
    <3>1. pc = "idle" /\ UNCHANGED <<pc, journal, file, recorded, newest, delivered>>
      BY <1>2, <2>3 DEF StopPlaying
    <3> QED BY <3>1 DEF LossInv, Answered
  <2> QED BY <2>2, <2>3
<1>3. CASE TimerTickIdle \/ \E item \in Items, online \in BOOLEAN : CompareItem(item, online)
  <2>1. /\ pc # "write" /\ pc' \in {"flush", "compare"}
        /\ UNCHANGED <<journal, file, recorded, newest, delivered>>
    BY <1>3 DEF TimerTickIdle, CompareItem, diskVars, history
  <2> QED BY <2>1 DEF LossInv, Answered
<1>4. CASE ManualSync
  <2>1. /\ pc = "idle" /\ pc' = "compare"
        /\ journal' = [journal EXCEPT !["manual"] = file]
        /\ UNCHANGED <<file, recorded, newest, delivered>>
    BY <1>4 DEF ManualSync, history
  <2>2. journal'["manual"] = file /\ journal'["main"] = journal["main"]
    BY <2>1 DEF JournalInv, Copies, Journals
  <2> QED BY <2>1, <2>2 DEF LossInv, Answered
<1>5. CASE \/ Advance \/ Device \/ UNCHANGED vars
           \/ \E pos \in Positions : Listen(pos)
           \/ \E item \in Items, online \in BOOLEAN, accept \in BOOLEAN :
                PlayItem(item, online, accept)
  <2>1. UNCHANGED <<pc, who, sending, journal, file, recorded, newest, delivered>>
    BY <1>5 DEF Advance, Device, OtherDevice, Listen, PlayItem, vars, opVars, diskVars, history
  <2> QED BY <2>1 DEF LossInv, Answered
<1>6. CASE Restart
  <2>1. /\ journal' = [w \in {"main", "manual"} |-> IF w = "main" THEN file ELSE <<>>]
        /\ pc # "write" /\ pc' = "idle" /\ UNCHANGED <<file, recorded, newest, delivered>>
    BY <1>6 DEF Restart, history
  <2>2. journal'["main"] = file /\ journal'["manual"] = <<>>
    BY <2>1
  <2>3. Len(<<>>) <= recorded /\ MarksDelivered(<<>>, delivered)
    BY DEF JournalInv, Copies, MarksDelivered
  <2> QED BY <2>1, <2>2, <2>3 DEF LossInv, Answered
<1> QED BY <1>1, <1>2, <1>3, <1>4, <1>5, <1>6 DEF Player, Timer, Manual

\* With a journal that has room for what is recorded, or for one item, and saves
\* that are not torn, no position recorded is lost: it is in the file and waits,
\* or the server has it, whatever requests, replies and restarts do.
THEOREM NothingIsLost ==
  ASSUME "tie" \notin Faults, "torn" \notin Faults, RoomForAll
  PROVE  Spec => []ProgressNotLost
<1> DEFINE Inv == TypeInv /\ JournalInv /\ LossInv
<1>1. Init => Inv
  <2> SUFFICES ASSUME Init PROVE Inv
    OBVIOUS
  <2>1. TypeInv /\ JournalInv
    BY InvInit
  <2>2. /\ journal["main"] = <<>> /\ journal["manual"] = <<>> /\ file = <<>>
        /\ Len(<<>>) = 0 /\ recorded = 0
    BY DEF Init
  <2>3. newest \in [Items -> Nat] /\ \A i \in Items : newest[i] = 0 /\ delivered[i] = 0
    BY DEF Init
  <2>4. MarksDelivered(<<>>, delivered) /\ Holds(<<>>, newest, delivered)
    BY <2>3 DEF MarksDelivered, Holds
  <2> QED BY <2>1, <2>2, <2>3, <2>4 DEF Init, LossInv, Answered
<1>2. Inv /\ [Next]_vars => Inv'
  <2> SUFFICES ASSUME Inv, [Next]_vars PROVE Inv'
    OBVIOUS
  <2>1. TypeInv' /\ JournalInv'
    BY InvStep
  <2>2. LossInv'
    BY SaveLoss, TakeLoss, FlushLoss, OtherLoss DEF Next, Flush
  <2> QED BY <2>1, <2>2
<1>3. Inv => ProgressNotLost
  <2> SUFFICES ASSUME Inv, NEW item \in Items, pc \notin {"save", "write"},
                      newest[item] > delivered[item]
               PROVE  \E i \in 1..Len(file) : file[i].id = newest[item] /\ ~file[i].synced
    BY DEF ProgressNotLost
  <2>1. delivered[item] \in Nat /\ newest[item] \in Nat
    BY DEF JournalInv, Copies, LossInv
  <2>2. PICK k \in 1..Len(file) : file[k].item = item /\ newest[item] <= file[k].id
    BY <2>1 DEF LossInv, Holds
  <2>3. file[k].id \in Nat /\ file[k].id <= newest[item]
    BY <2>2, EntryAt DEF JournalInv, Copies, LossInv
  <2>4. file[k].id = newest[item]
    BY <2>1, <2>2, <2>3
  <2>5. ~file[k].synced
    BY <2>1, <2>2, <2>4 DEF LossInv, MarksDelivered
  <2> QED BY <2>4, <2>5
<1> HIDE DEF Inv
<1> QED BY <1>1, <1>2, <1>3, PTL DEF Spec
=============================================================================
