--------------------------- MODULE ExHashmapProofs ---------------------------
(* For any numbers of threads, keys and buckets and any hash function:        *)
(* ts_ex_hashmap keeps one pair per key in the bucket of its hash, its sizes   *)
(* suffice for a rehash, its scans are complete, and it implements MapSpec.    *)
EXTENDS ExHashmap, SequenceTheorems, FiniteSetTheorems, WellFoundedInduction, TLAPS

Labels == {"idle", "enter", "bucket", "apply", "scan", "lock_all", "count", "move", "crashed"}
Results == Values \cup {NoValue, "none", "inserted", "present", "done", "threw"}

\* What threads keep for themselves has its type.
LocalsType ==
  /\ global \in [Threads -> Modes] /\ held \in [Threads -> Modes]
  /\ pc \in [Threads -> Labels]
  /\ call \in [Threads -> AllCalls \cup {NoCall}]
  /\ result \in [Threads -> Results]
  /\ place \in [Threads -> Nat] /\ found \in [Threads -> Nat]
  /\ out \in [Threads -> Seq(Keys)] /\ total \in [Threads -> Nat]
  /\ always \in [Threads -> SUBSET Keys] /\ ever \in [Threads -> SUBSET Keys]

\* A thread that is in a call has a call.
CallsFit ==
  \A t \in Threads :
    /\ pc[t] # "idle" => call[t] \in AllCalls
    /\ pc[t] \in {"bucket", "apply"} => call[t].op \in KeyOps
    /\ pc[t] = "scan" => call[t].op \in ScanOps

\* Who has which mutex, and how.
GlobalMode(label) ==
  IF label \in {"bucket", "apply", "scan", "crashed"} THEN "shared"
  ELSE IF label \in {"count", "move"} THEN "exclusive" ELSE "none"
MutexesHeld ==
  /\ \A t \in Threads :
       /\ global[t] = GlobalMode(pc[t])
       /\ held[t] = IF pc[t] = "apply" THEN BucketMode(call[t].op) ELSE "none"
  /\ \A t, u \in Threads : t # u /\ global[t] = "exclusive" => global[u] = "none"
  /\ \A t, u \in Threads : t # u /\ At(t, "apply") /\ At(u, "apply") /\ place[t] = place[u] =>
       held[t] = "shared"

\* A thread is in the bucket of its key, and knows where the key is in it; a scan is
\* not behind the last bucket by more than one.
AtTheirKeys ==
  \A t \in Threads :
    /\ pc[t] \in {"bucket", "apply"} =>
         Len(buckets) > 0 /\ place[t] = BucketFor(call[t].key, Len(buckets))
    /\ At(t, "apply") => found[t] = FindEntry(call[t].key, buckets[place[t]].data)
    /\ At(t, "scan") => place[t] \in 1..Len(buckets) + 1

\* The new buckets are there while pairs are moved, and large enough for all of them.
Rehashing ==
  /\ (\A t \in Threads : ~At(t, "move")) => tmp = <<>>
  /\ \A b \in DOMAIN tmp : tmp[b].size = Len(tmp[b].data)
  /\ \A t \in Threads : At(t, "move") =>
       /\ Len(tmp) = NewCount(Sizes(buckets))
       /\ Sizes(tmp) + Pairs(buckets) <= Sizes(buckets)

IInv ==
  /\ BucketsType(buckets) /\ BucketsType(tmp) /\ LocalsType
  /\ CallsFit /\ MutexesHeld /\ AtTheirKeys
  /\ OnePairPerKey /\ SizesSuffice /\ Rehashing

-----------------------------------------------------------------------------
(* Numbers and sums *)

Pair == [key : Keys, value : Values]
BucketType == [data : Seq(Pair), size : Nat]

\* bucket_for gives an index of the vector.
LEMMA BucketExists ==
  ASSUME NEW k \in Keys, NEW n \in Nat \ {0}
  PROVE  BucketFor(k, n) \in 1..n
BY HashAssumption DEF BucketFor

\* The units of amounts a: as many for each b as its amount.
LEMMA UnitsElements ==
  ASSUME NEW n \in Nat, NEW a \in [1..n -> Nat]
  PROVE  \A p : p \in Units(a) <=> \E b \in 1..n : \E i \in 1..a[b] : p = <<b, i>>
BY DEF Units

\* There are finitely many units, so that they have a number.
LEMMA UnitsFinite ==
  ASSUME NEW n \in Nat, NEW a \in [1..n -> Nat]
  PROVE  IsFiniteSet(Units(a)) /\ Cardinality(Units(a)) \in Nat
<1> DEFINE f == [b \in 1..n |-> {b} \X (1..a[b])]
           S == {{b} \X (1..a[b]) : b \in 1..n}
<1>1. f \in Surjection(1..n, S)
  BY DEF Surjection
<1>2. IsFiniteSet(S)
  BY <1>1, FS_Interval, FS_Surjection DEF ExistsSurjection
<1>3. ASSUME NEW b \in 1..n
      PROVE  IsFiniteSet({b} \X (1..a[b]))
  <2>1. IsFiniteSet({b})
    BY FS_Singleton
  <2>2. 1 \in Int /\ a[b] \in Int
    OBVIOUS
  <2>3. IsFiniteSet(1..a[b])
    BY ONLY <2>2, FS_Interval
  <2> QED BY <2>1, <2>3, FS_Product
<1>4. IsFiniteSet(UNION S)
  <2>1. \A T \in S : IsFiniteSet(T)
    BY <1>3
  <2> HIDE DEF S
  <2> QED BY <1>2, <2>1, FS_UNION
<1>5. Units(a) = UNION S
  BY DEF Units
<1> QED BY <1>4, <1>5, FS_CardinalityType

\* Smaller amounts have a smaller sum.
LEMMA SmallerSum ==
  ASSUME NEW n \in Nat, NEW a \in [1..n -> Nat], NEW c \in [1..n -> Nat],
         \A b \in 1..n : a[b] <= c[b]
  PROVE  Cardinality(Units(a)) <= Cardinality(Units(c))
<1>1. ASSUME NEW p \in Units(a)
      PROVE  p \in Units(c)
  <2>1. PICK b \in 1..n : \E i \in 1..a[b] : p = <<b, i>>
    BY UnitsElements
  <2>2. PICK i \in 1..a[b] : p = <<b, i>>
    BY <2>1
  <2>3. i \in 1..c[b]
    BY <2>2
  <2> QED BY <2>2, <2>3, UnitsElements
<1> QED BY <1>1, UnitsFinite, FS_Subset

\* Nothing sums to nothing.
LEMMA NoSum ==
  ASSUME NEW n \in Nat, NEW a \in [1..n -> Nat], \A b \in 1..n : a[b] = 0
  PROVE  Cardinality(Units(a)) = 0
<1>1. Units(a) = {}
  BY UnitsElements
<1> QED BY <1>1, FS_EmptySet

\* One amount larger by one makes the sum larger by one.
LEMMA SumPlusOne ==
  ASSUME NEW n \in Nat, NEW a \in [1..n -> Nat], NEW c \in [1..n -> Nat], NEW b \in 1..n,
         c[b] = a[b] + 1, \A d \in 1..n : d # b => c[d] = a[d]
  PROVE  Cardinality(Units(c)) = Cardinality(Units(a)) + 1
<1>0. /\ \A p : p \in Units(a) <=> \E d \in 1..n : \E i \in 1..a[d] : p = <<d, i>>
      /\ \A p : p \in Units(c) <=> \E d \in 1..n : \E i \in 1..c[d] : p = <<d, i>>
  BY UnitsElements
<1>1. Units(c) = Units(a) \cup {<<b, c[b]>>}
  <2>1. ASSUME NEW p \in Units(c)
        PROVE  p \in Units(a) \cup {<<b, c[b]>>}
    <3>1. PICK d \in 1..n : \E i \in 1..c[d] : p = <<d, i>>
      BY <1>0
    <3>2. PICK i \in 1..c[d] : p = <<d, i>>
      BY <3>1
    <3>3. CASE d = b /\ i = c[b]
      BY <3>2, <3>3
    <3>4. CASE ~(d = b /\ i = c[b])
      <4>1. i \in 1..a[d]
        BY <3>4
      <4> QED BY <4>1, <3>2, <1>0
    <3> QED BY <3>3, <3>4
  <2>2. ASSUME NEW p \in Units(a)
        PROVE  p \in Units(c)
    <3>1. PICK d \in 1..n : \E i \in 1..a[d] : p = <<d, i>>
      BY <1>0
    <3>2. PICK i \in 1..a[d] : p = <<d, i>>
      BY <3>1
    <3>3. i \in 1..c[d]
      BY <3>2
    <3> QED BY <3>3, <3>2, <1>0
  <2>3. <<b, c[b]>> \in Units(c)
    <3>1. c[b] \in 1..c[b] /\ <<b, c[b]>> = <<b, c[b]>>
      OBVIOUS
    <3>2. \E i \in 1..c[b] : <<b, c[b]>> = <<b, i>>
      BY <3>1
    <3>3. \E d \in 1..n : \E i \in 1..c[d] : <<b, c[b]>> = <<d, i>>
      BY <3>2
    <3> QED BY <3>3, <1>0
  <2> QED BY <2>1, <2>2, <2>3
<1>2. <<b, c[b]>> \notin Units(a)
  <2>1. \A d \in 1..n : \A i \in 1..a[d] : <<b, c[b]>> # <<d, i>>
    OBVIOUS
  <2> QED BY <2>1, <1>0
<1> QED BY <1>1, <1>2, UnitsFinite, FS_AddElement

\* Something sums to something.
LEMMA SomeSum ==
  ASSUME NEW n \in Nat, NEW a \in [1..n -> Nat], NEW b \in 1..n, a[b] > 0
  PROVE  Cardinality(Units(a)) > 0
<1>1. 1 \in 1..a[b]
  OBVIOUS
<1>2. <<b, 1>> \in Units(a)
  BY <1>1, UnitsElements
<1> QED BY <1>2, UnitsFinite, FS_EmptySet

\* ceil: enough for the load, and not nothing for something.
LEMMA Ceiling ==
  ASSUME NEW sz \in Nat
  PROVE  /\ NewCount(sz) \in Nat
         /\ sz * LoadDen <= LoadNum * NewCount(sz)
         /\ sz > 0 => NewCount(sz) > 0
<1> DEFINE a == sz * LoadDen + LoadNum - 1
<1>1. a \in Nat /\ LoadNum \in Nat \ {0} /\ sz * LoadDen \in Nat
  BY LoadAssumption
<1>2. a \div LoadNum \in Nat /\ a - LoadNum * (a \div LoadNum) \in 0..LoadNum - 1
  <2> HIDE DEF a
  <2> QED BY <1>1
<1>3. NewCount(sz) = a \div LoadNum
  BY DEF NewCount
<1>4. sz * LoadDen <= LoadNum * (a \div LoadNum)
  <2> DEFINE q == LoadNum * (a \div LoadNum)
             x == sz * LoadDen
  <2>1. q \in Int /\ x \in Nat /\ x + LoadNum - 1 - q \in 0..LoadNum - 1
    BY <1>1, <1>2
  <2> HIDE DEF q, x
  <2>2. x <= q
    BY <2>1, <1>1
  <2> QED BY <2>2 DEF q, x
<1>5. ASSUME sz > 0
      PROVE  a \div LoadNum > 0
  <2>1. sz * LoadDen > 0
    BY <1>5, LoadAssumption
  <2>2. SUFFICES ASSUME a \div LoadNum = 0 PROVE FALSE
    BY <1>2
  <2>3. LoadNum * (a \div LoadNum) = 0
    BY <2>2, <1>1
  <2> QED BY <2>1, <2>3, <1>4, <1>1
<1> QED BY <1>2, <1>3, <1>4, <1>5

-----------------------------------------------------------------------------
(* The list of a bucket *)

\* No key is in the list twice.
Once(data) == \A i, j \in DOMAIN data : data[i].key = data[j].key => i = j

\* The list of a bucket by its indexes.
LEMMA ListFacts ==
  ASSUME NEW data \in Seq(Pair)
  PROVE  /\ Len(data) \in Nat /\ DOMAIN data = 1..Len(data)
         /\ \A i \in 1..Len(data) : data[i] \in Pair /\ data[i].key \in Keys
         /\ \A k : k \in Keyed(data) <=> \E i \in 1..Len(data) : data[i].key = k
         /\ Keyed(data) \subseteq Keys
         /\ data # <<>> <=> Len(data) > 0
<1>1. Len(data) \in Nat /\ DOMAIN data = 1..Len(data)
  BY LenProperties
<1>2. \A i \in 1..Len(data) : data[i] \in Pair
  BY ElementOfSeq
<1>3. data # <<>> <=> Len(data) > 0
  BY EmptySeq, <1>1
<1> QED BY <1>1, <1>2, <1>3 DEF Pair, Keyed

\* find_entry finds a key that is there, and finds 0 for another.
LEMMA FoundEntry ==
  ASSUME NEW data \in Seq(Pair), NEW k
  PROVE  /\ k \in Keyed(data) <=> FindEntry(k, data) # 0
         /\ k \in Keyed(data) =>
              FindEntry(k, data) \in 1..Len(data) /\ data[FindEntry(k, data)].key = k
         /\ FindEntry(k, data) \in Nat
<1>1. CASE k \in Keyed(data)
  <2>1. \E i \in DOMAIN data : data[i].key = k
    BY <1>1, ListFacts
  <2>2. FindEntry(k, data) \in DOMAIN data /\ data[FindEntry(k, data)].key = k
    BY <1>1, <2>1 DEF FindEntry
  <2> QED BY <1>1, <2>2, ListFacts
<1>2. CASE k \notin Keyed(data)
  BY <1>2 DEF FindEntry
<1> QED BY <1>1, <1>2

\* A pair of a new key in front: what insert does to a list.
LEMMA PushedFront ==
  ASSUME NEW data \in Seq(Pair), NEW p \in Pair, Once(data), p.key \notin Keyed(data)
  PROVE  LET new == <<p>> \o data
         IN  /\ new \in Seq(Pair) /\ Len(new) = Len(data) + 1 /\ Once(new)
             /\ Keyed(new) = Keyed(data) \cup {p.key}
             /\ Range(new) = Range(data) \cup {p}
<1> DEFINE new == <<p>> \o data
<1>1. <<p>> \in Seq(Pair) /\ Len(<<p>>) = 1 /\ <<p>>[1] = p
  OBVIOUS
<1>2. /\ new \in Seq(Pair) /\ Len(new) = Len(data) + 1
      /\ \A i \in 1..Len(data) + 1 : new[i] = IF i = 1 THEN p ELSE data[i - 1]
  <2>1. /\ new \in Seq(Pair) /\ Len(new) = 1 + Len(data)
        /\ \A i \in 1..1 + Len(data) : new[i] = IF i <= 1 THEN <<p>>[i] ELSE data[i - 1]
    BY <1>1, ConcatProperties
  <2> HIDE DEF new
  <2>2. \A i \in 1..Len(data) + 1 : new[i] = IF i = 1 THEN p ELSE data[i - 1]
    BY <1>1, <2>1, ListFacts
  <2> QED BY <2>1, <2>2, ListFacts
<1> HIDE DEF new
<1>3. DOMAIN new = 1..Len(data) + 1 /\ DOMAIN data = 1..Len(data) /\ Len(data) \in Nat
  BY <1>2, ListFacts
<1>4. \A i \in 1..Len(data) : i + 1 \in 1..Len(data) + 1 /\ new[i + 1] = data[i]
  BY <1>2, <1>3
<1>5. \A i \in 1..Len(data) + 1 : i # 1 => i - 1 \in 1..Len(data) /\ new[i] = data[i - 1]
  BY <1>2, <1>3
<1>6. 1 \in 1..Len(data) + 1 /\ new[1] = p
  BY <1>2, <1>3
<1>7. Once(new)
  <2>1. SUFFICES ASSUME NEW i \in 1..Len(data) + 1, NEW j \in 1..Len(data) + 1,
                        new[i].key = new[j].key
                 PROVE  i = j
    BY <1>3 DEF Once
  <2>2. \A m \in 1..Len(data) : data[m].key # p.key
    BY <1>3 DEF Keyed
  <2>3. CASE i = 1 \/ j = 1
    BY <1>5, <1>6, <2>1, <2>2, <2>3
  <2>4. CASE i # 1 /\ j # 1
    <3>1. data[i - 1].key = data[j - 1].key /\ i - 1 \in DOMAIN data /\ j - 1 \in DOMAIN data
      BY <1>3, <1>5, <2>1, <2>4
    <3>2. i - 1 = j - 1
      BY <3>1 DEF Once
    <3> QED BY <3>2
  <2> QED BY <2>3, <2>4
<1>8. Range(new) = Range(data) \cup {p}
  BY SMTT(30), <1>3, <1>4, <1>5, <1>6 DEF Range
<1>9. Keyed(new) = Keyed(data) \cup {p.key}
  BY SMTT(30), <1>3, <1>4, <1>5, <1>6 DEF Keyed
<1> QED BY <1>2, <1>7, <1>8, <1>9 DEF new

\* A list without the entry at i, whose other entries are those of the longer one.
LEMMA OneLess ==
  ASSUME NEW data \in Seq(Pair), NEW new \in Seq(Pair), Once(data), NEW i \in 1..Len(data),
         Len(new) = Len(data) - 1,
         \A j \in 1..Len(data) - 1 : j < i => new[j] = data[j],
         \A j \in 1..Len(data) - 1 : i <= j => new[j] = data[j + 1]
  PROVE  /\ Once(new)
         /\ Keyed(new) = Keyed(data) \ {data[i].key}
         /\ Range(new) = Range(data) \ {data[i]}
<1>1. DOMAIN new = 1..Len(data) - 1 /\ DOMAIN data = 1..Len(data) /\ Len(data) \in Nat
  BY ListFacts
<1>2. Once(new)
  <2>1. SUFFICES ASSUME NEW j \in 1..Len(data) - 1, NEW m \in 1..Len(data) - 1,
                        new[j].key = new[m].key
                 PROVE  j = m
    BY <1>1 DEF Once
  <2> DEFINE old(x) == IF x < i THEN x ELSE x + 1
  <2>2. /\ old(j) \in 1..Len(data) /\ new[j] = data[old(j)]
        /\ old(m) \in 1..Len(data) /\ new[m] = data[old(m)]
    BY <1>1
  <2>3. old(j) = old(m)
    <3> HIDE DEF old
    <3> QED BY <1>1, <2>1, <2>2 DEF Once
  <2> QED BY <1>1, <2>3
<1>3. \A j \in 1..Len(data) - 1 : \E m \in 1..Len(data) : m # i /\ new[j] = data[m]
  <2>1. SUFFICES ASSUME NEW j \in 1..Len(data) - 1
                 PROVE  \E m \in 1..Len(data) : m # i /\ new[j] = data[m]
    OBVIOUS
  <2>2. CASE j < i
    BY <1>1, <2>2
  <2>3. CASE ~(j < i)
    BY <1>1, <2>3
  <2> QED BY <2>2, <2>3
<1>4. \A m \in 1..Len(data) : m # i => \E j \in 1..Len(data) - 1 : new[j] = data[m]
  <2>1. SUFFICES ASSUME NEW m \in 1..Len(data), m # i
                 PROVE  \E j \in 1..Len(data) - 1 : new[j] = data[m]
    OBVIOUS
  <2>2. CASE m < i
    BY <1>1, <2>2
  <2>3. CASE m > i
    <3>1. m - 1 \in 1..Len(data) - 1 /\ i <= m - 1 /\ (m - 1) + 1 = m
      BY <1>1, <2>3
    <3>2. new[m - 1] = data[m]
      BY <3>1
    <3> QED BY <3>1, <3>2
  <2> QED BY <1>1, <2>1, <2>2, <2>3
<1>5. \A m \in 1..Len(data) : m # i => data[m].key # data[i].key /\ data[m] # data[i]
  BY <1>1 DEF Once
<1>6. Keyed(new) = Keyed(data) \ {data[i].key}
  <2>1. /\ \A k : k \in Keyed(data) <=> \E m \in 1..Len(data) : data[m].key = k
        /\ \A k : k \in Keyed(new) <=> \E j \in 1..Len(data) - 1 : new[j].key = k
    BY ListFacts
  <2>2. ASSUME NEW k \in Keyed(new)
        PROVE  k \in Keyed(data) /\ k # data[i].key
    <3>1. PICK j \in 1..Len(data) - 1 : new[j].key = k
      BY <2>1
    <3>2. PICK m \in 1..Len(data) : m # i /\ new[j] = data[m]
      BY <1>3
    <3> QED BY <2>1, <3>1, <3>2, <1>5
  <2>3. ASSUME NEW k \in Keyed(data), k # data[i].key
        PROVE  k \in Keyed(new)
    <3>1. PICK m \in 1..Len(data) : data[m].key = k
      BY <2>1
    <3>2. m # i
      BY <3>1, <2>3
    <3>3. PICK j \in 1..Len(data) - 1 : new[j] = data[m]
      BY <3>2, <1>4
    <3> QED BY <2>1, <3>1, <3>3
  <2> QED BY <2>2, <2>3
<1>7. Range(new) = Range(data) \ {data[i]}
  <2>1. /\ \A p : p \in Range(data) <=> \E m \in 1..Len(data) : data[m] = p
        /\ \A p : p \in Range(new) <=> \E j \in 1..Len(data) - 1 : new[j] = p
    BY <1>1 DEF Range
  <2>2. ASSUME NEW p \in Range(new)
        PROVE  p \in Range(data) /\ p # data[i]
    <3>1. PICK j \in 1..Len(data) - 1 : new[j] = p
      BY <2>1
    <3>2. PICK m \in 1..Len(data) : m # i /\ new[j] = data[m]
      BY <1>3
    <3> QED BY <2>1, <3>1, <3>2, <1>5
  <2>3. ASSUME NEW p \in Range(data), p # data[i]
        PROVE  p \in Range(new)
    <3>1. PICK m \in 1..Len(data) : data[m] = p
      BY <2>1
    <3>2. m # i
      BY <3>1, <2>3
    <3>3. PICK j \in 1..Len(data) - 1 : new[j] = data[m]
      BY <3>2, <1>4
    <3> QED BY <2>1, <3>1, <3>3
  <2> QED BY <2>2, <2>3
<1> QED BY <1>2, <1>6, <1>7

\* erase_after takes one pair out.
LEMMA ErasedAt ==
  ASSUME NEW data \in Seq(Pair), Once(data), NEW i \in 1..Len(data)
  PROVE  LET new == RemoveAt(data, i)
         IN  /\ new \in Seq(Pair) /\ Len(new) = Len(data) - 1 /\ Once(new)
             /\ Keyed(new) = Keyed(data) \ {data[i].key}
             /\ Range(new) = Range(data) \ {data[i]}
<1> DEFINE new == RemoveAt(data, i)
           a == SubSeq(data, 1, i - 1)
           c == SubSeq(data, i + 1, Len(data))
<1>1. Len(data) \in Nat /\ \A j \in 1..Len(data) : data[j] \in Pair
  BY ListFacts
<1>2. /\ a \in Seq(Pair) /\ Len(a) = i - 1
      /\ \A j \in 1..i - 1 : a[j] = data[j]
  <2>1. 1 \in Int /\ i - 1 \in Int /\ \A j \in 1..i - 1 : data[j] \in Pair
    BY <1>1
  <2>2. /\ a \in Seq(Pair) /\ Len(a) = IF 1 <= i - 1 THEN i - 1 - 1 + 1 ELSE 0
        /\ \A j \in 1..i - 1 - 1 + 1 : a[j] = data[1 + j - 1]
    BY <2>1, SubSeqProperties
  <2> HIDE DEF a
  <2> QED BY <2>2, <1>1
<1>3. /\ c \in Seq(Pair) /\ Len(c) = Len(data) - i
      /\ \A j \in 1..Len(data) - i : c[j] = data[i + j]
  <2>1. i + 1 \in Int /\ Len(data) \in Int /\ \A j \in i + 1..Len(data) : data[j] \in Pair
    BY <1>1
  <2>2. /\ c \in Seq(Pair)
        /\ Len(c) = IF i + 1 <= Len(data) THEN Len(data) - (i + 1) + 1 ELSE 0
        /\ \A j \in 1..Len(data) - (i + 1) + 1 : c[j] = data[(i + 1) + j - 1]
    BY <2>1, SubSeqProperties
  <2> HIDE DEF c
  <2> QED BY <2>2, <1>1
<1> HIDE DEF a, c
<1>4. new = a \o c
  BY DEF new, a, c, RemoveAt
<1>5. /\ new \in Seq(Pair) /\ Len(new) = Len(a) + Len(c)
      /\ \A j \in 1..Len(a) + Len(c) : new[j] = IF j <= Len(a) THEN a[j] ELSE c[j - Len(a)]
  <2>1. a \in Seq(Pair) /\ c \in Seq(Pair)
    BY <1>2, <1>3
  <2> HIDE DEF new
  <2> QED BY <2>1, <1>4, ConcatProperties
<1> HIDE DEF new
<1>6. Len(new) = Len(data) - 1
  BY <1>1, <1>2, <1>3, <1>5
<1>7. \A j \in 1..Len(data) - 1 : new[j] = IF j < i THEN data[j] ELSE data[j + 1]
  <2>1. Len(a) + Len(c) = Len(data) - 1 /\ Len(a) = i - 1
    BY <1>1, <1>2, <1>3
  <2>2. SUFFICES ASSUME NEW j \in 1..Len(data) - 1
                 PROVE  new[j] = IF j < i THEN data[j] ELSE data[j + 1]
    OBVIOUS
  <2>3. new[j] = IF j <= i - 1 THEN a[j] ELSE c[j - (i - 1)]
    BY <1>5, <2>1
  <2>4. CASE j < i
    BY <1>1, <1>2, <2>3, <2>4
  <2>5. CASE ~(j < i)
    <3>1. j - (i - 1) \in 1..Len(data) - i /\ i + (j - (i - 1)) = j + 1 /\ ~(j <= i - 1)
      BY <1>1, <2>5
    <3>2. c[j - (i - 1)] = data[j + 1]
      BY <1>3, <3>1
    <3> QED BY <2>3, <2>5, <3>1, <3>2
  <2> QED BY <2>4, <2>5
<1>8. /\ Once(new) /\ Keyed(new) = Keyed(data) \ {data[i].key}
      /\ Range(new) = Range(data) \ {data[i]}
  <2>1. new \in Seq(Pair)
    BY <1>5
  <2>2. data \in Seq(Pair) /\ Once(data) /\ i \in 1..Len(data)
    OBVIOUS
  <2>3. /\ \A j \in 1..Len(data) - 1 : j < i => new[j] = data[j]
        /\ \A j \in 1..Len(data) - 1 : i <= j => new[j] = data[j + 1]
    BY <1>1, <1>7
  <2> QED BY ONLY <2>1, <2>2, <2>3, <1>6, OneLess
<1> QED BY <1>5, <1>6, <1>8 DEF new

\* pop_front takes the first pair out.
LEMMA TakenFirst ==
  ASSUME NEW data \in Seq(Pair), data # <<>>, Once(data)
  PROVE  LET new == Tail(data)
         IN  /\ Head(data) \in Pair /\ Head(data) \in Range(data)
             /\ Head(data).key \in Keyed(data)
             /\ new \in Seq(Pair) /\ Len(new) = Len(data) - 1 /\ Len(data) > 0 /\ Once(new)
             /\ Keyed(new) = Keyed(data) \ {Head(data).key}
             /\ Range(new) = Range(data) \ {Head(data)}
<1> DEFINE new == Tail(data)
<1>1. Len(data) \in Nat \ {0} /\ 1 \in 1..Len(data) /\ Head(data) = data[1]
      /\ DOMAIN data = 1..Len(data)
  BY ListFacts
<1>2. /\ Head(data) \in Pair /\ new \in Seq(Pair) /\ Len(new) = Len(data) - 1
      /\ \A j \in 1..Len(new) : new[j] = data[j + 1]
  BY HeadTailProperties
<1> HIDE DEF new
<1>3. /\ \A j \in 1..Len(data) - 1 : j < 1 => new[j] = data[j]
      /\ \A j \in 1..Len(data) - 1 : 1 <= j => new[j] = data[j + 1]
  BY <1>1, <1>2
<1>4. /\ Once(new) /\ Keyed(new) = Keyed(data) \ {data[1].key}
      /\ Range(new) = Range(data) \ {data[1]}
  BY <1>1, <1>2, <1>3, OneLess
<1>5. Head(data) \in Range(data) /\ Head(data).key \in Keyed(data)
  BY <1>1 DEF Range, Keyed
<1> QED BY <1>1, <1>2, <1>4, <1>5 DEF new

\* A pair assigned to another of its key.
LEMMA AssignedAt ==
  ASSUME NEW data \in Seq(Pair), Once(data), NEW i \in 1..Len(data),
         NEW p \in Pair, p.key = data[i].key
  PROVE  LET new == [data EXCEPT ![i] = p]
         IN  /\ new \in Seq(Pair) /\ Len(new) = Len(data) /\ Once(new)
             /\ Keyed(new) = Keyed(data)
             /\ Range(new) = (Range(data) \ {data[i]}) \cup {p}
<1> DEFINE new == [data EXCEPT ![i] = p]
<1>1. /\ new \in Seq(Pair) /\ Len(new) = Len(data)
      /\ \A j \in 1..Len(data) : new[j] = IF j = i THEN p ELSE data[j]
      /\ DOMAIN new = 1..Len(data) /\ DOMAIN data = 1..Len(data)
  BY ListFacts, ExceptSeq
<1> HIDE DEF new
<1>2. Once(new)
  BY <1>1 DEF Once
<1>3. Keyed(new) = Keyed(data)
  BY <1>1 DEF Keyed
<1>4. Range(new) = (Range(data) \ {data[i]}) \cup {p}
  <2>1. \A m \in 1..Len(data) : m # i => data[m] # data[i]
    BY <1>1 DEF Once
  <2> QED BY <1>1, <2>1 DEF Range
<1> QED BY <1>1, <1>2, <1>3, <1>4 DEF new

-----------------------------------------------------------------------------
(* Buckets *)

\* The vector of buckets by its indexes.
LEMMA BucketsFacts ==
  ASSUME NEW bs, BucketsType(bs)
  PROVE  /\ bs \in Seq(BucketType) /\ Len(bs) \in Nat /\ DOMAIN bs = 1..Len(bs)
         /\ \A b \in 1..Len(bs) :
              bs[b] \in BucketType /\ bs[b].data \in Seq(Pair) /\ bs[b].size \in Nat
         /\ \A k : k \in KeysIn(bs) <=> \E b \in 1..Len(bs) : k \in Keyed(bs[b].data)
         /\ KeysIn(bs) \subseteq Keys
<1>1. bs \in Seq(BucketType) /\ Len(bs) \in Nat /\ DOMAIN bs = 1..Len(bs)
  BY LenProperties DEF BucketsType, BucketType, Pair
<1>2. \A b \in 1..Len(bs) : bs[b] \in BucketType
  BY <1>1, ElementOfSeq
<1>3. \A b \in 1..Len(bs) : bs[b].data \in Seq(Pair) /\ bs[b].size \in Nat
  BY <1>2 DEF BucketType
<1>4. \A k : k \in KeysIn(bs) <=> \E b \in 1..Len(bs) : k \in Keyed(bs[b].data)
  BY <1>1 DEF KeysIn
<1>5. \A b \in 1..Len(bs) : Keyed(bs[b].data) \subseteq Keys
  BY <1>3, ListFacts
<1> QED BY <1>1, <1>2, <1>3, <1>4, <1>5

\* InPlace, one bucket at a time.
LEMMA InPlaceByBucket ==
  ASSUME NEW bs, BucketsType(bs)
  PROVE  InPlace(bs) <=>
           \A b \in 1..Len(bs) :
             Once(bs[b].data) /\ \A k \in Keyed(bs[b].data) : BucketFor(k, Len(bs)) = b
<1>1. DOMAIN bs = 1..Len(bs)
  BY BucketsFacts
<1> QED BY <1>1 DEF InPlace, Once, Keyed

\* Of the buckets bs the one at b becomes nb.
LEMMA OneBucketSet ==
  ASSUME NEW bs, BucketsType(bs), NEW b \in 1..Len(bs), NEW nb \in BucketType
  PROVE  LET new == [bs EXCEPT ![b] = nb]
         IN  /\ BucketsType(new) /\ Len(new) = Len(bs)
             /\ new[b] = nb /\ \A d \in 1..Len(bs) : d # b => new[d] = bs[d]
<1>1. bs \in Seq(BucketType)
  BY BucketsFacts
<1> QED BY <1>1, ExceptSeq DEF BucketsType, BucketType, Pair

\* A changed bucket that holds keys of its own, each once, leaves every key in its place.
LEMMA StaysInPlace ==
  ASSUME NEW bs, BucketsType(bs), InPlace(bs), NEW new, BucketsType(new), Len(new) = Len(bs),
         NEW b \in 1..Len(bs), \A d \in 1..Len(bs) : d # b => new[d] = bs[d],
         Once(new[b].data), \A k \in Keyed(new[b].data) : BucketFor(k, Len(bs)) = b
  PROVE  /\ InPlace(new)
         /\ KeysIn(new) = (KeysIn(bs) \ Keyed(bs[b].data)) \cup Keyed(new[b].data)
<1>1. /\ \A d \in 1..Len(bs) : Once(bs[d].data)
      /\ \A d \in 1..Len(bs) : \A k \in Keyed(bs[d].data) : BucketFor(k, Len(bs)) = d
  BY InPlaceByBucket
<1>2. /\ \A d \in 1..Len(bs) : Once(new[d].data)
      /\ \A d \in 1..Len(bs) : \A k \in Keyed(new[d].data) : BucketFor(k, Len(bs)) = d
  BY <1>1
<1>3. InPlace(new)
  BY <1>2, InPlaceByBucket
<1>4. /\ \A k : k \in KeysIn(bs) <=> \E d \in 1..Len(bs) : k \in Keyed(bs[d].data)
      /\ \A k : k \in KeysIn(new) <=> \E d \in 1..Len(bs) : k \in Keyed(new[d].data)
  BY BucketsFacts
<1>5. ASSUME NEW k \in KeysIn(new)
      PROVE  k \in (KeysIn(bs) \ Keyed(bs[b].data)) \cup Keyed(new[b].data)
  <2>1. PICK d \in 1..Len(bs) : k \in Keyed(new[d].data)
    BY <1>4
  <2>2. CASE d = b
    BY <2>1, <2>2
  <2>3. CASE d # b
    <3>1. k \in Keyed(bs[d].data) /\ BucketFor(k, Len(bs)) = d
      BY <1>1, <2>1, <2>3
    <3>2. k \notin Keyed(bs[b].data)
      BY <3>1, <1>1, <2>3
    <3> QED BY <3>1, <3>2, <1>4
  <2> QED BY <2>2, <2>3
<1>6. ASSUME NEW k \in (KeysIn(bs) \ Keyed(bs[b].data)) \cup Keyed(new[b].data)
      PROVE  k \in KeysIn(new)
  <2>1. CASE k \in Keyed(new[b].data)
    BY <1>4, <2>1
  <2>2. CASE k \in KeysIn(bs) \ Keyed(bs[b].data)
    <3>1. PICK d \in 1..Len(bs) : k \in Keyed(bs[d].data)
      BY <1>4, <2>2
    <3>2. d # b
      BY <3>1, <2>2
    <3> QED BY <1>4, <3>1, <3>2
  <2> QED BY <1>6, <2>1, <2>2
<1> QED BY <1>3, <1>5, <1>6

\* A new vector of buckets.
LEMMA EmptyBuckets ==
  ASSUME NEW n \in Nat
  PROVE  LET bs == [b \in 1..n |-> Empty]
         IN  /\ BucketsType(bs) /\ Len(bs) = n /\ InPlace(bs) /\ KeysIn(bs) = {}
             /\ \A b \in 1..n : bs[b].size = 0 /\ Len(bs[b].data) = 0 /\ bs[b].data = <<>>
<1> DEFINE bs == [b \in 1..n |-> Empty]
<1>1. Empty \in BucketType /\ Empty.data = <<>> /\ Empty.size = 0
  BY DEF Empty, BucketType
<1>2. bs \in Seq(BucketType) /\ Len(bs) = n /\ \A b \in 1..n : bs[b] = Empty
  BY <1>1
<1> HIDE DEF bs
<1>3. BucketsType(bs)
  BY <1>2 DEF BucketsType, BucketType, Pair
<1>4. \A b \in 1..n : Keyed(bs[b].data) = {} /\ Once(bs[b].data) /\ Len(bs[b].data) = 0
  BY <1>1, <1>2 DEF Keyed, Once
<1>5. InPlace(bs)
  BY <1>2, <1>3, <1>4, InPlaceByBucket
<1>6. KeysIn(bs) = {}
  BY <1>2, <1>3, <1>4, BucketsFacts
<1> QED BY <1>1, <1>2, <1>3, <1>4, <1>5, <1>6 DEF bs

\* A moved pair comes from the first bucket that has one.
LEMMA FirstFilledExists ==
  ASSUME BucketsType(buckets), Filled # {}
  PROVE  /\ FirstFilled \in 1..Len(buckets) /\ buckets[FirstFilled].data # <<>>
         /\ \A c \in Filled : FirstFilled <= c
<1>1. DOMAIN buckets = 1..Len(buckets) /\ Len(buckets) \in Nat
  BY BucketsFacts
<1> DEFINE Above == {p \in Nat \X Nat : p[1] < p[2]}
<1>2. IsWellFoundedOn(Above, Nat)
  <2>1. OpToRel(<, Nat) = Above
    BY DEF OpToRel
  <2> QED BY <2>1, NatLessThanWellFounded
<1>3. Filled \subseteq Nat
  BY <1>1 DEF Filled
<1>4. \E b \in Filled : \A c \in Filled : b <= c
  <2>1. PICK b \in Filled : \A c \in Filled : ~(<<c, b>> \in Above)
    <3> HIDE DEF Above
    <3> QED BY <1>2, <1>3, WFMin
  <2>2. ASSUME NEW c \in Filled
        PROVE  b <= c
    <3>1. b \in Nat /\ c \in Nat /\ <<c, b>> \notin Above
      BY <1>3, <2>1
    <3>2. ~(c < b)
      BY <3>1
    <3> QED BY <3>1, <3>2
  <2> QED BY <2>2
<1>5. FirstFilled \in Filled /\ \A c \in Filled : FirstFilled <= c
  BY <1>4 DEF FirstFilled
<1> QED BY <1>1, <1>5 DEF Filled

\* A call is of one kind, and has what its kind needs.
LEMMA CallsKnown ==
  ASSUME NEW c \in AllCalls
  PROVE  /\ c.op \in KeyOps \cup ScanOps \cup {"rehash"}
         /\ c.op \in KeyOps => c.key \in Keys
         /\ c.op \in WritingOps => c.value \in Values
BY OpsAssumption DEF AllCalls, CallsOf, Call, WritingOps, KeyOps, ScanOps

-----------------------------------------------------------------------------
(* Every step preserves the invariant *)

\* The invariant implies the type invariant.
LEMMA TypeParts ==
  ASSUME IInv
  PROVE  TypeOK
<1>1. ASSUME NEW t \in Threads, pc[t] \in {"bucket", "apply"}
      PROVE  place[t] \in DOMAIN buckets
  <2>1. call[t] \in AllCalls /\ call[t].op \in KeyOps
    BY <1>1 DEF IInv, CallsFit
  <2>2. call[t].key \in Keys
    BY <2>1, CallsKnown
  <2>3. Len(buckets) \in Nat /\ DOMAIN buckets = 1..Len(buckets)
    BY BucketsFacts DEF IInv
  <2>4. Len(buckets) > 0 /\ place[t] = BucketFor(call[t].key, Len(buckets))
    BY <1>1 DEF IInv, AtTheirKeys
  <2> QED BY <2>2, <2>3, <2>4, BucketExists
<1> QED BY <1>1 DEF IInv, TypeOK, LocalsType, Labels, Results

\* A call that returns leaves everything of the thread in its type.
LEMMA ReturnType ==
  ASSUME LocalsType, NEW t \in Threads, NEW r \in Results, Return(t, r),
         always' \in [Threads -> SUBSET Keys], ever' \in [Threads -> SUBSET Keys]
  PROVE  LocalsType'
BY EmptySeq DEF LocalsType, Return, GoTo, Modes, Labels

\* What a return leaves behind.
LEMMA ReturnEffect ==
  ASSUME LocalsType, NEW t \in Threads, NEW r, Return(t, r)
  PROVE  /\ pc' = [pc EXCEPT ![t] = "idle"] /\ global' = [global EXCEPT ![t] = "none"]
         /\ held' = [held EXCEPT ![t] = "none"] /\ call' = call
         /\ place' = [place EXCEPT ![t] = 0] /\ found' = [found EXCEPT ![t] = 0]
BY DEF Return, GoTo

\* A return keeps who has which mutex right.
LEMMA ReturnKeepsCallsAndMutexes ==
  ASSUME LocalsType, CallsFit, MutexesHeld, NEW t \in Threads, NEW r, Return(t, r)
  PROVE  CallsFit' /\ MutexesHeld'
<1>1. /\ pc' = [pc EXCEPT ![t] = "idle"] /\ global' = [global EXCEPT ![t] = "none"]
      /\ held' = [held EXCEPT ![t] = "none"] /\ call' = call
      /\ place' = [place EXCEPT ![t] = 0]
  BY ReturnEffect
<1>2. CallsFit'
  BY <1>1 DEF IInv, CallsFit, LocalsType
<1>3. MutexesHeld'
  BY <1>1 DEF MutexesHeld, GlobalMode, LocalsType, At, Modes
<1> QED BY <1>2, <1>3

\* With the same buckets, the threads that are still in theirs know as much.
LEMMA SameBucketsSameKeys ==
  ASSUME AtTheirKeys, buckets' = buckets, NEW t \in Threads,
         \A u \in Threads \ {t} : pc'[u] = pc[u] /\ call'[u] = call[u]
                                  /\ place'[u] = place[u] /\ found'[u] = found[u],
         pc'[t] \notin {"bucket", "apply", "scan"}
  PROVE  AtTheirKeys'
BY DEF AtTheirKeys, At

\* Nothing happens to the pairs.
LEMMA SharedUnchanged ==
  ASSUME OnePairPerKey, SizesSuffice, Rehashing, shared' = shared,
         \A u \in Threads : pc'[u] = "move" <=> pc[u] = "move"
  PROVE  OnePairPerKey' /\ SizesSuffice' /\ Rehashing'
<1>1. buckets' = buckets /\ tmp' = tmp
  BY DEF shared
<1>2. OnePairPerKey'
  BY <1>1 DEF OnePairPerKey
<1>3. SizesSuffice'
  BY <1>1 DEF SizesSuffice, Filled, At
<1>4. Rehashing'
  BY <1>1 DEF Rehashing, Sizes, Pairs, Units, At
<1> QED BY <1>2, <1>3, <1>4

\* A call that returns without a change of the map.
LEMMA QuietReturn ==
  ASSUME IInv, NEW t \in Threads, NEW r \in Results, Return(t, r), shared' = shared,
         always' \in [Threads -> SUBSET Keys], ever' \in [Threads -> SUBSET Keys],
         pc[t] # "move"
  PROVE  IInv'
<1>1. LocalsType /\ BucketsType(buckets) /\ BucketsType(tmp)
  BY DEF IInv
<1>2. buckets' = buckets /\ tmp' = tmp
  BY DEF shared
<1>3. LocalsType' /\ CallsFit' /\ MutexesHeld'
  BY <1>1, ReturnType, ReturnKeepsCallsAndMutexes DEF IInv
<1>4. /\ pc' = [pc EXCEPT ![t] = "idle"] /\ call' = call
      /\ place' = [place EXCEPT ![t] = 0] /\ found' = [found EXCEPT ![t] = 0]
  BY <1>1, ReturnEffect
<1>5. AtTheirKeys'
  BY <1>1, <1>2, <1>4, SameBucketsSameKeys DEF IInv, LocalsType
<1>6. OnePairPerKey' /\ SizesSuffice' /\ Rehashing'
  <2>1. \A u \in Threads : pc'[u] = "move" <=> pc[u] = "move"
    BY <1>1, <1>4 DEF LocalsType
  <2> QED BY <2>1, SharedUnchanged DEF IInv
<1>7. BucketsType(buckets)' /\ BucketsType(tmp)'
  BY <1>1, <1>2
<1> QED BY <1>3, <1>5, <1>6, <1>7 DEF IInv

\* A call begins: nothing is taken yet.
LEMMA BeginKeeps ==
  ASSUME IInv, NEW t \in Threads, Begin(t)
  PROVE  IInv'
<1> USE DEF IInv
<1>1. PICK c \in CallsOf(Ops[t]) :
        /\ call' = [call EXCEPT ![t] = c]
        /\ pc' = [pc EXCEPT ![t] = IF c.op = "rehash" THEN "lock_all" ELSE "enter"]
  BY DEF Begin, GoTo
<1>2. pc[t] = "idle" /\ result' = [result EXCEPT ![t] = "none"]
      /\ UNCHANGED <<buckets, tmp, global, held, place, found, out, total, always, ever>>
  BY DEF Begin, At, shared, scanning
<1>3. c \in AllCalls
  BY DEF AllCalls
<1>4. LocalsType'
  BY <1>1, <1>2, <1>3 DEF LocalsType, Labels, Results
<1>5. CallsFit'
  BY <1>1, <1>2, <1>3 DEF CallsFit, LocalsType
<1>6. MutexesHeld'
  BY <1>1, <1>2 DEF MutexesHeld, GlobalMode, LocalsType, At, Modes
<1>7. AtTheirKeys'
  BY <1>1, <1>2, SameBucketsSameKeys DEF LocalsType
<1>8. OnePairPerKey' /\ SizesSuffice' /\ Rehashing'
  <2>1. \A u \in Threads : pc'[u] = "move" <=> pc[u] = "move"
    BY <1>1, <1>2 DEF LocalsType
  <2> QED BY <1>2, <2>1, SharedUnchanged DEF shared
<1> QED BY <1>2, <1>4, <1>5, <1>6, <1>7, <1>8

\* m_mut is taken shared: nobody has it exclusive, so that bucket_for's answer will last.
LEMMA EnterKeeps ==
  ASSUME IInv, NEW t \in Threads, Enter(t)
  PROVE  IInv'
<1> USE DEF IInv
<1>1. /\ pc[t] = "enter" /\ CanTake("shared", global, Threads \ {t})
      /\ global' = [global EXCEPT ![t] = "shared"]
      /\ UNCHANGED <<buckets, tmp, held, call, result, found, out, total>>
  BY DEF Enter, At, shared
<1>2. PICK label \in {"bucket", "crashed", "scan"}, p \in Nat :
        /\ pc' = [pc EXCEPT ![t] = label] /\ place' = [place EXCEPT ![t] = p]
        /\ label = "bucket" =>
             /\ call[t].op \in KeyOps /\ Len(buckets) > 0
             /\ p = BucketFor(call[t].key, Len(buckets))
        /\ label = "scan" => call[t].op \in ScanOps /\ p = 1
  <2>1. CASE /\ call[t].op \in KeyOps /\ Len(buckets) > 0
             /\ place' = [place EXCEPT ![t] = BucketFor(call[t].key, Len(buckets))]
             /\ GoTo(t, "bucket")
    <3>1. call[t].key \in Keys
      BY <1>1, <2>1, CallsKnown DEF CallsFit
    <3>2. BucketFor(call[t].key, Len(buckets)) \in Nat
      BY <3>1, <2>1, BucketsFacts, BucketExists
    <3> QED BY <2>1, <3>2 DEF GoTo
  <2>2. CASE GoTo(t, "crashed") /\ UNCHANGED place
    <3>1. place' = [place EXCEPT ![t] = place[t]] /\ place[t] \in Nat
      BY <2>2 DEF LocalsType
    <3> QED BY <2>2, <3>1 DEF GoTo
  <2>3. CASE /\ call[t].op \in ScanOps /\ place' = [place EXCEPT ![t] = 1] /\ GoTo(t, "scan")
    BY <2>3 DEF GoTo
  <2> QED BY <2>1, <2>2, <2>3 DEF Enter
<1>3. always' \in [Threads -> SUBSET Keys] /\ ever' \in [Threads -> SUBSET Keys]
  <2>1. Present \subseteq Keys
    BY BucketsFacts DEF Present
  <2> QED BY <2>1 DEF Enter, LocalsType
<1>4. LocalsType'
  BY <1>1, <1>2, <1>3 DEF LocalsType, Labels, Modes
<1>5. CallsFit'
  BY <1>1, <1>2 DEF CallsFit, LocalsType
<1>6. MutexesHeld'
  <2>1. \A u \in Threads \ {t} : global[u] # "exclusive"
    BY <1>1 DEF CanTake
  <2> QED BY <1>1, <1>2, <2>1 DEF MutexesHeld, GlobalMode, LocalsType, At, Modes
<1>7. AtTheirKeys'
  <2>1. Len(buckets) \in Nat
    BY BucketsFacts
  <2> QED BY <1>1, <1>2, <2>1 DEF AtTheirKeys, LocalsType, At
<1>8. OnePairPerKey' /\ SizesSuffice' /\ Rehashing'
  <2>1. \A u \in Threads : pc'[u] = "move" <=> pc[u] = "move"
    BY <1>1, <1>2 DEF LocalsType
  <2> QED BY <1>1, <2>1, SharedUnchanged DEF shared
<1> QED BY <1>1, <1>4, <1>5, <1>6, <1>7, <1>8

\* A bucket's mutex is taken: a writer is alone at it, so that what was found will last.
LEMMA LockBucketKeeps ==
  ASSUME IInv, NEW t \in Threads, LockBucket(t)
  PROVE  IInv'
<1> USE DEF IInv
<1> DEFINE mode == BucketMode(call[t].op)
<1>1. /\ pc[t] = "bucket" /\ CanTake(mode, held, {u \in Threads : place[u] = place[t]})
      /\ held' = [held EXCEPT ![t] = mode]
      /\ found' = [found EXCEPT ![t] = FindEntry(call[t].key, buckets[place[t]].data)]
      /\ pc' = [pc EXCEPT ![t] = "apply"]
      /\ UNCHANGED <<buckets, tmp, global, call, result, place, out, total, always, ever>>
  BY DEF LockBucket, At, GoTo, shared, scanning
<1>2. mode \in {"shared", "exclusive"}
  BY DEF BucketMode
<1>3. FindEntry(call[t].key, buckets[place[t]].data) \in Nat
  <2>1. call[t].key \in Keys /\ Len(buckets) > 0
        /\ place[t] = BucketFor(call[t].key, Len(buckets))
    BY <1>1, CallsKnown DEF CallsFit, AtTheirKeys
  <2>2. place[t] \in 1..Len(buckets)
    BY <2>1, BucketsFacts, BucketExists
  <2> QED BY <2>2, BucketsFacts, FoundEntry
<1>4. LocalsType'
  BY <1>1, <1>2, <1>3 DEF LocalsType, Labels, Modes
<1>5. CallsFit'
  BY <1>1 DEF CallsFit, LocalsType
<1>6. MutexesHeld'
  <2>1. ASSUME NEW u \in Threads, u # t, pc[u] = "apply", place[u] = place[t]
        PROVE  mode = "shared" /\ held[u] = "shared"
    BY <1>1, <1>2, <2>1 DEF CanTake, MutexesHeld, BucketMode
  <2> HIDE DEF mode
  <2>2. held' = [held EXCEPT ![t] = mode] /\ mode = BucketMode(call[t].op)
    BY <1>1 DEF mode
  <2>3. \A u, w \in Threads : u # w /\ At(u, "apply")' /\ At(w, "apply")' /\ place'[u] = place'[w] =>
          held'[u] = "shared"
    BY <1>1, <2>1, <2>2 DEF MutexesHeld, LocalsType, At
  <2>4. \A u \in Threads :
          held'[u] = IF pc'[u] = "apply" THEN BucketMode(call'[u].op) ELSE "none"
    BY <1>1, <2>2 DEF MutexesHeld, LocalsType
  <2> QED BY <1>1, <2>3, <2>4 DEF MutexesHeld, GlobalMode, LocalsType
<1>7. AtTheirKeys'
  BY <1>1 DEF AtTheirKeys, LocalsType, At
<1>8. OnePairPerKey' /\ SizesSuffice' /\ Rehashing'
  <2>1. \A u \in Threads : pc'[u] = "move" <=> pc[u] = "move"
    BY <1>1 DEF LocalsType
  <2> QED BY <1>1, <2>1, SharedUnchanged DEF shared
<1> QED BY <1>1, <1>4, <1>5, <1>6, <1>7, <1>8

\* rehash takes m_mut: nobody is inside.
LEMMA LockAllKeeps ==
  ASSUME IInv, NEW t \in Threads, LockAll(t)
  PROVE  IInv'
<1> USE DEF IInv
<1>1. /\ pc[t] = "lock_all" /\ \A u \in Threads \ {t} : global[u] = "none"
      /\ global' = [global EXCEPT ![t] = "exclusive"] /\ pc' = [pc EXCEPT ![t] = "count"]
      /\ UNCHANGED <<buckets, tmp, held, call, result, place, found, out, total, always, ever>>
  BY DEF LockAll, At, GoTo, shared, scanning, RehashMode, CanTake
<1>2. LocalsType'
  BY <1>1 DEF LocalsType, Labels, Modes
<1>3. CallsFit'
  BY <1>1 DEF CallsFit, LocalsType
<1>4. MutexesHeld'
  BY <1>1 DEF MutexesHeld, GlobalMode, LocalsType, At
<1>5. AtTheirKeys'
  BY <1>1, SameBucketsSameKeys DEF LocalsType
<1>6. OnePairPerKey' /\ SizesSuffice' /\ Rehashing'
  <2>1. \A u \in Threads : pc'[u] = "move" <=> pc[u] = "move"
    BY <1>1 DEF LocalsType
  <2> QED BY <1>1, <2>1, SharedUnchanged DEF shared
<1> QED BY <1>1, <1>2, <1>3, <1>4, <1>5, <1>6

\* A visit reads the bucket that is next and goes on to the one behind it.
KeysOf(data) == [i \in DOMAIN data |-> data[i].key]

\* What a step over one bucket does.
LEMMA VisitEffect ==
  ASSUME IInv, NEW t \in Threads, Visit(t)
  PROVE  /\ pc[t] = "scan" /\ place[t] \in 1..Len(buckets) /\ Len(buckets) \in Nat
         /\ place' = [place EXCEPT ![t] = place[t] + 1]
         /\ KeysOf(buckets[place[t]].data) \in Seq(Keys)
         /\ out' = IF call[t].op = "copy"
                   THEN [out EXCEPT ![t] = out[t] \o KeysOf(buckets[place[t]].data)] ELSE out
         /\ total' = IF call[t].op = "copy"
                     THEN [total EXCEPT ![t] = 0]
                     ELSE [total EXCEPT ![t] = total[t] + buckets[place[t]].size]
         /\ UNCHANGED <<buckets, tmp, global, held, pc, call, result, found, always, ever>>
<1>1. pc[t] = "scan" /\ ~(place[t] > Len(buckets)) /\ place' = [place EXCEPT ![t] = place[t] + 1]
  BY DEF Visit, At, VisitedAll
<1>2. Len(buckets) \in Nat /\ place[t] \in 1..Len(buckets)
  BY <1>1, BucketsFacts DEF IInv, AtTheirKeys, At
<1>3. KeysOf(buckets[place[t]].data) \in Seq(Keys)
  <2> DEFINE data == buckets[place[t]].data
  <2>1. Len(data) \in Nat /\ DOMAIN data = 1..Len(data) /\ \A i \in 1..Len(data) : data[i].key \in Keys
    BY <1>2, BucketsFacts, ListFacts DEF IInv
  <2> QED BY <2>1 DEF KeysOf
<1>4. /\ out' = [out EXCEPT ![t] = IF call[t].op = "copy"
                                  THEN out[t] \o KeysOf(buckets[place[t]].data) ELSE out[t]]
      /\ total' = [total EXCEPT ![t] = IF call[t].op = "copy" THEN 0
                                      ELSE total[t] + buckets[place[t]].size]
      /\ UNCHANGED <<buckets, tmp, global, held, pc, call, result, found, always, ever>>
  BY DEF Visit, KeysOf, shared
<1>5. out = [out EXCEPT ![t] = out[t]]
  BY DEF IInv, LocalsType
<1> QED BY <1>1, <1>2, <1>3, <1>4, <1>5

\* A scan steps over one bucket.
LEMMA VisitKeeps ==
  ASSUME IInv, NEW t \in Threads, Visit(t)
  PROVE  IInv'
<1> USE DEF IInv
<1>1. /\ pc[t] = "scan" /\ place' = [place EXCEPT ![t] = place[t] + 1]
      /\ place[t] \in 1..Len(buckets) /\ Len(buckets) \in Nat
      /\ UNCHANGED <<buckets, tmp, global, held, pc, call, result, found, always, ever>>
  BY VisitEffect
<1>2. out' \in [Threads -> Seq(Keys)]
  <2>1. CASE call[t].op = "copy"
    <3>1. out[t] \in Seq(Keys) /\ KeysOf(buckets[place[t]].data) \in Seq(Keys)
      BY VisitEffect DEF LocalsType
    <3>2. out[t] \o KeysOf(buckets[place[t]].data) \in Seq(Keys)
      BY <3>1, ConcatProperties
    <3>3. out' = [out EXCEPT ![t] = out[t] \o KeysOf(buckets[place[t]].data)]
      BY <2>1, VisitEffect
    <3> QED BY <3>2, <3>3 DEF LocalsType
  <2>2. CASE call[t].op # "copy"
    BY <2>2, VisitEffect DEF LocalsType
  <2> QED BY <2>1, <2>2
<1>3. total' \in [Threads -> Nat]
  <2>1. buckets[place[t]].size \in Nat
    BY <1>1, BucketsFacts
  <2>2. total' = IF call[t].op = "copy"
                THEN [total EXCEPT ![t] = 0]
                ELSE [total EXCEPT ![t] = total[t] + buckets[place[t]].size]
    BY VisitEffect
  <2>3. 0 \in Nat /\ total[t] + buckets[place[t]].size \in Nat
    BY <2>1 DEF LocalsType
  <2> QED BY <2>2, <2>3 DEF LocalsType
<1>4. LocalsType'
  <2>1. place' \in [Threads -> Nat]
    BY <1>1 DEF LocalsType
  <2> QED BY <1>1, <1>2, <1>3, <2>1 DEF LocalsType
<1>5. CallsFit'
  BY <1>1 DEF CallsFit
<1>6. MutexesHeld'
  BY <1>1 DEF MutexesHeld, LocalsType, At
<1>7. AtTheirKeys'
  BY <1>1 DEF AtTheirKeys, LocalsType, At
<1>8. OnePairPerKey' /\ SizesSuffice' /\ Rehashing'
  BY <1>1, SharedUnchanged DEF shared
<1> QED BY <1>1, <1>4, <1>5, <1>6, <1>7, <1>8

\* A scan returns what it has collected.
LEMMA ReportKeeps ==
  ASSUME IInv, NEW t \in Threads, Report(t)
  PROVE  IInv'
<1> USE DEF IInv
<1>1. /\ pc[t] = "scan" /\ shared' = shared
      /\ always' \in [Threads -> SUBSET Keys] /\ ever' \in [Threads -> SUBSET Keys]
  BY DEF Report, At, LocalsType
<1>2. CASE Return(t, "done")
  BY <1>1, <1>2, QuietReturn DEF Results
<1>3. CASE /\ pc' = [pc EXCEPT ![t] = "lock_all"] /\ global' = [global EXCEPT ![t] = "none"]
           /\ place' = [place EXCEPT ![t] = 0] /\ total' = [total EXCEPT ![t] = 0]
           /\ UNCHANGED <<held, call, result, found, out>>
  <2>1. buckets' = buckets /\ tmp' = tmp
    BY <1>1 DEF shared
  <2>2. LocalsType'
    BY <1>1, <1>3 DEF LocalsType, Labels, Modes
  <2>3. CallsFit'
    BY <1>1, <1>3 DEF CallsFit, LocalsType
  <2>4. MutexesHeld'
    BY <1>1, <1>3 DEF MutexesHeld, GlobalMode, LocalsType, At
  <2>5. AtTheirKeys'
    BY <1>1, <1>3, <2>1, SameBucketsSameKeys DEF LocalsType
  <2>6. OnePairPerKey' /\ SizesSuffice' /\ Rehashing'
    <3>1. \A u \in Threads : pc'[u] = "move" <=> pc[u] = "move"
      BY <1>1, <1>3 DEF LocalsType
    <3> QED BY <1>1, <3>1, SharedUnchanged
  <2> QED BY <2>1, <2>2, <2>3, <2>4, <2>5, <2>6
<1> QED BY <1>2, <1>3 DEF Report, GoTo

-----------------------------------------------------------------------------
(* Steps in a bucket *)

\* While a thread is inside with a bucket no rehash is under way.
LEMMA NobodyMoves ==
  ASSUME IInv, NEW t \in Threads, pc[t] \in {"bucket", "apply", "scan", "count"}
  PROVE  /\ \A u \in Threads : pc[u] # "move"
         /\ tmp = <<>>
<1>1. ASSUME NEW u \in Threads, pc[u] = "move"
      PROVE  FALSE
  <2>1. u # t /\ global[u] = "exclusive"
    BY <1>1 DEF IInv, MutexesHeld, GlobalMode
  <2>2. global[t] = "none"
    BY <2>1 DEF IInv, MutexesHeld
  <2> QED BY <2>2 DEF IInv, MutexesHeld, GlobalMode
<1> QED BY <1>1 DEF IInv, Rehashing, At

\* What a thread with a bucket's mutex knows.
LEMMA InBucket ==
  ASSUME IInv, NEW t \in Threads, At(t, "apply")
  PROVE  /\ place[t] \in 1..Len(buckets)
         /\ Bucket(t) \in BucketType /\ Bucket(t).data \in Seq(Pair) /\ Bucket(t).size \in Nat
         /\ Once(Bucket(t).data) /\ Len(Bucket(t).data) <= Bucket(t).size
         /\ call[t] \in AllCalls /\ call[t].op \in KeyOps /\ call[t].key \in Keys
         /\ BucketFor(call[t].key, Len(buckets)) = place[t]
         /\ \A k \in Keyed(Bucket(t).data) : BucketFor(k, Len(buckets)) = place[t]
         /\ found[t] # 0 <=> call[t].key \in Keyed(Bucket(t).data)
         /\ found[t] # 0 => /\ found[t] \in 1..Len(Bucket(t).data)
                            /\ Bucket(t).data[found[t]].key = call[t].key
<1>1. call[t] \in AllCalls /\ call[t].op \in KeyOps
  BY DEF IInv, CallsFit, At
<1>2. call[t].key \in Keys
  BY <1>1, CallsKnown
<1>3. /\ Len(buckets) > 0 /\ place[t] = BucketFor(call[t].key, Len(buckets))
      /\ found[t] = FindEntry(call[t].key, Bucket(t).data)
  BY DEF IInv, AtTheirKeys, At, Bucket
<1>4. Len(buckets) \in Nat /\ place[t] \in 1..Len(buckets)
  BY <1>2, <1>3, BucketsFacts, BucketExists DEF IInv
<1>5. Bucket(t) \in BucketType /\ Bucket(t).data \in Seq(Pair) /\ Bucket(t).size \in Nat
  BY <1>4, BucketsFacts DEF IInv, Bucket
<1>6. /\ Once(Bucket(t).data)
      /\ \A k \in Keyed(Bucket(t).data) : BucketFor(k, Len(buckets)) = place[t]
  BY <1>4, InPlaceByBucket DEF IInv, OnePairPerKey, Bucket
<1>7. Len(Bucket(t).data) <= Bucket(t).size
  <2>1. place[t] \in DOMAIN buckets
    BY <1>4, BucketsFacts DEF IInv
  <2>2. buckets[place[t]].size >= Len(buckets[place[t]].data)
    BY <2>1 DEF IInv, SizesSuffice
  <2> QED BY <2>2, <1>5, ListFacts DEF Bucket
<1>8. /\ found[t] # 0 <=> call[t].key \in Keyed(Bucket(t).data)
      /\ found[t] # 0 => /\ found[t] \in 1..Len(Bucket(t).data)
                         /\ Bucket(t).data[found[t]].key = call[t].key
  BY <1>3, <1>5, FoundEntry
<1> QED BY <1>1, <1>2, <1>3, <1>4, <1>5, <1>6, <1>7, <1>8

\* The thread's bucket becomes nb and its call returns.
LEMMA Applied ==
  ASSUME IInv, NEW t \in Threads, At(t, "apply"), call[t].op # "mapped_for",
         NEW nb \in BucketType, Once(nb.data), nb.size >= Len(nb.data),
         Keyed(nb.data) \subseteq Keyed(Bucket(t).data) \cup {call[t].key},
         NEW r \in Results, SetBucket(t, nb), Return(t, r)
  PROVE  IInv'
<1> USE DEF IInv
<1> DEFINE n == Len(buckets)
<1>1. /\ tmp' = tmp /\ buckets' = [buckets EXCEPT ![place[t]] = nb]
      /\ place[t] \in 1..n /\ n \in Nat
  BY InBucket, BucketsFacts DEF SetBucket
<1>2. /\ BucketsType(buckets') /\ Len(buckets') = n /\ buckets'[place[t]] = nb
      /\ \A d \in 1..n : d # place[t] => buckets'[d] = buckets[d]
  <2> DEFINE new == [buckets EXCEPT ![place[t]] = nb]
  <2>1. /\ BucketsType(new) /\ Len(new) = Len(buckets) /\ new[place[t]] = nb
        /\ \A d \in 1..Len(buckets) : d # place[t] => new[d] = buckets[d]
    <3>1. BucketsType(buckets) /\ place[t] \in 1..Len(buckets) /\ nb \in BucketType
      BY <1>1
    <3> QED BY ONLY <3>1, OneBucketSet
  <2> HIDE DEF new
  <2>2. buckets' = new
    BY <1>1 DEF new
  <2> QED BY <2>1, <2>2
<1>3. \A k \in Keyed(nb.data) : BucketFor(k, n) = place[t]
  BY InBucket
<1>4. /\ InPlace(buckets')
      /\ KeysIn(buckets') = (KeysIn(buckets) \ Keyed(Bucket(t).data)) \cup Keyed(nb.data)
  <2>1. InPlace(buckets) /\ BucketsType(buckets)
    BY DEF OnePairPerKey
  <2>2. /\ InPlace(buckets')
        /\ KeysIn(buckets') = (KeysIn(buckets) \ Keyed(buckets[place[t]].data))
                                \cup Keyed(buckets'[place[t]].data)
    <3>1. /\ BucketsType(buckets) /\ InPlace(buckets) /\ BucketsType(buckets')
          /\ Len(buckets') = Len(buckets) /\ place[t] \in 1..Len(buckets)
          /\ \A d \in 1..Len(buckets) : d # place[t] => buckets'[d] = buckets[d]
          /\ Once(buckets'[place[t]].data)
          /\ \A k \in Keyed(buckets'[place[t]].data) : BucketFor(k, Len(buckets)) = place[t]
      BY <1>1, <1>2, <1>3, <2>1
    <3> QED BY ONLY <3>1, StaysInPlace
  <2> QED BY <2>2, <1>2 DEF Bucket
<1>5. \A u \in Threads : pc[u] # "move"
  BY NobodyMoves DEF At
<1>6. tmp = <<>>
  BY NobodyMoves DEF At
<1>7. OnePairPerKey'
  <2>1. KeysIn(tmp) = {}
    BY <1>6, BucketsFacts, EmptySeq
  <2> QED BY <1>1, <1>4, <2>1 DEF OnePairPerKey
<1>8. /\ pc' = [pc EXCEPT ![t] = "idle"] /\ call' = call
      /\ place' = [place EXCEPT ![t] = 0] /\ found' = [found EXCEPT ![t] = 0]
  BY ReturnEffect
<1>9. \A u \in Threads : pc'[u] # "move"
  BY <1>5, <1>8 DEF LocalsType
<1>10. SizesSuffice'
  <2>1. \A b \in 1..n : buckets'[b].size >= Len(buckets'[b].data)
    <3>1. DOMAIN buckets = 1..n
      BY BucketsFacts
    <3> QED BY <1>2, <3>1 DEF SizesSuffice
  <2>2. DOMAIN buckets' = 1..n
    BY <1>2, BucketsFacts
  <2> QED BY <1>9, <2>1, <2>2 DEF SizesSuffice, At
<1>11. Rehashing'
  BY <1>1, <1>6, <1>9, EmptySeq DEF Rehashing, At
<1>12. always' \in [Threads -> SUBSET Keys] /\ ever' \in [Threads -> SUBSET Keys]
  <2>1. Present' \subseteq Keys
    <3>1. KeysIn(buckets') \subseteq Keys /\ KeysIn(tmp') \subseteq Keys
      BY <1>1, <1>2, BucketsFacts
    <3> QED BY <3>1 DEF Present
  <2> HIDE DEF n
  <2> QED BY <2>1 DEF SetBucket, LocalsType
<1>13. LocalsType' /\ CallsFit' /\ MutexesHeld'
  BY <1>12, ReturnType, ReturnKeepsCallsAndMutexes
<1>14. AtTheirKeys'
  <2>1. ASSUME NEW u \in Threads, u # t, pc[u] = "apply"
        PROVE  place[u] # place[t] /\ place[u] \in 1..n
    <3>1. held[t] = "exclusive"
      BY InBucket DEF MutexesHeld, BucketMode, At
    <3>2. place[u] # place[t]
      BY <2>1, <3>1 DEF MutexesHeld, At
    <3> QED BY <2>1, <3>2, InBucket DEF At
  <2>2. \A u \in Threads : u # t /\ pc[u] = "apply" => buckets'[place[u]] = buckets[place[u]]
    BY <1>2, <2>1
  <2> QED BY <1>2, <1>8, <2>2 DEF AtTheirKeys, LocalsType, At
<1> QED BY <1>1, <1>2, <1>7, <1>10, <1>11, <1>13, <1>14

\* insert and insert_or_assign add a pair.
LEMMA PushFrontKeeps ==
  ASSUME IInv, NEW t \in Threads, PushFront(t)
  PROVE  IInv'
<1> DEFINE nb == [data |-> <<PairOf(t)>> \o Bucket(t).data, size |-> Bucket(t).size + 1]
<1>1. At(t, "apply") /\ call[t].op \in WritingOps /\ found[t] = 0 /\ SetBucket(t, nb)
  BY DEF PushFront
<1>2. PairOf(t) \in Pair /\ PairOf(t).key = call[t].key
  BY <1>1, InBucket, CallsKnown DEF PairOf, Pair
<1>3. /\ nb.data \in Seq(Pair) /\ Len(nb.data) = Len(Bucket(t).data) + 1 /\ Once(nb.data)
      /\ Keyed(nb.data) = Keyed(Bucket(t).data) \cup {call[t].key}
  <2>1. /\ Bucket(t).data \in Seq(Pair) /\ Once(Bucket(t).data)
        /\ PairOf(t).key \notin Keyed(Bucket(t).data)
    BY <1>1, <1>2, InBucket
  <2>2. /\ <<PairOf(t)>> \o Bucket(t).data \in Seq(Pair)
        /\ Len(<<PairOf(t)>> \o Bucket(t).data) = Len(Bucket(t).data) + 1
        /\ Once(<<PairOf(t)>> \o Bucket(t).data)
        /\ Keyed(<<PairOf(t)>> \o Bucket(t).data) = Keyed(Bucket(t).data) \cup {PairOf(t).key}
    BY <2>1, <1>2, PushedFront
  <2> QED BY <2>2, <1>2
<1>4. nb \in BucketType /\ nb.size >= Len(nb.data)
  <2>1. Bucket(t).size \in Nat /\ Len(Bucket(t).data) <= Bucket(t).size
    BY <1>1, InBucket
  <2>2. Len(Bucket(t).data) \in Nat
    BY <1>1, InBucket, ListFacts
  <2> QED BY <1>3, <2>1, <2>2 DEF BucketType
<1>5. PICK r \in Results : Return(t, r)
  BY DEF PushFront, Results
<1>6. call[t].op # "mapped_for"
  BY <1>1 DEF WritingOps
<1> HIDE DEF nb
<1> QED BY <1>1, <1>3, <1>4, <1>5, <1>6, Applied

\* insert and insert_or_assign find the key there.
LEMMA FindPresentKeeps ==
  ASSUME IInv, NEW t \in Threads, FindPresent(t)
  PROVE  IInv'
<1>1. At(t, "apply") /\ call[t].op \in WritingOps /\ found[t] # 0
  BY DEF FindPresent
<1>2. CASE Keep /\ Return(t, "present")
  <2>1. shared' = shared /\ always' = always /\ ever' = ever
    BY <1>2 DEF Keep, shared
  <2> QED BY <1>1, <1>2, <2>1, QuietReturn DEF IInv, LocalsType, Results, At
<1>3. CASE SetBucket(t, [Bucket(t) EXCEPT !.data[found[t]] = PairOf(t)]) /\ Return(t, "done")
  <2> DEFINE data == [Bucket(t).data EXCEPT ![found[t]] = PairOf(t)]
             nb == [Bucket(t) EXCEPT !.data[found[t]] = PairOf(t)]
  <2>1. PairOf(t) \in Pair /\ PairOf(t).key = call[t].key
    BY <1>1, InBucket, CallsKnown DEF PairOf, Pair
  <2>2. /\ data \in Seq(Pair) /\ Len(data) = Len(Bucket(t).data) /\ Once(data)
        /\ Keyed(data) = Keyed(Bucket(t).data)
    <3>1. /\ Bucket(t).data \in Seq(Pair) /\ Once(Bucket(t).data)
          /\ found[t] \in 1..Len(Bucket(t).data)
          /\ PairOf(t).key = Bucket(t).data[found[t]].key
      BY <1>1, <2>1, InBucket
    <3> QED BY <2>1, <3>1, AssignedAt
  <2>3. Bucket(t) \in BucketType /\ Len(Bucket(t).data) <= Bucket(t).size
    BY <1>1, InBucket
  <2>4. nb \in BucketType /\ nb.data = data /\ nb.size = Bucket(t).size
    <3> HIDE DEF data
    <3>1. nb = [data |-> data, size |-> Bucket(t).size]
      BY <2>3 DEF BucketType, data
    <3> HIDE DEF nb
    <3> QED BY <2>2, <2>3, <3>1 DEF BucketType
  <2>5. call[t].op # "mapped_for" /\ "done" \in Results
    BY <1>1 DEF WritingOps, Results
  <2>6. SetBucket(t, nb)
    BY <1>3
  <2>7. Once(nb.data) /\ nb.size >= Len(nb.data) /\ Keyed(nb.data) = Keyed(Bucket(t).data)
    <3> HIDE DEF data, nb
    <3>1. Len(Bucket(t).data) \in Nat /\ Bucket(t).size \in Nat
      BY <1>1, InBucket, ListFacts
    <3> QED BY <2>2, <2>3, <2>4, <3>1
  <2> HIDE DEF nb, data
  <2> QED BY <1>1, <1>3, <2>4, <2>5, <2>6, <2>7, Applied
<1> QED BY <1>2, <1>3 DEF FindPresent

\* remove erases the pair it finds.
LEMMA EraseKeeps ==
  ASSUME IInv, NEW t \in Threads, Erase(t)
  PROVE  IInv'
<1>1. At(t, "apply") /\ call[t].op = "remove" /\ Return(t, "done")
  BY DEF Erase
<1>2. CASE Keep
  <2>1. shared' = shared /\ always' = always /\ ever' = ever
    BY <1>2 DEF Keep, shared
  <2> QED BY <1>1, <2>1, QuietReturn DEF IInv, LocalsType, Results, At
<1>3. CASE /\ found[t] # 0
           /\ SetBucket(t, [data |-> RemoveAt(Bucket(t).data, found[t]),
                            size |-> Bucket(t).size - 1])
  <2> DEFINE data == RemoveAt(Bucket(t).data, found[t])
             nb == [data |-> data, size |-> Bucket(t).size - 1]
  <2>1. /\ Bucket(t).data \in Seq(Pair) /\ Once(Bucket(t).data) /\ Bucket(t).size \in Nat
        /\ found[t] \in 1..Len(Bucket(t).data) /\ Len(Bucket(t).data) <= Bucket(t).size
    BY <1>1, <1>3, InBucket
  <2>2. /\ data \in Seq(Pair) /\ Len(data) = Len(Bucket(t).data) - 1 /\ Once(data)
        /\ Keyed(data) \subseteq Keyed(Bucket(t).data)
    BY <2>1, ErasedAt
  <2>3. nb \in BucketType /\ nb.size >= Len(nb.data) /\ nb.data = data
    <3>1. Len(Bucket(t).data) \in Nat
      BY <2>1, ListFacts
    <3> HIDE DEF data
    <3> QED BY <2>1, <2>2, <3>1 DEF BucketType
  <2>4. SetBucket(t, nb)
    BY <1>3
  <2>5. call[t].op # "mapped_for" /\ "done" \in Results
    BY <1>1 DEF Results
  <2> HIDE DEF nb, data
  <2> QED BY <1>1, <2>2, <2>3, <2>4, <2>5, Applied
<1> QED BY <1>2, <1>3 DEF Erase

\* mapped_for copies the value it finds.
LEMMA MappedForKeeps ==
  ASSUME IInv, NEW t \in Threads, MappedFor(t)
  PROVE  IInv'
<1>1. At(t, "apply") /\ Keep
  BY DEF MappedFor
<1>2. PICK r \in Results : Return(t, r)
  <2>1. found[t] # 0 => Bucket(t).data[found[t]].value \in Values
    <3>1. ASSUME found[t] # 0
          PROVE  Bucket(t).data[found[t]] \in Pair
      BY <1>1, <3>1, InBucket, ListFacts
    <3> QED BY <3>1 DEF Pair
  <2> QED BY <2>1 DEF MappedFor, Results
<1>3. shared' = shared /\ always' = always /\ ever' = ever
  BY <1>1 DEF Keep, shared
<1> QED BY <1>1, <1>2, <1>3, QuietReturn DEF IInv, LocalsType, At

\* T's copy throws: the size may stay one too large.
LEMMA CopyThrowsKeeps ==
  ASSUME IInv, NEW t \in Threads, CopyThrows(t)
  PROVE  IInv'
<1>1. At(t, "apply") /\ Return(t, "threw")
  BY DEF CopyThrows
<1>2. CASE Keep
  <2>1. shared' = shared /\ always' = always /\ ever' = ever
    BY <1>2 DEF Keep, shared
  <2> QED BY <1>1, <2>1, QuietReturn DEF IInv, LocalsType, Results, At
<1>3. CASE call[t].op = "insert_or_assign" /\ SetBucket(t, [Bucket(t) EXCEPT !.size = @ + 1])
  <2> DEFINE nb == [Bucket(t) EXCEPT !.size = @ + 1]
  <2>1. /\ Bucket(t) \in BucketType /\ Once(Bucket(t).data)
        /\ Len(Bucket(t).data) <= Bucket(t).size /\ Bucket(t).data \in Seq(Pair)
    BY <1>1, InBucket
  <2>2. nb = [data |-> Bucket(t).data, size |-> Bucket(t).size + 1]
    BY <2>1 DEF BucketType
  <2>3. SetBucket(t, nb)
    BY <1>3
  <2> HIDE DEF nb
  <2>4. nb \in BucketType /\ nb.data = Bucket(t).data /\ nb.size >= Len(nb.data)
    <3>1. Len(Bucket(t).data) \in Nat /\ Bucket(t).size \in Nat
      BY <2>1, ListFacts DEF BucketType
    <3> QED BY <2>1, <2>2, <3>1 DEF BucketType
  <2>5. call[t].op # "mapped_for" /\ "threw" \in Results
    BY <1>3 DEF Results
  <2> QED BY <1>1, <2>1, <2>3, <2>4, <2>5, Applied
<1> QED BY <1>2, <1>3 DEF CopyThrows

\* The new vector is not allocated: nothing has changed.
LEMMA AllocationThrowsKeeps ==
  ASSUME IInv, NEW t \in Threads, AllocationThrows(t)
  PROVE  IInv'
<1>1. At(t, "count") /\ Return(t, "threw") /\ shared' = shared /\ always' = always /\ ever' = ever
  BY DEF AllocationThrows, Keep, shared
<1> QED BY <1>1, QuietReturn DEF IInv, LocalsType, Results, At

-----------------------------------------------------------------------------
(* rehash *)

\* What is known of the sums over buckets.
LEMMA SumsOf ==
  ASSUME NEW bs, BucketsType(bs)
  PROVE  /\ Sizes(bs) \in Nat /\ Pairs(bs) \in Nat
         /\ [b \in DOMAIN bs |-> bs[b].size] \in [1..Len(bs) -> Nat]
         /\ [b \in DOMAIN bs |-> Len(bs[b].data)] \in [1..Len(bs) -> Nat]
         /\ (\A b \in 1..Len(bs) : bs[b].size >= Len(bs[b].data)) => Pairs(bs) <= Sizes(bs)
         /\ (\E b \in 1..Len(bs) : bs[b].size > 0) => Sizes(bs) > 0
         /\ (\A b \in 1..Len(bs) : bs[b].size = 0) => Sizes(bs) = 0
<1> DEFINE sizes == [b \in DOMAIN bs |-> bs[b].size]
           lens == [b \in DOMAIN bs |-> Len(bs[b].data)]
<1>1. /\ DOMAIN bs = 1..Len(bs) /\ Len(bs) \in Nat
      /\ \A b \in 1..Len(bs) : bs[b].size \in Nat /\ Len(bs[b].data) \in Nat
  BY BucketsFacts, ListFacts
<1>2. sizes \in [1..Len(bs) -> Nat] /\ lens \in [1..Len(bs) -> Nat]
  BY <1>1
<1>3. /\ Sizes(bs) = Cardinality(Units(sizes)) /\ Pairs(bs) = Cardinality(Units(lens))
      /\ \A b \in 1..Len(bs) : sizes[b] = bs[b].size /\ lens[b] = Len(bs[b].data)
  BY <1>1 DEF Sizes, Pairs
<1> HIDE DEF sizes, lens
<1>4. Sizes(bs) \in Nat /\ Pairs(bs) \in Nat
  BY <1>1, <1>2, <1>3, UnitsFinite
<1>5. ASSUME \A b \in 1..Len(bs) : bs[b].size >= Len(bs[b].data)
      PROVE  Pairs(bs) <= Sizes(bs)
  <2>1. \A b \in 1..Len(bs) : lens[b] <= sizes[b]
    BY <1>1, <1>3, <1>5
  <2> QED BY <1>1, <1>2, <1>3, <2>1, SmallerSum
<1>6. ASSUME NEW b \in 1..Len(bs), bs[b].size > 0
      PROVE  Sizes(bs) > 0
  <2>1. sizes[b] > 0
    BY <1>3, <1>6
  <2> QED BY <1>1, <1>2, <1>3, <2>1, SomeSum
<1>7. ASSUME \A b \in 1..Len(bs) : bs[b].size = 0
      PROVE  Sizes(bs) = 0
  <2>1. \A b \in 1..Len(bs) : sizes[b] = 0
    BY <1>3, <1>7
  <2> QED BY <1>1, <1>2, <1>3, <2>1, NoSum
<1> QED BY <1>2, <1>4, <1>5, <1>6, <1>7 DEF sizes, lens

\* Only the bucket at b differs.
LEMMA SumsChange ==
  ASSUME NEW bs, BucketsType(bs), NEW new, BucketsType(new), Len(new) = Len(bs),
         NEW b \in 1..Len(bs), \A d \in 1..Len(bs) : d # b => new[d] = bs[d]
  PROVE  /\ new[b].size = bs[b].size => Sizes(new) = Sizes(bs)
         /\ new[b].size = bs[b].size + 1 => Sizes(new) = Sizes(bs) + 1
         /\ Len(bs[b].data) = Len(new[b].data) + 1 => Pairs(bs) = Pairs(new) + 1
<1> DEFINE size0 == [d \in DOMAIN bs |-> bs[d].size]
           size1 == [d \in DOMAIN new |-> new[d].size]
           len0 == [d \in DOMAIN bs |-> Len(bs[d].data)]
           len1 == [d \in DOMAIN new |-> Len(new[d].data)]
           n == Len(bs)
<1>1. DOMAIN bs = 1..n /\ DOMAIN new = 1..n /\ n \in Nat
  BY BucketsFacts
<1>2. /\ size0 \in [1..n -> Nat] /\ len0 \in [1..n -> Nat]
      /\ size1 \in [1..n -> Nat] /\ len1 \in [1..n -> Nat]
  BY SumsOf
<1>3. /\ Sizes(bs) = Cardinality(Units(size0)) /\ Pairs(bs) = Cardinality(Units(len0))
      /\ Sizes(new) = Cardinality(Units(size1))
      /\ Pairs(new) = Cardinality(Units(len1))
  BY DEF Sizes, Pairs
<1>4. \A d \in 1..n : /\ size0[d] = bs[d].size /\ len0[d] = Len(bs[d].data)
                      /\ size1[d] = new[d].size /\ len1[d] = Len(new[d].data)
  BY <1>1
<1>5. \A d \in 1..n : d # b => size1[d] = size0[d] /\ len1[d] = len0[d]
  BY <1>4
<1>6. b \in 1..n
  OBVIOUS
<1> HIDE DEF size0, size1, len0, len1, n
<1>7. ASSUME new[b].size = bs[b].size
      PROVE  Sizes(new) = Sizes(bs)
  <2>1. \A d \in 1..n : size1[d] = size0[d]
    BY SMTT(30), <1>4, <1>5, <1>6, <1>7
  <2>2. /\ \A d \in 1..n : size1[d] <= size0[d]
        /\ \A d \in 1..n : size0[d] <= size1[d]
    BY <1>2, <2>1
  <2>3. /\ Cardinality(Units(size1)) <= Cardinality(Units(size0))
        /\ Cardinality(Units(size0)) <= Cardinality(Units(size1))
    BY ONLY <1>1, <1>2, <2>2, SmallerSum
  <2>4. Cardinality(Units(size1)) \in Nat /\ Cardinality(Units(size0)) \in Nat
    BY ONLY <1>1, <1>2, UnitsFinite
  <2> QED BY <1>3, <2>3, <2>4
<1>8. ASSUME new[b].size = bs[b].size + 1
      PROVE  Sizes(new) = Sizes(bs) + 1
  <2>1. size1[b] = size0[b] + 1
    BY SMTT(30), <1>4, <1>6, <1>8
  <2>2. Cardinality(Units(size1)) = Cardinality(Units(size0)) + 1
    <3>1. \A d \in 1..n : d # b => size1[d] = size0[d]
      BY ONLY <1>5
    <3> QED BY ONLY ZenonT(40), <1>1, <1>2, <1>6, <2>1, <3>1, SumPlusOne
  <2> QED BY <1>3, <2>2
<1>9. ASSUME Len(bs[b].data) = Len(new[b].data) + 1
      PROVE  Pairs(bs) = Pairs(new) + 1
  <2>1. len0[b] = len1[b] + 1
    BY SMTT(30), <1>4, <1>6, <1>9
  <2>2. \A d \in 1..n : d # b => len0[d] = len1[d]
    BY ONLY <1>5
  <2>3. Cardinality(Units(len0)) = Cardinality(Units(len1)) + 1
    BY ONLY ZenonT(40), <1>1, <1>2, <1>6, <2>1, <2>2, SumPlusOne
  <2> QED BY <1>3, <2>3
<1> QED BY <1>7, <1>8, <1>9

\* While one thread counts and moves no other is inside the map.
LEMMA AloneInside ==
  ASSUME IInv, NEW t \in Threads, pc[t] \in {"count", "move"}
  PROVE  /\ global[t] = "exclusive" /\ held[t] = "none"
         /\ \A u \in Threads \ {t} :
              pc[u] \notin {"bucket", "apply", "scan", "crashed", "count", "move"}
<1>1. global[t] = "exclusive" /\ held[t] = "none"
  BY DEF IInv, MutexesHeld, GlobalMode
<1>2. \A u \in Threads \ {t} : global[u] = "none"
  BY <1>1 DEF IInv, MutexesHeld
<1> QED BY <1>1, <1>2 DEF IInv, MutexesHeld, GlobalMode

\* rehash counts and makes the new buckets.
LEMMA CountKeeps ==
  ASSUME IInv, NEW t \in Threads, Count(t)
  PROVE  IInv'
<1> USE DEF IInv
<1> DEFINE n == NewCount(Sizes(buckets))
<1>1. /\ pc[t] = "count" /\ tmp' = [b \in 1..n |-> Empty] /\ pc' = [pc EXCEPT ![t] = "move"]
      /\ UNCHANGED <<buckets, global, held, call, result, place, found, out, total, always, ever>>
  BY DEF Count, At, GoTo, scanning
<1>2. n \in Nat
  BY SumsOf, Ceiling
<1>3. /\ BucketsType(tmp') /\ Len(tmp') = n /\ InPlace(tmp') /\ KeysIn(tmp') = {}
      /\ \A b \in 1..n : tmp'[b].size = 0 /\ Len(tmp'[b].data) = 0
  <2> HIDE DEF n
  <2> QED BY <1>1, <1>2, EmptyBuckets
<1>4. LocalsType'
  BY <1>1 DEF LocalsType, Labels
<1>5. CallsFit'
  BY <1>1 DEF CallsFit, LocalsType
<1>6. MutexesHeld'
  BY <1>1, AloneInside DEF MutexesHeld, GlobalMode, LocalsType, At
<1>7. AtTheirKeys'
  BY <1>1, SameBucketsSameKeys DEF LocalsType
<1>8. OnePairPerKey'
  BY <1>1, <1>3 DEF OnePairPerKey
<1>9. \A b \in 1..Len(buckets) : buckets[b].size >= Len(buckets[b].data)
  BY BucketsFacts DEF SizesSuffice
<1>10. SizesSuffice'
  <2>1. ASSUME Filled # {}
        PROVE  tmp' # <<>>
    <3>1. PICK b \in 1..Len(buckets) : buckets[b].data # <<>>
      BY <2>1, BucketsFacts DEF Filled
    <3>2. Len(buckets[b].data) > 0 /\ Len(buckets[b].data) \in Nat
      BY <3>1, BucketsFacts, ListFacts
    <3>3. buckets[b].size > 0
      BY <1>9, <3>2, BucketsFacts
    <3>4. Sizes(buckets) > 0
      BY <3>3, SumsOf
    <3>5. n > 0
      BY <3>4, SumsOf, Ceiling
    <3>6. Len(tmp') > 0
      BY <1>3, <3>5
    <3> QED BY <3>6
  <2>2. Filled' = Filled
    BY <1>1 DEF Filled
  <2> QED BY <1>1, <2>1, <2>2 DEF SizesSuffice
<1>11. Rehashing'
  <2>1. Sizes(tmp') = 0
    BY <1>3, SumsOf
  <2>2. Pairs(buckets) <= Sizes(buckets) /\ Pairs(buckets) \in Nat /\ Sizes(buckets) \in Nat
    BY <1>9, SumsOf
  <2>3. \A b \in DOMAIN tmp' : tmp'[b].size = Len(tmp'[b].data)
    BY <1>3, BucketsFacts
  <2>4. pc'[t] = "move"
    BY <1>1 DEF LocalsType
  <2>5. /\ Len(tmp') = NewCount(Sizes(buckets'))
        /\ Sizes(tmp') + Pairs(buckets') <= Sizes(buckets')
    <3>1. buckets' = buckets /\ Len(tmp') = n
      BY <1>1, <1>3
    <3>2. Len(tmp') = NewCount(Sizes(buckets'))
      BY <3>1
    <3>3. 0 + Pairs(buckets) <= Sizes(buckets)
      BY <2>2
    <3> QED BY <2>1, <3>1, <3>2, <3>3
  <2> HIDE DEF IInv
  <2> QED BY <2>3, <2>4, <2>5 DEF Rehashing, At
<1> QED BY <1>1, <1>3, <1>4, <1>5, <1>6, <1>7, <1>8, <1>10, <1>11

\* The hasher throws in the middle of a rehash: the pairs moved so far are gone with tmp.
LEMMA HashThrowsKeeps ==
  ASSUME IInv, NEW t \in Threads, HashThrows(t)
  PROVE  IInv'
<1> USE DEF IInv
<1>1. /\ pc[t] = "move" /\ tmp' = <<>> /\ Return(t, "threw")
      /\ UNCHANGED <<buckets, always, ever>>
  BY DEF HashThrows, At
<1>2. /\ pc' = [pc EXCEPT ![t] = "idle"] /\ call' = call
      /\ place' = [place EXCEPT ![t] = 0] /\ found' = [found EXCEPT ![t] = 0]
  BY <1>1, ReturnEffect
<1>3. LocalsType' /\ CallsFit' /\ MutexesHeld'
  BY <1>1, ReturnType, ReturnKeepsCallsAndMutexes DEF LocalsType, Results
<1>4. AtTheirKeys'
  BY <1>1, <1>2, SameBucketsSameKeys DEF LocalsType
<1>5. BucketsType(tmp') /\ InPlace(tmp') /\ KeysIn(tmp') = {} /\ DOMAIN tmp' = {}
  BY <1>1, EmptySeq DEF BucketsType, InPlace, KeysIn
<1>6. OnePairPerKey'
  BY <1>1, <1>5 DEF OnePairPerKey
<1>7. \A u \in Threads : pc'[u] # "move"
  BY <1>1, <1>2, AloneInside DEF LocalsType
<1>8. SizesSuffice'
  BY <1>1, <1>7 DEF SizesSuffice, At
<1>9. Rehashing'
  BY <1>1, <1>5, <1>7 DEF Rehashing, At
<1> QED BY <1>1, <1>3, <1>4, <1>5, <1>6, <1>8, <1>9

\* The new buckets become the map's.
LEMMA SwapKeeps ==
  ASSUME IInv, NEW t \in Threads, Swap(t)
  PROVE  IInv'
<1> USE DEF IInv
<1>1. /\ pc[t] = "move" /\ buckets' = tmp /\ tmp' = <<>> /\ Return(t, "done")
      /\ UNCHANGED <<always, ever>>
  BY DEF Swap, At
<1>2. /\ pc' = [pc EXCEPT ![t] = "idle"] /\ call' = call
      /\ place' = [place EXCEPT ![t] = 0] /\ found' = [found EXCEPT ![t] = 0]
  BY <1>1, ReturnEffect
<1>3. LocalsType' /\ CallsFit' /\ MutexesHeld'
  BY <1>1, ReturnType, ReturnKeepsCallsAndMutexes DEF LocalsType, Results
<1>4. \A u \in Threads : pc'[u] \notin {"bucket", "apply", "scan", "move"}
  BY <1>1, <1>2, AloneInside DEF LocalsType
<1>5. AtTheirKeys'
  BY <1>4 DEF AtTheirKeys, At
<1>6. BucketsType(tmp') /\ InPlace(tmp') /\ KeysIn(tmp') = {} /\ DOMAIN tmp' = {}
  BY <1>1, EmptySeq DEF BucketsType, InPlace, KeysIn
<1>7. OnePairPerKey'
  BY <1>1, <1>6 DEF OnePairPerKey
<1>8. SizesSuffice'
  <2>1. \A b \in DOMAIN tmp : tmp[b].size >= Len(tmp[b].data)
    <3>1. \A b \in DOMAIN tmp : tmp[b].size = Len(tmp[b].data) /\ tmp[b].size \in Nat
      BY BucketsFacts DEF Rehashing
    <3> QED BY <3>1
  <2> QED BY <1>1, <1>4, <2>1 DEF SizesSuffice, At
<1>9. Rehashing'
  BY <1>1, <1>4, <1>6 DEF Rehashing, At
<1> QED BY <1>1, <1>3, <1>5, <1>6, <1>7, <1>8, <1>9

\* What a move does to both tables.
LEMMA MoveEffect ==
  ASSUME IInv, NEW t \in Threads, Move(t)
  PROVE  \E from \in 1..Len(buckets), to \in 1..Len(tmp), pair \in Pair :
           /\ pair \in Range(buckets[from].data)
           /\ BucketsType(buckets') /\ Len(buckets') = Len(buckets)
           /\ \A b \in 1..Len(buckets) : b # from => buckets'[b] = buckets[b]
           /\ buckets'[from].size = buckets[from].size
           /\ Len(buckets[from].data) = Len(buckets'[from].data) + 1
           /\ Range(buckets'[from].data) = Range(buckets[from].data) \ {pair}
           /\ BucketsType(tmp') /\ Len(tmp') = Len(tmp)
           /\ \A b \in 1..Len(tmp) : b # to => tmp'[b] = tmp[b]
           /\ tmp'[to].size = tmp[to].size + 1
           /\ Len(tmp'[to].data) = Len(tmp[to].data) + 1
           /\ Range(tmp'[to].data) = Range(tmp[to].data) \cup {pair}
           /\ InPlace(buckets') /\ InPlace(tmp')
           /\ KeysIn(buckets') = KeysIn(buckets) \ {pair.key}
           /\ KeysIn(tmp') = KeysIn(tmp) \cup {pair.key}
           /\ pair.key \in KeysIn(buckets)
<1> DEFINE from == FirstFilled
           old == buckets[from].data
           pair == Head(old)
           to == BucketFor(pair.key, Len(tmp))
           nb == [buckets[from] EXCEPT !.data = Tail(old)]
           nt == [data |-> <<pair>> \o tmp[to].data, size |-> tmp[to].size + 1]
<1>1. /\ pc[t] = "move" /\ Filled # {}
      /\ tmp' = [tmp EXCEPT ![to] = nt]
      /\ buckets' = [buckets EXCEPT ![from].data = Tail(@)]
  BY DEF Move, At
<1>2. BucketsType(buckets) /\ BucketsType(tmp) /\ InPlace(buckets) /\ InPlace(tmp)
      /\ KeysIn(buckets) \cap KeysIn(tmp) = {}
  BY DEF IInv, OnePairPerKey
<1>3. from \in 1..Len(buckets) /\ old # <<>>
  BY <1>1, <1>2, FirstFilledExists
<1>4. buckets[from] \in BucketType /\ old \in Seq(Pair) /\ Once(old)
      /\ \A k \in Keyed(old) : BucketFor(k, Len(buckets)) = from
  BY <1>2, <1>3, BucketsFacts, InPlaceByBucket
<1>5. /\ pair \in Pair /\ pair \in Range(old) /\ pair.key \in Keyed(old)
      /\ Tail(old) \in Seq(Pair) /\ Len(Tail(old)) = Len(old) - 1 /\ Len(old) \in Nat
      /\ Once(Tail(old)) /\ Keyed(Tail(old)) = Keyed(old) \ {pair.key}
      /\ Range(Tail(old)) = Range(old) \ {pair}
  BY <1>3, <1>4, TakenFirst, ListFacts
<1>6. pair.key \in KeysIn(buckets) /\ pair.key \in Keys /\ pair.key \notin KeysIn(tmp)
  BY <1>2, <1>3, <1>5, BucketsFacts
<1>7. Len(tmp) \in Nat \ {0}
  BY <1>1, <1>2, BucketsFacts, EmptySeq DEF IInv, SizesSuffice, At
<1>8. to \in 1..Len(tmp)
  BY <1>6, <1>7, BucketExists
<1> HIDE DEF to, pair
<1>9. /\ tmp[to].data \in Seq(Pair) /\ tmp[to].size \in Nat /\ Once(tmp[to].data)
      /\ pair.key \notin Keyed(tmp[to].data)
      /\ \A k \in Keyed(tmp[to].data) : BucketFor(k, Len(tmp)) = to
  BY <1>2, <1>6, <1>8, BucketsFacts, InPlaceByBucket
<1>10. /\ nt.data \in Seq(Pair) /\ Len(nt.data) = Len(tmp[to].data) + 1 /\ Once(nt.data)
       /\ Keyed(nt.data) = Keyed(tmp[to].data) \cup {pair.key}
       /\ Range(nt.data) = Range(tmp[to].data) \cup {pair}
       /\ nt.size = tmp[to].size + 1 /\ nt \in BucketType
  <2>1. LET new == <<pair>> \o tmp[to].data
        IN  /\ new \in Seq(Pair) /\ Len(new) = Len(tmp[to].data) + 1 /\ Once(new)
            /\ Keyed(new) = Keyed(tmp[to].data) \cup {pair.key}
            /\ Range(new) = Range(tmp[to].data) \cup {pair}
    BY <1>5, <1>9, PushedFront
  <2> QED BY <2>1, <1>9 DEF BucketType
<1>11. /\ nb.data = Tail(old) /\ nb.size = buckets[from].size /\ nb \in BucketType
       /\ buckets' = [buckets EXCEPT ![from] = nb]
  <2>1. nb = [data |-> Tail(old), size |-> buckets[from].size]
    <3>1. \A bucket \in BucketType : \A list :
            [bucket EXCEPT !.data = list] = [data |-> list, size |-> bucket.size]
      BY DEF BucketType
    <3> QED BY <1>4, <3>1
  <2>2. nb \in BucketType
    BY <1>4, <1>5, <2>1 DEF BucketType
  <2> QED BY <1>1, <2>1, <2>2
<1> HIDE DEF nt, nb, old, from
<1>12. /\ BucketsType(buckets') /\ Len(buckets') = Len(buckets) /\ buckets'[from] = nb
       /\ \A b \in 1..Len(buckets) : b # from => buckets'[b] = buckets[b]
  <2>1. LET new == [buckets EXCEPT ![from] = nb]
        IN  /\ BucketsType(new) /\ Len(new) = Len(buckets) /\ new[from] = nb
            /\ \A b \in 1..Len(buckets) : b # from => new[b] = buckets[b]
    <3>1. nb \in BucketType /\ from \in 1..Len(buckets) /\ BucketsType(buckets)
      BY <1>2, <1>3, <1>11
    <3> QED BY ONLY <3>1, OneBucketSet
  <2> QED BY <1>11, <2>1
<1>13. /\ BucketsType(tmp') /\ Len(tmp') = Len(tmp) /\ tmp'[to] = nt
       /\ \A b \in 1..Len(tmp) : b # to => tmp'[b] = tmp[b]
  <2>1. LET new == [tmp EXCEPT ![to] = nt]
        IN  /\ BucketsType(new) /\ Len(new) = Len(tmp) /\ new[to] = nt
            /\ \A b \in 1..Len(tmp) : b # to => new[b] = tmp[b]
    BY ONLY <1>2, <1>8, <1>10, OneBucketSet
  <2> QED BY <1>1, <2>1
<1>14. /\ InPlace(buckets')
       /\ KeysIn(buckets') = (KeysIn(buckets) \ Keyed(buckets[from].data)) \cup Keyed(nb.data)
  <2>1. Once(nb.data) /\ \A k \in Keyed(nb.data) : BucketFor(k, Len(buckets)) = from
    BY <1>4, <1>5, <1>11
  <2>2. Once(buckets'[from].data)
        /\ \A k \in Keyed(buckets'[from].data) : BucketFor(k, Len(buckets)) = from
    BY <2>1, <1>12
  <2>3. /\ InPlace(buckets')
        /\ KeysIn(buckets') = (KeysIn(buckets) \ Keyed(buckets[from].data))
                                \cup Keyed(buckets'[from].data)
    BY ONLY <1>2, <1>3, <1>12, <2>2, StaysInPlace
  <2> QED BY <2>3, <1>12
<1>15. /\ InPlace(tmp')
       /\ KeysIn(tmp') = (KeysIn(tmp) \ Keyed(tmp[to].data)) \cup Keyed(nt.data)
  <2>1. BucketFor(pair.key, Len(tmp)) = to
    BY DEF to
  <2>2. Once(tmp'[to].data) /\ \A k \in Keyed(tmp'[to].data) : BucketFor(k, Len(tmp)) = to
    BY <1>9, <1>10, <1>13, <2>1
  <2>3. /\ InPlace(tmp')
        /\ KeysIn(tmp') = (KeysIn(tmp) \ Keyed(tmp[to].data)) \cup Keyed(tmp'[to].data)
    BY ONLY <1>2, <1>8, <1>13, <2>2, StaysInPlace
  <2> QED BY <2>3, <1>13
<1>16. KeysIn(buckets') = KeysIn(buckets) \ {pair.key}
  <2>1. Keyed(old) \subseteq KeysIn(buckets)
    BY <1>2, <1>3, BucketsFacts DEF old
  <2> QED BY <1>5, <1>11, <1>14, <2>1 DEF old
<1>17. KeysIn(tmp') = KeysIn(tmp) \cup {pair.key}
  <2>1. Keyed(tmp[to].data) \subseteq KeysIn(tmp)
    BY <1>2, <1>8, BucketsFacts
  <2> QED BY <1>10, <1>15, <2>1
<1>18. /\ Range(buckets'[from].data) = Range(buckets[from].data) \ {pair}
       /\ Len(buckets[from].data) = Len(buckets'[from].data) + 1
       /\ buckets'[from].size = buckets[from].size
       /\ pair \in Range(buckets[from].data)
  <2>1. Len(old) = Len(Tail(old)) + 1
    BY ONLY <1>5
  <2>2. buckets'[from].data = Tail(old) /\ buckets[from].data = old
    BY <1>11, <1>12 DEF old
  <2> QED BY <1>5, <1>11, <1>12, <2>1, <2>2
<1>19. /\ Range(tmp'[to].data) = Range(tmp[to].data) \cup {pair}
       /\ Len(tmp'[to].data) = Len(tmp[to].data) + 1
       /\ tmp'[to].size = tmp[to].size + 1
  BY <1>10, <1>13
<1> QED BY <1>3, <1>5, <1>6, <1>8, <1>12, <1>13, <1>14, <1>15, <1>16, <1>17, <1>18, <1>19

\* A pair moves from the old to the new buckets.
LEMMA MoveKeeps ==
  ASSUME IInv, NEW t \in Threads, Move(t)
  PROVE  IInv'
<1> USE DEF IInv
<1>1. /\ pc[t] = "move"
      /\ UNCHANGED <<global, held, pc, call, result, place, found, out, total, always, ever>>
  BY DEF Move, At, scanning
<1>2. PICK from \in 1..Len(buckets), to \in 1..Len(tmp), pair \in Pair :
           /\ BucketsType(buckets') /\ Len(buckets') = Len(buckets)
           /\ \A b \in 1..Len(buckets) : b # from => buckets'[b] = buckets[b]
           /\ buckets'[from].size = buckets[from].size
           /\ Len(buckets[from].data) = Len(buckets'[from].data) + 1
           /\ BucketsType(tmp') /\ Len(tmp') = Len(tmp)
           /\ \A b \in 1..Len(tmp) : b # to => tmp'[b] = tmp[b]
           /\ tmp'[to].size = tmp[to].size + 1
           /\ Len(tmp'[to].data) = Len(tmp[to].data) + 1
           /\ InPlace(buckets') /\ InPlace(tmp')
           /\ KeysIn(buckets') = KeysIn(buckets) \ {pair.key}
           /\ KeysIn(tmp') = KeysIn(tmp) \cup {pair.key}
  <2> HIDE DEF IInv
  <2> QED BY MoveEffect
<1>3. LocalsType' /\ CallsFit'
  BY <1>1 DEF LocalsType, CallsFit
<1>4. MutexesHeld'
  BY <1>1 DEF MutexesHeld, At
<1>5. AtTheirKeys'
  BY <1>1, AloneInside DEF AtTheirKeys, At
<1>6. OnePairPerKey'
  BY <1>2 DEF OnePairPerKey
<1>7. DOMAIN buckets = 1..Len(buckets) /\ DOMAIN buckets' = 1..Len(buckets)
      /\ DOMAIN tmp = 1..Len(tmp) /\ DOMAIN tmp' = 1..Len(tmp)
  BY <1>2, BucketsFacts
<1>8. SizesSuffice'
  <2>1. ASSUME NEW b \in 1..Len(buckets)
        PROVE  buckets'[b].size >= Len(buckets'[b].data)
    <3>1. buckets[b].size >= Len(buckets[b].data)
      BY <1>7 DEF SizesSuffice
    <3>2. /\ buckets[b].size \in Nat /\ buckets'[b].size \in Nat
          /\ Len(buckets[b].data) \in Nat /\ Len(buckets'[b].data) \in Nat
      BY <1>2, BucketsFacts, ListFacts
    <3> QED BY <1>2, <3>1, <3>2
  <2>2. tmp' # <<>>
    BY <1>2, BucketsFacts, EmptySeq
  <2> QED BY <1>7, <2>1, <2>2 DEF SizesSuffice
<1>9. Rehashing'
  <2>1. /\ Sizes(buckets') = Sizes(buckets) /\ Sizes(tmp') = Sizes(tmp) + 1
        /\ Pairs(buckets) = Pairs(buckets') + 1
    BY <1>2, SumsChange
  <2>2. /\ Sizes(buckets) \in Nat /\ Sizes(tmp) \in Nat /\ Pairs(buckets) \in Nat
        /\ Pairs(buckets') \in Nat
    BY <1>2, SumsOf
  <2>3. /\ Len(tmp) = NewCount(Sizes(buckets))
        /\ Sizes(tmp) + Pairs(buckets) <= Sizes(buckets)
    BY <1>1 DEF Rehashing, At
  <2>4. ASSUME NEW b \in DOMAIN tmp'
        PROVE  tmp'[b].size = Len(tmp'[b].data)
    BY <1>2, <1>7 DEF Rehashing
  <2>5. /\ Len(tmp') = NewCount(Sizes(buckets'))
        /\ Sizes(tmp') + Pairs(buckets') <= Sizes(buckets')
    BY <1>2, <2>1, <2>2, <2>3
  <2> HIDE DEF IInv
  <2> QED BY <1>1, <2>4, <2>5 DEF Rehashing, At
<1> QED BY <1>2, <1>3, <1>4, <1>5, <1>6, <1>8, <1>9

-----------------------------------------------------------------------------
(* The theorems *)

\* A new map satisfies the invariant.
LEMMA InitHolds == Init => IInv
<1> SUFFICES ASSUME Init PROVE IInv
  OBVIOUS
<1> USE DEF Init
<1>1. /\ BucketsType(buckets) /\ InPlace(buckets) /\ KeysIn(buckets) = {}
      /\ \A b \in 1..BucketsCount : buckets[b].size = 0 /\ Len(buckets[b].data) = 0
      /\ Len(buckets) = BucketsCount
  BY CountAssumption, EmptyBuckets
<1>2. BucketsType(tmp) /\ InPlace(tmp) /\ KeysIn(tmp) = {} /\ DOMAIN tmp = {}
  BY EmptySeq DEF BucketsType, InPlace, KeysIn
<1>3. LocalsType
  BY EmptySeq DEF LocalsType, Modes, Labels, Results
<1>4. CallsFit /\ MutexesHeld /\ AtTheirKeys
  BY DEF CallsFit, MutexesHeld, GlobalMode, AtTheirKeys, At
<1>5. OnePairPerKey
  BY <1>1, <1>2 DEF OnePairPerKey
<1>6. SizesSuffice
  BY <1>1, BucketsFacts DEF SizesSuffice, At
<1>7. Rehashing
  BY <1>2 DEF Rehashing, At
<1> QED BY <1>1, <1>2, <1>3, <1>4, <1>5, <1>6, <1>7 DEF IInv

\* Every step preserves the invariant.
LEMMA NextKeeps == IInv /\ [Next]_vars => IInv'
<1> SUFFICES ASSUME IInv, [Next]_vars PROVE IInv'
  OBVIOUS
<1>1. CASE UNCHANGED vars
  <2>1. buckets' = buckets /\ tmp' = tmp
    BY <1>1 DEF vars
  <2>2. LocalsType' /\ CallsFit' /\ MutexesHeld' /\ AtTheirKeys'
    BY <1>1 DEF vars, IInv, LocalsType, CallsFit, MutexesHeld, AtTheirKeys, At
  <2>3. OnePairPerKey' /\ SizesSuffice' /\ Rehashing'
    BY <1>1, SharedUnchanged DEF vars, shared, IInv
  <2> QED BY <2>1, <2>2, <2>3 DEF IInv
<1>2. CASE Next
  <2>1. ASSUME NEW t \in Threads,
               \/ Begin(t) \/ Enter(t) \/ LockBucket(t)
               \/ PushFront(t) \/ FindPresent(t) \/ Erase(t) \/ MappedFor(t) \/ CopyThrows(t)
               \/ Visit(t) \/ Report(t)
               \/ LockAll(t) \/ Count(t) \/ AllocationThrows(t)
               \/ Move(t) \/ HashThrows(t) \/ Swap(t)
        PROVE  IInv'
    BY <2>1, BeginKeeps, EnterKeeps, LockBucketKeeps, PushFrontKeeps, FindPresentKeeps,
       EraseKeeps, MappedForKeeps, CopyThrowsKeeps, VisitKeeps, ReportKeeps, LockAllKeeps,
       CountKeeps, AllocationThrowsKeeps, MoveKeeps, HashThrowsKeeps, SwapKeeps
  <2> QED BY <1>1, <1>2, <2>1 DEF Next
<1> QED BY <1>1, <1>2

\* The invariant holds in every state of the map.
THEOREM InvariantHolds == Spec => []IInv
BY InitHolds, NextKeeps, PTL DEF Spec

\* Type correctness; in particular a bucket a thread is in exists as long as it is there.
THEOREM TypeCorrect == Spec => []TypeOK
BY InvariantHolds, TypeParts, PTL

\* A key is in one pair, in the bucket its hash gives, also while a rehash moves pairs, for
\* any numbers of threads, keys and buckets and any hash function.
THEOREM OnePairAlways == Spec => []OnePairPerKey
<1>1. IInv => OnePairPerKey
  BY DEF IInv
<1> QED BY <1>1, InvariantHolds, PTL

\* No exception makes a bucket's m_size less than its pairs, and rehash never divides by
\* zero for a pair it moves.
THEOREM SizesAlwaysSuffice == Spec => []SizesSuffice
<1>1. IInv => SizesSuffice
  BY DEF IInv
<1> QED BY <1>1, InvariantHolds, PTL

\* Only the swap changes the number of buckets, and rehash has made enough of them.
THEOREM RehashAlwaysMeetsLoad == Spec => RehashMeetsLoad
<1> DEFINE MeetsLoad == Len(buckets') # Len(buckets) =>
                          Sizes(buckets') * LoadDen <= LoadNum * Len(buckets')
<1>1. IInv /\ [Next]_vars => [MeetsLoad]_vars
  <2> SUFFICES ASSUME IInv, Next, Len(buckets') # Len(buckets)
               PROVE  Sizes(buckets') * LoadDen <= LoadNum * Len(buckets')
    OBVIOUS
  <2>1. ASSUME NEW t \in Threads,
               \/ Begin(t) \/ Enter(t) \/ LockBucket(t) \/ MappedFor(t)
               \/ Visit(t) \/ Report(t)
               \/ LockAll(t) \/ Count(t) \/ AllocationThrows(t) \/ HashThrows(t)
        PROVE  FALSE
    <3>1. buckets' = buckets
      BY <2>1 DEF Begin, Enter, LockBucket, MappedFor, Visit, Report, LockAll, Count,
         AllocationThrows, HashThrows, Keep, shared
    <3> QED BY <3>1
  <2>2. ASSUME NEW t \in Threads, PushFront(t) \/ FindPresent(t) \/ Erase(t) \/ CopyThrows(t)
        PROVE  FALSE
    <3>1. CASE Keep
      BY <3>1 DEF Keep, shared
    <3>2. CASE \E nb : SetBucket(t, nb)
      <4>1. PICK nb : buckets' = [buckets EXCEPT ![place[t]] = nb]
        BY <3>2 DEF SetBucket
      <4>2. buckets \in Seq(BucketType)
        BY BucketsFacts DEF IInv
      <4>3. Len(buckets') = Len(buckets)
        BY <4>1, <4>2
      <4> QED BY <4>3
    <3> QED BY <2>2, <3>1, <3>2 DEF PushFront, FindPresent, Erase, CopyThrows
  <2>3. ASSUME NEW t \in Threads, Move(t)
        PROVE  FALSE
    BY <2>3, MoveEffect
  <2>4. ASSUME NEW t \in Threads, Swap(t)
        PROVE  Sizes(buckets') * LoadDen <= LoadNum * Len(buckets')
    <3>1. pc[t] = "move" /\ buckets' = tmp
      BY <2>4 DEF Swap, At
    <3>2. /\ Len(tmp) = NewCount(Sizes(buckets))
          /\ Sizes(tmp) + Pairs(buckets) <= Sizes(buckets)
      BY <3>1 DEF IInv, Rehashing, At
    <3>3. Sizes(tmp) \in Nat /\ Sizes(buckets) \in Nat /\ Pairs(buckets) \in Nat
      BY SumsOf DEF IInv
    <3>4. Sizes(buckets) * LoadDen <= LoadNum * Len(tmp) /\ Len(tmp) \in Nat
      BY <3>2, <3>3, Ceiling
    <3>5. Sizes(tmp) <= Sizes(buckets)
      BY <3>2, <3>3
    <3>6. Sizes(tmp) * LoadDen <= Sizes(buckets) * LoadDen
      <4>1. \A a, c, d \in Nat : a <= c => a * d <= c * d
        OBVIOUS
      <4> QED BY <3>3, <3>5, <4>1, LoadAssumption
    <3>7. Sizes(tmp) * LoadDen \in Int /\ Sizes(buckets) * LoadDen \in Int
          /\ LoadNum * Len(tmp) \in Int
      BY <3>3, <3>4, LoadAssumption
    <3> QED BY <3>1, <3>4, <3>6, <3>7
  <2>5. ~UNCHANGED vars
    BY DEF vars
  <2> QED BY <2>1, <2>2, <2>3, <2>4, <2>5 DEF Next
<1>2. RehashMeetsLoad <=> [][MeetsLoad]_vars
  BY DEF RehashMeetsLoad
<1> QED BY <1>1, <1>2, InvariantHolds, PTL DEF Spec

-----------------------------------------------------------------------------
(* Scans *)

\* The keys a scan has passed.
Passed(t) == {k \in Keys : Len(buckets) > 0 /\ BucketFor(k, Len(buckets)) < place[t]}

\* A scan has met, of the buckets it has passed, what was there all along, and nothing
\* that was never there.
ScanSoFar(t) ==
  /\ pc[t] # "scan" \/ call[t].op # "copy" => out[t] = <<>>
  /\ pc[t] # "scan" => total[t] = 0
  /\ pc[t] = "scan" =>
       /\ IsFiniteSet(always[t]) /\ always[t] \subseteq Present /\ Present \subseteq ever[t]
       /\ call[t].op = "copy" =>
            /\ IsInjective(out[t])
            /\ Range(out[t]) \subseteq Passed(t) \cap ever[t]
            /\ always[t] \cap Passed(t) \subseteq Range(out[t])
       /\ call[t].op # "copy" => total[t] >= Cardinality(always[t] \cap Passed(t))
ScansSoFar == \A t \in Threads : ScanSoFar(t)

\* The keys of a bucket, in its order.
LEMMA KeysOfFacts ==
  ASSUME NEW data \in Seq(Pair), Once(data)
  PROVE  /\ KeysOf(data) \in Seq(Keys) /\ IsInjective(KeysOf(data))
         /\ Range(KeysOf(data)) = Keyed(data)
         /\ IsFiniteSet(Keyed(data)) /\ Cardinality(Keyed(data)) <= Len(data)
<1>1. Len(data) \in Nat /\ DOMAIN data = 1..Len(data)
      /\ \A i \in 1..Len(data) : data[i].key \in Keys
  BY ListFacts
<1> DEFINE keys == KeysOf(data)
<1>2. /\ keys \in Seq(Keys) /\ DOMAIN keys = 1..Len(data)
      /\ \A i \in 1..Len(data) : keys[i] = data[i].key
  BY <1>1 DEF KeysOf
<1> HIDE DEF keys
<1>3. IsInjective(keys)
  BY <1>1, <1>2 DEF IsInjective, Once
<1>4. Range(keys) = Keyed(data)
  BY <1>1, <1>2 DEF Range, Keyed
<1>5. keys \in Surjection(1..Len(data), Keyed(data))
  <2>1. \A i \in 1..Len(data) : keys[i] \in Keyed(data)
    BY <1>1, <1>2 DEF Keyed
  <2>2. \A k \in Keyed(data) : \E i \in 1..Len(data) : keys[i] = k
    BY <1>1, <1>2 DEF Keyed
  <2>3. keys \in [1..Len(data) -> Keyed(data)]
    BY <1>1, <1>2, <2>1
  <2> QED BY <2>2, <2>3 DEF Surjection
<1>6. IsFiniteSet(1..Len(data)) /\ Cardinality(1..Len(data)) = Len(data)
  <2>1. 1 \in Int /\ Len(data) \in Int
    BY <1>1
  <2>2. IsFiniteSet(1..Len(data))
        /\ Cardinality(1..Len(data)) = IF 1 > Len(data) THEN 0 ELSE Len(data) - 1 + 1
    BY ONLY <2>1, FS_Interval
  <2> QED BY <1>1, <2>2
<1>7. IsFiniteSet(Keyed(data)) /\ Cardinality(Keyed(data)) <= Cardinality(1..Len(data))
  BY <1>5, <1>6, FS_Surjection DEF ExistsSurjection
<1> QED BY <1>2, <1>3, <1>4, <1>6, <1>7 DEF keys

\* The map holds finitely many keys.
LEMMA PresentFinite ==
  ASSUME NEW bs, BucketsType(bs), InPlace(bs)
  PROVE  IsFiniteSet(KeysIn(bs))
<1> DEFINE S == {Keyed(bs[b].data) : b \in 1..Len(bs)}
           f == [b \in 1..Len(bs) |-> Keyed(bs[b].data)]
<1>1. DOMAIN bs = 1..Len(bs) /\ Len(bs) \in Nat
  BY BucketsFacts
<1>2. f \in Surjection(1..Len(bs), S)
  BY DEF Surjection
<1>3. IsFiniteSet(S)
  BY <1>1, <1>2, FS_Interval, FS_Surjection DEF ExistsSurjection
<1>4. \A T \in S : IsFiniteSet(T)
  <2>1. ASSUME NEW b \in 1..Len(bs)
        PROVE  IsFiniteSet(Keyed(bs[b].data))
    <3>1. bs[b].data \in Seq(Pair) /\ Once(bs[b].data)
      BY BucketsFacts, InPlaceByBucket
    <3> QED BY <3>1, KeysOfFacts
  <2> QED BY <2>1
<1>5. KeysIn(bs) = UNION S
  BY <1>1 DEF KeysIn
<1> HIDE DEF S
<1> QED BY <1>3, <1>4, <1>5, FS_UNION

\* Two sequences of different elements, one after the other.
LEMMA InjectiveConcat ==
  ASSUME NEW S, NEW a \in Seq(S), NEW c \in Seq(S), IsInjective(a), IsInjective(c),
         Range(a) \cap Range(c) = {}
  PROVE  IsInjective(a \o c) /\ Range(a \o c) = Range(a) \cup Range(c)
<1> DEFINE s == a \o c
<1>1. /\ s \in Seq(S) /\ Len(s) = Len(a) + Len(c) /\ Len(a) \in Nat /\ Len(c) \in Nat
      /\ \A i \in 1..Len(a) + Len(c) : s[i] = IF i <= Len(a) THEN a[i] ELSE c[i - Len(a)]
  BY ConcatProperties, LenProperties
<1> HIDE DEF s
<1>2. /\ DOMAIN s = 1..Len(a) + Len(c) /\ DOMAIN a = 1..Len(a) /\ DOMAIN c = 1..Len(c)
  BY <1>1, LenProperties
<1>3. \A i \in 1..Len(a) : i \in 1..Len(a) + Len(c) /\ s[i] = a[i] /\ a[i] \in Range(a)
  BY SMTT(30), <1>1, <1>2 DEF Range
<1>4. \A i \in 1..Len(a) + Len(c) :
        ~(i <= Len(a)) =>
           i - Len(a) \in 1..Len(c) /\ s[i] = c[i - Len(a)] /\ c[i - Len(a)] \in Range(c)
  BY SMTT(30), <1>1, <1>2 DEF Range
<1>5. \A i \in 1..Len(a) + Len(c) : i <= Len(a) => i \in 1..Len(a)
  BY <1>1
<1>6. ASSUME NEW i \in DOMAIN s, NEW j \in DOMAIN s, s[i] = s[j]
      PROVE  i = j
  <2>1. CASE i <= Len(a) /\ j <= Len(a)
    BY <1>2, <1>3, <1>5, <1>6, <2>1 DEF IsInjective
  <2>2. CASE ~(i <= Len(a)) /\ ~(j <= Len(a))
    <3>1. c[i - Len(a)] = c[j - Len(a)] /\ i - Len(a) \in DOMAIN c /\ j - Len(a) \in DOMAIN c
      BY <1>2, <1>4, <1>6, <2>2
    <3>2. i - Len(a) = j - Len(a)
      BY <3>1 DEF IsInjective
    <3> QED BY <1>1, <1>2, <3>2
  <2>3. CASE (i <= Len(a)) # (j <= Len(a))
    BY <1>2, <1>3, <1>4, <1>5, <1>6, <2>3
  <2> QED BY <2>1, <2>2, <2>3
<1>7. Range(s) \subseteq Range(a) \cup Range(c)
  BY <1>2, <1>3, <1>4, <1>5 DEF Range
<1>8. Range(a) \subseteq Range(s)
  BY <1>2, <1>3 DEF Range
<1>9. ASSUME NEW x \in Range(c)
      PROVE  x \in Range(s)
  <2>1. PICK j \in 1..Len(c) : c[j] = x
    BY <1>2 DEF Range
  <2>2. j + Len(a) \in 1..Len(a) + Len(c) /\ ~(j + Len(a) <= Len(a)) /\ (j + Len(a)) - Len(a) = j
    BY <1>1
  <2>3. s[j + Len(a)] = x
    BY <1>1, <2>1, <2>2
  <2> QED BY <1>2, <2>2, <2>3 DEF Range
<1>10. IsInjective(s)
  BY <1>6 DEF IsInjective
<1> QED BY <1>7, <1>8, <1>9, <1>10 DEF s

\* What a step of t leaves to the other threads that scan.
OthersScanOn(t) ==
  \A u \in Threads \ {t} :
    /\ pc'[u] = pc[u] /\ call'[u] = call[u] /\ place'[u] = place[u]
    /\ out'[u] = out[u] /\ total'[u] = total[u]
    /\ pc[u] = "scan" =>
         /\ Len(buckets') = Len(buckets)
         /\ always'[u] \subseteq always[u] \cap Present'
         /\ Present' \subseteq ever'[u] /\ ever[u] \subseteq ever'[u]

\* A step of t keeps the scans of others when it leaves them what they have.
LEMMA OthersKept ==
  ASSUME IInv, ScansSoFar, NEW t \in Threads, OthersScanOn(t), ScanSoFar(t)'
  PROVE  ScansSoFar'
<1>1. SUFFICES ASSUME NEW u \in Threads, u # t PROVE ScanSoFar(u)'
  BY DEF ScansSoFar
<1>2. /\ pc'[u] = pc[u] /\ call'[u] = call[u] /\ place'[u] = place[u]
      /\ out'[u] = out[u] /\ total'[u] = total[u]
  BY <1>1 DEF OthersScanOn
<1>3. ScanSoFar(u)
  BY DEF ScansSoFar
<1>4. CASE pc[u] # "scan"
  BY <1>2, <1>3, <1>4 DEF ScanSoFar
<1>5. CASE pc[u] = "scan"
  <2>1. /\ Len(buckets') = Len(buckets)
        /\ always'[u] \subseteq always[u] \cap Present'
        /\ Present' \subseteq ever'[u] /\ ever[u] \subseteq ever'[u]
    BY <1>1, <1>5 DEF OthersScanOn
  <2>2. Passed(u)' = Passed(u)
    BY <1>2, <2>1 DEF Passed
  <2>3. IsFiniteSet(always[u]) /\ IsFiniteSet(always'[u])
    BY <1>3, <1>5, <2>1, FS_Subset DEF ScanSoFar
  <2>4. /\ call[u].op # "copy" => out[u] = <<>>
        /\ call[u].op = "copy" =>
             /\ IsInjective(out[u])
             /\ Range(out[u]) \subseteq Passed(u) \cap ever'[u]
             /\ always'[u] \cap Passed(u) \subseteq Range(out[u])
    BY <1>3, <1>5, <2>1 DEF ScanSoFar
  <2>5. ASSUME call[u].op # "copy"
        PROVE  total[u] >= Cardinality(always'[u] \cap Passed(u))
    <3>1. total[u] >= Cardinality(always[u] \cap Passed(u))
      BY <1>3, <1>5, <2>5 DEF ScanSoFar
    <3>2. always'[u] \cap Passed(u) \subseteq always[u] \cap Passed(u)
      BY <2>1
    <3>3. IsFiniteSet(always[u] \cap Passed(u))
      BY <2>3, FS_Subset
    <3>4. /\ IsFiniteSet(always'[u] \cap Passed(u))
          /\ Cardinality(always'[u] \cap Passed(u)) <= Cardinality(always[u] \cap Passed(u))
      BY <3>2, <3>3, FS_Subset
    <3>5. /\ Cardinality(always'[u] \cap Passed(u)) \in Nat /\ total[u] \in Nat
          /\ Cardinality(always[u] \cap Passed(u)) \in Nat
      BY <3>3, <3>4, FS_CardinalityType DEF IInv, LocalsType
    <3> QED BY <3>1, <3>4, <3>5
  <2> QED BY <1>2, <1>5, <2>1, <2>2, <2>3, <2>4, <2>5 DEF ScanSoFar
<1> QED BY <1>4, <1>5

\* A thread that ends its scan, or does not scan.
LEMMA ReturnedScan ==
  ASSUME IInv, NEW t \in Threads, NEW r, Return(t, r)
  PROVE  ScanSoFar(t)'
BY DEF Return, GoTo, ScanSoFar, IInv, LocalsType

\* Nor does one that scanned neither before nor after a step.
LEMMA NoScan ==
  ASSUME ScansSoFar, NEW t \in Threads, pc[t] # "scan", pc'[t] # "scan",
         out'[t] = out[t], total'[t] = total[t]
  PROVE  ScanSoFar(t)'
BY DEF ScansSoFar, ScanSoFar

\* A step that leaves the pairs alone.
LEMMA QuietForOthers ==
  ASSUME ScansSoFar, NEW t \in Threads, shared' = shared,
         \A u \in Threads \ {t} :
           /\ pc'[u] = pc[u] /\ call'[u] = call[u] /\ place'[u] = place[u]
           /\ out'[u] = out[u] /\ total'[u] = total[u]
           /\ always'[u] = always[u] /\ ever'[u] = ever[u]
  PROVE  OthersScanOn(t)
<1>1. buckets' = buckets /\ tmp' = tmp
  BY DEF shared
<1>2. Present' = Present
  BY <1>1 DEF Present
<1> QED BY <1>1, <1>2 DEF OthersScanOn, ScansSoFar, ScanSoFar

\* A scan starts with nothing collected.
LEMMA EnterScans ==
  ASSUME IInv, ScansSoFar, NEW t \in Threads, Enter(t)
  PROVE  ScansSoFar'
<1>1. /\ pc[t] = "enter" /\ out' = out /\ total' = total /\ call' = call
      /\ buckets' = buckets /\ tmp' = tmp /\ shared' = shared
  BY DEF Enter, At, shared
<1>2. OthersScanOn(t)
  <2>1. ASSUME NEW u \in Threads \ {t}
        PROVE  /\ pc'[u] = pc[u] /\ place'[u] = place[u]
               /\ always'[u] = always[u] /\ ever'[u] = ever[u]
    BY DEF Enter, GoTo, IInv, LocalsType
  <2> QED BY <1>1, <2>1, QuietForOthers
<1>3. CASE GoTo(t, "bucket") \/ GoTo(t, "crashed")
  <2>1. pc'[t] # "scan"
    BY <1>3 DEF GoTo, IInv, LocalsType
  <2>2. ScanSoFar(t)'
    BY <1>1, <2>1, NoScan
  <2> QED BY <1>2, <2>2, OthersKept
<1>4. CASE /\ place' = [place EXCEPT ![t] = 1] /\ GoTo(t, "scan")
           /\ always' = [always EXCEPT ![t] = Present]
           /\ ever' = [ever EXCEPT ![t] = Present]
  <2>1. pc'[t] = "scan" /\ place'[t] = 1 /\ always'[t] = Present /\ ever'[t] = Present
    BY <1>4 DEF GoTo, IInv, LocalsType
  <2>2. Present' = Present /\ IsFiniteSet(Present)
    <3>1. IsFiniteSet(KeysIn(buckets)) /\ IsFiniteSet(KeysIn(tmp))
      BY PresentFinite DEF IInv, OnePairPerKey
    <3> QED BY <1>1, <3>1, FS_Union DEF Present
  <2>3. Passed(t)' = {}
    <3>1. \A k \in Keys : Len(buckets) > 0 => ~(BucketFor(k, Len(buckets)) < 1)
      BY BucketExists, BucketsFacts DEF IInv
    <3> QED BY <1>1, <2>1, <3>1 DEF Passed
  <2>4. out'[t] = <<>> /\ total'[t] = 0
    BY <1>1 DEF ScansSoFar, ScanSoFar
  <2>5. IsInjective(<<>>) /\ Range(<<>>) = {}
    BY EmptySeq DEF IsInjective, Range
  <2>6. 0 >= Cardinality(always'[t] \cap Passed(t)')
    BY <2>3, FS_EmptySet
  <2>7. ScanSoFar(t)'
    BY <2>1, <2>2, <2>3, <2>4, <2>5, <2>6 DEF ScanSoFar
  <2> QED BY <1>2, <2>7, OthersKept
<1> QED BY <1>3, <1>4 DEF Enter

\* A change of a bucket, and the return.
LEMMA ChangeScans ==
  ASSUME IInv, ScansSoFar, NEW t \in Threads, At(t, "apply"), NEW r, Return(t, r),
         Keep \/ \E nb : SetBucket(t, nb)
  PROVE  ScansSoFar'
<1>1. ScanSoFar(t)'
  BY ReturnedScan
<1>2. \A u \in Threads \ {t} :
        /\ pc'[u] = pc[u] /\ call'[u] = call[u] /\ place'[u] = place[u]
        /\ out'[u] = out[u] /\ total'[u] = total[u]
  BY DEF Return, GoTo, IInv, LocalsType
<1>3. CASE Keep
  <2>1. OthersScanOn(t)
    BY <1>2, <1>3, QuietForOthers DEF Keep, shared
  <2> QED BY <1>1, <2>1, OthersKept
<1>4. CASE \E nb : SetBucket(t, nb)
  <2>1. PICK nb : SetBucket(t, nb)
    BY <1>4
  <2>2. Len(buckets') = Len(buckets)
    <3>1. buckets \in Seq(BucketType)
      BY BucketsFacts DEF IInv
    <3> QED BY <2>1, <3>1 DEF SetBucket
  <2>3. ASSUME NEW u \in Threads \ {t}, pc[u] = "scan"
        PROVE  /\ always'[u] = always[u] \cap Present'
               /\ ever'[u] = ever[u] \cup Present'
    BY <2>1, <2>3 DEF SetBucket, At
  <2>4. OthersScanOn(t)
    BY <1>2, <2>2, <2>3 DEF OthersScanOn
  <2> QED BY <1>1, <2>4, OthersKept
<1> QED BY <1>3, <1>4

\* A step of a rehash, while nobody scans.
LEMMA RehashScans ==
  ASSUME IInv, ScansSoFar, NEW t \in Threads, pc[t] \in {"count", "move"},
         Count(t) \/ AllocationThrows(t) \/ Move(t) \/ HashThrows(t) \/ Swap(t)
  PROVE  ScansSoFar'
<1>1. /\ \A u \in Threads \ {t} :
           /\ pc'[u] = pc[u] /\ call'[u] = call[u] /\ place'[u] = place[u]
           /\ out'[u] = out[u] /\ total'[u] = total[u] /\ pc[u] # "scan"
      /\ pc'[t] # "scan"
  <2>1. \A u \in Threads \ {t} : pc[u] # "scan"
    BY AloneInside
  <2>2. CASE Count(t) \/ Move(t)
    BY <2>1, <2>2 DEF Count, Move, GoTo, scanning, IInv, LocalsType
  <2>3. CASE AllocationThrows(t) \/ HashThrows(t) \/ Swap(t)
    <3>1. PICK r : Return(t, r)
      BY <2>3 DEF AllocationThrows, HashThrows, Swap
    <3> QED BY <2>1, <3>1 DEF Return, GoTo, IInv, LocalsType
  <2> QED BY <2>2, <2>3
<1>2. OthersScanOn(t)
  BY <1>1 DEF OthersScanOn
<1>3. ScanSoFar(t)'
  <2>1. CASE Count(t) \/ Move(t)
    <3>1. out' = out /\ total' = total
      BY <2>1 DEF Count, Move, scanning
    <3> QED BY <1>1, <3>1, NoScan
  <2>2. CASE AllocationThrows(t) \/ HashThrows(t) \/ Swap(t)
    BY <2>2, ReturnedScan DEF AllocationThrows, HashThrows, Swap
  <2> QED BY <2>1, <2>2
<1> QED BY <1>2, <1>3, OthersKept

\* A visit of the next bucket.
LEMMA VisitScans ==
  ASSUME IInv, ScansSoFar, NEW t \in Threads, Visit(t)
  PROVE  ScansSoFar'
<1> DEFINE p == place[t]
           n == Len(buckets)
           data == buckets[place[t]].data
<1>1. /\ pc[t] = "scan" /\ p \in 1..n /\ n \in Nat
      /\ place' = [place EXCEPT ![t] = p + 1]
      /\ buckets' = buckets /\ tmp' = tmp /\ pc' = pc /\ call' = call
      /\ always' = always /\ ever' = ever
  BY VisitEffect
<1>2. /\ out' = IF call[t].op = "copy" THEN [out EXCEPT ![t] = out[t] \o KeysOf(data)] ELSE out
      /\ total' = IF call[t].op = "copy"
                  THEN [total EXCEPT ![t] = 0]
                  ELSE [total EXCEPT ![t] = total[t] + buckets[place[t]].size]
  BY VisitEffect
<1>3. /\ data \in Seq(Pair) /\ Once(data) /\ buckets[p].size \in Nat
      /\ buckets[p].size >= Len(data)
      /\ \A b \in 1..n : \A k \in Keyed(buckets[b].data) : BucketFor(k, n) = b
  <2>1. BucketsType(buckets) /\ InPlace(buckets) /\ p \in DOMAIN buckets
    BY <1>1, BucketsFacts DEF IInv, OnePairPerKey
  <2>2. buckets[p].size >= Len(data)
    BY <2>1 DEF IInv, SizesSuffice
  <2> QED BY <1>1, <2>1, <2>2, BucketsFacts, InPlaceByBucket
<1>4. /\ KeysOf(data) \in Seq(Keys) /\ IsInjective(KeysOf(data))
      /\ Range(KeysOf(data)) = Keyed(data)
      /\ IsFiniteSet(Keyed(data)) /\ Cardinality(Keyed(data)) <= Len(data)
  <2> HIDE DEF data
  <2> QED BY <1>3, KeysOfFacts
<1>5. Present = KeysIn(buckets) /\ Present' = Present
  <2>1. tmp = <<>>
    BY <1>1, NobodyMoves
  <2>2. KeysIn(tmp) = {}
    BY <2>1, EmptySeq DEF KeysIn
  <2> QED BY <1>1, <2>2 DEF Present
<1>6. Keyed(data) \subseteq Present /\ Present \subseteq Keys
  BY <1>1, <1>5, BucketsFacts DEF IInv
<1>7. \A k \in Present : BucketFor(k, n) = p => k \in Keyed(data)
  <2>1. ASSUME NEW k \in Present, BucketFor(k, n) = p
        PROVE  k \in Keyed(data)
    <3>1. PICK b \in 1..n : k \in Keyed(buckets[b].data)
      BY <1>5, BucketsFacts DEF IInv
    <3>2. b = p
      BY <1>3, <2>1, <3>1
    <3> QED BY <3>1, <3>2
  <2> QED BY <2>1
<1>8. /\ Passed(t)' = Passed(t) \cup {k \in Keys : BucketFor(k, n) = p}
      /\ Keyed(data) \cap Passed(t) = {} /\ Keyed(data) \subseteq Passed(t)'
      /\ Passed(t)' \cap Present \subseteq (Passed(t) \cap Present) \cup Keyed(data)
  <2>1. place'[t] = p + 1 /\ n > 0
    BY <1>1 DEF IInv, LocalsType
  <2>2. \A k \in Keys : BucketFor(k, n) \in 1..n
    BY <1>1, <2>1, BucketExists
  <2>3. \A k \in Keys : BucketFor(k, n) < p + 1 <=> BucketFor(k, n) < p \/ BucketFor(k, n) = p
    BY <1>1, <2>2
  <2>4. Passed(t)' = Passed(t) \cup {k \in Keys : BucketFor(k, n) = p}
    BY <1>1, <2>1, <2>3 DEF Passed
  <2>5. \A k \in Keyed(data) : k \in Keys /\ BucketFor(k, n) = p
    BY <1>1, <1>3, <1>6
  <2>6. Keyed(data) \cap Passed(t) = {}
    <3> HIDE DEF data
    <3> QED BY <1>1, <2>5 DEF Passed
  <2> HIDE DEF data, n, p
  <2> QED BY <1>7, <2>4, <2>5, <2>6
<1>9. ScanSoFar(t)
  BY DEF ScansSoFar
<1> HIDE DEF data, n
<1>10. always[t] \subseteq Present /\ Present \subseteq ever[t] /\ IsFiniteSet(always[t])
  BY <1>1, <1>9 DEF ScanSoFar
<1>11. CASE call[t].op = "copy"
  <2>1. /\ out[t] \in Seq(Keys) /\ IsInjective(out[t])
        /\ Range(out[t]) \subseteq Passed(t) \cap ever[t]
        /\ always[t] \cap Passed(t) \subseteq Range(out[t])
    BY <1>1, <1>9, <1>11 DEF ScanSoFar, IInv, LocalsType
  <2>2. out'[t] = out[t] \o KeysOf(data)
    BY <1>2, <1>11 DEF IInv, LocalsType
  <2>3. Range(out[t]) \cap Range(KeysOf(data)) = {}
    BY <1>4, <1>8, <2>1
  <2>4. IsInjective(out'[t]) /\ Range(out'[t]) = Range(out[t]) \cup Keyed(data)
    BY <1>4, <2>1, <2>2, <2>3, InjectiveConcat
  <2>5. Range(out'[t]) \subseteq Passed(t)' \cap ever'[t]
    BY <1>1, <1>6, <1>8, <1>10, <2>1, <2>4
  <2>6. always'[t] \cap Passed(t)' \subseteq Range(out'[t])
    BY <1>1, <1>8, <1>10, <2>1, <2>4
  <2>7. ScanSoFar(t)'
    BY <1>1, <1>5, <1>10, <1>11, <2>4, <2>5, <2>6 DEF ScanSoFar
  <2>8. OthersScanOn(t)
    <3>1. shared' = shared
      BY <1>1 DEF shared
    <3>2. \A u \in Threads \ {t} : place'[u] = place[u] /\ out'[u] = out[u] /\ total'[u] = total[u]
      BY <1>1, <1>2, <1>11 DEF IInv, LocalsType
    <3> QED BY <1>1, <3>1, <3>2, QuietForOthers
  <2> QED BY <2>7, <2>8, OthersKept
<1>12. CASE call[t].op # "copy"
  <2>1. out'[t] = <<>> /\ total[t] >= Cardinality(always[t] \cap Passed(t))
    BY <1>1, <1>2, <1>9, <1>12 DEF ScanSoFar
  <2>2. total'[t] = total[t] + buckets[p].size
    BY <1>2, <1>12 DEF IInv, LocalsType
  <2>3. IsFiniteSet(always[t] \cap Passed(t))
    BY <1>10, FS_Subset
  <2> DEFINE A == always[t] \cap Passed(t)
             B == Keyed(data)
             C == always[t] \cap Passed(t)'
  <2>4. IsFiniteSet(A) /\ IsFiniteSet(B) /\ C \subseteq A \cup B
    BY <1>4, <1>8, <1>10, <2>3
  <2>5. Cardinality(C) <= Cardinality(A) + Cardinality(B)
    <3> HIDE DEF A, B, C
    <3>1. IsFiniteSet(A \cup B)
          /\ Cardinality(A \cup B) = Cardinality(A) + Cardinality(B) - Cardinality(A \cap B)
      BY <2>4, FS_Union
    <3>2. IsFiniteSet(A \cap B)
      BY <2>4, FS_Subset
    <3>3. IsFiniteSet(C) /\ Cardinality(C) <= Cardinality(A \cup B)
      BY <2>4, <3>1, FS_Subset
    <3>4. /\ Cardinality(A) \in Nat /\ Cardinality(B) \in Nat /\ Cardinality(A \cap B) \in Nat
          /\ Cardinality(C) \in Nat /\ Cardinality(A \cup B) \in Nat
      BY <2>4, <3>1, <3>2, <3>3, FS_CardinalityType
    <3> QED BY <3>1, <3>3, <3>4
  <2>6. total'[t] >= Cardinality(C)
    <3>1. IsFiniteSet(C)
      BY <1>10, FS_Subset
    <3>2. /\ Cardinality(A) \in Nat /\ Cardinality(B) \in Nat /\ Cardinality(C) \in Nat
          /\ total[t] \in Nat /\ buckets[p].size \in Nat /\ Len(data) \in Nat
      BY <1>3, <2>4, <3>1, FS_CardinalityType, ListFacts DEF IInv, LocalsType
    <3>3. total[t] >= Cardinality(A) /\ buckets[p].size >= Len(data) /\ Cardinality(B) <= Len(data)
      BY <1>3, <1>4, <2>1
    <3> HIDE DEF A, B, C, p
    <3> QED BY <2>2, <2>5, <3>2, <3>3
  <2>7. ScanSoFar(t)'
    BY <1>1, <1>5, <1>10, <1>12, <2>1, <2>6 DEF ScanSoFar
  <2>8. OthersScanOn(t)
    <3>1. shared' = shared
      BY <1>1 DEF shared
    <3>2. \A u \in Threads \ {t} : place'[u] = place[u] /\ out'[u] = out[u] /\ total'[u] = total[u]
      BY <1>1, <1>2, <1>12 DEF IInv, LocalsType
    <3> QED BY <1>1, <3>1, <3>2, QuietForOthers
  <2> QED BY <2>7, <2>8, OthersKept
<1> QED BY <1>11, <1>12

\* A scan ends.
LEMMA ReportScans ==
  ASSUME IInv, ScansSoFar, NEW t \in Threads, Report(t)
  PROVE  ScansSoFar'
<1>1. pc[t] = "scan" /\ shared' = shared
  BY DEF Report, At
<1>2. \A u \in Threads \ {t} : always'[u] = always[u] /\ ever'[u] = ever[u]
  BY DEF Report, IInv, LocalsType
<1>3. CASE Return(t, "done")
  <2>1. OthersScanOn(t)
    BY <1>1, <1>2, <1>3, QuietForOthers DEF Return, GoTo, IInv, LocalsType
  <2> QED BY <1>3, <2>1, ReturnedScan, OthersKept
<1>4. CASE /\ Overloaded(t) /\ GoTo(t, "lock_all")
           /\ place' = [place EXCEPT ![t] = 0] /\ total' = [total EXCEPT ![t] = 0]
           /\ UNCHANGED <<call, out>>
  <2>1. OthersScanOn(t)
    BY <1>1, <1>2, <1>4, QuietForOthers DEF GoTo, IInv, LocalsType
  <2>2. call[t].op # "copy"
    BY <1>4 DEF Overloaded
  <2>3. out'[t] = <<>> /\ total'[t] = 0 /\ pc'[t] = "lock_all"
    BY <1>1, <1>4, <2>2 DEF ScansSoFar, ScanSoFar, GoTo, IInv, LocalsType
  <2>4. ScanSoFar(t)'
    BY <2>3 DEF ScanSoFar
  <2> QED BY <2>1, <2>4, OthersKept
<1> QED BY <1>3, <1>4 DEF Report

\* Every step keeps what scans know.
LEMMA ScansKept == IInv /\ ScansSoFar /\ [Next]_vars => ScansSoFar'
<1> SUFFICES ASSUME IInv, ScansSoFar, [Next]_vars PROVE ScansSoFar'
  OBVIOUS
<1>1. CASE UNCHANGED vars
  BY <1>1 DEF vars, ScansSoFar, ScanSoFar, Passed, Present
<1>2. CASE Next
  <2>1. ASSUME NEW t \in Threads, Begin(t) \/ LockBucket(t) \/ LockAll(t)
        PROVE  ScansSoFar'
    <3>1. /\ shared' = shared /\ out' = out /\ total' = total /\ always' = always /\ ever' = ever
          /\ pc[t] # "scan" /\ pc'[t] # "scan"
          /\ \A u \in Threads \ {t} : pc'[u] = pc[u] /\ call'[u] = call[u] /\ place'[u] = place[u]
      BY <2>1 DEF Begin, LockBucket, LockAll, GoTo, At, scanning, IInv, LocalsType
    <3>2. OthersScanOn(t) /\ ScanSoFar(t)'
      BY <3>1, QuietForOthers, NoScan
    <3> QED BY <3>2, OthersKept
  <2>2. ASSUME NEW t \in Threads,
               PushFront(t) \/ FindPresent(t) \/ Erase(t) \/ MappedFor(t) \/ CopyThrows(t)
        PROVE  ScansSoFar'
    <3>1. /\ At(t, "apply") /\ \E r : Return(t, r)
          /\ Keep \/ \E nb : SetBucket(t, nb)
      BY <2>2 DEF PushFront, FindPresent, Erase, MappedFor, CopyThrows
    <3> QED BY <3>1, ChangeScans
  <2>3. ASSUME NEW t \in Threads,
               Count(t) \/ AllocationThrows(t) \/ Move(t) \/ HashThrows(t) \/ Swap(t)
        PROVE  ScansSoFar'
    <3>1. pc[t] \in {"count", "move"}
      BY <2>3 DEF Count, AllocationThrows, Move, HashThrows, Swap, At
    <3> QED BY <2>3, <3>1, RehashScans
  <2> QED BY <1>1, <1>2, <2>1, <2>2, <2>3, EnterScans, VisitScans, ReportScans DEF Next
<1> QED BY <1>1, <1>2

\* What ScansSoFar means when the last bucket is visited.
LEMMA ScanEnds == IInv /\ ScansSoFar => ScanIsComplete
<1> SUFFICES ASSUME IInv, ScansSoFar, NEW t \in Threads, At(t, "scan"), VisitedAll(t)
             PROVE  IF call[t].op = "copy"
                      THEN \A k \in Keys :
                             /\ k \in always[t] => Occurrences(out[t], k) = 1
                             /\ Occurrences(out[t], k) <= IF k \in ever[t] THEN 1 ELSE 0
                      ELSE total[t] >= Cardinality(always[t])
  BY DEF ScanIsComplete
<1>1. pc[t] = "scan" /\ place[t] > Len(buckets) /\ Len(buckets) \in Nat /\ place[t] \in Nat
  BY BucketsFacts DEF At, VisitedAll, IInv, LocalsType
<1>2. always[t] \subseteq Passed(t)
  <2>1. tmp = <<>>
    BY <1>1, NobodyMoves
  <2>2. KeysIn(tmp) = {}
    BY <2>1, EmptySeq DEF KeysIn
  <2>3. ASSUME NEW k \in Present
        PROVE  k \in Passed(t)
    <3>1. PICK b \in 1..Len(buckets) : k \in Keyed(buckets[b].data)
      BY <2>2, BucketsFacts DEF Present, IInv
    <3>2. k \in Keys
      BY <2>2, BucketsFacts DEF Present, IInv
    <3>3. Len(buckets) > 0
      BY <1>1, <3>1
    <3>4. BucketFor(k, Len(buckets)) \in 1..Len(buckets)
      BY <1>1, <3>2, <3>3, BucketExists
    <3>5. BucketFor(k, Len(buckets)) < place[t]
      BY <1>1, <3>4
    <3> QED BY <3>2, <3>3, <3>5 DEF Passed
  <2> QED BY <1>1, <2>3 DEF ScansSoFar, ScanSoFar
<1>3. always[t] \cap Passed(t) = always[t]
  BY <1>2
<1>4. CASE call[t].op = "copy"
  <2>1. /\ IsInjective(out[t]) /\ Range(out[t]) \subseteq ever[t]
        /\ always[t] \subseteq Range(out[t])
    BY <1>1, <1>3, <1>4 DEF ScansSoFar, ScanSoFar
  <2>2. ASSUME NEW k \in Keys
        PROVE  Occurrences(out[t], k) = IF k \in Range(out[t]) THEN 1 ELSE 0
    <3> DEFINE S == {i \in DOMAIN out[t] : out[t][i] = k}
    <3>1. CASE k \in Range(out[t])
      <4>1. PICK i \in DOMAIN out[t] : out[t][i] = k
        BY <3>1 DEF Range
      <4>2. S = {i}
        BY <2>1, <4>1 DEF IsInjective
      <4> QED BY <3>1, <4>2, FS_Singleton DEF Occurrences
    <3>2. CASE k \notin Range(out[t])
      <4>1. S = {}
        BY <3>2 DEF Range
      <4> QED BY <3>2, <4>1, FS_EmptySet DEF Occurrences
    <3> QED BY <3>1, <3>2
  <2> QED BY <1>4, <2>1, <2>2
<1>5. CASE call[t].op # "copy"
  BY <1>1, <1>3, <1>5 DEF ScansSoFar, ScanSoFar
<1> QED BY <1>4, <1>5

\* A scan that ends has met each key that was there all along once, and no key that was
\* never there; the sizes count every key that was there all along.
THEOREM ScansAreComplete == Spec => []ScanIsComplete
<1>1. Init => ScansSoFar
  BY DEF Init, ScansSoFar, ScanSoFar
<1>2. IInv /\ ScansSoFar /\ [Next]_vars => ScansSoFar'
  BY ScansKept
<1>3. Spec => []ScansSoFar
  BY <1>1, <1>2, InvariantHolds, PTL DEF Spec
<1> QED BY <1>3, InvariantHolds, ScanEnds, PTL

-----------------------------------------------------------------------------
(* Every call takes effect at one moment *)

AllPairs == PairsOf(buckets) \cup PairsOf(tmp)
\* The pairs of other keys.
Others(k, all) == {q \in all : q.key # k}
UniqueKeys(all) == \A p, q \in all : p.key = q.key => p = q

\* A call is under way until it has an answer; who rehashes was told to.
Answers ==
  \A t \in Threads :
    /\ pc[t] = "idle" => call[t] = NoCall \/ result[t] # "none"
    /\ pc[t] # "idle" => result[t] = "none"
    /\ pc[t] \in {"lock_all", "count", "move"} => call[t].op \in {"load_factor", "rehash"}

\* The value of a pair that is alone with its key.
LEMMA ValueOfPair ==
  ASSUME NEW all, UniqueKeys(all), NEW p \in all
  PROVE  ValueIn(all, p.key) = p.value
<1> DEFINE q == CHOOSE q \in all : q.key = p.key
<1>1. q \in all /\ q.key = p.key
  OBVIOUS
<1>2. q = p
  BY <1>1 DEF UniqueKeys
<1> QED BY <1>2 DEF ValueIn

\* The value of a key without a pair.
LEMMA ValueOfNone ==
  ASSUME NEW all, NEW k, \A p \in all : p.key # k
  PROVE  ValueIn(all, k) = NoValue
BY DEF ValueIn

\* The value of a key depends on the pairs of that key.
LEMMA SameValue ==
  ASSUME NEW all, NEW new, UniqueKeys(all), UniqueKeys(new), NEW k,
         \A p : p \in new /\ p.key = k <=> p \in all /\ p.key = k
  PROVE  ValueIn(new, k) = ValueIn(all, k)
<1>1. CASE \E p \in all : p.key = k
  <2>1. PICK p \in all : p.key = k
    BY <1>1
  <2>2. p \in new
    BY <2>1
  <2>3. ValueIn(all, p.key) = p.value
    BY <2>1, ValueOfPair
  <2>4. ValueIn(new, p.key) = p.value
    BY <2>2, ValueOfPair
  <2> QED BY <2>1, <2>3, <2>4
<1>2. CASE \A p \in all : p.key # k
  <2>1. \A p \in new : p.key # k
    BY <1>2
  <2> QED BY <1>2, <2>1, ValueOfNone
<1> QED BY <1>1, <1>2

\* The pair p takes the place of those of its key.
LEMMA PairSet ==
  ASSUME NEW all, UniqueKeys(all), NEW p, NEW new,
         new = {p} \cup Others(p.key, all)
  PROVE  /\ UniqueKeys(new)
         /\ \A k : ValueIn(new, k) = IF k = p.key THEN p.value ELSE ValueIn(all, k)
<1> USE DEF Others
<1>1. UniqueKeys(new)
  BY DEF UniqueKeys
<1>2. ValueIn(new, p.key) = p.value
  BY <1>1, ValueOfPair
<1>3. ASSUME NEW k, k # p.key
      PROVE  ValueIn(new, k) = ValueIn(all, k)
  <2>1. \A q : q \in new /\ q.key = k <=> q \in all /\ q.key = k
    BY <1>3
  <2> QED BY <1>1, <2>1, SameValue
<1> QED BY <1>1, <1>2, <1>3

\* The pairs of a key go.
LEMMA PairGone ==
  ASSUME NEW all, UniqueKeys(all), NEW key, NEW new, new = Others(key, all)
  PROVE  /\ UniqueKeys(new)
         /\ \A k : ValueIn(new, k) = IF k = key THEN NoValue ELSE ValueIn(all, k)
<1> USE DEF Others
<1>1. UniqueKeys(new)
  BY DEF UniqueKeys
<1>2. ValueIn(new, key) = NoValue
  BY ValueOfNone
<1>3. ASSUME NEW k, k # key
      PROVE  ValueIn(new, k) = ValueIn(all, k)
  <2>1. \A q : q \in new /\ q.key = k <=> q \in all /\ q.key = k
    BY <1>3
  <2> QED BY <1>1, <2>1, SameValue
<1> QED BY <1>1, <1>2, <1>3

\* The pairs in a vector of buckets.
LEMMA PairsInBuckets ==
  ASSUME NEW bs, BucketsType(bs)
  PROVE  /\ \A p : p \in PairsOf(bs) <=> \E b \in 1..Len(bs) : p \in Range(bs[b].data)
         /\ PairsOf(bs) \subseteq Pair
         /\ \A k : k \in KeysIn(bs) <=> \E p \in PairsOf(bs) : p.key = k
         /\ \A b \in 1..Len(bs) : \A p \in Range(bs[b].data) : p.key \in Keyed(bs[b].data)
<1>1. /\ DOMAIN bs = 1..Len(bs)
      /\ \A b \in 1..Len(bs) : bs[b].data \in Seq(Pair)
      /\ \A k : k \in KeysIn(bs) <=> \E b \in 1..Len(bs) : k \in Keyed(bs[b].data)
  BY BucketsFacts
<1>2. \A p : p \in PairsOf(bs) <=> \E b \in 1..Len(bs) : p \in Range(bs[b].data)
  BY <1>1 DEF PairsOf
<1>3. \A b \in 1..Len(bs) : /\ Range(bs[b].data) \subseteq Pair
                            /\ \A k : k \in Keyed(bs[b].data) <=>
                                 \E p \in Range(bs[b].data) : p.key = k
  <2> SUFFICES ASSUME NEW b \in 1..Len(bs)
               PROVE  /\ Range(bs[b].data) \subseteq Pair
                      /\ \A k : k \in Keyed(bs[b].data) <=>
                           \E p \in Range(bs[b].data) : p.key = k
    OBVIOUS
  <2> DEFINE data == bs[b].data
  <2>1. data \in Seq(Pair)
    BY <1>1
  <2> HIDE DEF data
  <2>2. \A i \in DOMAIN data : data[i] \in Pair
    BY <2>1, ListFacts
  <2>3. Range(data) \subseteq Pair /\ \A k : k \in Keyed(data) <=> \E p \in Range(data) : p.key = k
    BY <2>2 DEF Range, Keyed
  <2> QED BY SMTT(30), <2>3 DEF data
<1>4. PairsOf(bs) \subseteq Pair
  BY <1>2, <1>3
<1>5. \A k : k \in KeysIn(bs) <=> \E p \in PairsOf(bs) : p.key = k
  <2> TAKE k
  <2>1. ASSUME k \in KeysIn(bs)
        PROVE  \E p \in PairsOf(bs) : p.key = k
    BY <1>1, <1>2, <1>3, <2>1
  <2>2. ASSUME NEW p \in PairsOf(bs), p.key = k
        PROVE  k \in KeysIn(bs)
    BY <1>1, <1>2, <1>3, <2>2
  <2> QED BY <2>1, <2>2
<1>6. \A b \in 1..Len(bs) : \A p \in Range(bs[b].data) : p.key \in Keyed(bs[b].data)
  BY <1>3
<1> QED BY <1>2, <1>4, <1>5, <1>6

\* In two tables that share no key every pair is alone with its key.
LEMMA PairsAreUnique ==
  ASSUME NEW bs, NEW ts, BucketsType(bs), BucketsType(ts), InPlace(bs), InPlace(ts),
         KeysIn(bs) \cap KeysIn(ts) = {}
  PROVE  UniqueKeys(PairsOf(bs) \cup PairsOf(ts))
<1>1. ASSUME NEW s, BucketsType(s), InPlace(s), NEW p \in PairsOf(s), NEW q \in PairsOf(s),
             p.key = q.key
      PROVE  p = q
  <2>1. PICK b \in 1..Len(s) : p \in Range(s[b].data)
    BY <1>1, PairsInBuckets
  <2>2. PICK c \in 1..Len(s) : q \in Range(s[c].data)
    BY <1>1, PairsInBuckets
  <2>3. p.key \in Keyed(s[b].data) /\ q.key \in Keyed(s[c].data)
    BY <1>1, <2>1, <2>2, PairsInBuckets
  <2>4. b = c /\ Once(s[b].data)
    BY <1>1, <2>3, InPlaceByBucket
  <2> QED BY <1>1, <2>1, <2>2, <2>4 DEF Once, Range
<1>2. \A p \in PairsOf(bs) : p.key \in KeysIn(bs)
  BY PairsInBuckets
<1>3. \A p \in PairsOf(ts) : p.key \in KeysIn(ts)
  BY PairsInBuckets
<1> QED BY <1>1, <1>2, <1>3 DEF UniqueKeys

\* The pairs of the map are unique.
LEMMA AllUnique ==
  ASSUME IInv
  PROVE  /\ UniqueKeys(AllPairs) /\ AllPairs \subseteq Pair
         /\ \A k : k \in Present <=> \E p \in AllPairs : p.key = k
<1>1. /\ BucketsType(buckets) /\ BucketsType(tmp) /\ InPlace(buckets) /\ InPlace(tmp)
      /\ KeysIn(buckets) \cap KeysIn(tmp) = {}
  BY DEF IInv, OnePairPerKey
<1>2. UniqueKeys(AllPairs)
  BY <1>1, PairsAreUnique DEF AllPairs
<1>3. /\ PairsOf(buckets) \subseteq Pair /\ PairsOf(tmp) \subseteq Pair
      /\ \A k : k \in KeysIn(buckets) <=> \E p \in PairsOf(buckets) : p.key = k
      /\ \A k : k \in KeysIn(tmp) <=> \E p \in PairsOf(tmp) : p.key = k
  BY <1>1, PairsInBuckets
<1> QED BY <1>2, <1>3 DEF AllPairs, Present

\* One bucket changes, for the key k of that bucket: its pairs come to be those of news.
LEMMA OneBucketPairs ==
  ASSUME NEW bs, BucketsType(bs), InPlace(bs), NEW new, BucketsType(new), Len(new) = Len(bs),
         NEW b \in 1..Len(bs), \A d \in 1..Len(bs) : d # b => new[d] = bs[d],
         NEW k, BucketFor(k, Len(bs)) = b, NEW news,
         Range(new[b].data) = news \cup Others(k, Range(bs[b].data))
  PROVE  PairsOf(new) = news \cup Others(k, PairsOf(bs))
<1>1. /\ \A q : q \in PairsOf(bs) <=> \E d \in 1..Len(bs) : q \in Range(bs[d].data)
      /\ \A q : q \in PairsOf(new) <=> \E d \in 1..Len(bs) : q \in Range(new[d].data)
  BY PairsInBuckets
<1>2. ASSUME NEW d \in 1..Len(bs), d # b, NEW q \in Range(bs[d].data)
      PROVE  q.key # k
  <2>1. q.key \in Keyed(bs[d].data)
    BY PairsInBuckets
  <2>2. BucketFor(q.key, Len(bs)) = d
    BY <2>1, InPlaceByBucket
  <2> QED BY <1>2, <2>2
<1> USE DEF Others
<1>3. ASSUME NEW q \in PairsOf(new)
      PROVE  q \in news \/ (q \in PairsOf(bs) /\ q.key # k)
  <2>1. PICK d \in 1..Len(bs) : q \in Range(new[d].data)
    BY <1>1
  <2> QED BY <1>1, <1>2, <2>1
<1>4. ASSUME NEW q, q \in news \/ (q \in PairsOf(bs) /\ q.key # k)
      PROVE  q \in PairsOf(new)
  <2>1. CASE q \in news
    BY <1>1, <2>1
  <2>2. CASE q \in PairsOf(bs) /\ q.key # k
    <3>1. PICK d \in 1..Len(bs) : q \in Range(bs[d].data)
      BY <1>1, <2>2
    <3> QED BY <1>1, <2>2, <3>1
  <2> QED BY <1>4, <2>1, <2>2
<1> QED BY <1>3, <1>4

\* A writer puts its bucket back: of its key's pairs those of news remain.
LEMMA PairsPutBack ==
  ASSUME IInv, NEW t \in Threads, At(t, "apply"), NEW nb \in BucketType, SetBucket(t, nb),
         NEW news,
         Range(nb.data) = news \cup Others(call[t].key, Range(Bucket(t).data))
  PROVE  AllPairs' = news \cup Others(call[t].key, AllPairs)
<1> DEFINE n == Len(buckets)
<1>1. /\ tmp' = tmp /\ buckets' = [buckets EXCEPT ![place[t]] = nb]
      /\ place[t] \in 1..n /\ n \in Nat /\ BucketFor(call[t].key, n) = place[t]
      /\ BucketsType(buckets) /\ InPlace(buckets)
  BY InBucket, BucketsFacts DEF SetBucket, IInv, OnePairPerKey
<1>2. /\ BucketsType(buckets') /\ Len(buckets') = n /\ buckets'[place[t]] = nb
      /\ \A d \in 1..n : d # place[t] => buckets'[d] = buckets[d]
  <2> DEFINE new == [buckets EXCEPT ![place[t]] = nb]
  <2>1. /\ BucketsType(new) /\ Len(new) = Len(buckets) /\ new[place[t]] = nb
        /\ \A d \in 1..Len(buckets) : d # place[t] => new[d] = buckets[d]
    <3>1. BucketsType(buckets) /\ place[t] \in 1..Len(buckets) /\ nb \in BucketType
      BY <1>1
    <3> QED BY ONLY <3>1, OneBucketSet
  <2> HIDE DEF new
  <2>2. buckets' = new
    BY <1>1 DEF new
  <2> QED BY <2>1, <2>2
<1>3. Range(buckets'[place[t]].data) =
        news \cup Others(call[t].key, Range(buckets[place[t]].data))
  BY <1>2 DEF Bucket
<1>4. PairsOf(buckets') = news \cup Others(call[t].key, PairsOf(buckets))
  <2>1. /\ BucketsType(buckets) /\ InPlace(buckets) /\ BucketsType(buckets')
        /\ Len(buckets') = Len(buckets) /\ place[t] \in 1..Len(buckets)
        /\ \A d \in 1..Len(buckets) : d # place[t] => buckets'[d] = buckets[d]
        /\ BucketFor(call[t].key, Len(buckets)) = place[t]
    BY <1>1, <1>2
  <2> DEFINE new == buckets'
             k == call[t].key
             b == place[t]
  <2>2. /\ BucketsType(buckets) /\ InPlace(buckets) /\ BucketsType(new)
        /\ Len(new) = Len(buckets) /\ b \in 1..Len(buckets)
        /\ \A d \in 1..Len(buckets) : d # b => new[d] = buckets[d]
        /\ BucketFor(k, Len(buckets)) = b
        /\ Range(new[b].data) = news \cup Others(k, Range(buckets[b].data))
    BY <2>1, <1>3
  <2> HIDE DEF new, k, b
  <2>3. PairsOf(new) = news \cup Others(k, PairsOf(buckets))
    BY ONLY <2>2, OneBucketPairs
  <2> QED BY <2>3 DEF new, k, b
<1>5. PairsOf(tmp) = {} /\ PairsOf(tmp') = {}
  <2>1. tmp = <<>>
    BY NobodyMoves DEF At
  <2> QED BY <1>1, <2>1 DEF PairsOf
<1> QED BY <1>4, <1>5 DEF AllPairs, Others

\* What MapSpec sees of the buckets.
MapOf == [k \in Keys |-> Value(k)]

\* Nothing happens to the pairs.
LEMMA PairsKept ==
  ASSUME AllPairs' = AllPairs
  PROVE  MapOf' = MapOf
<1>1. \A k \in Keys : Value(k)' = Value(k)
  BY DEF Value, AllPairs
<1> QED BY <1>1 DEF MapOf

\* Of its key's pairs p remains.
LEMMA PairsSet ==
  ASSUME IInv, NEW p, AllPairs' = {p} \cup Others(p.key, AllPairs)
  PROVE  MapOf' = [MapOf EXCEPT ![p.key] = p.value]
<1> DEFINE all == AllPairs
           new == AllPairs'
<1>1. /\ \A k : Value(k) = ValueIn(all, k)
      /\ \A k : Value(k)' = ValueIn(new, k)
  BY DEF Value, AllPairs
<1>2. \A k : ValueIn(new, k) = IF k = p.key THEN p.value ELSE ValueIn(all, k)
  <2>1. UniqueKeys(all)
    BY AllUnique
  <2>2. new = {p} \cup Others(p.key, all)
    OBVIOUS
  <2> HIDE DEF all, new
  <2> QED BY ONLY <2>1, <2>2, PairSet
<1> HIDE DEF all, new
<1>3. \A k \in Keys : Value(k)' = IF k = p.key THEN p.value ELSE Value(k)
  BY <1>1, <1>2
<1> QED BY <1>3 DEF MapOf

\* Of a key no pair remains.
LEMMA PairsGone ==
  ASSUME IInv, NEW key, AllPairs' = Others(key, AllPairs)
  PROVE  MapOf' = [MapOf EXCEPT ![key] = NoValue]
<1> DEFINE all == AllPairs
           new == AllPairs'
<1>1. /\ \A k : Value(k) = ValueIn(all, k)
      /\ \A k : Value(k)' = ValueIn(new, k)
  BY DEF Value, AllPairs
<1>2. \A k : ValueIn(new, k) = IF k = key THEN NoValue ELSE ValueIn(all, k)
  <2>1. UniqueKeys(all)
    BY AllUnique
  <2>2. new = Others(key, all)
    OBVIOUS
  <2> HIDE DEF all, new
  <2> QED BY ONLY <2>1, <2>2, PairGone
<1> HIDE DEF all, new
<1>3. \A k \in Keys : Value(k)' = IF k = key THEN NoValue ELSE Value(k)
  BY <1>1, <1>2
<1> QED BY <1>3 DEF MapOf

\* A thread with a bucket's mutex sees the value of its key in the bucket.
LEMMA ValueFound ==
  ASSUME IInv, NEW t \in Threads, At(t, "apply")
  PROVE  /\ found[t] = 0 => /\ MapOf[call[t].key] = NoValue
                            /\ Others(call[t].key, AllPairs) = AllPairs
         /\ found[t] # 0 =>
              LET p == Bucket(t).data[found[t]]
              IN  /\ p \in AllPairs /\ p.key = call[t].key
                  /\ MapOf[call[t].key] = p.value /\ p.value \in Values
<1> DEFINE key == call[t].key
           data == Bucket(t).data
<1>1. /\ place[t] \in 1..Len(buckets) /\ data \in Seq(Pair) /\ Once(data)
      /\ key \in Keys /\ BucketFor(key, Len(buckets)) = place[t]
      /\ found[t] # 0 <=> key \in Keyed(data)
      /\ found[t] # 0 => found[t] \in 1..Len(data) /\ data[found[t]].key = key
      /\ BucketsType(buckets) /\ InPlace(buckets)
  BY InBucket DEF IInv, OnePairPerKey
<1>2. AllPairs = PairsOf(buckets)
  <2>1. tmp = <<>>
    BY NobodyMoves DEF At
  <2> QED BY <2>1 DEF PairsOf, AllPairs
<1>3. MapOf[key] = ValueIn(AllPairs, key)
  BY <1>1 DEF MapOf, Value, AllPairs
<1>4. ASSUME found[t] = 0
      PROVE  \A p \in AllPairs : p.key # key
  <2> SUFFICES ASSUME NEW p \in PairsOf(buckets), p.key = key
               PROVE  FALSE
    BY <1>2
  <2>1. PICK b \in 1..Len(buckets) : p \in Range(buckets[b].data)
    BY <1>1, PairsInBuckets
  <2>2. key \in Keyed(buckets[b].data)
    BY <1>1, <2>1, PairsInBuckets
  <2>3. b = place[t]
    BY <1>1, <2>2, InPlaceByBucket
  <2> QED BY <1>1, <1>4, <2>2, <2>3 DEF Bucket
<1>5. ASSUME found[t] # 0
      PROVE  LET p == data[found[t]]
             IN  p \in AllPairs /\ p.key = key /\ p.value \in Values
  <2>1. DOMAIN data = 1..Len(data) /\ data[found[t]] \in Pair
    BY <1>1, <1>5, ListFacts
  <2>2. data[found[t]] \in Range(data)
    BY <1>1, <1>5, <2>1 DEF Range
  <2>3. data[found[t]] \in PairsOf(buckets)
    BY <1>1, <2>2, PairsInBuckets DEF Bucket
  <2> QED BY <1>1, <1>2, <1>5, <2>1, <2>3 DEF Pair
<1>6. ASSUME found[t] = 0
      PROVE  MapOf[key] = NoValue /\ Others(key, AllPairs) = AllPairs
  BY <1>3, <1>4, <1>6, ValueOfNone DEF Others
<1>7. ASSUME found[t] # 0
      PROVE  MapOf[key] = data[found[t]].value
  <2> DEFINE p == data[found[t]]
  <2>1. p \in AllPairs /\ p.key = key
    BY <1>5, <1>7
  <2> HIDE DEF p
  <2>2. ValueIn(AllPairs, p.key) = p.value
    BY <2>1, AllUnique, ValueOfPair
  <2> QED BY <1>3, <2>1, <2>2 DEF p
<1> QED BY <1>5, <1>6, <1>7

\* A call that is under way, and its end.
LEMMA CallEnds ==
  ASSUME IInv, Answers, NEW t \in Threads, pc[t] # "idle"
  PROVE  /\ call[t] # NoCall /\ result[t] = "none"
         /\ \A r : Return(t, r) => call' = call /\ result' = [result EXCEPT ![t] = r]
BY NoCallAssumption DEF IInv, CallsFit, Answers, Return

\* insert and insert_or_assign add a pair.
LEMMA PushFrontMaps ==
  ASSUME IInv, Answers, NEW t \in Threads, PushFront(t)
  PROVE  Map!Next
<1> DEFINE nb == [data |-> <<PairOf(t)>> \o Bucket(t).data, size |-> Bucket(t).size + 1]
           r == IF call[t].op = "insert" THEN "inserted" ELSE "done"
           p == PairOf(t)
<1>1. /\ At(t, "apply") /\ call[t].op \in WritingOps /\ found[t] = 0
      /\ SetBucket(t, nb) /\ Return(t, r)
  BY DEF PushFront
<1>2. p \in Pair /\ p.key = call[t].key /\ p.value = call[t].value
  BY <1>1, InBucket, CallsKnown DEF PairOf, Pair
<1>3. MapOf[call[t].key] = NoValue /\ Others(call[t].key, AllPairs) = AllPairs
  BY <1>1, ValueFound
<1>4. /\ Bucket(t).data \in Seq(Pair) /\ Once(Bucket(t).data) /\ Bucket(t).size \in Nat
      /\ p.key \notin Keyed(Bucket(t).data)
  BY <1>1, <1>2, InBucket
<1>5. /\ nb.data \in Seq(Pair) /\ Range(nb.data) = Range(Bucket(t).data) \cup {p}
  <2>1. /\ <<PairOf(t)>> \o Bucket(t).data \in Seq(Pair)
        /\ Range(<<PairOf(t)>> \o Bucket(t).data) = Range(Bucket(t).data) \cup {PairOf(t)}
    BY <1>2, <1>4, PushedFront
  <2> QED BY <2>1
<1>6. Range(nb.data) = {p} \cup Others(call[t].key, Range(Bucket(t).data))
  <2>1. \A q \in Range(Bucket(t).data) : q.key # call[t].key
    BY <1>2, <1>4 DEF Range, Keyed
  <2> HIDE DEF nb, p
  <2> QED BY <1>5, <2>1 DEF Others
<1>7. nb \in BucketType
  BY <1>4, <1>5 DEF BucketType
<1>8. AllPairs' = {p} \cup Others(call[t].key, AllPairs)
  <2> HIDE DEF nb, p
  <2> QED BY <1>1, <1>6, <1>7, PairsPutBack
<1> HIDE DEF p, nb
<1>9. MapOf' = [MapOf EXCEPT ![call[t].key] = call[t].value]
  BY <1>2, <1>8, PairsSet
<1>10. /\ call[t] # NoCall /\ result[t] = "none"
       /\ call' = call /\ result' = [result EXCEPT ![t] = r]
  BY <1>1, CallEnds DEF At
<1>11. CASE call[t].op = "insert"
  <2>1. Map!Insert(t)
    BY <1>3, <1>9, <1>10, <1>11 DEF Map!Insert, Map!Effect, MapOf
  <2> QED BY <1>10, <2>1 DEF Map!Next
<1>12. CASE call[t].op # "insert"
  <2>1. call[t].op = "insert_or_assign"
    BY <1>1, <1>12 DEF WritingOps
  <2>2. Map!InsertOrAssign(t)
    BY <1>9, <1>10, <2>1 DEF Map!InsertOrAssign, Map!Effect, MapOf
  <2> QED BY <1>10, <2>2 DEF Map!Next
<1> QED BY <1>11, <1>12

\* insert and insert_or_assign find the key there.
LEMMA FindPresentMaps ==
  ASSUME IInv, Answers, NEW t \in Threads, FindPresent(t)
  PROVE  Map!Next
<1> DEFINE key == call[t].key
           data == [Bucket(t).data EXCEPT ![found[t]] = PairOf(t)]
           nb == [Bucket(t) EXCEPT !.data[found[t]] = PairOf(t)]
           old == Bucket(t).data[found[t]]
           p == PairOf(t)
<1>1. /\ At(t, "apply") /\ call[t].op \in WritingOps /\ found[t] # 0
      /\ call[t] # NoCall /\ result[t] = "none"
      /\ \A r : Return(t, r) => call' = call /\ result' = [result EXCEPT ![t] = r]
  BY CallEnds DEF FindPresent, At
<1>2. /\ old \in AllPairs /\ old.key = key
      /\ MapOf[key] = old.value /\ old.value \in Values
  BY <1>1, ValueFound
<1>3. CASE call[t].op = "insert" /\ Keep /\ Return(t, "present")
  <2>1. AllPairs' = AllPairs
    BY <1>3 DEF Keep, shared, AllPairs
  <2>2. MapOf' = MapOf
    BY <2>1, PairsKept
  <2>3. MapOf' = [MapOf EXCEPT ![key] = MapOf[key]]
    BY <2>2 DEF MapOf
  <2>4. MapOf[key] # NoValue
    BY <1>2, NamesAssumption
  <2>5. Map!FindPresent(t)
    BY <1>1, <1>3, <2>3, <2>4 DEF Map!FindPresent, Map!Effect, MapOf
  <2> QED BY <1>1, <2>5 DEF Map!Next
<1>4. CASE call[t].op = "insert_or_assign" /\ SetBucket(t, nb) /\ Return(t, "done")
  <2>1. p \in Pair /\ p.key = key /\ p.value = call[t].value
    BY <1>1, InBucket, CallsKnown DEF PairOf, Pair
  <2>2. /\ Bucket(t) \in BucketType /\ Bucket(t).data \in Seq(Pair) /\ Once(Bucket(t).data)
        /\ found[t] \in 1..Len(Bucket(t).data)
        /\ PairOf(t).key = Bucket(t).data[found[t]].key
    BY <1>1, <1>2, <2>1, InBucket
  <2>3. data \in Seq(Pair) /\ Range(data) = (Range(Bucket(t).data) \ {old}) \cup {p}
    BY <2>1, <2>2, AssignedAt
  <2>4. nb \in BucketType /\ nb.data = data
    <3> HIDE DEF data
    <3>1. nb = [data |-> data, size |-> Bucket(t).size]
      <4>1. Bucket(t) \in BucketType
        BY <2>2
      <4> QED BY ONLY <4>1 DEF BucketType, data
    <3> HIDE DEF nb
    <3> QED BY <2>2, <2>3, <3>1 DEF BucketType
  <2>5. Range(Bucket(t).data) \ {old} = Others(key, Range(Bucket(t).data))
    <3>1. \A q \in Range(Bucket(t).data) : q.key = key => q = old
      BY <1>2, <2>2, ListFacts DEF Once, Range
    <3> HIDE DEF old, key
    <3> QED BY <1>2, <3>1 DEF Others
  <2>6. Range(nb.data) = {p} \cup Others(key, Range(Bucket(t).data))
    <3> HIDE DEF data, nb, p, old, key
    <3> QED BY <2>3, <2>4, <2>5
  <2>7. AllPairs' = {p} \cup Others(key, AllPairs)
    <3> HIDE DEF nb, p, data, old
    <3> QED BY <1>1, <1>4, <2>4, <2>6, PairsPutBack
  <2> HIDE DEF p, nb, data, old
  <2>8. MapOf' = [MapOf EXCEPT ![key] = call[t].value]
    BY <2>1, <2>7, PairsSet
  <2>9. Map!InsertOrAssign(t)
    BY <1>1, <1>4, <2>8 DEF Map!InsertOrAssign, Map!Effect, MapOf
  <2> QED BY <1>1, <2>9 DEF Map!Next
<1> QED BY <1>3, <1>4 DEF FindPresent

\* remove erases the pair it finds.
LEMMA EraseMaps ==
  ASSUME IInv, Answers, NEW t \in Threads, Erase(t)
  PROVE  Map!Next
<1> DEFINE key == call[t].key
<1>1. /\ At(t, "apply") /\ call[t].op = "remove" /\ call[t] # NoCall /\ result[t] = "none"
      /\ call' = call /\ result' = [result EXCEPT ![t] = "done"]
  BY CallEnds DEF Erase, At
<1>2. MapOf' = [MapOf EXCEPT ![key] = NoValue]
  <2>1. CASE found[t] = 0 /\ Keep
    <3>1. AllPairs' = AllPairs
      BY <2>1 DEF Keep, shared, AllPairs
    <3>2. AllPairs = Others(key, AllPairs)
      BY <1>1, <2>1, ValueFound
    <3>3. AllPairs' = Others(key, AllPairs)
      BY <3>1, <3>2
    <3> QED BY <3>3, PairsGone
  <2>2. CASE /\ found[t] # 0
             /\ SetBucket(t, [data |-> RemoveAt(Bucket(t).data, found[t]),
                              size |-> Bucket(t).size - 1])
    <3> DEFINE data == RemoveAt(Bucket(t).data, found[t])
               nb == [data |-> data, size |-> Bucket(t).size - 1]
               old == Bucket(t).data[found[t]]
    <3>1. /\ Bucket(t).data \in Seq(Pair) /\ Once(Bucket(t).data) /\ Bucket(t).size \in Nat
          /\ found[t] \in 1..Len(Bucket(t).data) /\ Len(Bucket(t).data) <= Bucket(t).size
          /\ old.key = key
      BY <1>1, <2>2, InBucket
    <3>2. /\ data \in Seq(Pair) /\ Len(data) = Len(Bucket(t).data) - 1
          /\ Range(data) = Range(Bucket(t).data) \ {old}
      BY <3>1, ErasedAt
    <3>3. nb \in BucketType /\ nb.data = data
      <4>1. Len(Bucket(t).data) \in Nat
        BY <3>1, ListFacts
      <4> HIDE DEF data
      <4> QED BY <3>1, <3>2, <4>1 DEF BucketType
    <3>4. Range(Bucket(t).data) \ {old} = Others(key, Range(Bucket(t).data))
      <4>1. \A q \in Range(Bucket(t).data) : q.key = key => q = old
        BY <3>1, ListFacts DEF Once, Range
      <4> HIDE DEF old, key
      <4> QED BY <3>1, <4>1 DEF Others
    <3>5. Range(nb.data) = {} \cup Others(key, Range(Bucket(t).data))
      <4> HIDE DEF data, nb, old, key
      <4> QED BY <3>2, <3>3, <3>4
    <3>6. SetBucket(t, nb)
      BY <2>2
    <3>7. AllPairs' = {} \cup Others(key, AllPairs)
      <4> HIDE DEF nb, data, old
      <4> QED BY <1>1, <3>3, <3>5, <3>6, PairsPutBack
    <3>8. AllPairs' = Others(key, AllPairs)
      BY <3>7
    <3> QED BY <3>8, PairsGone
  <2> QED BY <2>1, <2>2 DEF Erase
<1>3. Map!Remove(t)
  BY <1>1, <1>2 DEF Map!Remove, Map!Effect, MapOf
<1> QED BY <1>1, <1>3 DEF Map!Next

\* mapped_for copies the value it finds.
LEMMA MappedForMaps ==
  ASSUME IInv, Answers, NEW t \in Threads, MappedFor(t)
  PROVE  Map!Next
<1> DEFINE key == call[t].key
           r == IF found[t] = 0 THEN NoValue ELSE Bucket(t).data[found[t]].value
<1>1. /\ At(t, "apply") /\ call[t].op = "mapped_for" /\ call[t] # NoCall /\ result[t] = "none"
      /\ call' = call /\ result' = [result EXCEPT ![t] = r] /\ Keep
  BY CallEnds DEF MappedFor, At
<1>2. r = MapOf[key]
  BY <1>1, ValueFound
<1>3. AllPairs' = AllPairs
  BY <1>1 DEF Keep, shared, AllPairs
<1>4. MapOf' = [MapOf EXCEPT ![key] = MapOf[key]]
  BY <1>3, PairsKept DEF MapOf
<1> HIDE DEF r
<1>5. Map!MappedFor(t)
  BY <1>1, <1>2, <1>4 DEF Map!MappedFor, Map!Effect, MapOf
<1> QED BY <1>1, <1>5 DEF Map!Next

\* A call that ends without an effect: it threw, or is not about one key.
LEMMA AnswerMaps ==
  ASSUME IInv, Answers, NEW t \in Threads, pc[t] # "idle", MapOf' = MapOf, NEW r, Return(t, r),
         r = "threw" \/ (r = "done" /\ call[t].op \in {"copy", "load_factor", "rehash"})
  PROVE  Map!Next
<1>1. /\ call[t] # NoCall /\ result[t] = "none"
      /\ call' = call /\ result' = [result EXCEPT ![t] = r]
  BY CallEnds
<1>2. Map!Answer(t)
  BY <1>1 DEF Map!Answer, MapOf
<1> QED BY <1>2 DEF Map!Next

\* T's copy throws.
LEMMA CopyThrowsMaps ==
  ASSUME IInv, Answers, NEW t \in Threads, CopyThrows(t)
  PROVE  Map!Next
<1>1. At(t, "apply") /\ Return(t, "threw") /\ pc[t] # "idle"
  BY DEF CopyThrows, At
<1>2. CASE Keep
  <2>1. AllPairs' = AllPairs
    BY <1>2 DEF Keep, shared, AllPairs
  <2> QED BY <1>1, <2>1, PairsKept, AnswerMaps
<1>3. CASE found[t] = 0 /\ SetBucket(t, [Bucket(t) EXCEPT !.size = @ + 1])
  <2> DEFINE nb == [Bucket(t) EXCEPT !.size = @ + 1]
             key == call[t].key
  <2>1. Bucket(t) \in BucketType /\ Bucket(t).data \in Seq(Pair) /\ key \notin Keyed(Bucket(t).data)
    BY <1>1, <1>3, InBucket
  <2>2. nb = [data |-> Bucket(t).data, size |-> Bucket(t).size + 1]
    <3>1. Bucket(t) \in BucketType
      BY <2>1
    <3> QED BY ONLY <3>1 DEF BucketType
  <2>3. nb \in BucketType /\ nb.data = Bucket(t).data
    <3> HIDE DEF nb
    <3> QED BY <2>1, <2>2 DEF BucketType
  <2>4. \A q \in Range(Bucket(t).data) : q.key # key
    BY <2>1 DEF Range, Keyed
  <2>5. Range(nb.data) = {} \cup Others(key, Range(Bucket(t).data))
    <3> HIDE DEF nb, key
    <3> QED BY <2>3, <2>4 DEF Others
  <2>6. SetBucket(t, nb)
    BY <1>3
  <2>7. AllPairs' = {} \cup Others(key, AllPairs)
    <3> HIDE DEF nb
    <3> QED BY <1>1, <2>3, <2>5, <2>6, PairsPutBack
  <2>8. Others(key, AllPairs) = AllPairs
    BY <1>1, <1>3, ValueFound
  <2>9. AllPairs' = AllPairs
    BY <2>7, <2>8
  <2> QED BY <1>1, <2>9, PairsKept, AnswerMaps
<1> QED BY <1>2, <1>3 DEF CopyThrows

\* A pair that moves is never away.
LEMMA MoveKeepsPairs ==
  ASSUME IInv, NEW t \in Threads, Move(t)
  PROVE  AllPairs' = AllPairs
<1>1. PICK from \in 1..Len(buckets), to \in 1..Len(tmp), pair \in Pair :
        /\ pair \in Range(buckets[from].data)
        /\ BucketsType(buckets') /\ Len(buckets') = Len(buckets)
        /\ \A b \in 1..Len(buckets) : b # from => buckets'[b] = buckets[b]
        /\ Range(buckets'[from].data) = Range(buckets[from].data) \ {pair}
        /\ BucketsType(tmp') /\ Len(tmp') = Len(tmp)
        /\ \A b \in 1..Len(tmp) : b # to => tmp'[b] = tmp[b]
        /\ Range(tmp'[to].data) = Range(tmp[to].data) \cup {pair}
  BY SMTT(30), MoveEffect
<1>2. BucketsType(buckets) /\ BucketsType(tmp)
  BY DEF IInv
<1>3. /\ \A p : p \in PairsOf(buckets) <=> \E b \in 1..Len(buckets) : p \in Range(buckets[b].data)
      /\ \A p : p \in PairsOf(tmp) <=> \E b \in 1..Len(tmp) : p \in Range(tmp[b].data)
  BY <1>2, PairsInBuckets
<1>4. /\ \A p : p \in PairsOf(buckets') <=>
                  \E b \in 1..Len(buckets) : p \in Range(buckets'[b].data)
      /\ \A p : p \in PairsOf(tmp') <=> \E b \in 1..Len(tmp) : p \in Range(tmp'[b].data)
  BY <1>1, PairsInBuckets
<1>5. \A p : p \in PairsOf(buckets') => p \in PairsOf(buckets)
  BY <1>1, <1>3, <1>4
<1>6. \A p : p \in PairsOf(buckets) /\ p # pair => p \in PairsOf(buckets')
  BY <1>1, <1>3, <1>4
<1>7. \A p : p \in PairsOf(tmp') <=> p \in PairsOf(tmp) \/ p = pair
  BY <1>1, <1>3, <1>4
<1>8. pair \in PairsOf(buckets)
  BY <1>1, <1>3
<1> QED BY <1>5, <1>6, <1>7, <1>8 DEF AllPairs

\* The hasher throws in a rehash: the pairs that have moved are lost.
LEMMA HashThrowsMaps ==
  ASSUME IInv, Answers, NEW t \in Threads, HashThrows(t)
  PROVE  Map!Next
<1>1. /\ pc[t] = "move" /\ tmp' = <<>> /\ buckets' = buckets /\ Return(t, "threw")
  BY DEF HashThrows, At
<1>2. /\ call[t] # NoCall /\ result[t] = "none"
      /\ call' = call /\ result' = [result EXCEPT ![t] = "threw"]
      /\ call[t].op \in {"load_factor", "rehash"}
  BY <1>1, CallEnds DEF Answers
<1> DEFINE all == AllPairs
           new == PairsOf(buckets)
           lost == KeysIn(tmp)
<1>3. AllPairs' = new
  BY <1>1 DEF AllPairs, PairsOf
<1>4. /\ UniqueKeys(all) /\ new \subseteq all
      /\ \A p \in all : p.key \in lost <=> p \notin new
      /\ lost \subseteq Keys
  <2>1. /\ BucketsType(buckets) /\ BucketsType(tmp)
        /\ KeysIn(buckets) \cap KeysIn(tmp) = {}
    BY DEF IInv, OnePairPerKey
  <2>2. /\ \A p \in PairsOf(buckets) : p.key \in KeysIn(buckets)
        /\ \A p \in PairsOf(tmp) : p.key \in KeysIn(tmp)
        /\ KeysIn(tmp) \subseteq Keys
    BY <2>1, PairsInBuckets, BucketsFacts
  <2> QED BY <2>1, <2>2, AllUnique DEF AllPairs
<1>5. ASSUME NEW k \in Keys
      PROVE  ValueIn(new, k) = IF k \in lost THEN NoValue ELSE ValueIn(all, k)
  <2> HIDE DEF all, new, lost
  <2>1. UniqueKeys(new)
    BY <1>4 DEF UniqueKeys
  <2>2. CASE k \in lost
    <3>1. \A p \in new : p.key # k
      BY <1>4, <2>2
    <3> QED BY <2>2, <3>1, ValueOfNone
  <2>3. CASE k \notin lost
    <3>1. \A p : p \in new /\ p.key = k <=> p \in all /\ p.key = k
      BY <1>4, <2>3
    <3>2. ValueIn(new, k) = ValueIn(all, k)
      BY <1>4, <2>1, <3>1, SameValue
    <3> QED BY <2>3, <3>2
  <2> QED BY <2>2, <2>3
<1>6. /\ \A k \in Keys : Value(k) = ValueIn(all, k)
      /\ \A k \in Keys : Value(k)' = ValueIn(new, k)
  BY <1>3 DEF Value, AllPairs
<1> HIDE DEF all, new, lost
<1>7. MapOf' = [k \in Keys |-> IF k \in lost THEN NoValue ELSE MapOf[k]]
  <2>1. \A k \in Keys : Value(k)' = IF k \in lost THEN NoValue ELSE MapOf[k]
    BY <1>5, <1>6 DEF MapOf
  <2> QED BY <2>1 DEF MapOf
<1>8. Map!Lose(t)
  BY <1>2, <1>4, <1>7 DEF Map!Lose, MapOf
<1> QED BY <1>2, <1>8 DEF Map!Next

\* The new buckets, with all the pairs, become the map's.
LEMMA SwapMaps ==
  ASSUME IInv, Answers, NEW t \in Threads, Swap(t)
  PROVE  Map!Next
<1>1. /\ pc[t] = "move" /\ Filled = {} /\ buckets' = tmp /\ tmp' = <<>> /\ Return(t, "done")
  BY DEF Swap, At
<1>2. PairsOf(buckets) = {}
  <2>1. \A b \in DOMAIN buckets : buckets[b].data = <<>>
    BY <1>1 DEF Filled
  <2>2. Range(<<>>) = {}
    BY DEF Range
  <2> QED BY <2>1, <2>2 DEF PairsOf
<1>3. PairsOf(tmp') = {}
  BY <1>1 DEF PairsOf
<1>4. AllPairs' = AllPairs
  BY <1>1, <1>2, <1>3 DEF AllPairs
<1>5. call[t].op \in {"load_factor", "rehash"}
  BY <1>1 DEF Answers
<1> QED BY <1>1, <1>4, <1>5, PairsKept, AnswerMaps

\* The new buckets begin empty.
LEMMA CountKeepsPairs ==
  ASSUME IInv, NEW t \in Threads, Count(t)
  PROVE  AllPairs' = AllPairs
<1>1. /\ pc[t] = "count" /\ buckets' = buckets
      /\ \A b \in DOMAIN tmp' : tmp'[b].data = <<>>
  BY DEF Count, At, Empty
<1>2. tmp = <<>>
  BY <1>1, NobodyMoves
<1>3. PairsOf(tmp) = {}
  BY <1>2 DEF PairsOf
<1>4. PairsOf(tmp') = {}
  <2>1. Range(<<>>) = {}
    BY DEF Range
  <2> QED BY <1>1, <2>1 DEF PairsOf
<1> QED BY <1>1, <1>3, <1>4 DEF AllPairs

\* A call begins when the one before has its answer.
LEMMA BeginMaps ==
  ASSUME IInv, Answers, NEW t \in Threads, Begin(t)
  PROVE  Map!Next
<1>1. PICK c \in CallsOf(Ops[t]) : call' = [call EXCEPT ![t] = c]
  BY DEF Begin
<1>2. /\ pc[t] = "idle" /\ result' = [result EXCEPT ![t] = "none"]
      /\ buckets' = buckets /\ tmp' = tmp
  BY DEF Begin, At, shared
<1>3. MapOf' = MapOf
  <2>1. AllPairs' = AllPairs
    BY <1>2 DEF AllPairs
  <2> QED BY <2>1, PairsKept
<1>4. c \in AllCalls
  BY <1>1 DEF AllCalls
<1>5. call[t] = NoCall \/ result[t] # "none"
  BY <1>2 DEF Answers
<1>6. Map!Begin(t)
  BY <1>1, <1>2, <1>3, <1>4, <1>5 DEF Map!Begin, MapOf
<1> QED BY <1>6 DEF Map!Next

\* A step that MapSpec does not see.
LEMMA HiddenStep ==
  ASSUME MapOf' = MapOf, call' = call, result' = result
  PROVE  UNCHANGED Map!vars
BY DEF Map!vars, MapOf

\* Every step is one of MapSpec's, or hidden.
LEMMA StepMaps ==
  ASSUME IInv, Answers, [Next]_vars
  PROVE  [Map!Next]_(Map!vars)
<1>1. CASE UNCHANGED vars
  <2>1. AllPairs' = AllPairs
    BY <1>1 DEF vars, AllPairs
  <2>2. MapOf' = MapOf
    BY <2>1, PairsKept
  <2> QED BY <1>1, <2>2, HiddenStep DEF vars
<1>2. ASSUME NEW t \in Threads,
             \/ Begin(t) \/ PushFront(t) \/ FindPresent(t) \/ Erase(t) \/ MappedFor(t)
             \/ CopyThrows(t) \/ HashThrows(t) \/ Swap(t)
      PROVE  Map!Next
  BY <1>2, BeginMaps, PushFrontMaps, FindPresentMaps, EraseMaps, MappedForMaps,
     CopyThrowsMaps, HashThrowsMaps, SwapMaps
<1>3. ASSUME NEW t \in Threads, AllocationThrows(t)
      PROVE  Map!Next
  <2>1. Return(t, "threw") /\ pc[t] # "idle" /\ AllPairs' = AllPairs
    BY <1>3 DEF AllocationThrows, At, Keep, shared, AllPairs
  <2> QED BY <2>1, PairsKept, AnswerMaps
<1>4. ASSUME NEW t \in Threads, Report(t), Return(t, "done")
      PROVE  Map!Next
  <2>1. pc[t] = "scan" /\ AllPairs' = AllPairs
    BY <1>4 DEF Report, At, shared, AllPairs
  <2>2. call[t].op \in {"copy", "load_factor"}
    BY <2>1 DEF IInv, CallsFit, ScanOps
  <2> QED BY <1>4, <2>1, <2>2, PairsKept, AnswerMaps
<1>5. ASSUME NEW t \in Threads,
             \/ Enter(t) \/ LockBucket(t) \/ Visit(t) \/ LockAll(t) \/ Count(t) \/ Move(t)
             \/ (Report(t) /\ ~Return(t, "done"))
      PROVE  UNCHANGED Map!vars
  <2>1. AllPairs' = AllPairs
    <3>1. CASE Count(t) \/ Move(t)
      BY <3>1, CountKeepsPairs, MoveKeepsPairs
    <3>2. CASE \/ Enter(t) \/ LockBucket(t) \/ Visit(t) \/ LockAll(t)
               \/ (Report(t) /\ ~Return(t, "done"))
      BY <3>2 DEF Enter, LockBucket, Visit, LockAll, Report, shared, AllPairs
    <3> QED BY <1>5, <3>1, <3>2
  <2>2. call' = call /\ result' = result
    BY <1>5 DEF Enter, LockBucket, Visit, LockAll, Report, Count, Move
  <2> QED BY <2>1, <2>2, PairsKept, HiddenStep
<1> QED BY <1>1, <1>2, <1>3, <1>4, <1>5 DEF Next

\* A new map has no value for any key.
LEMMA InitMaps == Init => Map!Init
<1> SUFFICES ASSUME Init
             PROVE  Map!Init
  OBVIOUS
<1>1. \A b \in DOMAIN buckets : buckets[b].data = <<>>
  BY DEF Init, Empty
<1>2. AllPairs = {}
  <2>1. Range(<<>>) = {} /\ tmp = <<>>
    BY DEF Range, Init
  <2> QED BY <1>1, <2>1 DEF AllPairs, PairsOf
<1>3. \A k \in Keys : Value(k) = NoValue
  BY <1>2 DEF Value, AllPairs, ValueIn
<1>4. [k \in Keys |-> Value(k)] = [k \in Keys |-> NoValue]
  BY <1>3
<1> QED BY <1>4 DEF Init, Map!Init

\* A call that returns has an answer, and its thread is idle.
LEMMA AnswersKept == IInv /\ Answers /\ [Next]_vars => Answers'
<1> SUFFICES ASSUME IInv, Answers, [Next]_vars
             PROVE  Answers'
  OBVIOUS
<1>1. /\ pc \in [Threads -> Labels] /\ call \in [Threads -> AllCalls \cup {NoCall}]
      /\ result \in [Threads -> Results]
  BY DEF IInv, LocalsType
<1>2. CASE UNCHANGED vars
  BY <1>2 DEF vars, Answers
<1>3. ASSUME NEW t \in Threads, NEW r, r # "none", Return(t, r)
      PROVE  Answers'
  BY <1>1, <1>3 DEF Return, GoTo, Answers
<1>4. ASSUME NEW t \in Threads, Begin(t)
      PROVE  Answers'
  <2>1. PICK c \in CallsOf(Ops[t]) :
          /\ call' = [call EXCEPT ![t] = c]
          /\ pc' = [pc EXCEPT ![t] = IF c.op = "rehash" THEN "lock_all" ELSE "enter"]
    BY <1>4 DEF Begin, GoTo
  <2>2. result' = [result EXCEPT ![t] = "none"]
    BY <1>4 DEF Begin
  <2> QED BY <1>1, <2>1, <2>2 DEF Answers
<1>5. ASSUME NEW t \in Threads, NEW label \in Labels, label # "idle", pc[t] # "idle",
             pc' = [pc EXCEPT ![t] = label], call' = call, result' = result,
             label \in {"lock_all", "count", "move"} =>
               call[t].op \in {"load_factor", "rehash"}
      PROVE  Answers'
  BY <1>1, <1>5 DEF Answers
<1>6. ASSUME NEW t \in Threads,
             \/ PushFront(t) \/ FindPresent(t) \/ Erase(t) \/ MappedFor(t) \/ CopyThrows(t)
             \/ AllocationThrows(t) \/ HashThrows(t) \/ Swap(t)
             \/ (Report(t) /\ Return(t, "done"))
      PROVE  Answers'
  <2>1. CASE MappedFor(t)
    <3>1. Return(t, MapOf[call[t].key]) /\ MapOf[call[t].key] # "none"
      BY <2>1, ValueFound, NamesAssumption DEF MappedFor
    <3> QED BY <1>3, <3>1
  <2>2. CASE ~MappedFor(t)
    <3>1. \/ Return(t, "inserted") \/ Return(t, "done") \/ Return(t, "present")
          \/ Return(t, "threw")
      BY <1>6, <2>2 DEF PushFront, FindPresent, Erase, CopyThrows, AllocationThrows,
         HashThrows, Swap
    <3> QED BY <1>3, <3>1
  <2> QED BY <2>1, <2>2
<1>7. ASSUME NEW t \in Threads,
             \/ Enter(t) \/ LockBucket(t) \/ Visit(t) \/ LockAll(t) \/ Count(t) \/ Move(t)
             \/ (Report(t) /\ ~Return(t, "done"))
      PROVE  Answers'
  <2>1. CASE Enter(t)
    <3>1. PICK label \in {"bucket", "crashed", "scan"} : pc' = [pc EXCEPT ![t] = label]
      BY <2>1 DEF Enter, GoTo
    <3>2. label \in Labels /\ label # "idle" /\ label \notin {"lock_all", "count", "move"}
      BY <3>1 DEF Labels
    <3>3. pc[t] # "idle" /\ call' = call /\ result' = result
      BY <2>1 DEF Enter, At
    <3> QED BY <1>5, <3>1, <3>2, <3>3
  <2>2. CASE LockBucket(t)
    <3>1. /\ pc' = [pc EXCEPT ![t] = "apply"] /\ "apply" \in Labels
          /\ pc[t] # "idle" /\ call' = call /\ result' = result
      BY <2>2 DEF LockBucket, GoTo, At, Labels
    <3> QED BY <1>5, <3>1
  <2>3. CASE Visit(t) \/ Move(t)
    BY <2>3 DEF Visit, Move, Answers
  <2>4. CASE LockAll(t)
    <3>1. /\ pc' = [pc EXCEPT ![t] = "count"] /\ "count" \in Labels
          /\ pc[t] = "lock_all" /\ call' = call /\ result' = result
      BY <2>4 DEF LockAll, GoTo, At, Labels
    <3>2. call[t].op \in {"load_factor", "rehash"}
      BY <3>1 DEF Answers
    <3> QED BY <1>5, <3>1, <3>2
  <2>5. CASE Count(t)
    <3>1. /\ pc' = [pc EXCEPT ![t] = "move"] /\ "move" \in Labels
          /\ pc[t] = "count" /\ call' = call /\ result' = result
      BY <2>5 DEF Count, GoTo, At, Labels
    <3>2. call[t].op \in {"load_factor", "rehash"}
      BY <3>1 DEF Answers
    <3> QED BY <1>5, <3>1, <3>2
  <2>6. CASE Report(t) /\ ~Return(t, "done")
    <3>1. /\ pc' = [pc EXCEPT ![t] = "lock_all"] /\ "lock_all" \in Labels
          /\ pc[t] = "scan" /\ call' = call /\ result' = result
          /\ call[t].op = "load_factor"
      BY <2>6 DEF Report, Overloaded, GoTo, At, Labels
    <3> QED BY <1>5, <3>1
  <2> QED BY <1>7, <2>1, <2>2, <2>3, <2>4, <2>5, <2>6
<1> QED BY <1>2, <1>4, <1>6, <1>7 DEF Next

\* ts_ex_hashmap implements the map of MapSpec: every call takes effect at one moment
\* between its beginning and its end, on one pair per key, across rehashes; only a hasher
\* that throws in a rehash loses pairs.
THEOREM ImplementsMapSpec == Spec => ImplementsMap
<1>1. Init => Map!Init
  BY InitMaps
<1>2. IInv /\ Answers /\ [Next]_vars => [Map!Next]_(Map!vars)
  BY StepMaps
<1>3. Init => Answers
  BY DEF Init, Answers
<1>4. Spec => []Answers
  BY <1>3, AnswersKept, InvariantHolds, PTL DEF Spec
<1> QED BY <1>1, <1>2, <1>4, InvariantHolds, PTL DEF Spec, ImplementsMap, Map!Spec
=============================================================================
