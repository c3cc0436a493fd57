------------------------------ MODULE ExHashmap ------------------------------
(* ts_ex_hashmap: buckets, each with a shared mutex, behind one more shared   *)
(* mutex that rehash takes exclusively and everything else shared.            *)
EXTENDS Integers, FiniteSets, Sequences, SequencesExt

CONSTANTS Threads, Keys, Values,
          Ops,          \* Ops[t]: the operations thread t calls
          Hash,         \* m_hasher
          BucketsCount, \* the constructor's buckets_count
          LoadNum, LoadDen, \* rehash's load_factor is LoadNum/LoadDen
          MaxExcess,    \* bound: how far the m_size may exceed the pairs in all
          NoKey, NoValue, NoCall

KeyOps == {"insert", "insert_or_assign", "remove", "mapped_for"}
\* size() is what load_factor() divides by the number of buckets.
ScanOps == {"copy", "load_factor"}
WritingOps == {"insert", "insert_or_assign"}

ASSUME OpsAssumption == Ops \in [Threads -> SUBSET (KeyOps \cup ScanOps \cup {"rehash"})]
ASSUME HashAssumption == Hash \in [Keys -> Nat]
ASSUME CountAssumption == BucketsCount \in Nat \ {0}
ASSUME LoadAssumption == LoadNum \in Nat \ {0} /\ LoadDen \in Nat \ {0}
ASSUME NamesAssumption ==
  /\ NoKey \notin Keys /\ NoValue \notin Values
  /\ \A v \in Values \cup {NoValue} : v # "none"

VARIABLES
  buckets,    \* m_buckets; of each bucket m_data, a list of pairs, and m_size
  tmp,        \* rehash's new buckets
  global,     \* how each thread holds m_mut
  held,       \* how it holds the mutex of the bucket it is in
  pc, call, result, \* where it is, what it called, what that answered
  place,      \* the bucket it is in, or visits next
  found,      \* find_entry's position in the bucket, 0 if none
  out, total, \* copy's output and the sum of sizes
  always,     \* history: keys in the map since the scan began
  ever        \* history: keys in the map at some time since the scan began

shared == <<buckets, tmp>>
scanning == <<out, total, always, ever>>
vars == <<buckets, tmp, global, held, pc, call, result, place, found,
          out, total, always, ever>>

At(t, label) == pc[t] = label
GoTo(t, label) == pc' = [pc EXCEPT ![t] = label]
Modes == {"none", "shared", "exclusive"}

\* Whether t can take a shared_mutex in a mode, others holding it as holds says.
CanTake(mode, holds, others) ==
  \A u \in others : holds[u] # "exclusive" /\ (mode = "exclusive" => holds[u] = "none")

Empty == [data |-> <<>>, size |-> 0]
Keyed(data) == {data[i].key : i \in DOMAIN data}
KeysIn(bs) == UNION {Keyed(bs[b].data) : b \in DOMAIN bs}
Present == KeysIn(buckets) \cup KeysIn(tmp)

\* Sums over the buckets, as the number of the units that are summed up.
Units(amount) == UNION {{b} \X (1..amount[b]) : b \in DOMAIN amount}
Sizes(bs) == Cardinality(Units([b \in DOMAIN bs |-> bs[b].size]))
Pairs(bs) == Cardinality(Units([b \in DOMAIN bs |-> Len(bs[b].data)]))

\* The arguments of a call of op.
Call(op, k, v) == [op |-> op, key |-> k, value |-> v]
CallsOf(ops) ==
  {Call(op, k, v) : op \in ops \cap WritingOps, k \in Keys, v \in Values}
    \cup {Call(op, k, NoValue) : op \in (ops \cap KeyOps) \ WritingOps, k \in Keys}
    \cup {Call(op, NoKey, NoValue) : op \in ops \ KeyOps}
AllCalls == UNION {CallsOf(Ops[t]) : t \in Threads}
ASSUME NoCallAssumption == NoCall \notin AllCalls

Init ==
  /\ buckets = [b \in 1..BucketsCount |-> Empty]
  /\ tmp = <<>>
  /\ global = [t \in Threads |-> "none"]
  /\ held = [t \in Threads |-> "none"]
  /\ pc = [t \in Threads |-> "idle"]
  /\ call = [t \in Threads |-> NoCall]
  /\ result = [t \in Threads |-> "none"]
  /\ place = [t \in Threads |-> 0]
  /\ found = [t \in Threads |-> 0]
  /\ out = [t \in Threads |-> <<>>]
  /\ total = [t \in Threads |-> 0]
  /\ always = [t \in Threads |-> {}]
  /\ ever = [t \in Threads |-> {}]

-----------------------------------------------------------------------------
(* One key *)

Begin(t) ==
  /\ At(t, "idle")
  /\ \E c \in CallsOf(Ops[t]) :
       /\ call' = [call EXCEPT ![t] = c]
       /\ GoTo(t, IF c.op = "rehash" THEN "lock_all" ELSE "enter")
  /\ result' = [result EXCEPT ![t] = "none"]
  /\ UNCHANGED <<shared, global, held, place, found, scanning>>

\* bucket_for: m_hasher(key) % m_buckets_count.
BucketFor(k, n) == (Hash[k] % n) + 1

\* std::shared_lock sl{m_mut}; a key's bucket is found, or the scan begins.  With no
\* buckets the remainder is undefined and the program ends.
Enter(t) ==
  /\ At(t, "enter")
  /\ CanTake("shared", global, Threads \ {t})
  /\ global' = [global EXCEPT ![t] = "shared"]
  /\ \/ /\ call[t].op \in KeyOps
        /\ Len(buckets) > 0
        /\ place' = [place EXCEPT ![t] = BucketFor(call[t].key, Len(buckets))]
        /\ GoTo(t, "bucket")
        /\ UNCHANGED <<always, ever>>
     \/ /\ call[t].op \in KeyOps
        /\ Len(buckets) = 0
        /\ GoTo(t, "crashed")
        /\ UNCHANGED <<place, always, ever>>
     \/ /\ call[t].op \in ScanOps
        /\ place' = [place EXCEPT ![t] = 1]
        /\ always' = [always EXCEPT ![t] = Present]
        /\ ever' = [ever EXCEPT ![t] = Present]
        /\ GoTo(t, "scan")
  /\ UNCHANGED <<shared, held, call, result, found, out, total>>

\* find_entry and find_before_entry; 0 is the end.
FindEntry(k, data) ==
  IF k \in Keyed(data) THEN CHOOSE i \in DOMAIN data : data[i].key = k ELSE 0

\* How an operation takes the bucket's mutex.  A fault shares it always.
SharedBucketMode(op) == "shared"
BucketMode(op) == IF op = "mapped_for" THEN "shared" ELSE "exclusive"

LockBucket(t) ==
  LET mode == BucketMode(call[t].op) IN
  /\ At(t, "bucket")
  /\ CanTake(mode, held, {u \in Threads : place[u] = place[t]})
  /\ held' = [held EXCEPT ![t] = mode]
  /\ found' = [found EXCEPT ![t] = FindEntry(call[t].key, buckets[place[t]].data)]
  /\ GoTo(t, "apply")
  /\ UNCHANGED <<shared, global, call, result, place, scanning>>

\* The call ends and gives back what it holds.
Return(t, r) ==
  /\ result' = [result EXCEPT ![t] = r]
  /\ GoTo(t, "idle")
  /\ global' = [global EXCEPT ![t] = "none"]
  /\ held' = [held EXCEPT ![t] = "none"]
  /\ place' = [place EXCEPT ![t] = 0]
  /\ found' = [found EXCEPT ![t] = 0]
  /\ out' = [out EXCEPT ![t] = <<>>]
  /\ total' = [total EXCEPT ![t] = 0]
  /\ UNCHANGED call

\* The thread's bucket becomes b; running scans note the keys that come and go.
SetBucket(t, b) ==
  /\ UNCHANGED tmp
  /\ buckets' = [buckets EXCEPT ![place[t]] = b]
  /\ always' = [u \in Threads |-> IF u = t THEN {} ELSE always[u] \cap Present']
  /\ ever' = [u \in Threads |->
                IF u = t \/ ~At(u, "scan") THEN {} ELSE ever[u] \cup Present']

Bucket(t) == buckets[place[t]]
PairOf(t) == [key |-> call[t].key, value |-> call[t].value]
Keep == UNCHANGED <<shared, always, ever>>

\* insert and insert_or_assign, of a key that is not in the bucket.
PushFront(t) ==
  /\ At(t, "apply")
  /\ call[t].op \in WritingOps
  /\ found[t] = 0
  /\ SetBucket(t, [data |-> <<PairOf(t)>> \o Bucket(t).data, size |-> Bucket(t).size + 1])
  /\ Return(t, IF call[t].op = "insert" THEN "inserted" ELSE "done")

\* insert leaves the pair it finds; insert_or_assign gives it the value.
FindPresent(t) ==
  /\ At(t, "apply")
  /\ call[t].op \in WritingOps
  /\ found[t] # 0
  /\ \/ call[t].op = "insert" /\ Keep /\ Return(t, "present")
     \/ /\ call[t].op = "insert_or_assign"
        /\ SetBucket(t, [Bucket(t) EXCEPT !.data[found[t]] = PairOf(t)])
        /\ Return(t, "done")

Erase(t) ==
  /\ At(t, "apply")
  /\ call[t].op = "remove"
  /\ \/ found[t] = 0 /\ Keep
     \/ /\ found[t] # 0
        /\ SetBucket(t, [data |-> RemoveAt(Bucket(t).data, found[t]),
                         size |-> Bucket(t).size - 1])
  /\ Return(t, "done")

MappedFor(t) ==
  /\ At(t, "apply")
  /\ call[t].op = "mapped_for"
  /\ Keep
  /\ Return(t, IF found[t] = 0 THEN NoValue ELSE Bucket(t).data[found[t]].value)

\* Copying the key or the value throws.  insert_or_assign has counted a new pair
\* before it makes it.
CopyThrows(t) ==
  /\ At(t, "apply")
  /\ call[t].op \in WritingOps \cup {"mapped_for"}
  /\ \/ /\ call[t].op = "insert_or_assign" /\ found[t] = 0
        /\ Sizes(buckets) - Pairs(buckets) < MaxExcess
        /\ SetBucket(t, [Bucket(t) EXCEPT !.size = @ + 1])
     \/ /\ IF call[t].op = "insert" THEN found[t] = 0 ELSE found[t] # 0
        /\ Keep
  /\ Return(t, "threw")

-----------------------------------------------------------------------------
(* copy, size and load_factor visit the buckets one after the other *)

\* Whether all buckets are visited.  A fault forgets the last one.
VisitedAllButOne(t) == place[t] >= Len(buckets)
VisitedAll(t) == place[t] > Len(buckets)

Visit(t) ==
  /\ At(t, "scan")
  /\ ~VisitedAll(t)
  /\ CanTake("shared", held, {u \in Threads : place[u] = place[t]})
  /\ LET b == buckets[place[t]] IN
       /\ out' = [out EXCEPT ![t] =
                    IF call[t].op = "copy" THEN @ \o [i \in DOMAIN b.data |-> b.data[i].key]
                                           ELSE @]
       /\ total' = [total EXCEPT ![t] = IF call[t].op = "copy" THEN 0 ELSE @ + b.size]
  /\ place' = [place EXCEPT ![t] = @ + 1]
  /\ UNCHANGED <<shared, global, held, pc, call, result, found, always, ever>>

\* if(m_map.load_factor()>1.0) m_map.rehash(), as in ts_hashmap_ext_stress_test.cpp.
Overloaded(t) == call[t].op = "load_factor" /\ total[t] > Len(buckets)

\* The scan answers; its caller may rehash then.
Report(t) ==
  /\ At(t, "scan")
  /\ VisitedAll(t)
  /\ always' = [always EXCEPT ![t] = {}]
  /\ ever' = [ever EXCEPT ![t] = {}]
  /\ \/ Return(t, "done")
     \/ /\ Overloaded(t)
        /\ GoTo(t, "lock_all")
        /\ global' = [global EXCEPT ![t] = "none"]
        /\ place' = [place EXCEPT ![t] = 0]
        /\ total' = [total EXCEPT ![t] = 0]
        /\ UNCHANGED <<held, call, result, found, out>>
  /\ UNCHANGED shared

-----------------------------------------------------------------------------
(* rehash *)

\* How rehash takes m_mut.  A fault shares it.
SharedRehashMode == "shared"
RehashMode == "exclusive"

LockAll(t) ==
  /\ At(t, "lock_all")
  /\ CanTake(RehashMode, global, Threads \ {t})
  /\ global' = [global EXCEPT ![t] = RehashMode]
  /\ GoTo(t, "count")
  /\ UNCHANGED <<shared, held, call, result, place, found, scanning>>

\* ceil(sz/load_factor).  A fault rounds down.
FloorCount(sz) == (sz * LoadDen) \div LoadNum
NewCount(sz) == (sz * LoadDen + LoadNum - 1) \div LoadNum

Count(t) ==
  /\ At(t, "count")
  /\ tmp' = [b \in 1..NewCount(Sizes(buckets)) |-> Empty]
  /\ GoTo(t, "move")
  /\ UNCHANGED <<buckets, global, held, call, result, place, found, scanning>>

AllocationThrows(t) ==
  /\ At(t, "count")
  /\ Keep
  /\ Return(t, "threw")

Filled == {b \in DOMAIN buckets : buckets[b].data # <<>>}
FirstFilled == CHOOSE b \in Filled : \A c \in Filled : b <= c

\* The first node of the old buckets is spliced into its new one.  A fault forgets the
\* new bucket's m_size.
MoveUncounted(t) ==
  /\ At(t, "move")
  /\ Filled # {}
  /\ LET pair == Head(buckets[FirstFilled].data)
         b == BucketFor(pair.key, Len(tmp))
     IN  /\ tmp' = [tmp EXCEPT ![b].data = <<pair>> \o @]
         /\ buckets' = [buckets EXCEPT ![FirstFilled].data = Tail(@)]
  /\ UNCHANGED <<global, held, pc, call, result, place, found, scanning>>
Move(t) ==
  /\ At(t, "move")
  /\ Filled # {}
  /\ LET pair == Head(buckets[FirstFilled].data)
         b == BucketFor(pair.key, Len(tmp))
     IN  /\ tmp' = [tmp EXCEPT ![b] = [data |-> <<pair>> \o @.data, size |-> @.size + 1]]
         /\ buckets' = [buckets EXCEPT ![FirstFilled].data = Tail(@)]
  /\ UNCHANGED <<global, held, pc, call, result, place, found, scanning>>

\* The hasher throws: tmp goes with the nodes moved so far; the old buckets keep
\* their m_size.
HashThrows(t) ==
  /\ At(t, "move")
  /\ Filled # {}
  /\ Sizes(buckets) - Pairs(buckets) <= MaxExcess
  /\ tmp' = <<>>
  /\ Return(t, "threw")
  /\ UNCHANGED <<buckets, always, ever>>

Swap(t) ==
  /\ At(t, "move")
  /\ Filled = {}
  /\ buckets' = tmp
  /\ tmp' = <<>>
  /\ Return(t, "done")
  /\ UNCHANGED <<always, ever>>

-----------------------------------------------------------------------------

Next ==
  \/ /\ \A t \in Threads : ~At(t, "crashed")
     /\ \E t \in Threads :
          \/ Begin(t) \/ Enter(t) \/ LockBucket(t)
          \/ PushFront(t) \/ FindPresent(t) \/ Erase(t) \/ MappedFor(t) \/ CopyThrows(t)
          \/ Visit(t) \/ Report(t)
          \/ LockAll(t) \/ Count(t) \/ AllocationThrows(t)
          \/ Move(t) \/ HashThrows(t) \/ Swap(t)
  \/ \* the program has ended
     /\ \E t \in Threads : At(t, "crashed")
     /\ UNCHANGED vars

Spec == Init /\ [][Next]_vars

-----------------------------------------------------------------------------
(* What must hold. *)

BucketsType(bs) ==
  /\ bs \in Seq([data : Seq([key : Keys, value : Values]), size : Nat])

\* Type invariant.  A bucket a thread is in exists as long as it is there.
TypeOK ==
  /\ BucketsType(buckets) /\ BucketsType(tmp)
  /\ global \in [Threads -> Modes]
  /\ held \in [Threads -> Modes]
  /\ pc \in [Threads -> {"idle", "enter", "bucket", "apply", "scan", "lock_all", "count",
                         "move", "crashed"}]
  /\ call \in [Threads -> AllCalls \cup {NoCall}]
  /\ result \in [Threads -> Values \cup {NoValue, "none", "inserted", "present", "done", "threw"}]
  /\ place \in [Threads -> Nat]
  /\ found \in [Threads -> Nat]
  /\ out \in [Threads -> Seq(Keys)]
  /\ total \in [Threads -> Nat]
  /\ always \in [Threads -> SUBSET Keys]
  /\ ever \in [Threads -> SUBSET Keys]
  /\ \A t \in Threads : pc[t] \in {"bucket", "apply"} => place[t] \in DOMAIN buckets

\* bs holds each key in the bucket its hash gives, once.
InPlace(bs) ==
  \A b \in DOMAIN bs :
    LET data == bs[b].data IN
      \A i, j \in DOMAIN data :
        /\ BucketFor(data[i].key, Len(bs)) = b
        /\ data[i].key = data[j].key => i = j

\* At every moment a key is in one pair, in the bucket where the next call looks for
\* it, also while a rehash moves the pairs from the old buckets to the new.
OnePairPerKey ==
  /\ InPlace(buckets) /\ InPlace(tmp)
  /\ KeysIn(buckets) \cap KeysIn(tmp) = {}

\* m_size counts at least the pairs in the bucket: rehash makes a bucket for every
\* pair it moves, whatever was thrown before.
SizesSuffice ==
  /\ \A b \in DOMAIN buckets : buckets[b].size >= Len(buckets[b].data)
  /\ \A t \in Threads : At(t, "move") /\ Filled # {} => tmp # <<>>

\* A scan that ends has met each key that was in the map all along, none twice, and
\* none that was never there; the sizes count every key that was there all along.
Occurrences(s, k) == Cardinality({i \in DOMAIN s : s[i] = k})
ScanIsComplete ==
  \A t \in Threads : At(t, "scan") /\ VisitedAll(t) =>
    IF call[t].op = "copy"
      THEN \A k \in Keys :
             /\ k \in always[t] => Occurrences(out[t], k) = 1
             /\ Occurrences(out[t], k) <= IF k \in ever[t] THEN 1 ELSE 0
      ELSE total[t] >= Cardinality(always[t])

\* ts_hashmap_ext_test.cpp:115-116: after rehash(load_factor) load_factor() is not
\* above load_factor.
RehashMeetsLoad ==
  [][Len(buckets') # Len(buckets) => Sizes(buckets') * LoadDen <= LoadNum * Len(buckets')]_vars

\* The map as one value per key.
PairsOf(bs) == UNION {Range(bs[b].data) : b \in DOMAIN bs}
ValueIn(all, k) ==
  IF \E p \in all : p.key = k THEN (CHOOSE p \in all : p.key = k).value ELSE NoValue
Value(k) == ValueIn(PairsOf(buckets) \cup PairsOf(tmp), k)

Map == INSTANCE MapSpec WITH pairs <- [k \in Keys |-> Value(k)], Calls <- AllCalls

\* Every call takes effect at one moment, on one pair per key, across rehashes; only
\* a hasher that throws in a rehash loses pairs.
ImplementsMap == Map!Spec

\* ts_hashmap_ext_stress_test.cpp:50-51: a map that is rehashed when load_factor() was
\* above 1.0 goes on working while others insert and remove.
BucketsRemain == \A t \in Threads : ~At(t, "crashed")
=============================================================================
