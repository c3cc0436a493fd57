------------------------------- MODULE Hashmap -------------------------------
(* ts_hashmap: a fixed number of buckets, each a list of pairs behind a       *)
(* shared mutex.  A call on one key runs under the mutex of its bucket; copy  *)
(* takes the buckets one after the other.                                     *)
EXTENDS Naturals, SequencesExt

CONSTANTS Copiers, Keys, Vals,
          Buckets,  \* m_buckets_count
          HashOf    \* m_hasher, a function of the keys

ASSUME BucketsAssumption == Buckets \in Nat \ {0}
ASSUME HashOfAssumption == HashOf \in [Keys -> Nat]

VARIABLES
  lists,   \* m_data of each bucket
  cursor,  \* the bucket each copier takes next; Buckets when it does not copy
  out,     \* what it has written
  stayed,  \* history: pairs that were there all the time since it began
  met      \* history: pairs that were there at some time since it began

hashmapVars == <<lists, cursor, out, stayed, met>>

Pairs == Keys \X Vals
Contents(l) == UNION {ToSet(l[b]) : b \in 0..Buckets - 1}
BucketFor(k) == HashOf[k] % Buckets

\* remove_if: the list without the pairs of key k.
RemoveIf(list, k) ==
  LET kept[i \in 0..Len(list)] ==
        IF i = 0 THEN <<>>
        ELSE IF list[i][1] = k THEN kept[i - 1] ELSE Append(kept[i - 1], list[i])
  IN  kept[Len(list)]

FindEntry(k) == {i \in DOMAIN lists[BucketFor(k)] : lists[BucketFor(k)][i][1] = k}

HashmapInit ==
  /\ lists = [b \in 0..Buckets - 1 |-> <<>>]
  /\ cursor = [t \in Copiers |-> Buckets]
  /\ out = [t \in Copiers |-> <<>>]
  /\ stayed = [t \in Copiers |-> {}] /\ met = [t \in Copiers |-> {}]

\* One call's effect on the bucket of k, and what copiers can tell of it.
SetBucket(k, list) ==
  /\ lists' = [lists EXCEPT ![BucketFor(k)] = list]
  /\ stayed' = [t \in Copiers |-> stayed[t] \cap Contents(lists')]
  /\ met' = [t \in Copiers |-> met[t] \cup Contents(lists')]
  /\ UNCHANGED <<cursor, out>>

PushFront(k, v) == FindEntry(k) = {} /\ SetBucket(k, <<<<k, v>>>> \o lists[BucketFor(k)])

\* insert; a key that is there stays as it is.
Insert(k, v) == PushFront(k, v)

\* insert_or_assign.
InsertOrAssign(k, v) ==
  \/ PushFront(k, v)
  \/ \E i \in FindEntry(k) : SetBucket(k, [lists[BucketFor(k)] EXCEPT ![i] = <<k, v>>])

RemoveKey(k) == SetBucket(k, RemoveIf(lists[BucketFor(k)], k))

BeginCopy(t) ==
  /\ cursor[t] = Buckets
  /\ cursor' = [cursor EXCEPT ![t] = 0]
  /\ out' = [out EXCEPT ![t] = <<>>]
  /\ stayed' = [stayed EXCEPT ![t] = Contents(lists)]
  /\ met' = [met EXCEPT ![t] = Contents(lists)]
  /\ UNCHANGED lists

\* copy_values of the next bucket; the fault passes over the last.
CopyAllButLast(t) ==
  /\ cursor[t] < Buckets
  /\ out' = [out EXCEPT ![t] = IF cursor[t] = Buckets - 1 THEN @ ELSE @ \o lists[cursor[t]]]
  /\ cursor' = [cursor EXCEPT ![t] = @ + 1]
  /\ UNCHANGED <<lists, stayed, met>>
CopyValues(t) ==
  /\ cursor[t] < Buckets
  /\ out' = [out EXCEPT ![t] = @ \o lists[cursor[t]]]
  /\ cursor' = [cursor EXCEPT ![t] = @ + 1]
  /\ UNCHANGED <<lists, stayed, met>>

HashmapNext ==
  \/ \E k \in Keys, v \in Vals : Insert(k, v) \/ InsertOrAssign(k, v)
  \/ \E k \in Keys : RemoveKey(k)
  \/ \E t \in Copiers : BeginCopy(t) \/ CopyValues(t)

HashmapSpec == HashmapInit /\ [][HashmapNext]_hashmapVars

\* Type invariant.
HashmapTypeOK ==
  /\ lists \in [0..Buckets - 1 -> Seq(Pairs)]
  /\ cursor \in [Copiers -> 0..Buckets]
  /\ out \in [Copiers -> Seq(Pairs)]
  /\ stayed \in [Copiers -> SUBSET Pairs] /\ met \in [Copiers -> SUBSET Pairs]

\* What copy wrote when it ends has each key once, every pair that stayed while it ran,
\* and no pair that was never there meanwhile, although no moment may have had them all.
CopyKeepsUp ==
  \A t \in Copiers : cursor[t] = Buckets =>
    /\ \A i, j \in DOMAIN out[t] : out[t][i][1] = out[t][j][1] => i = j
    /\ ToSet(out[t]) \subseteq met[t]
    /\ stayed[t] \subseteq ToSet(out[t])
=============================================================================
