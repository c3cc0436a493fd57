------------------------------- MODULE MapSpec -------------------------------
(* What a hash map promises its callers: each call takes effect at one moment *)
(* between its beginning and its end, on one pair per key.                    *)
CONSTANTS Threads, Keys, Values,
          Calls,     \* what may be called: records with op, key and value
          NoValue,   \* of a key that is not in the map
          NoCall

VARIABLES pairs,   \* pairs[k]: what k is mapped to, or NoValue
          call,    \* what each thread called last
          result   \* what that call answered; "none" while it runs

vars == <<pairs, call, result>>

Init ==
  /\ pairs = [k \in Keys |-> NoValue]
  /\ call = [t \in Threads |-> NoCall]
  /\ result = [t \in Threads |-> "none"]

Begin(t) ==
  /\ call[t] = NoCall \/ result[t] # "none"
  /\ \E c \in Calls : call' = [call EXCEPT ![t] = c]
  /\ result' = [result EXCEPT ![t] = "none"]
  /\ UNCHANGED pairs

\* t's call of op takes effect: it makes v the value of its key and answers r.
Effect(t, op, v, r) ==
  /\ result[t] = "none"
  /\ call[t].op = op
  /\ pairs' = [pairs EXCEPT ![call[t].key] = v]
  /\ result' = [result EXCEPT ![t] = r]
  /\ UNCHANGED call

Insert(t) ==
  /\ Effect(t, "insert", call[t].value, "inserted")
  /\ pairs[call[t].key] = NoValue
FindPresent(t) ==
  /\ Effect(t, "insert", pairs[call[t].key], "present")
  /\ pairs[call[t].key] # NoValue
InsertOrAssign(t) == Effect(t, "insert_or_assign", call[t].value, "done")
Remove(t) == Effect(t, "remove", NoValue, "done")
MappedFor(t) == Effect(t, "mapped_for", pairs[call[t].key], pairs[call[t].key])

\* A call that changes nothing: it threw, or is not about one key.
Answer(t) ==
  /\ call[t] # NoCall /\ result[t] = "none"
  /\ \/ result' = [result EXCEPT ![t] = "threw"]
     \/ /\ call[t].op \in {"copy", "load_factor", "rehash"}
        /\ result' = [result EXCEPT ![t] = "done"]
  /\ UNCHANGED <<pairs, call>>

\* A rehash in which the hasher throws loses some of the pairs.
Lose(t) ==
  /\ call[t].op \in {"load_factor", "rehash"} /\ result[t] = "none"
  /\ \E lost \in SUBSET Keys :
       pairs' = [k \in Keys |-> IF k \in lost THEN NoValue ELSE pairs[k]]
  /\ result' = [result EXCEPT ![t] = "threw"]
  /\ UNCHANGED call

Next ==
  \E t \in Threads :
    \/ Begin(t)
    \/ /\ call[t] # NoCall
       /\ \/ Insert(t) \/ FindPresent(t) \/ InsertOrAssign(t) \/ Remove(t)
          \/ MappedFor(t) \/ Lose(t)
    \/ Answer(t)

Spec == Init /\ [][Next]_vars
=============================================================================
