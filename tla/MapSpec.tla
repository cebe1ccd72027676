------------------------------ MODULE MapSpec ------------------------------
(***************************************************************************)
(* What a map of spring promises: a dictionary, and an iterator that gives *)
(* the least key greater than the one it gave last.  SpringMap implements  *)
(* it with a tree changed in place.                                        *)
(***************************************************************************)
EXTENDS Integers

CONSTANTS MaxKey,     \* keys are 1 to MaxKey
          Values,     \* what a map holds
          NoValue     \* the answer when there is nothing to give

Keys == 1..MaxKey
NoKey == 0

VARIABLES dict,       \* the value of each key in the map
          len,        \* the number of keys, as mapLen reports it
          last,       \* the key the iterator gave last
          ret         \* the last call and its answer

vars == <<dict, len, last, ret>>

Present == DOMAIN dict
Lookup(k) == IF k \in Present THEN dict[k] ELSE NoValue

Call(op, k, v, r) == [op |-> op, key |-> k, arg |-> v, value |-> r]

Init == /\ dict = <<>>
        /\ len = 0
        /\ last = NoKey
        /\ ret = Call("init", NoKey, NoValue, NoValue)

Put(k, v) == /\ dict' = [j \in Present \cup {k} |-> IF j = k THEN v ELSE dict[j]]
             /\ len' = IF k \in Present THEN len ELSE len + 1
             /\ ret' = Call("put", k, v, Lookup(k))
             /\ UNCHANGED last

Remove(k) == /\ dict' = [j \in Present \ {k} |-> dict[j]]
             /\ len' = IF k \in Present THEN len - 1 ELSE len
             /\ ret' = Call("remove", k, NoValue, k \in Present)
             /\ UNCHANGED last

Get(k) == /\ ret' = Call("get", k, NoValue, Lookup(k))
          /\ UNCHANGED <<dict, len, last>>

Start == /\ last' = NoKey
         /\ ret' = Call("iter", NoKey, NoValue, NoValue)
         /\ UNCHANGED <<dict, len>>

Later == {k \in Present : k > last}

Give == /\ \/ \E k \in Later : /\ \A j \in Later : k <= j
                               /\ last' = k
                               /\ ret' = Call("next", k, NoValue, dict[k])
           \/ /\ Later = {}
              /\ last' = last
              /\ ret' = Call("next", NoKey, NoValue, NoValue)
        /\ UNCHANGED <<dict, len>>

Next == \/ \E k \in Keys, v \in Values : Put(k, v)
        \/ \E k \in Keys : Remove(k) \/ Get(k)
        \/ Start
        \/ Give

Spec == Init /\ [][Next]_vars

=============================================================================
