----------------------------- MODULE Dictionary -----------------------------
(***************************************************************************)
(* What the users of Map count on: a dictionary.  An insertion may fail    *)
(* for want of memory, but the replacement of a value never does, and no   *)
(* failure takes anything away.                                            *)
(***************************************************************************)
CONSTANTS Keys, Values

VARIABLE dict   \* the pairs

Put(k, v) == {p \in dict : p[1] # k} \cup {<<k, v>>}
Has(k) == \E p \in dict : p[1] = k

Insert(k, v) == dict' = Put(k, v) \/ (~Has(k) /\ UNCHANGED dict)
RemoveKeys(ks) == dict' = {p \in dict : p[1] \notin ks}

DictionarySpec ==
  /\ dict = {}
  /\ [][\/ \E k \in Keys, v \in Values : Insert(k, v)
        \/ \E ks \in SUBSET Keys : RemoveKeys(ks)]_dict
=============================================================================
