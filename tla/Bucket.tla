------------------------------- MODULE Bucket -------------------------------
(***************************************************************************)
(* A bbolt bucket: a finite map from keys to values.  The store never uses *)
(* a bucket outside a transaction, so a bucket is a plain function and a   *)
(* transaction a function from the old catalog to the new one.  Sequence   *)
(* counters (NextSequence) live beside the buckets in the catalog record.  *)
(***************************************************************************)

(* Bucket.Put: adds the key or overwrites its value. *)
Put(b, k, v) == [x \in DOMAIN b \cup {k} |-> IF x = k THEN v ELSE b[x]]

(* Bucket.Delete: removes the key; deleting a missing key is not an error. *)
Delete(b, k) == [x \in DOMAIN b \ {k} |-> b[x]]

(* Deleting every key of a set, in one transaction. *)
DeleteAll(b, ks) == [x \in DOMAIN b \ ks |-> b[x]]

(* A bucket that CreateBucketIfNotExists has just made. *)
EmptyBucket == [x \in {} |-> x]
=============================================================================
