------------------------------ MODULE CacheAside ------------------------------
(***************************************************************************)
(* CacheUtil.remember: a reader that misses reads the source and then      *)
(* writes what it read into Redis, with a time to live.  The read and the  *)
(* write are two steps, and the source may change in between.  Redis may   *)
(* be unreachable at any call: a get is then a miss, a set is lost.        *)
(***************************************************************************)
CONSTANTS
  Keys,
  Readers,       \* calls of remember in progress at the same time
  Nothing        \* not found, not cached, no read in progress

VARIABLES
  source,        \* key -> what the source returns, or Nothing
  cached,        \* key -> what Redis holds, or Nothing
  fetch          \* reader -> the key and value it is about to store, or Nothing

Init ==
  /\ cached = [k \in Keys |-> Nothing]
  /\ fetch = [r \in Readers |-> Nothing]

Hit(r, k) ==
  /\ cached[k] # Nothing
  /\ UNCHANGED <<source, cached, fetch>>

\* A miss.  Also taken with a value in the cache: it came after the get, or the
\* get failed.  A source without the key is not remembered as missing.
Load(r, k) ==
  /\ fetch[r] = Nothing
  /\ source[k] # Nothing
  /\ fetch' = [fetch EXCEPT ![r] = [key |-> k, value |-> source[k]]]
  /\ UNCHANGED <<source, cached>>

Store(r) ==
  /\ fetch[r] # Nothing
  /\ \/ cached' = [cached EXCEPT ![fetch[r].key] = fetch[r].value]
     \/ UNCHANGED cached
  /\ fetch' = [fetch EXCEPT ![r] = Nothing]
  /\ UNCHANGED source

\* Mutant of Expire: an entry without a time to live stays.
ExpireNever(k) ==
  /\ cached[k] # Nothing
  /\ UNCHANGED <<source, cached, fetch>>

\* The time to live is over.
Expire(k) ==
  /\ cached[k] # Nothing
  /\ cached' = [cached EXCEPT ![k] = Nothing]
  /\ UNCHANGED <<source, fetch>>

=============================================================================
