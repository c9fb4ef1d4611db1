------------------------------- MODULE Cache -------------------------------
(***************************************************************************)
(* The in-memory cache of seen block hashes and DA inclusion marks         *)
(* (block/internal/cache).  A cache is a record                            *)
(*   hashes        the hashes marked seen                                  *)
(*   daIncluded    hash -> DA height it was found at                       *)
(*   hashByHeight  block height -> the hash registered for it              *)
(*   maxDAHeight   the highest DA height ever recorded                     *)
(* and every operation is a function from caches to caches: the lock makes *)
(* each one atomic.  A snapshot is the set of <<block height, DA height>>  *)
(* pairs the encoder writes; the decoder returns exactly those pairs.      *)
(***************************************************************************)
EXTENDS Integers, FiniteSets, Functions

LOCAL Bigger(a, b) == IF a > b THEN a ELSE b

\* f with e |-> v added or overwritten, and f without e.
Put(f, e, v) == [x \in DOMAIN f \cup {e} |-> IF x = e THEN v ELSE f[x]]
Drop(f, e) == Restrict(f, DOMAIN f \ {e})

EmptyMap == [x \in {} |-> 0]

NewCache == [hashes |-> {}, daIncluded |-> EmptyMap, hashByHeight |-> EmptyMap,
             maxDAHeight |-> 0]

isSeen(c, hash) == hash \in c.hashes

setSeen(c, hash, height) ==
  [c EXCEPT !.hashes = @ \cup {hash}, !.hashByHeight = Put(@, height, hash)]

\* A different hash registered at the height (a placeholder restored from a
\* snapshot, say) loses its inclusion mark.
setDAIncluded(c, hash, daHeight, height) ==
  LET prev == IF height \in DOMAIN c.hashByHeight /\ c.hashByHeight[height] # hash
                THEN Drop(c.daIncluded, c.hashByHeight[height])
                ELSE c.daIncluded
  IN [c EXCEPT !.daIncluded = Put(prev, hash, daHeight),
               !.hashByHeight = Put(@, height, hash),
               !.maxDAHeight = Bigger(@, daHeight)]

removeDAIncluded(c, hash) == [c EXCEPT !.daIncluded = Drop(@, hash)]

setMaxDAHeight(c, daHeight) == [c EXCEPT !.maxDAHeight = Bigger(@, daHeight)]

\* The DA height recorded for a block height, 0 for none (DA heights start at 1).
getDAIncludedByHeight(c, height) ==
  IF height \in DOMAIN c.hashByHeight /\ c.hashByHeight[height] \in DOMAIN c.daIncluded
    THEN c.daIncluded[c.hashByHeight[height]] ELSE 0

deleteAllForHeight(c, height) ==
  IF height \notin DOMAIN c.hashByHeight THEN c
  ELSE LET hash == c.hashByHeight[height]
       IN [c EXCEPT !.hashByHeight = Drop(@, height), !.hashes = @ \ {hash},
                    !.daIncluded = Drop(@, hash)]

\* The key under which a restored entry lives until its hash is known again.
HeightPlaceholderKey(height) == <<"placeholder", height>>

persistSnapshot(c) ==
  {<<h, getDAIncludedByHeight(c, h)>> :
     h \in {x \in DOMAIN c.hashByHeight : getDAIncludedByHeight(c, x) # 0}}

\* Entries at or below the finalized height only raise the maximum.
RestoreFromStore(c, snapshot, finalized) ==
  LET live == {e \in snapshot : e[1] > finalized}
      keys == {HeightPlaceholderKey(e[1]) : e \in live}
      at(h) == (CHOOSE e \in live : e[1] = h)[2]
      top == IF snapshot = {} THEN 0
             ELSE CHOOSE d \in {e[2] : e \in snapshot} : \A e \in snapshot : e[2] <= d
  IN [c EXCEPT
        !.daIncluded = [k \in DOMAIN c.daIncluded \cup keys |->
                          IF k \in keys THEN at(k[2]) ELSE c.daIncluded[k]],
        !.hashByHeight = [h \in DOMAIN c.hashByHeight \cup {e[1] : e \in live} |->
                            IF \E e \in live : e[1] = h THEN HeightPlaceholderKey(h)
                            ELSE c.hashByHeight[h]],
        !.maxDAHeight = Bigger(@, top)]
=============================================================================
