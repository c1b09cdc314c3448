------------------------------- MODULE Store -------------------------------
(***************************************************************************)
(* The per-node envelope store of log-cache (package store, the file       *)
(* src/unnamed/part_000).  Every exported method holds the store's         *)
(* RWMutex for its whole body, so each one is a single atomic step here.   *)
(*                                                                         *)
(*  indexes          map source id -> AVL tree keyed by timestamp.  A tree *)
(*                   is modelled by its key set: the envelope payload is   *)
(*                   never read by Put or truncate.  A tree is identified  *)
(*                   with the source id it is stored under.                *)
(*  oldestValueTree  the treeStorage: timestamp -> slice of trees whose    *)
(*                   oldest key is that timestamp (a function from the     *)
(*                   keys present to a sequence of source ids).            *)
(*  count            the running envelope count used to decide pruning.    *)
(*  expired, ingress the Expired and Ingress counter metrics.              *)
(***************************************************************************)
EXTENDS Integers, FiniteSets, Sequences, SequencesExt, FiniteSetsExt

CONSTANTS
  Sources,       \* source ids (the index argument of Put)
  Timestamps,    \* envelope timestamps a client may send
  Size,          \* NewStore(size, ...): global cap on count
  MaxPerSource,  \* NewStore(..., maxPerSource, ...): per-tree cap
  MaxIngress     \* bound on the number of Puts explored

ASSUME Timestamps \subseteq Int /\ Timestamps # {}
ASSUME Size \in Nat \ {0} /\ MaxPerSource \in Nat \ {0}
ASSUME MaxIngress \in Nat

VARIABLES indexes, oldestValueTree, count, expired, ingress

vars == <<indexes, oldestValueTree, count, expired, ingress>>

(* Mutant of TreeStoragePut: the slice is replaced instead of extended. *)
TreeStoragePutReplacing(ovt, key, t) ==
  [k \in DOMAIN ovt \cup {key} |-> IF k = key THEN <<t>> ELSE ovt[k]]

(***************************************************************************)
(* treeStorage.Put: append the tree to the slice stored under key.         *)
(***************************************************************************)
TreeStoragePut(ovt, key, t) ==
  [k \in DOMAIN ovt \cup {key} |->
     IF k = key THEN (IF key \in DOMAIN ovt THEN ovt[key] ELSE <<>>) \o <<t>>
                ELSE ovt[k]]

(***************************************************************************)
(* treeStorage.Remove: drop the first occurrence of the tree from the      *)
(* slice under key, and the key itself once its slice is empty.            *)
(***************************************************************************)
TreeStorageRemove(ovt, key, t) ==
  LET values == IF key \in DOMAIN ovt THEN ovt[key] ELSE <<>>
      i      == SelectInSeq(values, LAMBDA v : v = t)
      rest   == IF i = 0 THEN values ELSE RemoveAt(values, i)
  IN  IF rest = <<>>
        THEN [k \in DOMAIN ovt \ {key} |-> ovt[k]]
        ELSE [k \in DOMAIN ovt \cup {key} |-> IF k = key THEN rest ELSE ovt[k]]

(* avltree Left(): the smallest key of a non-empty tree. *)
Left(tree) == Min(tree)

(* Set indexes[s] to tree, adding s to the map if it is new. *)
SetIndex(idx, s, tree) ==
  [x \in DOMAIN idx \cup {s} |-> IF x = s THEN tree ELSE idx[x]]

(***************************************************************************)
(* truncate(): when count exceeds size, remove the oldest envelope of the  *)
(* whole cache, found through the first tree under the smallest key of     *)
(* oldestValueTree; forget the index if its tree becomes empty, otherwise  *)
(* file the tree again under its new oldest key.  It works on a record of  *)
(* the store's fields because Put calls it after its own updates.          *)
(***************************************************************************)
Truncate(st) ==
  IF st.count <= Size THEN st
  ELSE
    LET key     == Min(DOMAIN st.ovt)
        oldTree == Head(st.ovt[key])
        ovt1    == TreeStorageRemove(st.ovt, key, oldTree)
        tree    == st.idx[oldTree] \ {key}
    IN  [count   |-> st.count - 1,
         expired |-> st.expired + 1,
         idx     |-> IF tree = {}
                       THEN [x \in DOMAIN st.idx \ {oldTree} |-> st.idx[x]]
                       ELSE SetIndex(st.idx, oldTree, tree),
         ovt     |-> IF tree = {} THEN ovt1
                       ELSE TreeStoragePut(ovt1, Left(tree), oldTree)]

(* Mutant of IsFull: the cap is only enforced once it has been exceeded. *)
IsFullLate(tree) == Cardinality(tree) > MaxPerSource

(* preSize >= s.maxPerSource: the tree must lose its oldest key first. *)
IsFull(tree) == Cardinality(tree) >= MaxPerSource

(* Mutant of CountAfterPut: the sizes are subtracted the wrong way round. *)
CountAfterPutSwapped(n, before, after) ==
  n + Cardinality(before) - Cardinality(after)

(* Mutant of CountAfterPut: every Put counts one more envelope. *)
CountAfterPutAlways(n, before, after) == n + 1

(* s.count += t.Size() - preSize: "only increment if we didn't overwrite". *)
CountAfterPut(n, before, after) == n + Cardinality(after) - Cardinality(before)

(* Mutant of Refile: the tree is re-filed only when its oldest key grew,   *)
(* forgetting that a late envelope can become the new oldest.             *)
RefileOnlyNewer(ovt, s, hasOldest, oldest, newOldest) ==
  IF newOldest > oldest /\ hasOldest
    THEN TreeStoragePut(TreeStorageRemove(ovt, oldest, s), newOldest, s)
    ELSE ovt

(* Re-file the tree under its new oldest key when the oldest key moved. *)
Refile(ovt, s, hasOldest, oldest, newOldest) ==
  IF oldest # newOldest /\ hasOldest
    THEN TreeStoragePut(TreeStorageRemove(ovt, oldest, s), newOldest, s)
    ELSE ovt

(***************************************************************************)
(* Put(e, index): the whole method.  A new tree is filed in                *)
(* oldestValueTree under the new envelope's timestamp; a full tree loses   *)
(* its oldest key first (counted as Expired); the envelope is stored under *)
(* its timestamp, overwriting an envelope already stored there; count      *)
(* grows by the change in tree size; the tree is re-filed if its oldest    *)
(* key moved; then truncate runs.  The CachePeriod gauge only reads state. *)
(***************************************************************************)
Put(s, ts) ==
  LET isNew     == s \notin DOMAIN indexes
      t0        == IF isNew THEN {} ELSE indexes[s]
      ovt0      == IF isNew THEN TreeStoragePut(oldestValueTree, ts, s)
                            ELSE oldestValueTree
      hasOldest == t0 # {}
      oldest    == IF hasOldest THEN Left(t0) ELSE 0
      t1        == (IF IsFull(t0) THEN t0 \ {oldest} ELSE t0) \cup {ts}
      after     == Truncate(
                     [idx     |-> SetIndex(indexes, s, t1),
                      ovt     |-> Refile(ovt0, s, hasOldest, oldest, Left(t1)),
                      count   |-> CountAfterPut(count, t0, t1),
                      expired |-> expired + (IF IsFull(t0) THEN 1 ELSE 0)])
  IN  /\ ingress < MaxIngress
      /\ ingress'         = ingress + 1
      /\ indexes'         = after.idx
      /\ oldestValueTree' = after.ovt
      /\ count'           = after.count
      /\ expired'         = after.expired

Init ==
  /\ indexes = [s \in {} |-> {}]
  /\ oldestValueTree = [k \in {} |-> <<>>]
  /\ count = 0
  /\ expired = 0
  /\ ingress = 0

Next == \E s \in Sources, ts \in Timestamps : Put(s, ts)

Spec == Init /\ [][Next]_vars

-----------------------------------------------------------------------------
(* Every (source, timestamp) pair held by the store. *)
Entries(idx) == UNION {{<<s, k>> : k \in idx[s]} : s \in DOMAIN idx}

TypeOK ==
  /\ DOMAIN indexes \subseteq Sources
  /\ \A s \in DOMAIN indexes : indexes[s] \subseteq Timestamps
  /\ DOMAIN oldestValueTree \subseteq Timestamps
  /\ \A k \in DOMAIN oldestValueTree : oldestValueTree[k] \in Seq(Sources)
  /\ count \in Nat /\ expired \in Nat /\ ingress \in 0..MaxIngress

(***************************************************************************)
(* count, which Put adjusts by the change in tree size and truncate        *)
(* decrements, always equals the number of envelopes held in the trees:    *)
(* an overwrite of an equal timestamp, an eviction from a full tree and a  *)
(* truncation in the same Put must all be accounted for (spec 8.1).        *)
(***************************************************************************)
CountMatchesIndexes == count = Cardinality(Entries(indexes))

(***************************************************************************)
(* Neither cap is exceeded after a Put: a source's tree holds at most      *)
(* maxPerSource envelopes, and the store at most size (spec 8.1).          *)
(***************************************************************************)
CapacityRespected ==
  /\ count <= Size
  /\ \A s \in DOMAIN indexes : Cardinality(indexes[s]) <= MaxPerSource

(***************************************************************************)
(* oldestValueTree files every live tree exactly once, under the tree's    *)
(* current oldest key, and files nothing else; no empty tree stays in      *)
(* indexes.  Put's re-filing when the oldest key moves and truncate's      *)
(* re-filing after a removal keep this; truncate relies on it to find the  *)
(* oldest envelope of the cache.                                           *)
(***************************************************************************)
OldestValueTreeCoherent ==
  /\ \A s \in DOMAIN indexes : indexes[s] # {}
  /\ DOMAIN oldestValueTree = {Left(indexes[s]) : s \in DOMAIN indexes}
  /\ \A k \in DOMAIN oldestValueTree :
       /\ Len(oldestValueTree[k]) =
            Cardinality({s \in DOMAIN indexes : Left(indexes[s]) = k})
       /\ \A i \in 1..Len(oldestValueTree[k]) :
            LET s == oldestValueTree[k][i]
            IN  s \in DOMAIN indexes /\ Left(indexes[s]) = k

(***************************************************************************)
(* A Put never evicts a stored envelope while an older stored one         *)
(* survives, except that a source at its maxPerSource cap may lose its own *)
(* oldest envelope while other sources keep older ones.  (The envelope     *)
(* being put may itself be older than what it displaces: Put evicts from a *)
(* full tree before inserting.)  This is what truncate's use of            *)
(* oldestValueTree.Left() promises: pruning removes the oldest data first. *)
(***************************************************************************)
EvictsOldestFirst ==
  [][\A r \in Entries(indexes) \ Entries(indexes') :
       \A e \in Entries(indexes) \cap Entries(indexes') :
         \/ r[2] <= e[2]
         \/ r[1] # e[1] /\ Cardinality(indexes[r[1]]) = MaxPerSource]_vars

(***************************************************************************)
(* Every envelope handed to Put is either still stored or counted by the   *)
(* Expired metric (spec 3 and 8.3: envelopes with equal timestamps are all *)
(* kept; store_test "increments the timestamp as necessary to prevent      *)
(* overwrites").                                                           *)
(***************************************************************************)
NoSilentLoss == ingress = count + expired

=============================================================================
