------------------------------ MODULE StoreGet ------------------------------
(***************************************************************************)
(* Store.Get of log-cache (src/unnamed/part_000): the read path that walks *)
(* one source's AVL tree in order with treeTraverse, collecting the        *)
(* envelopes of [start, end) that pass the type filter until limit of them *)
(* are found.  The Store module models a tree by its key set; here a tree  *)
(* has its shape, because the walk's pruning depends on it.  The state is  *)
(* the tree of the source read (Nil when it has no index), the last query, *)
(* its result and the Egress metric.                                       *)
(***************************************************************************)
EXTENDS Integers, Sequences, SequencesExt, FiniteSets

CONSTANTS
  Keys,          \* envelope timestamps stored in the tree
  EnvelopeTypes, \* the kinds an envelope can have (Log, Counter, ...)
  Times,         \* start and end arguments of Get
  Limits,        \* limit arguments of Get (Egress defaults 0 to 100)
  MaxEgress,     \* bound on the Egress counter
  Nil            \* the nil child / the missing index

AnyType == "any"  \* envelopeType == nil: no filter

VARIABLES tree, query, result, egress

vars == <<tree, query, result, egress>>

Node(k, ty, l, r) == [key |-> k, type |-> ty, left |-> l, right |-> r]

(* Every binary search tree over the key set ks, with any envelope kinds. *)
RECURSIVE SearchTrees(_)
SearchTrees(ks) ==
  IF ks = {} THEN {Nil}
  ELSE UNION {{Node(k, ty, l, r) : l \in SearchTrees({x \in ks : x < k}),
                                  r \in SearchTrees({x \in ks : x > k}),
                                  ty \in EnvelopeTypes} : k \in ks}

RECURSIVE Height(_)
Height(n) == IF n = Nil THEN 0 ELSE 1 + Max({Height(n.left), Height(n.right)})

RECURSIVE Balanced(_)
Balanced(n) ==
  n = Nil \/ /\ Height(n.left) - Height(n.right) \in -1..1
             /\ Balanced(n.left) /\ Balanced(n.right)

(* The trees avltree can hold: balanced search trees over a set of keys. *)
AVLTrees == {t \in UNION {SearchTrees(ks) : ks \in SUBSET Keys} : Balanced(t)}

(* checkEnvelopeType: nil accepts every envelope, a kind only its own. *)
CheckEnvelopeType(n, typ) == typ = AnyType \/ n.type = typ

(* Mutant of TreeTraverse: the end bound is tested after the callback. *)
RECURSIVE TreeTraverseEndLate(_, _, _, _, _, _)
TreeTraverseEndLate(n, start, end, typ, limit, res) ==
  IF n = Nil THEN [stop |-> FALSE, res |-> res]
  ELSE IF n.key < start THEN TreeTraverseEndLate(n.right, start, end, typ, limit, res)
  ELSE
    LET l  == TreeTraverseEndLate(n.left, start, end, typ, limit, res)
        r1 == IF CheckEnvelopeType(n, typ) THEN Append(l.res, n.key) ELSE l.res
    IN  IF l.stop THEN l
        ELSE IF Len(r1) >= limit \/ n.key >= end THEN [stop |-> TRUE, res |-> r1]
        ELSE TreeTraverseEndLate(n.right, start, end, typ, limit, r1)

(***************************************************************************)
(* treeTraverse with Get's callback: res is the slice the callback         *)
(* appends to; the result says whether the walk stopped.  A node below     *)
(* start is skipped with its left subtree; otherwise the left subtree is   *)
(* walked first, then a node at or past end stops the walk, else the      *)
(* callback appends a matching envelope and stops once limit are held,     *)
(* else the walk goes right.  (The callback's idx == index test always     *)
(* holds: a tree only holds envelopes put under its own index.)            *)
(***************************************************************************)
RECURSIVE TreeTraverse(_, _, _, _, _, _)
TreeTraverse(n, start, end, typ, limit, res) ==
  IF n = Nil THEN [stop |-> FALSE, res |-> res]
  ELSE IF n.key < start THEN TreeTraverse(n.right, start, end, typ, limit, res)
  ELSE
    LET l  == TreeTraverse(n.left, start, end, typ, limit, res)
        r1 == IF CheckEnvelopeType(n, typ) THEN Append(l.res, n.key) ELSE l.res
    IN  IF l.stop THEN l
        ELSE IF n.key >= end THEN [stop |-> TRUE, res |-> l.res]
        ELSE IF Len(r1) >= limit THEN [stop |-> TRUE, res |-> r1]
        ELSE TreeTraverse(n.right, start, end, typ, limit, r1)

(* Mutant of Get: Egress is incremented by the limit, not the result. *)
GetCountingLimit(start, end, typ, limit) ==
  LET res == IF tree = Nil THEN <<>>
             ELSE TreeTraverse(tree, start, end, typ, limit, <<>>).res
  IN  /\ egress + Len(res) <= MaxEgress
      /\ query' = [start |-> start, end |-> end, type |-> typ, limit |-> limit]
      /\ result' = res
      /\ egress' = egress + limit
      /\ UNCHANGED tree

(***************************************************************************)
(* Get(index, start, end, envelopeType, limit): nil for an unknown index;  *)
(* otherwise the walk's result, whose length is added to Egress.           *)
(***************************************************************************)
Get(start, end, typ, limit) ==
  LET res == IF tree = Nil THEN <<>>
             ELSE TreeTraverse(tree, start, end, typ, limit, <<>>).res
  IN  /\ egress + Len(res) <= MaxEgress
      /\ query' = [start |-> start, end |-> end, type |-> typ, limit |-> limit]
      /\ result' = res
      /\ egress' = egress + Len(res)
      /\ UNCHANGED tree

Init ==
  /\ tree \in AVLTrees
  /\ query = [start |-> 0, end |-> 0, type |-> AnyType, limit |-> 1]
  /\ result = <<>>
  /\ egress = 0

Next ==
  \E start, end \in Times, typ \in EnvelopeTypes \cup {AnyType}, limit \in Limits :
    Get(start, end, typ, limit)

Spec == Init /\ [][Next]_vars

-----------------------------------------------------------------------------
(* The envelopes of tree n, by key. *)
RECURSIVE Contents(_)
Contents(n) ==
  IF n = Nil THEN {}
  ELSE {<<n.key, n.type>>} \cup Contents(n.left) \cup Contents(n.right)

TypeOK ==
  /\ tree \in AVLTrees
  /\ result \in Seq(Keys)
  /\ egress \in 0..MaxEgress

(* The specified answer: the first limit matching keys of [start, end), ascending. *)
Expected(n, q) ==
  LET match == {c[1] : c \in {c \in Contents(n) :
                               /\ q.start <= c[1] /\ c[1] < q.end
                               /\ (q.type = AnyType \/ c[2] = q.type)}}
      sorted == SetToSortSeq(match, <)
  IN  SubSeq(sorted, 1, IF Len(sorted) < q.limit THEN Len(sorted) ELSE q.limit)

(***************************************************************************)
(* Every Get returns exactly the first limit envelopes of the source in    *)
(* [start, end) that match the type filter, in ascending time order, for   *)
(* every shape the AVL tree can take (spec 8.2: bounds, limit, order).     *)
(***************************************************************************)
GetMatchesScan == result = Expected(tree, query)

=============================================================================
