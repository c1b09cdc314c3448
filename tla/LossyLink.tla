----------------------------- MODULE LossyLink -----------------------------
(***************************************************************************)
(* What a peer write path of log-cache promises, stated without diodes,    *)
(* batches or RPCs: a lossy first-in first-out link.  Envelopes are        *)
(* numbered in the order they are accepted.  An accepted envelope waits in *)
(* the link until either a prefix of the waiting envelopes reaches the     *)
(* peer at once, or a prefix is lost at once.  Accepting an envelope may   *)
(* evict one waiting envelope (a bounded buffer overwriting what it has    *)
(* not yet passed on).  Nothing is reordered or duplicated, and what waits *)
(* eventually leaves the link.                                             *)
(*  accepted  how many envelopes the link has accepted                     *)
(*  waiting   the accepted envelopes still in the link, oldest first       *)
(*  received  the envelopes the peer has got, in order of receipt          *)
(***************************************************************************)
EXTENDS Integers, Sequences, SequencesExt

CONSTANT MaxSent  \* bound on the envelopes accepted

VARIABLES accepted, waiting, received

avars == <<accepted, waiting, received>>

(* The waiting sequence, possibly with one envelope evicted. *)
Evicted(w) == {w} \cup {RemoveAt(w, i) : i \in 1..Len(w)}

Accept ==
  /\ accepted < MaxSent
  /\ accepted' = accepted + 1
  /\ \E w \in Evicted(waiting) : waiting' = Append(w, accepted + 1)
  /\ UNCHANGED received

(* The oldest k waiting envelopes reach the peer. *)
Pass(k) ==
  /\ received' = received \o SubSeq(waiting, 1, k)
  /\ waiting' = SubSeq(waiting, k + 1, Len(waiting))
  /\ UNCHANGED accepted

(* The oldest k waiting envelopes are lost. *)
Lose(k) ==
  /\ waiting' = SubSeq(waiting, k + 1, Len(waiting))
  /\ UNCHANGED <<accepted, received>>

Leave == \E k \in 1..Len(waiting) : Pass(k) \/ Lose(k)

Init ==
  /\ accepted = 0
  /\ waiting = <<>>
  /\ received = <<>>

Next == Accept \/ Leave

Spec == Init /\ [][Next]_avars /\ WF_avars(Leave)

=============================================================================
