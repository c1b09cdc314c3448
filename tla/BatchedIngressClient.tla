------------------------- MODULE BatchedIngressClient -------------------------
(***************************************************************************)
(* The per-peer write path of log-cache (package routing,                  *)
(* src/unnamed/part_003): Send pushes each envelope of a request onto a    *)
(* lossy one-to-one diode; a flusher goroutine (start) takes envelopes off *)
(* the diode into a batcher and, when a batch is emitted, sends it to the  *)
(* peer in one unary Ingress.Send call with LocalOnly = true and a 3 s     *)
(* timeout (write).  An error is logged; nothing is retried.               *)
(*                                                                         *)
(* Envelopes are numbered 1, 2, ... in the order Send pushes them.         *)
(*  sent      how many envelopes have been handed to Send                  *)
(*  pending   envelopes of the current Send request not yet pushed         *)
(*  ring      the diode's unread envelopes, oldest first                   *)
(*  dropped   envelopes the diode overwrote (reported to the dropped       *)
(*            metric by its AlertFunc)                                     *)
(*  batch     the batcher's current batch                                  *)
(*  fpc       the flusher: at the top of its "loop"; in the RPC of a write *)
(*            the batcher called from Write ("write") or from Flush        *)
(*            ("flush")                                                    *)
(*  inflight  the batch of the outstanding Ingress.Send call               *)
(*  peer      the requests the peer has received: [env, localOnly]         *)
(*  errored   envelopes of calls that returned an error (history: the code *)
(*            only logs it), whether or not the peer got them              *)
(***************************************************************************)
EXTENDS Integers, Sequences, SequencesExt, FiniteSets

CONSTANTS
  DiodeSize,   \* diodes.NewOneToOne(10000, ...)
  BatchSize,   \* NewBatchedIngressClient(size, ...): 100 in setupRouting
  MaxPerSend,  \* envelopes per SendRequest explored
  MaxSent      \* bound on the envelopes handed to Send

ASSUME DiodeSize \in Nat \ {0} /\ BatchSize \in Nat \ {0}
ASSUME MaxPerSend \in Nat \ {0} /\ MaxSent \in Nat

VARIABLES sent, pending, ring, dropped, batch, fpc, inflight, peer, errored

vars == <<sent, pending, ring, dropped, batch, fpc, inflight, peer, errored>>

Envelope == 1..MaxSent

(***************************************************************************)
(* Send(ctx, in): accepted at once; its envelopes are pushed one by one.   *)
(***************************************************************************)
Send ==
  /\ pending = 0
  /\ \E k \in 1..MaxPerSend :
       /\ sent + k <= MaxSent
       /\ pending' = k
  /\ UNCHANGED <<sent, ring, dropped, batch, fpc, inflight, peer, errored>>

(* Mutant of DiodeSet: a full diode is not noticed and grows. *)
DiodeSetUnbounded ==
  /\ pending > 0
  /\ ring' = Append(ring, sent + 1)
  /\ sent' = sent + 1
  /\ pending' = pending - 1
  /\ UNCHANGED <<dropped, batch, fpc, inflight, peer, errored>>

(***************************************************************************)
(* One b.buffer.Set of the Send loop.  The diode is lossy: a write into a  *)
(* full diode overwrites the oldest unread envelope, which is counted as   *)
(* dropped.                                                                *)
(***************************************************************************)
DiodeSet ==
  /\ pending > 0
  /\ LET e == sent + 1
         full == Len(ring) = DiodeSize
     IN  /\ ring' = IF full THEN Append(Tail(ring), e) ELSE Append(ring, e)
         /\ dropped' = IF full THEN dropped \cup {Head(ring)} ELSE dropped
  /\ sent' = sent + 1
  /\ pending' = pending - 1
  /\ UNCHANGED <<batch, fpc, inflight, peer, errored>>

(***************************************************************************)
(* The flusher finds an envelope (TryNext succeeds) and writes it to the   *)
(* batcher, which emits the batch when it holds size envelopes or when the *)
(* interval since its last flush has passed (a time the model leaves       *)
(* free).  Emitting calls write, which blocks the flusher in the RPC.      *)
(***************************************************************************)
FlusherNext ==
  /\ fpc = "loop"
  /\ ring # <<>>
  /\ ring' = Tail(ring)
  /\ \E intervalPassed \in BOOLEAN :
       LET b == Append(batch, Head(ring))
       IN  IF Len(b) >= BatchSize \/ intervalPassed
             THEN /\ inflight' = b
                  /\ batch' = <<>>
                  /\ fpc' = "write"
             ELSE /\ batch' = b
                  /\ UNCHANGED <<inflight, fpc>>
  /\ UNCHANGED <<sent, pending, dropped, peer, errored>>

(* Mutant of FlusherIdle: an empty diode never flushes the partial batch. *)
FlusherIdleSleepOnly == FALSE

(***************************************************************************)
(* TryNext finds the diode empty: batcher.Flush() writes a non-empty batch *)
(* (an empty one is not written; the 50 ms sleep that follows changes no   *)
(* state).                                                                 *)
(***************************************************************************)
FlusherIdle ==
  /\ fpc = "loop"
  /\ ring = <<>>
  /\ batch # <<>>
  /\ inflight' = batch
  /\ batch' = <<>>
  /\ fpc' = "flush"
  /\ UNCHANGED <<sent, pending, ring, dropped, peer, errored>>

(* Mutant of Deliver: the forwarded request is not flagged LocalOnly. *)
DeliverRouted(b) ==
  peer \o [i \in 1..Len(b) |-> [env |-> b[i], localOnly |-> FALSE]]

(* Every envelope of the call reaches the peer, flagged LocalOnly. *)
Deliver(b) == peer \o [i \in 1..Len(b) |-> [env |-> b[i], localOnly |-> TRUE]]

(* write returns: Ingress.Send succeeded. *)
WriteDelivered ==
  /\ fpc \in {"write", "flush"}
  /\ peer' = Deliver(inflight)
  /\ inflight' = <<>>
  /\ fpc' = "loop"
  /\ UNCHANGED <<sent, pending, ring, dropped, batch, errored>>

(* Mutant of WriteLateError: a failed batch is handed back to the batcher. *)
WriteLateErrorRetried ==
  /\ fpc \in {"write", "flush"}
  /\ peer' = Deliver(inflight)
  /\ errored' = errored \cup Range(inflight)
  /\ batch' = inflight \o batch
  /\ inflight' = <<>>
  /\ fpc' = "loop"
  /\ UNCHANGED <<sent, pending, ring, dropped>>

(***************************************************************************)
(* write returns an error although the peer received the batch: the 3 s    *)
(* deadline expired before the answer arrived.  The error is only logged.  *)
(***************************************************************************)
WriteLateError ==
  /\ fpc \in {"write", "flush"}
  /\ peer' = Deliver(inflight)
  /\ errored' = errored \cup Range(inflight)
  /\ inflight' = <<>>
  /\ fpc' = "loop"
  /\ UNCHANGED <<sent, pending, ring, dropped, batch>>

(***************************************************************************)
(* write returns an error before the peer received the batch (peer down,   *)
(* connection refused, deadline): the error is logged, the batch is gone.  *)
(***************************************************************************)
WriteFailed ==
  /\ fpc \in {"write", "flush"}
  /\ errored' = errored \cup Range(inflight)
  /\ inflight' = <<>>
  /\ fpc' = "loop"
  /\ UNCHANGED <<sent, pending, ring, dropped, batch, peer>>

Init ==
  /\ sent = 0
  /\ pending = 0
  /\ ring = <<>>
  /\ dropped = {}
  /\ batch = <<>>
  /\ fpc = "loop"
  /\ inflight = <<>>
  /\ peer = <<>>
  /\ errored = {}

Flusher == FlusherNext \/ FlusherIdle

Write == WriteDelivered \/ WriteLateError \/ WriteFailed

Next == Send \/ DiodeSet \/ Flusher \/ Write

(***************************************************************************)
(* The flusher is a dedicated goroutine that never blocks except in write, *)
(* and write always returns within its 3 s deadline; the producer's        *)
(* remaining Sets belong to a running handler.  Clients need not send.     *)
(***************************************************************************)
Fairness == WF_vars(DiodeSet) /\ WF_vars(Flusher) /\ WF_vars(Write)

Spec == Init /\ [][Next]_vars /\ Fairness

-----------------------------------------------------------------------------
TypeOK ==
  /\ sent \in 0..MaxSent /\ pending \in 0..MaxPerSend
  /\ ring \in Seq(Envelope) /\ Len(ring) <= DiodeSize
  /\ dropped \subseteq Envelope /\ errored \subseteq Envelope
  /\ batch \in Seq(Envelope) /\ inflight \in Seq(Envelope)
  /\ fpc \in {"loop", "write", "flush"}
  /\ peer \in Seq([env : Envelope, localOnly : BOOLEAN])

(* The envelopes the peer has received, in order of receipt. *)
Received == [i \in 1..Len(peer) |-> peer[i].env]

(***************************************************************************)
(* The client seen as a LossyLink: what waits in it is the outstanding     *)
(* call, then the batch, then the unread diode, oldest first; what the     *)
(* link has passed on is what the peer received.                           *)
(***************************************************************************)
Link == INSTANCE LossyLink WITH
          accepted <- sent,
          waiting  <- inflight \o batch \o ring,
          received <- Received

(***************************************************************************)
(* The diode, the batcher, the flusher and write together implement a     *)
(* lossy FIFO link: every step of the client is a step of LossyLink (a    *)
(* call passes or loses the oldest waiting envelopes, an overwrite evicts *)
(* one waiting envelope, late errors and failures neither reorder nor     *)
(* resend anything) and, under the flusher's fairness, whatever waits     *)
(* eventually leaves.                                                      *)
(***************************************************************************)
LinkRefined == Link!Spec

(***************************************************************************)
(* Every envelope handed to Send is in exactly one place: unread in the    *)
(* diode, in the batch, in the outstanding call, received by the peer once *)
(* and only once, or counted as dropped, or in a call that failed before   *)
(* the peer got it.  A late answer, a failure or an overwrite never        *)
(* duplicates or silently loses an envelope.                               *)
(***************************************************************************)
EveryEnvelopeAccountedOnce ==
  LET inSeq(e, s) == Len(SelectSeq(s, LAMBDA x : x = e))
  IN  \A e \in 1..sent :
        (inSeq(e, ring) + inSeq(e, batch) + inSeq(e, inflight)
           + inSeq(e, Received)
           + (IF e \in dropped THEN 1 ELSE 0)
           + (IF e \in errored \ Range(Received) THEN 1 ELSE 0))
        = 1

(***************************************************************************)
(* The peer receives envelopes in the order they were sent (per client),   *)
(* every one flagged LocalOnly so that the peer stores it without routing  *)
(* it again (spec 8.6).                                                    *)
(***************************************************************************)
PeerReceivesInOrderLocalOnly ==
  /\ \A i \in 1..Len(peer) : peer[i].localOnly
  /\ \A i, j \in 1..Len(peer) : i < j => peer[i].env < peer[j].env

=============================================================================
