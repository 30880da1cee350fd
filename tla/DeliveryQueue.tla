--------------------------- MODULE DeliveryQueue ---------------------------
(***************************************************************************)
(* What a ClickHouse write buffer promises, without locks, goroutines or   *)
(* MySQL transactions: INSERT statements are accepted one by one, leave    *)
(* the queue from its head only, and every one that leaves is either       *)
(* applied to MySQL or dropped, once and for ever.  A batch that runs in a *)
(* transaction leaves as a whole; a batch that runs statement by statement *)
(* leaves one statement at a time.  A statement is named by the position   *)
(* at which it was accepted.                                               *)
(***************************************************************************)
EXTENDS Naturals, Sequences, SequencesExt

VARIABLES
  accepted, (* how many statements have been accepted                      *)
  queued,   (* the accepted statements whose fate is open, oldest first    *)
  applied,  (* the statements MySQL has, in the order it got them          *)
  dropped   (* the statements given up                                     *)

vars == <<accepted, queued, applied, dropped>>

Init ==
  /\ accepted = 0
  /\ queued = <<>>
  /\ applied = <<>>
  /\ dropped = {}

Accept ==
  /\ accepted' = accepted + 1
  /\ queued' = Append(queued, accepted + 1)
  /\ UNCHANGED <<applied, dropped>>

Apply(k) ==
  /\ applied' = applied \o SubSeq(queued, 1, k)
  /\ queued' = SubSeq(queued, k + 1, Len(queued))
  /\ UNCHANGED <<accepted, dropped>>

Drop(k) ==
  /\ dropped' = dropped \cup ToSet(SubSeq(queued, 1, k))
  /\ queued' = SubSeq(queued, k + 1, Len(queued))
  /\ UNCHANGED <<accepted, applied>>

Next ==
  \/ Accept
  \/ \E k \in 1..Len(queued) : Apply(k) \/ Drop(k)

Spec == Init /\ [][Next]_vars
=============================================================================
