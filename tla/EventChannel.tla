----------------------------- MODULE EventChannel -----------------------------
(***************************************************************************)
(* What the telemetry collector promises its callers: while it is open, a  *)
(* bounded first-in first-out channel that takes or refuses an event at    *)
(* once and hands events on in batches of at most BatchSize.  Closing it   *)
(* forgets what it still holds.                                            *)
(***************************************************************************)
EXTENDS Naturals, Sequences

CONSTANTS Events, BatchSize, Capacity

VARIABLES
  open,     \* is there a channel?
  pending   \* events taken and not yet handed on, oldest first

channelVars == <<open, pending>>

ChannelInit == open = FALSE /\ pending = <<>>

Open == open' = TRUE /\ ~open /\ UNCHANGED pending

Take(e) == /\ open /\ Len(pending) < Capacity
           /\ pending' = Append(pending, e)
           /\ UNCHANGED open

HandOn(n) == /\ n <= Len(pending)
             /\ pending' = SubSeq(pending, n + 1, Len(pending))
             /\ UNCHANGED open

Close == open /\ open' = FALSE /\ pending' = <<>>

ChannelNext == \/ Open \/ Close
               \/ \E e \in Events : Take(e)
               \/ \E n \in 1 .. BatchSize : HandOn(n)

ChannelSpec == ChannelInit /\ [][ChannelNext]_channelVars
=============================================================================
