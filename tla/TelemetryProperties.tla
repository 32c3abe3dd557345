-------------------------- MODULE TelemetryProperties --------------------------
(* What must hold of the telemetry collector. *)
EXTENDS TelemetryCollector

CollectorTypeOK ==
  /\ flusher \in {"none", "fill", "woken", "send", "exited"}
  /\ queue \in Seq(1 .. recorded) /\ Len(queue) <= MAX_QUEUE_DEPTH
  /\ buffer \in Seq(1 .. recorded) /\ Len(buffer) <= BATCH_SIZE
  /\ due \in BOOLEAN /\ stopped \in BOOLEAN
  /\ tries \in 0 .. RETRY_ATTEMPTS - 1
  /\ starts \in 0 .. MaxStarts
  /\ recorded \in 0 .. MaxEvents /\ stopAt \in 0 .. recorded
  /\ accepted \subseteq 1 .. recorded
  /\ settled \subseteq accepted /\ lost \subseteq accepted

Increasing(s) == \A i, j \in DOMAIN s : i < j => s[i] < s[j]

(* Every event record_event took is in exactly one place: the queue, the   *)
(* batch in the making, the batches handed to the sender, or among those   *)
(* the collector held at a shutdown. The flusher's awaits, its cancelled   *)
(* get()s and a restart neither drop nor repeat one.                       *)
NothingVanishes ==
  /\ accepted = settled \cup lost \cup Elements(buffer) \cup Elements(queue)
  /\ settled \cap lost = {}
  /\ (settled \cup lost) \cap (Elements(buffer) \cup Elements(queue)) = {}
  /\ Increasing(buffer) /\ Increasing(queue)
  /\ \A e \in Elements(buffer), f \in Elements(queue) : e < f

(* What the flusher's place in its loop says of its batch: only a batch    *)
(* with events is sent, and a flusher that has returned leaves none.       *)
FlusherInv ==
  /\ flusher = "send" => buffer # <<>>
  /\ flusher \in {"none", "exited"} => buffer = <<>>
  /\ flusher = "none" => queue = <<>>
  /\ flusher = "woken" => Len(buffer) < BATCH_SIZE
  /\ flusher = "exited" => stopped
  /\ tries # 0 => flusher = "send"
  /\ due => flusher \in {"fill", "woken"}

CollectorInv == CollectorTypeOK /\ NothingVanishes /\ FlusherInv

(* Seen from outside, queue and batch are one bounded first-in first-out   *)
(* channel: what the flusher hands to the sender is always the oldest.     *)
Channel == INSTANCE EventChannel WITH
  Events    <- 1 .. MaxEvents,
  BatchSize <- BATCH_SIZE,
  Capacity  <- BATCH_SIZE + MAX_QUEUE_DEPTH,
  open      <- flusher # "none",
  pending   <- buffer \o queue

ImplementsChannel == Channel!ChannelSpec

-------------------------------------------------------------------------------
(* Liveness. *)

(* An event taken is handed to the sender in the end, a batch that never   *)
(* fills up included, unless the collector is shut down before.            *)
AcceptedSettles ==
  \A e \in 1 .. MaxEvents : e \in accepted ~> e \in settled \cup lost

(* stop() ends, whatever the flusher is doing and however many events are  *)
(* still recorded.                                                         *)
StopEnds == stopped /\ flusher # "none" ~> flusher = "none"

-------------------------------------------------------------------------------
(* What a comment promises and the code does not do. *)

(* "Shutdown drains remaining events with a bounded grace window"          *)
(* (telemetry_collector.py): a flusher that returned within the grace has  *)
(* handed over every event taken before stop() was called.                 *)
ShutdownDrains ==
  flusher = "exited" => \A e \in accepted : e <= stopAt => e \in settled \cup lost
=============================================================================
