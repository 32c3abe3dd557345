--------------------------- MODULE TelemetryCollector ---------------------------
(***************************************************************************)
(* The in-process telemetry collector of a worker                          *)
(* (services/skill_making/telemetry_collector.py).  Tools call the         *)
(* synchronous record_event; one flusher task moves events from the queue  *)
(* to a batch and POSTs it with send_telemetry_batch; the application's    *)
(* lifespan starts the collector and stops it, waiting for the flusher no  *)
(* longer than SHUTDOWN_GRACE_SECONDS.  All of it runs on one event loop:  *)
(* a step is what runs between two awaits.                                 *)
(*                                                                         *)
(* Events are numbered in the order of the record_event calls.  Time is    *)
(* not measured: due says that the FLUSH_INTERVAL_SECONDS of the batch     *)
(* being filled have passed, and the grace period may end at any moment.   *)
(***************************************************************************)
EXTENDS Naturals, Sequences

CONSTANTS
  BATCH_SIZE,
  MAX_QUEUE_DEPTH,
  RETRY_ATTEMPTS,
  MaxEvents,        \* bound: calls of record_event
  MaxStarts         \* bound: times the collector is started

ASSUME CollectorAssumption ==
  /\ {BATCH_SIZE, MAX_QUEUE_DEPTH, RETRY_ATTEMPTS} \subseteq Nat \ {0}
  /\ {MaxEvents, MaxStarts} \subseteq Nat

VARIABLES
  flusher,   \* where the flusher task stands; "none" if there is none
  queue,     \* _queue; the code has one exactly while there is a flusher
  buffer,    \* the batch the flusher is filling or sending
  due,       \* has the flush interval of this batch passed?
  tries,     \* POSTs of this batch made so far
  stopped,   \* _stopped
  starts,    \* times started, against MaxStarts
  (* history *)
  recorded,  \* the last event recorded
  accepted,  \* events for which record_event returned True
  settled,   \* events of batches that were sent or given up
  lost,      \* events the collector still held when it was shut down
  stopAt     \* the last event recorded when stop() was last called

vars == <<flusher, queue, buffer, due, tries, stopped, starts,
          recorded, accepted, settled, lost, stopAt>>
history == <<recorded, accepted, settled, lost, stopAt>>

Elements(s) == {s[i] : i \in DOMAIN s}

Init ==
  /\ flusher = "none" /\ queue = <<>> /\ buffer = <<>>
  /\ due = FALSE /\ tries = 0 /\ stopped = FALSE /\ starts = 0
  /\ recorded = 0 /\ accepted = {} /\ settled = {} /\ lost = {} /\ stopAt = 0

-------------------------------------------------------------------------------
(* record_event, from a tool of any agent: never waits. *)

Accept == /\ flusher # "none" /\ Len(queue) < MAX_QUEUE_DEPTH
          /\ queue' = Append(queue, recorded + 1)
          /\ accepted' = accepted \cup {recorded + 1}

Refuse == /\ flusher = "none" \/ Len(queue) = MAX_QUEUE_DEPTH
          /\ UNCHANGED <<queue, accepted>>

RecordEvent ==
  /\ recorded < MaxEvents
  /\ recorded' = recorded + 1
  /\ Accept \/ Refuse
  /\ UNCHANGED <<flusher, buffer, due, tries, stopped, starts, settled, lost, stopAt>>

-------------------------------------------------------------------------------
(* The flusher: "fill" waits in queue.get() or is about to, "woken" has    *)
(* had its get() cancelled by the timer and waits to be scheduled, "send"  *)
(* is in send_telemetry_batch, "exited" has returned.                      *)

(* Mutant: the newest event is taken first. *)
TakeNewest ==
  /\ flusher = "fill" /\ queue # <<>> /\ Len(buffer) < BATCH_SIZE
  /\ due => buffer = <<>>
  /\ buffer' = Append(buffer, queue[Len(queue)])
  /\ queue' = SubSeq(queue, 1, Len(queue) - 1)
  /\ UNCHANGED <<flusher, due, tries, stopped, starts, history>>

(* get() hands over the oldest event; a flusher whose interval has passed  *)
(* takes one only if it was waiting for its first.                         *)
TakeEvent ==
  /\ flusher = "fill" /\ queue # <<>> /\ Len(buffer) < BATCH_SIZE
  /\ due => buffer = <<>>
  /\ buffer' = Append(buffer, Head(queue))
  /\ queue' = Tail(queue)
  /\ UNCHANGED <<flusher, due, tries, stopped, starts, history>>

(* The flush interval passes. *)
IntervalPasses ==
  /\ flusher \in {"fill", "woken"} /\ ~due
  /\ due' = TRUE
  /\ UNCHANGED <<flusher, queue, buffer, tries, stopped, starts, history>>

(* The timer of wait_for cancels a get() that found no event. *)
TimerFires ==
  /\ flusher = "fill" /\ queue = <<>> /\ Len(buffer) < BATCH_SIZE
  /\ flusher' = "woken"
  /\ UNCHANGED <<queue, buffer, due, tries, stopped, starts, history>>

(* Mutant: only a full batch is sent, the flush interval is forgotten. *)
EndFillFullOnly ==
  /\ flusher' = IF Len(buffer) = BATCH_SIZE THEN "send"
                ELSE IF stopped /\ buffer = <<>> THEN "exited" ELSE "fill"
  /\ due' = FALSE

(* The fill loop ends: a batch is sent; nothing to send is the end of a    *)
(* stopped flusher, and a new interval otherwise.                          *)
EndFill ==
  /\ flusher' = IF buffer # <<>> THEN "send" ELSE IF stopped THEN "exited" ELSE "fill"
  /\ due' = FALSE

(* The flusher sees the timeout. *)
Wake ==
  /\ flusher = "woken"
  /\ IF stopped \/ due THEN EndFill ELSE flusher' = "fill" /\ UNCHANGED due
  /\ UNCHANGED <<queue, buffer, tries, stopped, starts, history>>

(* The loop's own conditions: the batch is full or its interval is over. *)
BatchReady ==
  /\ flusher = "fill"
  /\ Len(buffer) = BATCH_SIZE \/ (due /\ buffer # <<>>)
  /\ EndFill
  /\ UNCHANGED <<queue, buffer, tries, stopped, starts, history>>

(* Mutants: one POST too many; a failed batch stays in the buffer. *)
SendBatchOnceMore ==
  /\ flusher = "send"
  /\ \/ /\ tries < RETRY_ATTEMPTS
        /\ tries' = tries + 1
        /\ UNCHANGED <<flusher, buffer, settled>>
     \/ /\ tries' = 0
        /\ buffer' = <<>>
        /\ settled' = settled \cup Elements(buffer)
        /\ flusher' = IF stopped /\ queue = <<>> THEN "exited" ELSE "fill"
  /\ UNCHANGED <<queue, due, stopped, starts, recorded, accepted, lost, stopAt>>

SendBatchKeepsBatch ==
  /\ flusher = "send"
  /\ \/ /\ tries + 1 < RETRY_ATTEMPTS
        /\ tries' = tries + 1
        /\ UNCHANGED <<flusher, settled>>
     \/ /\ tries' = 0
        /\ settled' = settled \cup Elements(buffer)
        /\ flusher' = IF stopped /\ queue = <<>> THEN "exited" ELSE "fill"
  /\ UNCHANGED <<queue, buffer, due, stopped, starts, recorded, accepted, lost, stopAt>>

(* One POST of send_telemetry_batch. A 2xx, a 4xx and the last attempt end *)
(* the send; whatever came of it the batch is not queued again.            *)
SendBatch ==
  /\ flusher = "send"
  /\ \/ /\ tries + 1 < RETRY_ATTEMPTS
        /\ tries' = tries + 1
        /\ UNCHANGED <<flusher, buffer, settled>>
     \/ /\ tries' = 0
        /\ buffer' = <<>>
        /\ settled' = settled \cup Elements(buffer)
        /\ flusher' = IF stopped /\ queue = <<>> THEN "exited" ELSE "fill"
  /\ UNCHANGED <<queue, due, stopped, starts, recorded, accepted, lost, stopAt>>

-------------------------------------------------------------------------------
(* The lifespan. *)

Start ==
  /\ flusher = "none" /\ starts < MaxStarts
  /\ flusher' = "fill"
  /\ queue' = <<>> /\ stopped' = FALSE
  /\ starts' = starts + 1
  /\ UNCHANGED <<buffer, due, tries, history>>

(* stop() up to its await. *)
StopSignal ==
  /\ flusher # "none" /\ ~stopped
  /\ stopped' = TRUE
  /\ stopAt' = recorded
  /\ UNCHANGED <<flusher, queue, buffer, due, tries, starts, recorded, accepted, settled, lost>>

Discard ==
  /\ flusher' = "none"
  /\ queue' = <<>> /\ buffer' = <<>>
  /\ due' = FALSE /\ tries' = 0
  /\ lost' = lost \cup Elements(buffer) \cup Elements(queue)
  /\ UNCHANGED <<stopped, starts, recorded, accepted, settled, stopAt>>

(* Mutant: stop() waits for an empty queue. *)
StopReturnsWhenEmpty == stopped /\ flusher = "exited" /\ queue = <<>> /\ Discard

(* stop() resumes after the flusher has returned ... *)
StopReturns == stopped /\ flusher = "exited" /\ Discard

(* ... or cancels it when the grace period is over. *)
GraceExpires == stopped /\ flusher \in {"fill", "woken", "send"} /\ Discard

Flush == TakeEvent \/ TimerFires \/ Wake \/ BatchReady \/ SendBatch

Next == RecordEvent \/ Flush \/ IntervalPasses
          \/ Start \/ StopSignal \/ StopReturns \/ GraceExpires

Spec == Init /\ [][Next]_vars

(* The event loop runs the ready flusher, timers fire, and a stop() whose  *)
(* await is over goes on. Nobody has to record, start or stop.             *)
FairSpec == Spec /\ WF_vars(Flush) /\ WF_vars(IntervalPasses)
                 /\ WF_vars(StopReturns) /\ WF_vars(GraceExpires)
=============================================================================
