---------------------------- MODULE TelemetryProofs ----------------------------
(***************************************************************************)
(* CollectorInv is an inductive invariant of the telemetry collector for   *)
(* every batch size, queue depth and number of events, and the collector   *)
(* implements the first-in first-out channel of module EventChannel.       *)
(***************************************************************************)
EXTENDS TelemetryProperties, SequenceTheorems, TLAPS

(* What the elements of a sequence become when one is appended ... *)
LEMMA AppendElements ==
  ASSUME NEW S, NEW s \in Seq(S), NEW e
  PROVE  Elements(Append(s, e)) = Elements(s) \cup {e}
<1>1. /\ DOMAIN Append(s, e) = 1 .. Len(s) + 1 /\ DOMAIN s = 1 .. Len(s)
      /\ Len(s) \in Nat
      /\ \A i \in 1 .. Len(s) : Append(s, e)[i] = s[i]
      /\ Append(s, e)[Len(s) + 1] = e
  OBVIOUS
<1>2. ASSUME NEW x \in Elements(Append(s, e)) PROVE x \in Elements(s) \cup {e}
  <2>1. PICK i \in 1 .. Len(s) + 1 : x = Append(s, e)[i]
    BY <1>1, <1>2 DEF Elements
  <2>2. CASE i = Len(s) + 1
    BY <1>1, <2>1, <2>2
  <2>3. CASE i \in 1 .. Len(s)
    BY <1>1, <2>1, <2>3 DEF Elements
  <2> QED
    BY <1>1, <2>1, <2>2, <2>3
<1>3. ASSUME NEW x \in Elements(s) PROVE x \in Elements(Append(s, e))
  <2>1. PICK i \in 1 .. Len(s) : x = s[i]
    BY <1>1, <1>3 DEF Elements
  <2>2. i \in DOMAIN Append(s, e) /\ Append(s, e)[i] = x
    BY <1>1, <2>1
  <2> QED
    BY <2>2 DEF Elements
<1>4. e \in Elements(Append(s, e))
  BY <1>1 DEF Elements
<1> QED
  BY <1>2, <1>3, <1>4

(* ... and when the first is taken off. *)
LEMMA HeadTailElements ==
  ASSUME NEW S, NEW s \in Seq(S), s # <<>>
  PROVE  /\ Elements(s) = {Head(s)} \cup Elements(Tail(s))
         /\ Head(s) \in Elements(s)
<1>1. /\ DOMAIN s = 1 .. Len(s) /\ Len(s) \in Nat \ {0}
      /\ Tail(s) \in Seq(S) /\ Len(Tail(s)) = Len(s) - 1
      /\ DOMAIN Tail(s) = 1 .. Len(s) - 1
      /\ \A i \in 1 .. Len(s) - 1 : Tail(s)[i] = s[i + 1]
      /\ Head(s) = s[1]
  OBVIOUS
<1>2. ASSUME NEW x \in Elements(s) PROVE x = Head(s) \/ x \in Elements(Tail(s))
  <2>1. PICK i \in 1 .. Len(s) : x = s[i]
    BY <1>1, <1>2 DEF Elements
  <2>2. CASE i = 1
    BY <1>1, <2>1, <2>2
  <2>3. CASE i # 1
    <3>1. i - 1 \in 1 .. Len(s) - 1 /\ Tail(s)[i - 1] = x
      BY <1>1, <2>1, <2>3
    <3> QED
      BY <1>1, <3>1 DEF Elements
  <2> QED
    BY <2>2, <2>3
<1>3. ASSUME NEW x \in Elements(Tail(s)) PROVE x \in Elements(s)
  <2>1. PICK i \in 1 .. Len(s) - 1 : x = Tail(s)[i]
    BY <1>1, <1>3 DEF Elements
  <2>2. i + 1 \in DOMAIN s /\ s[i + 1] = x
    BY <1>1, <2>1
  <2> QED
    BY <2>2 DEF Elements
<1>4. Head(s) \in Elements(s)
  BY <1>1 DEF Elements
<1> QED
  BY <1>2, <1>3, <1>4

(* An increasing sequence stays one when a larger element is appended ... *)
LEMMA AppendIncreasing ==
  ASSUME NEW s \in Seq(Nat), NEW e \in Nat, Increasing(s), \A x \in Elements(s) : x < e
  PROVE  Increasing(Append(s, e))
<1>1. /\ DOMAIN Append(s, e) = 1 .. Len(s) + 1 /\ DOMAIN s = 1 .. Len(s)
      /\ Len(s) \in Nat
      /\ \A i \in 1 .. Len(s) : Append(s, e)[i] = s[i] /\ s[i] < e
      /\ Append(s, e)[Len(s) + 1] = e
  BY DEF Elements
<1> SUFFICES ASSUME NEW i \in 1 .. Len(s) + 1, NEW j \in 1 .. Len(s) + 1, i < j
             PROVE  Append(s, e)[i] < Append(s, e)[j]
  BY <1>1 DEF Increasing
<1>2. i \in 1 .. Len(s)
  BY <1>1
<1>3. CASE j = Len(s) + 1
  BY <1>1, <1>2, <1>3
<1>4. CASE j \in 1 .. Len(s)
  <2>1. s[i] < s[j]
    BY <1>1, <1>2, <1>4 DEF Increasing
  <2> QED
    BY <1>1, <1>2, <1>4, <2>1
<1> QED
  BY <1>1, <1>3, <1>4

(* ... and when its head, smaller than the rest, is taken off. *)
LEMMA TailIncreasing ==
  ASSUME NEW s \in Seq(Nat), s # <<>>, Increasing(s)
  PROVE  Increasing(Tail(s)) /\ \A x \in Elements(Tail(s)) : Head(s) < x
<1>1. /\ DOMAIN s = 1 .. Len(s) /\ Len(s) \in Nat \ {0}
      /\ DOMAIN Tail(s) = 1 .. Len(s) - 1
      /\ \A i \in 1 .. Len(s) - 1 : Tail(s)[i] = s[i + 1]
      /\ Head(s) = s[1]
  OBVIOUS
<1>2. \A i \in 1 .. Len(s) - 1 : i + 1 \in 1 .. Len(s) /\ 1 < i + 1
  BY <1>1
<1>3. Increasing(Tail(s))
  BY <1>1, <1>2 DEF Increasing
<1>4. \A i \in 1 .. Len(s) - 1 : s[1] < s[i + 1]
  BY <1>1, <1>2 DEF Increasing
<1> QED
  BY <1>1, <1>3, <1>4 DEF Elements

(* A sequence over a set is one over every larger set, and its elements    *)
(* are in the set.                                                         *)
LEMMA SeqWidens ==
  ASSUME NEW S, NEW T, S \subseteq T, NEW s \in Seq(S)
  PROVE  s \in Seq(T) /\ Elements(s) \subseteq S
<1>1. \A i \in 1 .. Len(s) : s[i] \in S
  OBVIOUS
<1> QED
  BY <1>1 DEF Elements

(* The empty sequence has no elements and is increasing. *)
LEMMA EmptyQueue ==
  ASSUME CollectorAssumption, NEW S
  PROVE  /\ <<>> \in Seq(S) /\ Len(<<>>) = 0
         /\ 0 <= MAX_QUEUE_DEPTH /\ 0 <= BATCH_SIZE /\ 0 \in 0 .. RETRY_ATTEMPTS - 1
BY DEF CollectorAssumption

-------------------------------------------------------------------------------
(* The invariant, action by action. *)

(* A collector never started holds nothing. *)
LEMMA InitCollectorInv == Init => CollectorInv
<1> SUFFICES ASSUME Init PROVE CollectorInv
  OBVIOUS
<1> USE CollectorAssumption DEF Init
<1>1. CollectorTypeOK
  <2>1. /\ queue \in Seq(1 .. recorded) /\ Len(queue) <= MAX_QUEUE_DEPTH
        /\ buffer \in Seq(1 .. recorded) /\ Len(buffer) <= BATCH_SIZE
        /\ tries \in 0 .. RETRY_ATTEMPTS - 1
    BY EmptyQueue
  <2>2. starts \in 0 .. MaxStarts /\ recorded \in 0 .. MaxEvents /\ stopAt \in 0 .. recorded
    BY DEF CollectorAssumption
  <2> QED
    BY <2>1, <2>2 DEF CollectorTypeOK
<1>2. NothingVanishes
  BY DEF NothingVanishes, Elements, Increasing
<1>3. FlusherInv
  BY DEF FlusherInv
<1> QED
  BY <1>1, <1>2, <1>3 DEF CollectorInv

(* A new event is larger than all before it, wherever they are. *)
LEMMA RecordEventInv ==
  ASSUME CollectorInv, RecordEvent
  PROVE  CollectorInv'
<1> USE CollectorAssumption DEF CollectorInv
<1> DEFINE e == recorded + 1
<1>1. /\ recorded \in Nat /\ e \in Nat /\ recorded' = e /\ e <= MaxEvents
      /\ 1 .. recorded \subseteq 1 .. e /\ 1 .. recorded \subseteq Nat
      /\ queue \in Seq(1 .. recorded) /\ buffer \in Seq(1 .. recorded)
      /\ e \notin accepted
      /\ UNCHANGED <<flusher, buffer, due, tries, stopped, starts, settled, lost, stopAt>>
  BY DEF RecordEvent, CollectorTypeOK
<1>2. /\ queue \in Seq(1 .. e) /\ buffer \in Seq(1 .. e) /\ queue \in Seq(Nat)
      /\ Elements(queue) \subseteq 1 .. recorded /\ Elements(buffer) \subseteq 1 .. recorded
  BY <1>1, SeqWidens
<1>3. CASE Accept
  <2>1. /\ flusher # "none" /\ Len(queue) < MAX_QUEUE_DEPTH
        /\ queue' = Append(queue, e) /\ accepted' = accepted \cup {e}
    BY <1>3 DEF Accept
  <2>2. queue' \in Seq(1 .. e) /\ Len(queue') <= MAX_QUEUE_DEPTH
    BY <1>1, <1>2, <2>1
  <2>3. CollectorTypeOK'
    BY <1>1, <1>2, <2>1, <2>2 DEF CollectorTypeOK
  <2>4. Elements(queue') = Elements(queue) \cup {e}
    BY <1>2, <2>1, AppendElements
  <2>5. Increasing(queue')
    <3>1. \A x \in Elements(queue) : x < e
      BY <1>1, <1>2
    <3>2. Increasing(queue)
      BY DEF NothingVanishes
    <3> HIDE DEF e
    <3> QED
      BY <1>1, <1>2, <2>1, <3>1, <3>2, AppendIncreasing
  <2>6. \A f \in Elements(buffer) : f < e
    BY <1>1, <1>2
  <2>7. Elements(buffer') = Elements(buffer) /\ Increasing(buffer')
    BY <1>1 DEF NothingVanishes
  <2>8. NothingVanishes'
    <3> HIDE DEF e
    <3>1. e \notin settled \cup lost \cup Elements(buffer)
      BY <1>1 DEF NothingVanishes
    <3> QED
      BY <1>1, <2>1, <2>4, <2>5, <2>6, <2>7, <3>1 DEF NothingVanishes
  <2>9. FlusherInv'
    BY <1>1, <2>1 DEF FlusherInv
  <2> QED
    BY <2>3, <2>8, <2>9
<1>4. CASE Refuse
  <2>1. UNCHANGED <<queue, accepted>>
    BY <1>4 DEF Refuse
  <2>2. CollectorTypeOK'
    BY <1>1, <1>2, <2>1 DEF CollectorTypeOK
  <2>3. NothingVanishes' /\ FlusherInv'
    BY <1>1, <2>1 DEF NothingVanishes, FlusherInv, Elements, Increasing
  <2> QED
    BY <2>2, <2>3
<1> QED
  BY <1>3, <1>4 DEF RecordEvent

(* The oldest queued event becomes the youngest of the batch. *)
LEMMA TakeEventInv ==
  ASSUME CollectorInv, TakeEvent
  PROVE  CollectorInv'
<1> USE CollectorAssumption DEF CollectorInv
<1> DEFINE e == Head(queue)
<1>1. /\ flusher = "fill" /\ queue # <<>> /\ Len(buffer) < BATCH_SIZE
      /\ buffer' = Append(buffer, e) /\ queue' = Tail(queue)
      /\ UNCHANGED <<flusher, due, tries, stopped, starts, history>>
  BY DEF TakeEvent
<1>2. /\ queue \in Seq(1 .. recorded) /\ buffer \in Seq(1 .. recorded)
      /\ queue \in Seq(Nat) /\ buffer \in Seq(Nat)
  <2>1. 1 .. recorded \subseteq Nat
    BY DEF CollectorTypeOK
  <2> QED
    BY <2>1, SeqWidens DEF CollectorTypeOK
<1>3. /\ e \in 1 .. recorded /\ e \in Nat
      /\ Tail(queue) \in Seq(1 .. recorded) /\ Len(Tail(queue)) = Len(queue) - 1
      /\ Append(buffer, e) \in Seq(1 .. recorded)
      /\ Len(Append(buffer, e)) = Len(buffer) + 1
      /\ Len(buffer) \in Nat /\ Len(queue) \in Nat
  <2>1. \A S, s, x : s \in Seq(S) /\ x \in S =>
          Append(s, x) \in Seq(S) /\ Len(Append(s, x)) = Len(s) + 1 /\ Len(s) \in Nat
    OBVIOUS
  <2>2. \A S, s : s \in Seq(S) /\ s # <<>> =>
          Head(s) \in S /\ Tail(s) \in Seq(S) /\ Len(Tail(s)) = Len(s) - 1 /\ Len(s) \in Nat
    OBVIOUS
  <2>3. 1 .. recorded \subseteq Nat
    BY DEF CollectorTypeOK
  <2> QED
    BY <1>1, <1>2, <2>1, <2>2, <2>3
<1>4. CollectorTypeOK'
  BY <1>1, <1>3 DEF CollectorTypeOK, history
<1>5. /\ Elements(queue) = {e} \cup Elements(queue') /\ e \in Elements(queue)
      /\ Elements(buffer') = Elements(buffer) \cup {e}
  <2>1. Elements(queue) = {e} \cup Elements(Tail(queue)) /\ e \in Elements(queue)
    BY <1>1, <1>2, HeadTailElements
  <2>2. Elements(Append(buffer, e)) = Elements(buffer) \cup {e}
    BY <1>2, AppendElements
  <2> QED
    BY <1>1, <2>1, <2>2
<1>6. Increasing(queue') /\ \A x \in Elements(queue') : e < x
  BY <1>1, <1>2, TailIncreasing DEF NothingVanishes
<1>7. Increasing(buffer')
  <2>1. \A x \in Elements(buffer) : x < e
    BY <1>5 DEF NothingVanishes
  <2> HIDE DEF e
  <2> QED
    BY <1>1, <1>2, <1>3, <2>1, AppendIncreasing DEF NothingVanishes
<1>8. NothingVanishes'
  <2> HIDE DEF e
  <2>1. \A x \in Elements(buffer'), y \in Elements(queue') : x < y
    BY <1>5, <1>6 DEF NothingVanishes
  <2> QED
    BY <1>1, <1>5, <1>6, <1>7, <2>1 DEF NothingVanishes, history
<1>9. FlusherInv'
  BY <1>1 DEF FlusherInv, history
<1> QED
  BY <1>4, <1>8, <1>9

(* A step that leaves events where they are keeps NothingVanishes. *)
LEMMA EventsUnmoved ==
  ASSUME CollectorInv, UNCHANGED <<queue, buffer, history>>
  PROVE  NothingVanishes'
BY DEF CollectorInv, NothingVanishes, Elements, Increasing, history

(* The timer and the end of a fill loop move no event. *)
LEMMA FlusherStepInv ==
  ASSUME CollectorInv, IntervalPasses \/ TimerFires \/ Wake \/ BatchReady
  PROVE  CollectorInv'
<1> USE CollectorAssumption DEF CollectorInv
<1>1. UNCHANGED <<queue, buffer, tries, stopped, starts, history>>
  BY DEF IntervalPasses, TimerFires, Wake, BatchReady
<1>2. NothingVanishes'
  BY <1>1, EventsUnmoved
<1>3. CollectorTypeOK' /\ FlusherInv'
  <2>1. /\ flusher' \in {"fill", "woken", "send", "exited"} /\ due' \in BOOLEAN
        /\ flusher' = "send" => buffer # <<>>
        /\ flusher' = "exited" => stopped /\ buffer = <<>>
        /\ flusher' = "woken" => Len(buffer) < BATCH_SIZE
        /\ due' => flusher' \in {"fill", "woken"}
        /\ flusher # "send" /\ flusher \in {"fill", "woken"}
    BY DEF IntervalPasses, TimerFires, Wake, BatchReady, EndFill, CollectorTypeOK, FlusherInv
  <2>2. CollectorTypeOK'
    BY <1>1, <2>1 DEF CollectorTypeOK, history
  <2>3. FlusherInv'
    BY <1>1, <2>1 DEF FlusherInv
  <2> QED
    BY <2>2, <2>3
<1> QED
  BY <1>2, <1>3

(* The events of a batch that is done with are settled. *)
LEMMA SendBatchInv ==
  ASSUME CollectorInv, SendBatch
  PROVE  CollectorInv'
<1> USE CollectorAssumption DEF CollectorInv
<1>1. /\ flusher = "send"
      /\ UNCHANGED <<queue, due, stopped, starts, recorded, accepted, lost, stopAt>>
  BY DEF SendBatch
<1>2. CASE /\ tries + 1 < RETRY_ATTEMPTS /\ tries' = tries + 1
           /\ UNCHANGED <<flusher, buffer, settled>>
  <2>1. NothingVanishes'
    BY <1>1, <1>2, EventsUnmoved DEF history
  <2>2. CollectorTypeOK' /\ FlusherInv'
    BY <1>1, <1>2 DEF CollectorTypeOK, FlusherInv
  <2> QED
    BY <2>1, <2>2
<1>3. CASE /\ tries' = 0 /\ buffer' = <<>>
           /\ settled' = settled \cup Elements(buffer)
           /\ flusher' = IF stopped /\ queue = <<>> THEN "exited" ELSE "fill"
  <2>1. Elements(buffer') = {} /\ Increasing(buffer')
    BY <1>3 DEF Elements, Increasing
  <2>2. Elements(queue') = Elements(queue) /\ Increasing(queue')
    BY <1>1 DEF NothingVanishes
  <2>3. Elements(buffer) \cap Elements(queue) = {} /\ Elements(buffer) \cap lost = {}
    <3>1. Elements(buffer) \subseteq Nat
      BY SeqWidens DEF CollectorTypeOK
    <3> QED
      BY <3>1 DEF NothingVanishes
  <2>4. NothingVanishes'
    BY <1>1, <1>3, <2>1, <2>2, <2>3 DEF NothingVanishes
  <2>5. settled' \subseteq accepted'
    BY <1>1, <1>3 DEF CollectorTypeOK, NothingVanishes
  <2>6. buffer' \in Seq(1 .. recorded) /\ Len(buffer') = 0
    BY <1>3
  <2>7. CollectorTypeOK'
    BY <1>1, <1>3, <2>5, <2>6 DEF CollectorTypeOK
  <2>8. FlusherInv'
    BY <1>1, <1>3 DEF FlusherInv
  <2> QED
    BY <2>4, <2>7, <2>8
<1> QED
  BY <1>2, <1>3 DEF SendBatch

(* A started collector has an empty queue. *)
LEMMA StartInv ==
  ASSUME CollectorInv, Start
  PROVE  CollectorInv'
<1> USE CollectorAssumption DEF CollectorInv
<1>1. /\ flusher = "none" /\ starts < MaxStarts /\ flusher' = "fill"
      /\ queue' = <<>> /\ stopped' = FALSE /\ starts' = starts + 1
      /\ UNCHANGED <<buffer, due, tries, history>>
  BY DEF Start
<1>2. queue = <<>>
  BY <1>1 DEF FlusherInv
<1>3. NothingVanishes'
  BY <1>1, <1>2, EventsUnmoved
<1>4. CollectorTypeOK'
  <2>1. starts' \in 0 .. MaxStarts
    BY <1>1 DEF CollectorTypeOK, CollectorAssumption
  <2>2. queue' = queue
    BY <1>1, <1>2
  <2> QED
    BY <1>1, <2>1, <2>2 DEF CollectorTypeOK, history
<1>5. FlusherInv'
  BY <1>1 DEF FlusherInv
<1> QED
  BY <1>3, <1>4, <1>5

(* stop() up to its await moves no event. *)
LEMMA StopSignalInv ==
  ASSUME CollectorInv, StopSignal
  PROVE  CollectorInv'
<1> USE CollectorAssumption DEF CollectorInv, StopSignal
<1>1. NothingVanishes'
  BY DEF NothingVanishes, Elements, Increasing
<1>2. CollectorTypeOK'
  BY DEF CollectorTypeOK
<1>3. FlusherInv'
  BY DEF FlusherInv
<1> QED
  BY <1>1, <1>2, <1>3

(* The events still held at a shutdown are lost, and only they. *)
LEMMA DiscardInv ==
  ASSUME CollectorInv, Discard
  PROVE  CollectorInv'
<1> USE CollectorAssumption DEF CollectorInv, Discard
<1>1. Elements(<<>>) = {} /\ Increasing(<<>>)
  BY DEF Elements, Increasing
<1>2. /\ Elements(buffer) \cap settled = {} /\ Elements(queue) \cap settled = {}
      /\ Elements(buffer) \cup Elements(queue) \subseteq accepted
  BY DEF NothingVanishes
<1>3. NothingVanishes'
  BY <1>1, <1>2 DEF NothingVanishes
<1>4. CollectorTypeOK'
  BY <1>2, EmptyQueue DEF CollectorTypeOK
<1>5. FlusherInv'
  BY DEF FlusherInv
<1> QED
  BY <1>3, <1>4, <1>5

(* Every step preserves the invariant. *)
LEMMA NextCollectorInv == CollectorInv /\ [Next]_vars => CollectorInv'
<1> SUFFICES ASSUME CollectorInv, [Next]_vars PROVE CollectorInv'
  OBVIOUS
<1>1. CASE Next
  BY <1>1, RecordEventInv, TakeEventInv, FlusherStepInv, SendBatchInv, StartInv,
     StopSignalInv, DiscardInv DEF Next, Flush, StopReturns, GraceExpires
<1>2. CASE UNCHANGED vars
  <2>1. NothingVanishes'
    BY <1>2, EventsUnmoved DEF vars, history
  <2>2. CollectorTypeOK' /\ FlusherInv'
    BY <1>2 DEF vars, CollectorInv, CollectorTypeOK, FlusherInv
  <2> QED
    BY <2>1, <2>2 DEF CollectorInv
<1> QED
  BY <1>1, <1>2

(* CollectorInv holds in every reachable state, whatever is recorded and   *)
(* whenever the collector is stopped and started again.                    *)
THEOREM CollectorInvariant == Spec => []CollectorInv
BY InitCollectorInv, NextCollectorInv, PTL DEF Spec

(* No event the collector took is lost, repeated or reordered before a     *)
(* shutdown, for every batch size and queue depth.                         *)
THEOREM EventsAreKept == Spec => []NothingVanishes
<1>1. CollectorInv => NothingVanishes
  BY DEF CollectorInv
<1> QED
  BY <1>1, CollectorInvariant, PTL
-------------------------------------------------------------------------------
(* Refinement: the channel's content is the batch followed by the queue. *)

(* Recording appends to the channel; a get() moves an event within it; a   *)
(* send takes the whole batch off its front.                               *)
LEMMA ChannelContent ==
  ASSUME NEW S, NEW b \in Seq(S), NEW q \in Seq(S)
  PROVE  /\ \A e \in S : b \o Append(q, e) = Append(b \o q, e)
         /\ q # <<>> => Append(b, Head(q)) \o Tail(q) = b \o q
         /\ SubSeq(b \o q, Len(b) + 1, Len(b \o q)) = q
<1>1. b \o q \in Seq(S) /\ Len(b \o q) = Len(b) + Len(q) /\ Len(b) \in Nat /\ Len(q) \in Nat
  BY ConcatProperties, LenProperties
<1>2. \A e \in S : b \o Append(q, e) = Append(b \o q, e)
  <2> TAKE e \in S
  <2>1. <<e>> \in Seq(S)
    OBVIOUS
  <2>2. b \o (q \o <<e>>) = (b \o q) \o <<e>>
    BY <2>1, ConcatAssociative
  <2> QED
    BY <1>1, <2>2, AppendIsConcat
<1>3. ASSUME q # <<>> PROVE Append(b, Head(q)) \o Tail(q) = b \o q
  <2>1. Head(q) \in S /\ Tail(q) \in Seq(S) /\ <<Head(q)>> \in Seq(S)
    BY <1>3, HeadTailProperties
  <2>2. (b \o <<Head(q)>>) \o Tail(q) = b \o (<<Head(q)>> \o Tail(q))
    BY <2>1, ConcatAssociative
  <2>3. <<Head(q)>> \o Tail(q) = q
    BY <1>3, <2>1
  <2>4. Append(b, Head(q)) = b \o <<Head(q)>>
    BY <2>1, AppendIsConcat
  <2> QED
    BY <2>2, <2>3, <2>4
<1>4. SubSeq(b \o q, Len(b) + 1, Len(b \o q)) = q
  <2> DEFINE front == SubSeq(b \o q, Len(b) + 1, Len(b \o q))
  <2>1. \A i \in Len(b) + 1 .. Len(b \o q) : (b \o q)[i] \in S
    BY <1>1
  <2>2. /\ front \in Seq(S) /\ Len(front) = Len(q)
        /\ \A i \in 1 .. Len(q) : front[i] = (b \o q)[Len(b) + i]
    BY <1>1, <2>1, SubSeqProperties
  <2>3. \A i \in 1 .. Len(q) : (b \o q)[Len(b) + i] = q[i]
    BY <1>1, ConcatProperties
  <2> HIDE DEF front
  <2>4. front = q
    BY <2>2, <2>3, SeqEqual
  <2> QED
    BY <2>4 DEF front
<1> QED
  BY <1>2, <1>3, <1>4

(* A collector never started is a channel that is not open. *)
LEMMA ChannelStarts == Init => Channel!ChannelInit
BY DEF Init, Channel!ChannelInit

(* Every step of the collector is one of the channel, or leaves it alone. *)
LEMMA ChannelStep ==
  ASSUME CollectorInv, [Next]_vars
  PROVE  [Channel!ChannelNext]_(Channel!channelVars)
<1> USE CollectorAssumption
<1>1. /\ queue \in Seq(Nat) /\ buffer \in Seq(Nat)
      /\ recorded + 1 \in Nat /\ recorded \in 0 .. MaxEvents
      /\ Len(queue) \in Nat /\ Len(buffer) \in 0 .. BATCH_SIZE
      /\ Len(buffer \o queue) = Len(buffer) + Len(queue)
  <2>1. 1 .. recorded \subseteq Nat /\ recorded + 1 \in Nat /\ recorded \in 0 .. MaxEvents
    BY DEF CollectorInv, CollectorTypeOK
  <2>2. queue \in Seq(Nat) /\ buffer \in Seq(Nat)
    BY <2>1, SeqMonotonic DEF CollectorInv, CollectorTypeOK
  <2>3. Len(queue) \in Nat /\ Len(buffer) \in Nat /\ Len(buffer) <= BATCH_SIZE
    BY <2>2, LenProperties DEF CollectorInv, CollectorTypeOK
  <2> QED
    BY <2>1, <2>2, <2>3, ConcatProperties
<1>2. CASE RecordEvent
  <2>1. CASE Accept
    <3>1. /\ flusher # "none" /\ flusher' = flusher /\ buffer' = buffer
          /\ Len(queue) < MAX_QUEUE_DEPTH /\ queue' = Append(queue, recorded + 1)
          /\ recorded < MaxEvents
      BY <1>2, <2>1 DEF RecordEvent, Accept
    <3>2. buffer' \o queue' = Append(buffer \o queue, recorded + 1)
      BY <1>1, <3>1, ChannelContent
    <3>3. recorded + 1 \in 1 .. MaxEvents
      BY <1>1, <3>1 DEF CollectorAssumption
    <3>4. Len(buffer \o queue) < BATCH_SIZE + MAX_QUEUE_DEPTH
      BY <1>1, <3>1 DEF CollectorAssumption
    <3>5. Channel!Take(recorded + 1)
      BY <3>1, <3>2, <3>4 DEF Channel!Take
    <3> QED
      BY <3>3, <3>5 DEF Channel!ChannelNext
  <2>2. CASE Refuse
    BY <1>2, <2>2 DEF RecordEvent, Refuse, Channel!channelVars
  <2> QED
    BY <1>2, <2>1, <2>2 DEF RecordEvent
<1>3. CASE TakeEvent
  <2>1. /\ queue # <<>> /\ buffer' = Append(buffer, Head(queue)) /\ queue' = Tail(queue)
        /\ flusher' = flusher
    BY <1>3 DEF TakeEvent
  <2>2. buffer' \o queue' = buffer \o queue
    BY <1>1, <2>1, ChannelContent
  <2> QED
    BY <2>1, <2>2 DEF Channel!channelVars
<1>4. CASE IntervalPasses \/ TimerFires \/ Wake \/ BatchReady
  <2>1. /\ UNCHANGED <<queue, buffer>>
        /\ flusher # "none" /\ flusher' # "none"
    BY <1>4 DEF IntervalPasses, TimerFires, Wake, BatchReady, EndFill
  <2> QED
    BY <2>1 DEF Channel!channelVars
<1>5. CASE SendBatch
  <2>1. flusher # "none" /\ flusher' # "none" /\ queue' = queue /\ buffer # <<>>
    BY <1>5 DEF SendBatch, CollectorInv, FlusherInv
  <2>2. CASE buffer' = buffer
    BY <2>1, <2>2 DEF Channel!channelVars
  <2>3. CASE buffer' = <<>>
    <3>1. buffer' \o queue' = queue
      BY <1>1, <2>1, <2>3, ConcatEmptySeq
    <3>2. SubSeq(buffer \o queue, Len(buffer) + 1, Len(buffer \o queue)) = queue
      BY <1>1, ChannelContent
    <3>3. Len(buffer) \in 1 .. BATCH_SIZE
      BY <1>1, <2>1, EmptySeq DEF CollectorAssumption
    <3>4. Channel!HandOn(Len(buffer))
      <4>1. Len(buffer) <= Len(buffer \o queue)
        BY <1>1
      <4>2. (buffer \o queue)' = SubSeq(buffer \o queue, Len(buffer) + 1, Len(buffer \o queue))
        BY <3>1, <3>2
      <4>3. (flusher # "none")' = (flusher # "none")
        BY <2>1
      <4> QED
        BY <4>1, <4>2, <4>3 DEF Channel!HandOn
    <3> QED
      BY <3>3, <3>4 DEF Channel!ChannelNext
  <2> QED
    BY <1>5, <2>2, <2>3 DEF SendBatch
<1>6. CASE Start
  <2>1. queue = <<>> /\ buffer = <<>>
    BY <1>6 DEF Start, CollectorInv, FlusherInv
  <2>2. Channel!Open
    BY <1>6, <2>1 DEF Start, Channel!Open
  <2> QED
    BY <2>2 DEF Channel!ChannelNext
<1>7. CASE StopSignal
  BY <1>7 DEF StopSignal, Channel!channelVars
<1>8. CASE StopReturns \/ GraceExpires
  <2>1. /\ flusher # "none" /\ flusher' = "none" /\ queue' = <<>> /\ buffer' = <<>>
    BY <1>8 DEF StopReturns, GraceExpires, Discard
  <2>2. buffer' \o queue' = <<>>
    BY <2>1
  <2>3. Channel!Close
    BY <2>1, <2>2 DEF Channel!Close
  <2> QED
    BY <2>3 DEF Channel!ChannelNext
<1>9. CASE UNCHANGED vars
  BY <1>9 DEF vars, Channel!channelVars
<1> QED
  BY <1>2, <1>3, <1>4, <1>5, <1>6, <1>7, <1>8, <1>9 DEF Next, Flush

(* The collector implements the bounded first-in first-out channel, for    *)
(* every batch size, queue depth and pattern of stops and restarts.        *)
THEOREM ChannelImplemented == Spec => ImplementsChannel
BY CollectorInvariant, ChannelStarts, ChannelStep, PTL
   DEF Spec, ImplementsChannel, Channel!ChannelSpec
=============================================================================
