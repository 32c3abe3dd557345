--------------------------- MODULE BridgeQueueProofs ---------------------------
(***************************************************************************)
(* What of "a queued promotion is compiled in the end" is not liveness:    *)
(* for every set of promotions, tenants and requests and however POSTs     *)
(* overlap, as long as no coroutine has stopped half-way there is a task   *)
(* for every answer that says queued, unless its names ran out or it was   *)
(* stranded.                                                               *)
(***************************************************************************)
EXTENDS BridgeProofs

USE NoneAssumption DEF Receiving, Working

Worked(p) == HasTask(p) \/ NoNameLeft(p) \/ Stranded(p)

(* A step of request r that keeps the row of p, and in which r goes on     *)
(* with what it does for p or finds no name for it.                        *)
LEMMA TaskKept ==
  ASSUME NEW p \in Promotions, NEW r \in Requests, promoted'[p] = promoted[p],
         \A q \in Requests \ {r} :
           /\ pc'[q] = pc[q] /\ promo'[q] = promo[q] /\ tenant'[q] = tenant[q]
           /\ reply'[q] = reply[q] /\ job'[q] = job[q],
         IsTaskOf(r, p) =>
           \/ IsTaskOf(r, p)'
           \/ promoted[p] # None /\ promoted[p].status = "queued" /\ GaveUp(r, p)',
         GaveUp(r, p) => GaveUp(r, p)',
         IsElsewhere(r, p) => IsElsewhere(r, p)'
  PROVE  /\ HasTask(p) \/ NoNameLeft(p) => HasTask(p)' \/ NoNameLeft(p)'
         /\ Worked(p) => Worked(p)'
<1>1. \A q \in Requests \ {r} :
        /\ IsTaskOf(q, p) => IsTaskOf(q, p)'
        /\ GaveUp(q, p) => GaveUp(q, p)'
        /\ IsElsewhere(q, p) => IsElsewhere(q, p)'
  BY DEF IsTaskOf, GaveUp, IsElsewhere
<1>2. HasTask(p) => HasTask(p)' \/ NoNameLeft(p)'
  BY <1>1 DEF HasTask, NoNameLeft
<1>3. NoNameLeft(p) => NoNameLeft(p)'
  BY <1>1 DEF NoNameLeft
<1>4. Stranded(p) => HasTask(p)' \/ Stranded(p)'
  BY <1>1 DEF Stranded
<1> QED
  BY <1>2, <1>3, <1>4 DEF Worked

(* What is queued is a skill's. *)
LEMMA SkillRows ==
  ASSUME QueuedInv, NEW p \in Promotions,
         \/ promoted[p] # None /\ promoted[p].status = "queued"
         \/ idem[p] # None /\ idem[p].status = "queued"
  PROVE  HasSkillRow(p)
BY DEF QueuedInv, AnswersHaveRows, HasSkillRow, KindStatus

(* Promotions whose row and answer a step keeps are worked on as before.   *)
LEMMA WorkGoesOn ==
  ASSUME QueuedInv, stops' = stops, NEW p \in Promotions, promoted'[p] = promoted[p],
         HasTask(p) \/ NoNameLeft(p) => HasTask(p)' \/ NoNameLeft(p)',
         Worked(p) => Worked(p)'
  PROVE  stops' = 0 =>
           /\ promoted'[p] # None /\ promoted'[p].status = "queued" =>
                HasTask(p)' \/ NoNameLeft(p)'
           /\ idem'[p] = idem[p] /\ idem[p] # None /\ idem[p].status = "queued" => Worked(p)'
BY DEF QueuedInv, RowsAreWorkedOn, QueuedIsWorkedOn, Worked

(* The invariant from what it says of each promotion. *)
LEMMA QueuedParts ==
  ASSUME RequestsProgress', AnswersHaveRows',
         \A p \in Promotions : stops' = 0 =>
           /\ promoted'[p] # None /\ promoted'[p].status = "queued" =>
                HasTask(p)' \/ NoNameLeft(p)'
           /\ idem'[p] # None /\ idem'[p].status = "queued" => Worked(p)'
  PROVE  QueuedInv'
BY DEF QueuedInv, RowsAreWorkedOn, QueuedIsWorkedOn, Worked

(* A step of one request that touches neither rows nor stored answers.     *)
LEMMA QuietQueued ==
  ASSUME QueuedInv, NEW r \in Requests, UNCHANGED <<promoted, idem, stops>>,
         \A q \in Requests \ {r} :
           /\ pc'[q] = pc[q] /\ promo'[q] = promo[q] /\ tenant'[q] = tenant[q]
           /\ reply'[q] = reply[q] /\ job'[q] = job[q],
         pc'[r] \in {"idle", "check", "resolve"} => tenant'[r] = None,
         pc'[r] \in Working => reply'[r] # None /\ reply'[r].code = 202,
         pc'[r] = "record" => reply'[r].status # "queued",
         \A p \in Promotions : HasSkillRow(p) =>
           /\ IsTaskOf(r, p) =>
                IsTaskOf(r, p)' \/ (promoted[p].status = "queued" /\ GaveUp(r, p)')
           /\ GaveUp(r, p) => GaveUp(r, p)'
           /\ IsElsewhere(r, p) => IsElsewhere(r, p)'
  PROVE  QueuedInv'
<1>1. RequestsProgress'
  BY DEF QueuedInv, RequestsProgress
<1>2. AnswersHaveRows'
  BY DEF QueuedInv, AnswersHaveRows, HasSkillRow
<1>3. \A p \in Promotions : HasSkillRow(p) =>
        /\ HasTask(p) \/ NoNameLeft(p) => HasTask(p)' \/ NoNameLeft(p)'
        /\ Worked(p) => Worked(p)'
  BY TaskKept DEF HasSkillRow
<1> QED
  BY <1>1, <1>2, <1>3, SkillRows, WorkGoesOn, QueuedParts

(* A step that touches no request either. *)
LEMMA UnmovedQueued ==
  ASSUME QueuedInv, UNCHANGED <<promoted, idem, stops, pc, promo, tenant, reply, job>>
  PROVE  QueuedInv'
BY DEF QueuedInv, RequestsProgress, AnswersHaveRows, HasSkillRow, RowsAreWorkedOn, QueuedIsWorkedOn,
       HasTask, IsTaskOf, NoNameLeft, GaveUp, Stranded, IsElsewhere

-------------------------------------------------------------------------------
(* The receiver. *)

(* A request that has not been resolved does nothing for any promotion.    *)
LEMMA EarlyQueued ==
  ASSUME BridgeInv, QueuedInv, NEW r \in Requests,
         RejectDelivery(r) \/ CheckIdempotency(r) \/ ResolveTenant(r)
           \/ \E p \in Promotions : Deliver(r, p)
  PROVE  QueuedInv'
<1> USE DEF BridgeInv
<1>1. UNCHANGED <<promoted, idem, stops, job>>
  BY DEF RejectDelivery, CheckIdempotency, ResolveTenant, Deliver, dbVars
<1>2. \A q \in Requests \ {r} :
        /\ pc'[q] = pc[q] /\ promo'[q] = promo[q] /\ tenant'[q] = tenant[q]
        /\ reply'[q] = reply[q] /\ job'[q] = job[q]
  BY DEF RejectDelivery, CheckIdempotency, ResolveTenant, Deliver, TypeOK
<1>3. pc[r] \in {"idle", "check", "resolve"} /\ tenant[r] = None
  BY DEF RejectDelivery, CheckIdempotency, ResolveTenant, Deliver, QueuedInv, RequestsProgress
<1>4. pc'[r] \in {"idle", "check", "resolve"} => tenant'[r] = None
  BY <1>3 DEF RejectDelivery, CheckIdempotency, ResolveTenant, Deliver, TypeOK
<1>7. pc'[r] \notin Working
  BY <1>3 DEF RejectDelivery, CheckIdempotency, ResolveTenant, Deliver, TypeOK
<1>5. pc'[r] = "record" => reply'[r].status # "queued"
  BY DEF RejectDelivery, CheckIdempotency, ResolveTenant, Deliver, TypeOK, Answer
<1>6. \A p \in Promotions : ~IsTaskOf(r, p) /\ ~GaveUp(r, p) /\ ~IsElsewhere(r, p)
  BY <1>3 DEF IsTaskOf, GaveUp, IsElsewhere
<1> QED
  BY <1>1, <1>2, <1>4, <1>5, <1>6, <1>7, QuietQueued

(* The row that a request persists has that request for its task, and one  *)
(* that was there is kept.                                                 *)
LEMMA PersistQueued ==
  ASSUME BridgeInv, QueuedInv, NEW r \in Requests, PersistCandidate(r)
  PROVE  QueuedInv'
<1> USE DEF BridgeInv
<1> DEFINE k == promo[r]
           row == [tenant |-> tenant[r], status |-> KindStatus(k), skill |-> None]
<1>1. /\ k \in Promotions /\ tenant[r] \in Tenants /\ pc[r] = "persist"
      /\ UNCHANGED <<idem, promo, tenant, job, stops>>
      /\ promoted' = [promoted EXCEPT ![k] = IF @ = None THEN row ELSE @]
      /\ reply' = [reply EXCEPT ![r] = Answer(202, KindStatus(k), None)]
      /\ pc' = [pc EXCEPT ![r] = "record"]
  BY DEF PersistCandidate, RequestInv
<1>2. /\ row \in CandidateSet /\ row # None
      /\ row.tenant = tenant[r] /\ row.status = KindStatus(k)
  BY <1>1 DEF CandidateSet, KindStatus
<1> HIDE DEF row
<1>3. /\ \A p \in Promotions : p # k \/ promoted[k] # None => promoted'[p] = promoted[p]
      /\ promoted[k] = None => promoted'[k] = row
  BY <1>1 DEF TypeOK
<1>4. Answer(202, KindStatus(k), None) \in AnswerSet
  BY DEF Answer, AnswerSet, KindStatus
<1>5. /\ reply'[r] # None /\ reply'[r].code = 202 /\ reply'[r].status = KindStatus(k)
      /\ pc'[r] = "record" /\ promo'[r] = k /\ tenant'[r] = tenant[r]
      /\ \A q \in Requests \ {r} : pc'[q] = pc[q] /\ reply'[q] = reply[q]
  BY <1>1, <1>4 DEF TypeOK, Answer
<1>6. RequestsProgress'
  BY <1>1, <1>5 DEF QueuedInv, RequestsProgress
<1>7. \A p \in Promotions : promoted'[p] # None => promoted'[p].status \in {KindStatus(p), "compiled"}
  BY <1>2, <1>3 DEF QueuedInv, AnswersHaveRows
<1>8. \A p \in Promotions : HasSkillRow(p) => HasSkillRow(p)'
  BY <1>3 DEF HasSkillRow
<1>9. KindStatus(k) = "queued" => HasSkillRow(k)'
  BY <1>1, <1>2, <1>3, <1>7, BridgeAssumption DEF HasSkillRow, KindStatus
<1>10. AnswersHaveRows'
  <2>1. ASSUME NEW q \in Requests, pc'[q] = "record", reply'[q].status = "queued"
        PROVE  reply'[q].code = 202 /\ HasSkillRow(promo[q])'
    <3>1. CASE q = r
      BY <1>5, <1>9, <2>1, <3>1
    <3>2. CASE q # r
      <4>1. reply[q].code = 202 /\ HasSkillRow(promo[q]) /\ promo[q] \in Promotions
        BY <1>5, <2>1, <3>2 DEF QueuedInv, AnswersHaveRows, RequestInv
      <4>2. HasSkillRow(promo[q])'
        BY <1>1, <1>8, <4>1
      <4> QED
        BY <1>5, <3>2, <4>1, <4>2
    <3> QED
      BY <3>1, <3>2
  <2> QED
    BY <1>1, <1>7, <1>8, <2>1 DEF QueuedInv, AnswersHaveRows
<1>11. ASSUME NEW p \in Promotions, stops' = 0
       PROVE  /\ promoted'[p] # None /\ promoted'[p].status = "queued" =>
                   HasTask(p)' \/ NoNameLeft(p)'
              /\ idem'[p] # None /\ idem'[p].status = "queued" => Worked(p)'
  <2>1. CASE promoted'[p] = promoted[p]
    <3>1. ~IsTaskOf(r, p) /\ ~GaveUp(r, p)
      BY <1>1 DEF IsTaskOf, GaveUp
    <3>2. IsElsewhere(r, p) => IsElsewhere(r, p)'
      BY <1>1, <2>1 DEF IsElsewhere
    <3>3. /\ HasTask(p) \/ NoNameLeft(p) => HasTask(p)' \/ NoNameLeft(p)'
          /\ Worked(p) => Worked(p)'
      BY <1>1, <1>5, <2>1, <3>1, <3>2, TaskKept
    <3> QED
      BY <1>1, <1>11, <2>1, <3>3, WorkGoesOn
  <2>2. CASE p = k /\ promoted[k] = None
    <3>1. idem[p] = None \/ idem[p].status # "queued"
      BY <2>2 DEF QueuedInv, AnswersHaveRows, HasSkillRow
    <3>2. promoted'[p] = row
      BY <1>3, <2>2
    <3>3. promoted'[p].status = "queued" => IsTaskOf(r, p)'
      BY <1>2, <1>5, <2>2, <3>2 DEF IsTaskOf
    <3> QED
      BY <1>1, <3>1, <3>3 DEF HasTask
  <2> QED
    BY <1>3, <2>1, <2>2
<1> QED
  BY <1>6, <1>10, <1>11, QueuedParts
(* The request whose answer is stored works on, unless the row is in       *)
(* another tenant.                                                         *)
LEMMA RecordQueued ==
  ASSUME BridgeInv, QueuedInv, NEW r \in Requests, RecordAnswer(r)
  PROVE  QueuedInv'
<1> USE DEF BridgeInv
<1> DEFINE k == promo[r]
<1>1. /\ k \in Promotions /\ pc[r] = "record"
      /\ UNCHANGED <<promoted, promo, tenant, reply, job, stops>>
      /\ idem' = [idem EXCEPT ![k] = IF @ = None THEN reply[r] ELSE @]
      /\ pc' = [pc EXCEPT ![r] = "respond"]
  BY DEF RecordAnswer, RequestInv
<1>2. pc'[r] = "respond" /\ \A q \in Requests \ {r} : pc'[q] = pc[q]
  BY <1>1 DEF TypeOK
<1>3. /\ \A p \in Promotions : p # k \/ idem[k] # None => idem'[p] = idem[p]
      /\ idem[k] = None => idem'[k] = reply[r]
  BY <1>1 DEF TypeOK
<1>4. reply[r].status = "queued" =>
        /\ reply[r] # None /\ reply[r].code = 202 /\ tenant[r] # None
        /\ HasSkillRow(k)
  BY <1>1 DEF QueuedInv, AnswersHaveRows, RequestInv
<1>5. RequestsProgress'
  BY <1>1, <1>2 DEF QueuedInv, RequestsProgress
<1>6. AnswersHaveRows'
  BY <1>1, <1>2, <1>3, <1>4 DEF QueuedInv, AnswersHaveRows, HasSkillRow
<1>7. ASSUME NEW p \in Promotions
      PROVE  /\ HasTask(p) \/ NoNameLeft(p) => HasTask(p)' \/ NoNameLeft(p)'
             /\ Worked(p) => Worked(p)'
  <2>1. IsTaskOf(r, p) => IsTaskOf(r, p)'
    BY <1>1, <1>2 DEF IsTaskOf
  <2>2. ~GaveUp(r, p) /\ (IsElsewhere(r, p) => IsElsewhere(r, p)')
    BY <1>1 DEF GaveUp, IsElsewhere
  <2> QED
    BY <1>1, <1>2, <2>1, <2>2, TaskKept
<1>8. ASSUME NEW p \in Promotions, stops' = 0
      PROVE  /\ promoted'[p] # None /\ promoted'[p].status = "queued" =>
                  HasTask(p)' \/ NoNameLeft(p)'
             /\ idem'[p] # None /\ idem'[p].status = "queued" => Worked(p)'
  <2>1. CASE idem'[p] = idem[p]
    BY <1>1, <1>7, <1>8, <2>1, WorkGoesOn
  <2>2. CASE p = k /\ idem[k] = None
    <3>1. promoted[p] # None /\ promoted[p].status = "queued" => HasTask(p)' \/ NoNameLeft(p)'
      BY <1>1, <1>7, <1>8 DEF QueuedInv, RowsAreWorkedOn
    <3>2. ASSUME reply[r].status = "queued", tenant[r] = promoted[p].tenant
          PROVE  IsTaskOf(r, p)'
      BY <1>1, <1>2, <1>4, <2>2, <3>2 DEF IsTaskOf
    <3>3. ASSUME reply[r].status = "queued", tenant[r] # promoted[p].tenant
          PROVE  IsElsewhere(r, p)'
      BY <1>1, <1>4, <2>2, <3>3 DEF IsElsewhere
    <3>4. reply[r].status = "queued" => Worked(p)'
      BY <1>1, <1>4, <2>2, <3>1, <3>2, <3>3 DEF Worked, HasTask, Stranded, HasSkillRow
    <3> QED
      BY <1>1, <1>3, <2>2, <3>1, <3>4
  <2> QED
    BY <1>3, <2>1, <2>2
<1> QED
  BY <1>5, <1>6, <1>8, QueuedParts

-------------------------------------------------------------------------------
(* The compile task. *)

(* A task goes from the response to its insert unless its row is compiled, *)
(* in which case it publishes, or its names run out.                       *)
LEMMA TaskStepQueued ==
  ASSUME BridgeInv, QueuedInv, NEW r \in Requests,
         Respond(r) \/ LoadCandidate(r) \/ ResolveName(r)
  PROVE  QueuedInv'
<1> USE DEF BridgeInv, Job, Compiled
<1>1. UNCHANGED <<promoted, idem, stops, promo, tenant, reply>>
  BY DEF Respond, LoadCandidate, ResolveName, dbVars
<1>2. \A q \in Requests \ {r} : pc'[q] = pc[q] /\ job'[q] = job[q]
  BY DEF Respond, LoadCandidate, ResolveName, TypeOK
<1>3. pc[r] \in {"respond", "load", "name"}
  BY DEF Respond, LoadCandidate, ResolveName
<1>4. pc'[r] \in Working \cup {"done"}
  BY DEF Respond, LoadCandidate, ResolveName, TypeOK
<1>5. pc'[r] \in Working => reply'[r] # None /\ reply'[r].code = 202
  BY <1>1 DEF Respond, AcceptedSkill, LoadCandidate, ResolveName, QueuedInv, RequestsProgress,
     RequestInv, TypeOK
<1>6. ASSUME NEW p \in Promotions, HasSkillRow(p), IsTaskOf(r, p)
      PROVE  IsTaskOf(r, p)' \/ (promoted[p].status = "queued" /\ GaveUp(r, p)')
  <2>1. CASE Respond(r)
    BY <1>1, <1>6, <2>1 DEF Respond, AcceptedSkill, IsTaskOf, HasSkillRow, TypeOK
  <2>2. CASE LoadCandidate(r)
    <3>1. Visible(p, tenant[r]) /\ promo[r] = p
      BY <1>6 DEF Visible, IsTaskOf, HasSkillRow
    <3>2. promoted[p].status = "queued" => pc'[r] = "name"
      BY <2>2, <3>1 DEF LoadCandidate, TypeOK
    <3>3. promoted[p].status = "compiled" => pc'[r] = "publish"
      BY <2>2, <3>1 DEF LoadCandidate, TypeOK
    <3> QED
      BY <1>1, <1>6, <3>2, <3>3 DEF IsTaskOf, HasSkillRow
  <2>3. CASE ResolveName(r)
    <3>1. pc[r] = "name" /\ promoted[p].status = "queued"
      BY <1>6, <2>3 DEF ResolveName, IsTaskOf
    <3>2. pc'[r] = "insert" \/ (pc'[r] = "context" /\ job'[r] = Job("rejected", None, None))
      BY <2>3 DEF ResolveName, TypeOK
    <3>3. Job("rejected", None, None) \in JobSet
      BY DEF JobSet
    <3> QED
      BY <1>1, <1>6, <3>1, <3>2, <3>3 DEF IsTaskOf, GaveUp
  <2> QED
    BY <2>1, <2>2, <2>3
<1>7. \A p \in Promotions : ~GaveUp(r, p) /\ (IsElsewhere(r, p) => IsElsewhere(r, p)')
  BY <1>1, <1>3 DEF GaveUp, IsElsewhere
<1> QED
  BY <1>1, <1>2, <1>4, <1>5, <1>6, <1>7, QuietQueued

(* A task that has published or given up changes nothing any more. *)
LEMMA AckStepQueued ==
  ASSUME BridgeInv, QueuedInv, NEW r \in Requests, LoadAckContext(r) \/ SendAck(r)
  PROVE  QueuedInv'
<1> USE DEF BridgeInv
<1>1. UNCHANGED <<promoted, idem, stops, promo, tenant, reply, job>>
  BY DEF LoadAckContext, SendAck, dbVars
<1>2. \A q \in Requests \ {r} : pc'[q] = pc[q]
  BY DEF LoadAckContext, SendAck, TypeOK
<1>3. pc[r] \in {"context", "ack"} /\ pc'[r] \in {"ack", "done"}
  BY DEF LoadAckContext, SendAck, TypeOK
<1>4. reply'[r] # None /\ reply'[r].code = 202
  BY <1>1, <1>3 DEF QueuedInv, RequestsProgress
<1>5. \A p \in Promotions :
        /\ ~IsTaskOf(r, p) /\ (GaveUp(r, p) => GaveUp(r, p)')
        /\ IsElsewhere(r, p) => IsElsewhere(r, p)'
  BY <1>1, <1>3 DEF IsTaskOf, GaveUp, IsElsewhere
<1> QED
  BY <1>1, <1>2, <1>3, <1>4, <1>5, QuietQueued

(* Who compiled the row is the one to publish it. *)
LEMMA InsertQueued ==
  ASSUME BridgeInv, QueuedInv, NEW r \in Requests, InsertSkill(r)
  PROVE  QueuedInv'
<1> USE DEF BridgeInv
<1> DEFINE k == promo[r]
<1>1. /\ k \in Promotions /\ pc[r] = "insert" /\ Visible(k, tenant[r])
      /\ UNCHANGED <<idem, promo, tenant, reply, stops>>
      /\ promoted' = [promoted EXCEPT ![k] = [@ EXCEPT !.status = "compiled", !.skill = r]]
  BY DEF InsertSkill, RequestInv, JobInv
<1>2. job[r] \in JobSet /\ job[r].outcome = "compiled" /\ k \in SkillPromotions
  BY <1>1 DEF JobInv, RequestInv
<1>3. pc'[r] = "publish" /\ \A q \in Requests \ {r} : pc'[q] = pc[q] /\ job'[q] = job[q]
  BY <1>2 DEF InsertSkill, Compiled, JobSet, TypeOK
<1>4. promoted[k] \in CandidateSet /\ promoted[k] # None /\ promoted[k].tenant = tenant[r]
  BY <1>1 DEF Visible, TypeOK
<1>5. /\ \A p \in Promotions : p # k => promoted'[p] = promoted[p]
      /\ promoted'[k] \in CandidateSet
      /\ promoted'[k].status = "compiled" /\ promoted'[k].tenant = tenant[r]
  BY <1>1, <1>4 DEF TypeOK, CandidateSet
<1>6. RequestsProgress'
  BY <1>1, <1>3 DEF QueuedInv, RequestsProgress
<1>7. \A p \in Promotions : HasSkillRow(p) => HasSkillRow(p)'
  BY <1>5 DEF HasSkillRow
<1>8. AnswersHaveRows'
  <2>1. ASSUME NEW q \in Requests, pc'[q] = "record"
        PROVE  /\ reply'[q].status = "queued" => reply'[q].code = 202
               /\ reply'[q].status = "queued" => HasSkillRow(promo[q])'
    <3>1. pc[q] = "record" /\ promo[q] \in Promotions /\ promo'[q] = promo[q]
      BY <1>1, <1>3, <2>1 DEF RequestInv
    <3> QED
      BY <1>1, <1>7, <3>1 DEF QueuedInv, AnswersHaveRows
  <2> QED
    BY <1>1, <1>5, <1>7, <2>1 DEF QueuedInv, AnswersHaveRows
<1>9. ASSUME NEW p \in Promotions, stops' = 0
      PROVE  /\ promoted'[p] # None /\ promoted'[p].status = "queued" =>
                  HasTask(p)' \/ NoNameLeft(p)'
             /\ idem'[p] # None /\ idem'[p].status = "queued" => Worked(p)'
  <2>1. CASE p # k
    <3>1. ~IsTaskOf(r, p) /\ ~GaveUp(r, p) /\ ~IsElsewhere(r, p)
      BY <2>1 DEF IsTaskOf, GaveUp, IsElsewhere
    <3>2. /\ HasTask(p) \/ NoNameLeft(p) => HasTask(p)' \/ NoNameLeft(p)'
          /\ Worked(p) => Worked(p)'
      BY <1>1, <1>3, <1>5, <2>1, <3>1, TaskKept
    <3> QED
      BY <1>1, <1>5, <1>9, <2>1, <3>2, WorkGoesOn
  <2>2. CASE p = k
    <3>1. reply[r] # None /\ reply[r].code = 202
      BY <1>1 DEF QueuedInv, RequestsProgress
    <3>2. IsTaskOf(r, p)'
      BY <1>1, <1>3, <1>5, <2>2, <3>1 DEF IsTaskOf
    <3> QED
      BY <1>5, <2>2, <3>2 DEF Worked, HasTask
  <2> QED
    BY <2>1, <2>2
<1> QED
  BY <1>6, <1>8, <1>9, QueuedParts

(* A published answer says queued no more. *)
LEMMA PublishQueued ==
  ASSUME BridgeInv, QueuedInv, NEW r \in Requests, PublishAnswer(r)
  PROVE  QueuedInv'
<1> USE DEF BridgeInv
<1> DEFINE k == promo[r]
<1>1. /\ k \in Promotions /\ pc[r] = "publish"
      /\ UNCHANGED <<promoted, promo, tenant, reply, job, stops>>
      /\ idem' = [idem EXCEPT ![k] =
            IF @ = None THEN None ELSE Answer(@.code, "compiled", job[r].skill)]
  BY DEF PublishAnswer, RequestInv
<1>2. pc'[r] = "context" /\ \A q \in Requests \ {r} : pc'[q] = pc[q]
  BY DEF PublishAnswer, TypeOK
<1>3. /\ \A p \in Promotions : p # k => idem'[p] = idem[p]
      /\ idem'[k] = None \/ idem'[k].status = "compiled"
  BY <1>1 DEF TypeOK, Answer
<1>4. RequestsProgress'
  BY <1>1, <1>2 DEF QueuedInv, RequestsProgress
<1>5. AnswersHaveRows'
  BY <1>1, <1>2, <1>3 DEF QueuedInv, AnswersHaveRows, HasSkillRow
<1>6. ASSUME NEW p \in Promotions, p # k \/ promoted[p].status = "queued"
      PROVE  /\ HasTask(p) \/ NoNameLeft(p) => HasTask(p)' \/ NoNameLeft(p)'
             /\ Worked(p) => Worked(p)'
  <2>1. ~IsTaskOf(r, p) /\ ~GaveUp(r, p) /\ (IsElsewhere(r, p) => IsElsewhere(r, p)')
    BY <1>1, <1>6 DEF IsTaskOf, GaveUp, IsElsewhere
  <2> QED
    BY <1>1, <1>2, <2>1, TaskKept
<1>7. ASSUME NEW p \in Promotions, stops' = 0
      PROVE  /\ promoted'[p] # None /\ promoted'[p].status = "queued" =>
                  HasTask(p)' \/ NoNameLeft(p)'
             /\ idem'[p] # None /\ idem'[p].status = "queued" => Worked(p)'
  <2>1. CASE p # k
    BY <1>1, <1>3, <1>6, <1>7, <2>1, WorkGoesOn
  <2>2. CASE p = k
    BY <1>1, <1>3, <1>6, <1>7, <2>2 DEF QueuedInv, RowsAreWorkedOn
  <2> QED
    BY <2>1, <2>2
<1> QED
  BY <1>4, <1>5, <1>7, QueuedParts

-------------------------------------------------------------------------------
(* The environment. *)

(* After a stop nothing is promised. *)
LEMMA StopQueued ==
  ASSUME BridgeInv, QueuedInv, NEW r \in Requests, Stop(r)
  PROVE  QueuedInv'
<1> USE DEF BridgeInv, Stop, dbVars
<1>1. stops' # 0
  BY BridgeAssumption DEF TypeOK
<1>2. pc'[r] \in {"failed", "done"} /\ \A q \in Requests \ {r} : pc'[q] = pc[q]
  BY DEF TypeOK
<1>3. RequestsProgress'
  BY <1>2 DEF QueuedInv, RequestsProgress
<1>4. AnswersHaveRows'
  BY <1>2 DEF QueuedInv, AnswersHaveRows, HasSkillRow
<1> QED
  BY <1>1, <1>3, <1>4, QueuedParts

(* A refusal that is forgotten does not say queued. *)
LEMMA ForgetQueued ==
  ASSUME BridgeInv, QueuedInv, NEW k \in Promotions, ForgetRefusal(k)
  PROVE  QueuedInv'
<1> USE DEF BridgeInv
<1>1. UNCHANGED <<promoted, pc, promo, tenant, reply, job, stops>>
  BY DEF ForgetRefusal
<1>2. \A p \in Promotions : idem'[p] \in {None, idem[p]}
  BY DEF ForgetRefusal, TypeOK
<1>3. RequestsProgress'
  BY <1>1 DEF QueuedInv, RequestsProgress
<1>4. AnswersHaveRows'
  BY <1>1, <1>2 DEF QueuedInv, AnswersHaveRows, HasSkillRow
<1>5. \A p \in Promotions :
        /\ HasTask(p)' = HasTask(p) /\ NoNameLeft(p)' = NoNameLeft(p)
        /\ Worked(p)' = Worked(p)
  BY <1>1 DEF Worked, HasTask, IsTaskOf, NoNameLeft, GaveUp, Stranded, IsElsewhere
<1>6. RowsAreWorkedOn' /\ QueuedIsWorkedOn'
  BY <1>1, <1>2, <1>5 DEF QueuedInv, RowsAreWorkedOn, QueuedIsWorkedOn, Worked
<1> QED
  BY <1>3, <1>4, <1>6 DEF QueuedInv

(* Every step preserves the invariant. *)
LEMMA NextQueued == BridgeInv /\ QueuedInv /\ [Next]_vars => QueuedInv'
<1> SUFFICES ASSUME BridgeInv, QueuedInv, [Next]_vars PROVE QueuedInv'
  OBVIOUS
<1>1. ASSUME NEW r \in Requests, Receive(r) \/ RejectDelivery(r) \/ \E p \in Promotions : Deliver(r, p)
      PROVE  QueuedInv'
  BY <1>1, EarlyQueued, PersistQueued, RecordQueued, TaskStepQueued DEF Receive
<1>2. ASSUME NEW r \in Requests, Work(r) \/ Stop(r) PROVE QueuedInv'
  BY <1>2, TaskStepQueued, InsertQueued, PublishQueued, AckStepQueued, StopQueued DEF Work
<1>3. ASSUME NEW s \in Sources, NEW t \in Tenants \cup {None}, SetMapping(s, t) PROVE QueuedInv'
  BY <1>3, UnmovedQueued DEF SetMapping
<1>4. ASSUME NEW t \in Tenants, NEW n \in Names, CreateAgentSkill(t, n) PROVE QueuedInv'
  BY <1>4, UnmovedQueued DEF CreateAgentSkill
<1>5. CASE UNCHANGED vars
  BY <1>5, UnmovedQueued DEF vars, dbVars
<1> QED
  BY <1>1, <1>2, <1>3, <1>4, <1>5, ForgetQueued DEF Next

(* As long as no coroutine has stopped half-way, there is a task for every *)
(* answer that says queued, its names ran out, or it was stranded; for any *)
(* number of POSTs and of tenants the source was mapped to.                *)
THEOREM QueuedHasTask == Spec => []QueuedIsWorkedOn
<1>1. Init => QueuedInv
  BY DEF Init, QueuedInv, RequestsProgress, AnswersHaveRows, RowsAreWorkedOn, QueuedIsWorkedOn
<1>2. QueuedInv => QueuedIsWorkedOn
  BY DEF QueuedInv
<1> QED
  BY <1>1, <1>2, NextQueued, BridgeInvariant, PTL DEF Spec
=============================================================================
