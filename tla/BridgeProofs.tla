----------------------------- MODULE BridgeProofs -----------------------------
(***************************************************************************)
(* BridgeInv is an inductive invariant of Bridge for every set of          *)
(* promotions, tenants and requests and however requests overlap, stop     *)
(* and are retried; its conjuncts are the properties of the first group.   *)
(***************************************************************************)
EXTENDS BridgeProperties, TLAPS

USE DEF Receiving, Working

(* The empty tables satisfy the invariant, however tenants are mapped. *)
LEMMA InitBridgeInv == Init => BridgeInv
<1> SUFFICES ASSUME Init PROVE BridgeInv
  OBVIOUS
<1> USE BridgeAssumption, NoneAssumption DEF Init
<1>1. TypeOK
  BY DEF TypeOK
<1>2. RequestInv /\ JobInv /\ InsertedInv
  BY DEF RequestInv, JobInv, InsertedInv
<1>3. CompiledRowHasSkill /\ SkillStaysInTenant /\ PublishedSkillExists /\ AckedSkillExists
  BY DEF CompiledRowHasSkill, SkillStaysInTenant, PublishedSkillExists, AckedSkillExists
<1> QED
  BY <1>1, <1>2, <1>3 DEF BridgeInv

(* A step that leaves the database, the acks and the jobs alone keeps the  *)
(* invariants that speak of them only.                                     *)
LEMMA TablesUnchanged ==
  ASSUME BridgeInv, UNCHANGED <<idem, promoted, skills, acks>>
  PROVE  /\ CompiledRowHasSkill' /\ SkillStaysInTenant'
         /\ PublishedSkillExists' /\ AckedSkillExists'
BY DEF BridgeInv, CompiledRowHasSkill, SkillStaysInTenant, PublishedSkillExists,
       AckedSkillExists, MadeFrom

(* A POST that arrives touches no table and is at its first step. *)
LEMMA DeliverInv ==
  ASSUME BridgeInv, NEW r \in Requests, NEW p \in Promotions, Deliver(r, p)
  PROVE  BridgeInv'
<1> USE BridgeAssumption, NoneAssumption DEF Deliver, dbVars, BridgeInv
<1>1. TypeOK'
  BY DEF TypeOK
<1>2. RequestInv'
  BY DEF RequestInv, TypeOK
<1>3. JobInv'
  BY DEF JobInv, Visible, MadeFrom, TypeOK
<1>4. InsertedInv'
  BY DEF InsertedInv, TypeOK
<1> QED
  BY <1>1, <1>2, <1>3, <1>4, TablesUnchanged

(* A POST refused for its signature or schema has no promotion. *)
LEMMA RejectDeliveryInv ==
  ASSUME BridgeInv, NEW r \in Requests, RejectDelivery(r)
  PROVE  BridgeInv'
<1> USE BridgeAssumption, NoneAssumption DEF RejectDelivery, dbVars, Answer, BridgeInv
<1>1. TypeOK'
  BY DEF TypeOK, AnswerSet
<1>2. RequestInv'
  BY DEF RequestInv, TypeOK
<1>3. JobInv'
  BY DEF JobInv, Visible, MadeFrom, TypeOK
<1>4. InsertedInv'
  BY DEF InsertedInv, TypeOK
<1> QED
  BY <1>1, <1>2, <1>3, <1>4, TablesUnchanged

(* A replayed answer is one that was stored. *)
LEMMA CheckIdempotencyInv ==
  ASSUME BridgeInv, NEW r \in Requests, CheckIdempotency(r)
  PROVE  BridgeInv'
<1> USE BridgeAssumption, NoneAssumption DEF CheckIdempotency, Replay, dbVars, BridgeInv
<1>1. TypeOK'
  BY DEF TypeOK, RequestInv, AnswerSet
<1>2. RequestInv'
  BY DEF RequestInv, TypeOK, AnswerSet
<1>3. JobInv'
  BY DEF JobInv, Visible, MadeFrom, TypeOK
<1>4. InsertedInv'
  BY DEF InsertedInv, TypeOK
<1> QED
  BY <1>1, <1>2, <1>3, <1>4, TablesUnchanged

(* A request goes on to persist only with a tenant of its own. *)
LEMMA ResolveTenantInv ==
  ASSUME BridgeInv, NEW r \in Requests, ResolveTenant(r)
  PROVE  BridgeInv'
<1> USE BridgeAssumption, NoneAssumption DEF ResolveTenant, Answer, dbVars, BridgeInv
<1>1. TypeOK'
  BY DEF TypeOK, RequestInv, AnswerSet
<1>2. RequestInv'
  BY DEF RequestInv, TypeOK, AnswerSet
<1>3. JobInv'
  BY DEF JobInv, Visible, MadeFrom, TypeOK
<1>4. InsertedInv'
  BY DEF InsertedInv, TypeOK
<1> QED
  BY <1>1, <1>2, <1>3, <1>4, TablesUnchanged

(* Only an accepted skill, whose tenant is known, starts a compile task. *)
LEMMA RespondInv ==
  ASSUME BridgeInv, NEW r \in Requests, Respond(r)
  PROVE  BridgeInv'
<1> USE BridgeAssumption, NoneAssumption DEF Respond, AcceptedSkill, dbVars, BridgeInv
<1>1. TypeOK'
  BY DEF TypeOK
<1>2. RequestInv'
  BY DEF RequestInv, TypeOK
<1>3. JobInv'
  BY DEF JobInv, Visible, MadeFrom, TypeOK
<1>4. InsertedInv'
  BY DEF InsertedInv, TypeOK
<1> QED
  BY <1>1, <1>2, <1>3, <1>4, TablesUnchanged

(* A coroutine that stops leaves what it committed. *)
LEMMA StopInv ==
  ASSUME BridgeInv, NEW r \in Requests, Stop(r)
  PROVE  BridgeInv'
<1> USE BridgeAssumption, NoneAssumption DEF Stop, dbVars, BridgeInv
<1>1. TypeOK'
  BY DEF TypeOK
<1>2. RequestInv'
  BY DEF RequestInv, TypeOK
<1>3. JobInv'
  BY DEF JobInv, Visible, MadeFrom, TypeOK
<1>4. InsertedInv'
  BY DEF InsertedInv, TypeOK
<1> QED
  BY <1>1, <1>2, <1>3, <1>4, TablesUnchanged

(* Remapping a source tenant does not reach rows already written. *)
LEMMA SetMappingInv ==
  ASSUME BridgeInv, NEW s \in Sources, NEW t \in Tenants \cup {None}, SetMapping(s, t)
  PROVE  BridgeInv'
<1> USE BridgeAssumption, NoneAssumption DEF SetMapping, BridgeInv
<1>1. TypeOK'
  BY DEF TypeOK
<1>2. RequestInv'
  BY DEF RequestInv, TypeOK
<1>3. JobInv'
  BY DEF JobInv, Visible, MadeFrom, TypeOK
<1>4. InsertedInv'
  BY DEF InsertedInv, TypeOK
<1> QED
  BY <1>1, <1>2, <1>3, <1>4, TablesUnchanged

(* A skill another user stores is none of the bridge's. *)
LEMMA CreateAgentSkillInv ==
  ASSUME BridgeInv, NEW t \in Tenants, NEW n \in Names, CreateAgentSkill(t, n)
  PROVE  BridgeInv'
<1> USE BridgeAssumption, NoneAssumption DEF CreateAgentSkill, BridgeInv
<1>1. TypeOK'
  BY DEF TypeOK, AboutToInsert
<1>2. RequestInv'
  BY DEF RequestInv, TypeOK
<1>3. JobInv'
  BY DEF JobInv, Visible, MadeFrom, TypeOK
<1>4. InsertedInv'
  BY DEF InsertedInv, TypeOK
<1> QED
  BY <1>1, <1>2, <1>3, <1>4, TablesUnchanged

(* A name is chosen for a row the task still sees, or the job is rejected. *)
LEMMA ResolveNameInv ==
  ASSUME BridgeInv, NEW r \in Requests, ResolveName(r)
  PROVE  BridgeInv'
<1> USE BridgeAssumption, NoneAssumption DEF ResolveName, dbVars, BridgeInv
<1> DEFINE base == NameOf[promo[r]]
           free == FreeSuffixes(base, TakenNames(tenant[r]))
<1>1. pc[r] = "name" /\ promo[r] \in Promotions /\ Visible(promo[r], tenant[r])
  BY DEF RequestInv, JobInv
<1>2. CASE \E i \in free : /\ job' = [job EXCEPT ![r] = Job("compiled", None, <<base, i>>)]
                           /\ pc' = [pc EXCEPT ![r] = "insert"]
  <2>1. PICK i \in 0 .. MAX_COLLISION_SUFFIX_ATTEMPTS :
          /\ job' = [job EXCEPT ![r] = Job("compiled", None, <<base, i>>)]
          /\ pc' = [pc EXCEPT ![r] = "insert"]
    BY <1>2 DEF FreeSuffixes
  <2> DEFINE result == Job("compiled", None, <<base, i>>)
  <2>2. <<base, i>> \in Names
    BY <1>1 DEF Names
  <2>3. result \in JobSet /\ result.name \in Names /\ result.outcome = "compiled"
    BY <2>2 DEF JobSet, Job
  <2> HIDE DEF result
  <2>4. job' = [job EXCEPT ![r] = result] /\ pc' = [pc EXCEPT ![r] = "insert"]
    BY <2>1 DEF result
  <2>5. TypeOK'
    BY <2>3, <2>4 DEF TypeOK
  <2>6. RequestInv' /\ InsertedInv'
    BY <1>1, <2>4 DEF RequestInv, InsertedInv, TypeOK
  <2>7. JobInv'
    BY <1>1, <2>3, <2>4 DEF JobInv, Visible, MadeFrom, TypeOK
  <2> QED
    BY <2>5, <2>6, <2>7, TablesUnchanged
<1>3. CASE Compiled(r, Job("rejected", None, None))
  <2> DEFINE result == Job("rejected", None, None)
  <2>1. result \in JobSet /\ result.outcome = "rejected" /\ result.skill = None
    BY DEF JobSet, Job
  <2> HIDE DEF result
  <2>2. job' = [job EXCEPT ![r] = result] /\ pc' = [pc EXCEPT ![r] = "context"]
    BY <1>3, <2>1 DEF Compiled, result
  <2>3. TypeOK'
    BY <2>1, <2>2 DEF TypeOK
  <2>4. RequestInv' /\ InsertedInv'
    BY <1>1, <2>2 DEF RequestInv, InsertedInv, TypeOK
  <2>5. JobInv'
    BY <1>1, <2>1, <2>2 DEF JobInv, Visible, MadeFrom, TypeOK
  <2> QED
    BY <2>3, <2>4, <2>5, TablesUnchanged
<1> QED
  BY <1>2, <1>3

(* Reading the ack's context changes no job. *)
LEMMA LoadAckContextInv ==
  ASSUME BridgeInv, NEW r \in Requests, LoadAckContext(r)
  PROVE  BridgeInv'
<1> USE BridgeAssumption, NoneAssumption DEF LoadAckContext, dbVars, BridgeInv
<1>1. TypeOK'
  BY DEF TypeOK
<1>2. RequestInv'
  BY DEF RequestInv, TypeOK
<1>3. JobInv'
  BY DEF JobInv, Visible, MadeFrom, TypeOK
<1>4. InsertedInv'
  BY DEF InsertedInv, TypeOK
<1> QED
  BY <1>1, <1>2, <1>3, <1>4, TablesUnchanged

(* A candidate found compiled hands its own skill to the ack. *)
LEMMA LoadCandidateInv ==
  ASSUME BridgeInv, NEW r \in Requests, LoadCandidate(r)
  PROVE  BridgeInv'
<1> USE BridgeAssumption, NoneAssumption DEF LoadCandidate, dbVars, BridgeInv
<1> DEFINE p == promo[r]
<1>1. p \in SkillPromotions /\ p \in Promotions /\ tenant[r] \in Tenants
  BY DEF RequestInv
<1>2. <<NameOf[p], 0>> \in Names
  BY <1>1 DEF Names
<1>3. CASE Visible(p, tenant[r]) /\ promoted[p].status = "queued"
  <2>1. pc' = [pc EXCEPT ![r] = "name"] /\ UNCHANGED job
    BY <1>3
  <2>2. TypeOK'
    BY <2>1 DEF TypeOK
  <2>3. RequestInv' /\ InsertedInv'
    BY <2>1 DEF RequestInv, InsertedInv, TypeOK
  <2>4. JobInv'
    BY <1>3, <2>1 DEF JobInv, Visible, MadeFrom, TypeOK
  <2> QED
    BY <2>2, <2>3, <2>4, TablesUnchanged
<1>4. CASE Visible(p, tenant[r]) /\ promoted[p].status = "compiled"
  <2> DEFINE result == Job("compiled", promoted[p].skill, <<NameOf[p], 0>>)
  <2>1. MadeFrom(promoted[p].skill, p) /\ promoted[p].skill \in Requests
    BY <1>1, <1>4 DEF CompiledRowHasSkill, Visible, MadeFrom
  <2>2. result \in JobSet /\ result.outcome = "compiled" /\ result.skill = promoted[p].skill
    BY <1>2, <2>1 DEF JobSet, Job
  <2> HIDE DEF result
  <2>3. job' = [job EXCEPT ![r] = result] /\ pc' = [pc EXCEPT ![r] = "publish"]
    BY <1>4, <2>2 DEF Compiled, result
  <2>4. TypeOK'
    BY <2>2, <2>3 DEF TypeOK
  <2>5. RequestInv' /\ InsertedInv'
    BY <2>3 DEF RequestInv, InsertedInv, TypeOK
  <2>6. JobInv'
    BY <2>1, <2>2, <2>3 DEF JobInv, Visible, MadeFrom, TypeOK
  <2> QED
    BY <2>4, <2>5, <2>6, TablesUnchanged
<1>5. CASE ~(Visible(p, tenant[r]) /\ promoted[p].status \in {"queued", "compiled"})
  <2> DEFINE result == Job("rejected", None, None)
  <2>1. result \in JobSet /\ result.outcome = "rejected" /\ result.skill = None
    BY DEF JobSet, Job
  <2> HIDE DEF result
  <2>2. job' = [job EXCEPT ![r] = result] /\ pc' = [pc EXCEPT ![r] = "context"]
    BY <1>5, <2>1 DEF Compiled, result
  <2>3. TypeOK'
    BY <2>1, <2>2 DEF TypeOK
  <2>4. RequestInv' /\ InsertedInv'
    BY <2>2 DEF RequestInv, InsertedInv, TypeOK
  <2>5. JobInv'
    BY <2>1, <2>2 DEF JobInv, Visible, MadeFrom, TypeOK
  <2> QED
    BY <2>3, <2>4, <2>5, TablesUnchanged
<1> QED
  BY <1>3, <1>4, <1>5

(* A candidate row is new or kept as it was. *)
LEMMA PersistCandidateInv ==
  ASSUME BridgeInv, NEW r \in Requests, PersistCandidate(r)
  PROVE  BridgeInv'
<1> USE BridgeAssumption, NoneAssumption DEF PersistCandidate, BridgeInv
<1> DEFINE p == promo[r]
           row == [tenant |-> tenant[r], status |-> KindStatus(p), skill |-> None]
<1>1. p \in Promotions /\ tenant[r] \in Tenants
  BY DEF RequestInv
<1>2. row \in CandidateSet /\ row # None /\ row.status # "compiled" /\ row.skill = None
  BY <1>1 DEF CandidateSet, KindStatus
<1>3. Answer(202, KindStatus(p), None) \in AnswerSet
  BY DEF Answer, AnswerSet, KindStatus
<1>4. Answer(202, KindStatus(p), None).status # "compiled"
  BY DEF Answer, KindStatus
<1> HIDE DEF row
<1>5. promoted' = [promoted EXCEPT ![p] = IF promoted[p] = None THEN row ELSE promoted[p]]
  BY <1>1 DEF TypeOK, row
<1>6. TypeOK'
  BY <1>1, <1>2, <1>3, <1>5 DEF TypeOK
<1>7. RequestInv'
  BY <1>1, <1>3, <1>4 DEF RequestInv, TypeOK
<1>8. JobInv'
  BY <1>5 DEF JobInv, Visible, MadeFrom, TypeOK
<1>9. InsertedInv' /\ PublishedSkillExists' /\ AckedSkillExists'
  BY DEF InsertedInv, PublishedSkillExists, AckedSkillExists, MadeFrom, TypeOK
<1>10. CompiledRowHasSkill'
  BY <1>1, <1>2, <1>5 DEF CompiledRowHasSkill, MadeFrom, TypeOK
<1>11. SkillStaysInTenant'
  BY <1>1, <1>2, <1>5 DEF SkillStaysInTenant, TypeOK
<1> QED
  BY <1>6, <1>7, <1>8, <1>9, <1>10, <1>11

(* The answer stored is the first one, and names no skill yet. *)
LEMMA RecordAnswerInv ==
  ASSUME BridgeInv, NEW r \in Requests, RecordAnswer(r)
  PROVE  BridgeInv'
<1> USE BridgeAssumption, NoneAssumption DEF RecordAnswer, BridgeInv
<1>1. promo[r] \in Promotions /\ reply[r] \in AnswerSet /\ reply[r].status # "compiled"
  BY DEF RequestInv
<1>2. TypeOK'
  BY <1>1 DEF TypeOK
<1>3. RequestInv' /\ InsertedInv'
  BY DEF RequestInv, InsertedInv, TypeOK
<1>4. JobInv'
  BY DEF JobInv, Visible, MadeFrom, TypeOK
<1>5. PublishedSkillExists'
  BY <1>1 DEF PublishedSkillExists, MadeFrom, TypeOK
<1>6. CompiledRowHasSkill' /\ SkillStaysInTenant' /\ AckedSkillExists'
  BY DEF CompiledRowHasSkill, SkillStaysInTenant, AckedSkillExists, MadeFrom
<1> QED
  BY <1>2, <1>3, <1>4, <1>5, <1>6

(* The operator deletes refusals only. *)
LEMMA ForgetRefusalInv ==
  ASSUME BridgeInv, NEW p \in Promotions, ForgetRefusal(p)
  PROVE  BridgeInv'
<1> USE BridgeAssumption, NoneAssumption DEF ForgetRefusal, BridgeInv
<1>1. TypeOK'
  BY DEF TypeOK
<1>2. RequestInv' /\ InsertedInv'
  BY DEF RequestInv, InsertedInv, TypeOK
<1>3. JobInv'
  BY DEF JobInv, Visible, MadeFrom, TypeOK
<1>4. PublishedSkillExists'
  BY DEF PublishedSkillExists, MadeFrom, TypeOK
<1>5. CompiledRowHasSkill' /\ SkillStaysInTenant' /\ AckedSkillExists'
  BY DEF CompiledRowHasSkill, SkillStaysInTenant, AckedSkillExists, MadeFrom
<1> QED
  BY <1>1, <1>2, <1>3, <1>4, <1>5

(* The commit of the compile: the new row is made from the promotion, in   *)
(* the tenant that owns the candidate, and no earlier row is overwritten.  *)
LEMMA InsertSkillInv ==
  ASSUME BridgeInv, NEW r \in Requests, InsertSkill(r)
  PROVE  BridgeInv'
<1> USE BridgeAssumption, NoneAssumption DEF BridgeInv
<1> DEFINE p == promo[r]
           row == [tenant |-> tenant[r], name |-> job[r].name, by |-> p]
           result == [job[r] EXCEPT !.skill = r]
           candidate == [promoted[p] EXCEPT !.status = "compiled", !.skill = r]
<1>1. pc[r] = "insert"
  BY DEF InsertSkill
<1>2. p \in Promotions /\ p \in SkillPromotions /\ tenant[r] \in Tenants
  BY <1>1 DEF RequestInv
<1>3. /\ Visible(p, tenant[r]) /\ job[r] \in JobSet
      /\ job[r].name \in Names /\ job[r].outcome = "compiled"
  BY <1>1 DEF JobInv
<1>4. row \in SkillSet /\ row # None /\ row.tenant = tenant[r] /\ row.by = p
  BY <1>2, <1>3 DEF SkillSet
<1>5. result \in JobSet /\ result.outcome = "compiled" /\ result.skill = r
  BY <1>3 DEF JobSet
<1>6. promoted[p] \in CandidateSet /\ promoted[p].tenant = tenant[r]
  BY <1>2, <1>3 DEF Visible, TypeOK
<1>7. /\ candidate \in CandidateSet /\ candidate # None
      /\ candidate.tenant = tenant[r] /\ candidate.status = "compiled"
      /\ candidate.skill = r
  BY <1>6 DEF CandidateSet
<1>8. skills[r] = None
  BY <1>1 DEF InsertedInv
<1>9. /\ skills' = [skills EXCEPT ![r] = row]
      /\ promoted' = [promoted EXCEPT ![p] = candidate]
      /\ job' = [job EXCEPT ![r] = result]
      /\ pc' = [pc EXCEPT ![r] = "publish"]
      /\ raced' \subseteq Requests
      /\ UNCHANGED <<mapping, idem, userNames, promo, tenant, reply, tries, acks, stops,
                     operated>>
  BY <1>2, <1>3, <1>5 DEF InsertSkill, Compiled, AboutToInsert, TypeOK
<1> HIDE DEF row, result, candidate
<1>10. TypeOK'
  BY <1>2, <1>4, <1>5, <1>7, <1>9 DEF TypeOK
<1>11. RequestInv' /\ InsertedInv'
  BY <1>1, <1>9 DEF RequestInv, InsertedInv, TypeOK
<1>12. \A s, q : MadeFrom(s, q) => MadeFrom(s, q)'
  BY <1>8, <1>9 DEF MadeFrom, TypeOK
<1>13. MadeFrom(r, p)'
  BY <1>4, <1>9 DEF MadeFrom, TypeOK
<1>14. JobInv'
  <2>1. \A q \in Promotions, t \in Tenants : Visible(q, t) => Visible(q, t)'
    BY <1>6, <1>7, <1>9 DEF Visible, TypeOK
  <2> QED
    BY <1>1, <1>5, <1>9, <1>12, <1>13, <2>1 DEF JobInv, RequestInv, TypeOK
<1>15. CompiledRowHasSkill'
  <2> SUFFICES ASSUME NEW q \in Promotions, promoted'[q] # None
               PROVE  /\ (promoted'[q].status = "compiled") = (promoted'[q].skill # None)
                      /\ promoted'[q].skill # None =>
                           /\ MadeFrom(promoted[q].skill, q)'
                           /\ skills'[promoted'[q].skill].tenant = promoted'[q].tenant
    BY DEF CompiledRowHasSkill
  <2>1. CASE q = p
    BY <1>2, <1>4, <1>7, <1>9, <1>13, <2>1 DEF TypeOK
  <2>2. CASE q # p
    <3>1. promoted'[q] = promoted[q]
      BY <1>9, <2>2 DEF TypeOK
    <3>2. promoted[q].skill # None => promoted[q].skill # r
      BY <1>8, <3>1 DEF CompiledRowHasSkill, MadeFrom
    <3> QED
      BY <1>9, <1>12, <3>1, <3>2 DEF CompiledRowHasSkill, TypeOK
  <2> QED
    BY <2>1, <2>2
<1>16. SkillStaysInTenant'
  BY <1>2, <1>4, <1>6, <1>7, <1>9 DEF SkillStaysInTenant, TypeOK
<1>17. PublishedSkillExists'
  BY <1>9, <1>12 DEF PublishedSkillExists
<1>18. AckedSkillExists'
  BY <1>9, <1>12 DEF AckedSkillExists
<1> QED
  BY <1>10, <1>11, <1>14, <1>15, <1>16, <1>17, <1>18

(* The skill written into the stored answer is the one just compiled. *)
LEMMA PublishAnswerInv ==
  ASSUME BridgeInv, NEW r \in Requests, PublishAnswer(r)
  PROVE  BridgeInv'
<1> USE BridgeAssumption, NoneAssumption DEF BridgeInv
<1> DEFINE p == promo[r]
           stored == Answer(idem[p].code, "compiled", job[r].skill)
<1>1. pc[r] = "publish" /\ p \in Promotions
  BY DEF PublishAnswer, RequestInv
<1>2. job[r] \in JobSet /\ MadeFrom(job[r].skill, p)
  BY <1>1 DEF JobInv
<1>3. idem[p] # None => stored \in AnswerSet
  BY <1>1, <1>2 DEF TypeOK, AnswerSet, Answer, MadeFrom
<1>4. stored.skill = job[r].skill
  BY DEF Answer
<1> HIDE DEF stored
<1>5. /\ idem' = [idem EXCEPT ![p] = IF idem[p] = None THEN None ELSE stored]
      /\ pc' = [pc EXCEPT ![r] = "context"]
      /\ UNCHANGED <<mapping, promoted, skills, userNames, raced, promo, tenant, reply, job,
                     tries, acks, stops, operated>>
  BY <1>1 DEF PublishAnswer, TypeOK, stored
<1>6. TypeOK'
  BY <1>1, <1>3, <1>5 DEF TypeOK
<1>7. RequestInv' /\ InsertedInv'
  BY <1>1, <1>5 DEF RequestInv, InsertedInv, TypeOK
<1>8. JobInv'
  BY <1>1, <1>5 DEF JobInv, Visible, MadeFrom, TypeOK
<1>9. PublishedSkillExists'
  BY <1>1, <1>2, <1>4, <1>5 DEF PublishedSkillExists, MadeFrom, TypeOK
<1>10. CompiledRowHasSkill' /\ SkillStaysInTenant' /\ AckedSkillExists'
  BY <1>5 DEF CompiledRowHasSkill, SkillStaysInTenant, AckedSkillExists, MadeFrom
<1> QED
  BY <1>6, <1>7, <1>8, <1>9, <1>10

(* An ack tells what the job holds. *)
LEMMA SendAckInv ==
  ASSUME BridgeInv, NEW r \in Requests, SendAck(r)
  PROVE  BridgeInv'
<1> USE BridgeAssumption, NoneAssumption DEF BridgeInv
<1>1. /\ pc[r] = "ack" /\ promo[r] \in Promotions /\ tries[r] < RETRY_ATTEMPTS
      /\ tries[r] \in Nat
  BY DEF SendAck, RequestInv, TypeOK
<1>2. /\ job[r] \in JobSet
      /\ IF job[r].outcome = "compiled" THEN MadeFrom(job[r].skill, promo[r])
         ELSE job[r].skill = None
  BY <1>1 DEF JobInv
<1>3. /\ Ack(r) \in AckSet /\ Ack(r).promotion = promo[r]
      /\ Ack(r).source = SourceOf[promo[r]] /\ Ack(r).outcome = job[r].outcome
      /\ Ack(r).skill = job[r].skill
  BY <1>1, <1>2 DEF Ack, AckSet, JobSet
<1>4. /\ acks' \in {acks, acks \cup {Ack(r)}}
      /\ tries' = [tries EXCEPT ![r] = @ + 1]
      /\ UNCHANGED <<dbVars, promo, tenant, reply, job, stops, operated>>
  BY DEF SendAck
<1>5. \/ pc' = [pc EXCEPT ![r] = "done"]
      \/ pc' = [pc EXCEPT ![r] = "ack"] /\ tries[r] + 1 # RETRY_ATTEMPTS
  BY DEF SendAck
<1>6. TypeOK'
  BY <1>1, <1>3, <1>4, <1>5 DEF TypeOK, dbVars
<1>7. RequestInv' /\ InsertedInv'
  <2>1. InsertedInv'
    BY <1>1, <1>4, <1>5 DEF InsertedInv, TypeOK, dbVars
  <2>2. \A q \in Requests \ {r} : pc'[q] = pc[q] /\ tries'[q] = tries[q]
    BY <1>4, <1>5 DEF TypeOK
  <2>3. tries'[r] = tries[r] + 1
    BY <1>4 DEF TypeOK
  <2>4. pc'[r] = "done" \/ (pc'[r] = "ack" /\ tries[r] + 1 # RETRY_ATTEMPTS)
    BY <1>5 DEF TypeOK
  <2>5. pc'[r] = "done" \/ (pc'[r] = "ack" /\ tries'[r] < RETRY_ATTEMPTS)
    BY <1>1, <2>3, <2>4
  <2> QED
    BY <1>1, <1>4, <2>1, <2>2, <2>5 DEF RequestInv, dbVars
<1>8. JobInv'
  BY <1>1, <1>4, <1>5 DEF JobInv, Visible, MadeFrom, TypeOK, dbVars
<1>9. AckedSkillExists'
  BY <1>2, <1>3, <1>4 DEF AckedSkillExists, MadeFrom, dbVars
<1>10. CompiledRowHasSkill' /\ SkillStaysInTenant' /\ PublishedSkillExists'
  BY <1>4 DEF CompiledRowHasSkill, SkillStaysInTenant, PublishedSkillExists, MadeFrom, dbVars
<1> QED
  BY <1>6, <1>7, <1>8, <1>9, <1>10

(* Nothing changes in a stuttering step. *)
LEMMA StutterInv ==
  ASSUME BridgeInv, UNCHANGED vars
  PROVE  BridgeInv'
<1> USE DEF BridgeInv, vars, dbVars
<1>1. TypeOK' /\ RequestInv' /\ InsertedInv'
  BY DEF TypeOK, RequestInv, InsertedInv
<1>2. JobInv'
  BY DEF JobInv, Visible, MadeFrom
<1> QED
  BY <1>1, <1>2, TablesUnchanged

(* Every step preserves the invariant. *)
LEMMA NextBridgeInv == BridgeInv /\ [Next]_vars => BridgeInv'
<1> SUFFICES ASSUME BridgeInv, [Next]_vars PROVE BridgeInv'
  OBVIOUS
<1>1. ASSUME NEW r \in Requests, RejectDelivery(r) \/ Receive(r) \/ Work(r) \/ Stop(r)
      PROVE  BridgeInv'
  BY <1>1, RejectDeliveryInv, CheckIdempotencyInv, ResolveTenantInv, PersistCandidateInv,
     RecordAnswerInv, RespondInv, LoadCandidateInv, ResolveNameInv, InsertSkillInv,
     PublishAnswerInv, LoadAckContextInv, SendAckInv, StopInv DEF Receive, Work
<1>2. ASSUME NEW r \in Requests, NEW p \in Promotions, Deliver(r, p)
      PROVE  BridgeInv'
  BY <1>2, DeliverInv
<1>3. ASSUME NEW s \in Sources, NEW t \in Tenants \cup {None}, SetMapping(s, t)
      PROVE  BridgeInv'
  BY <1>3, SetMappingInv
<1>4. ASSUME NEW p \in Promotions, ForgetRefusal(p)
      PROVE  BridgeInv'
  BY <1>4, ForgetRefusalInv
<1>5. ASSUME NEW t \in Tenants, NEW n \in Names, CreateAgentSkill(t, n)
      PROVE  BridgeInv'
  BY <1>5, CreateAgentSkillInv
<1> QED
  BY <1>1, <1>2, <1>3, <1>4, <1>5, StutterInv DEF Next

(* Whatever requests overlap, stop and are retried, BridgeInv holds in     *)
(* every reachable state.                                                  *)
THEOREM BridgeInvariant == Spec => []BridgeInv
BY InitBridgeInv, NextBridgeInv, PTL DEF Spec

(* Type correctness of the receiver and its compile tasks. *)
THEOREM TypeCorrect == Spec => []TypeOK
<1>1. BridgeInv => TypeOK
  BY DEF BridgeInv
<1> QED
  BY <1>1, BridgeInvariant, PTL

(* A row marked compiled always has its skill, in its own tenant. *)
THEOREM CompiledRowsHaveSkills == Spec => []CompiledRowHasSkill
<1>1. BridgeInv => CompiledRowHasSkill
  BY DEF BridgeInv
<1> QED
  BY <1>1, BridgeInvariant, PTL

(* Tenant isolation of compiled skills, remapped source tenants included. *)
THEOREM SkillsStayInTenant == Spec => []SkillStaysInTenant
<1>1. BridgeInv => SkillStaysInTenant
  BY DEF BridgeInv
<1> QED
  BY <1>1, BridgeInvariant, PTL

(* The existing_skill_id of a stored answer is a skill of its promotion. *)
THEOREM PublishedSkillsExist == Spec => []PublishedSkillExists
<1>1. BridgeInv => PublishedSkillExists
  BY DEF BridgeInv
<1> QED
  BY <1>1, BridgeInvariant, PTL

(* What acks tell the-loom about skills is true. *)
THEOREM AckedSkillsExist == Spec => []AckedSkillExists
<1>1. BridgeInv => AckedSkillExists
  BY DEF BridgeInv
<1> QED
  BY <1>1, BridgeInvariant, PTL

(* What a step may do to a stored answer. *)
LEMMA AnswerStep ==
  ASSUME BridgeInv, [Next]_vars, NEW p \in Promotions, idem[p] # None, idem'[p] # idem[p]
  PROVE  IF idem'[p] = None THEN idem[p].code = 400
         ELSE idem'[p].code = idem[p].code /\ idem'[p].status = "compiled"
<1> USE BridgeAssumption, NoneAssumption DEF BridgeInv
<1>1. idem \in [Promotions -> AnswerSet \cup {None}]
  BY DEF TypeOK
<1>2. ~UNCHANGED idem
  OBVIOUS
<1>3. ASSUME NEW r \in Requests, RecordAnswer(r) PROVE idem'[p] = idem[p]
  BY <1>1, <1>3 DEF RecordAnswer, RequestInv
<1>4. ASSUME NEW r \in Requests, PublishAnswer(r)
      PROVE  idem'[p] = Answer(idem[p].code, "compiled", job[r].skill)
  BY <1>1, <1>2, <1>4 DEF PublishAnswer, RequestInv
<1>5. ASSUME NEW r \in Requests, Receive(r), ~RecordAnswer(r) PROVE UNCHANGED idem
  BY <1>5 DEF Receive, CheckIdempotency, ResolveTenant, PersistCandidate, Respond, dbVars
<1>6. ASSUME NEW r \in Requests, Work(r), ~PublishAnswer(r) PROVE UNCHANGED idem
  BY <1>6 DEF Work, LoadCandidate, ResolveName, InsertSkill, LoadAckContext, SendAck, dbVars
<1>7. ASSUME NEW r \in Requests, RejectDelivery(r) \/ Stop(r) \/ \E q \in Promotions : Deliver(r, q)
      PROVE  UNCHANGED idem
  BY <1>7 DEF RejectDelivery, Stop, Deliver, dbVars
<1>8. ASSUME NEW q \in Promotions, ForgetRefusal(q)
      PROVE  idem'[p] = None /\ idem[p].code = 400
  BY <1>1, <1>2, <1>8 DEF ForgetRefusal
<1>9. CASE \E r \in Requests :
             \/ RejectDelivery(r) \/ Receive(r) \/ Work(r) \/ Stop(r)
             \/ \E q \in Promotions : Deliver(r, q)
  <2>1. PICK r \in Requests : PublishAnswer(r)
    BY <1>2, <1>3, <1>5, <1>6, <1>7, <1>9
  <2>2. idem[p].code \in {202, 400, 401, 409}
    BY <1>1 DEF AnswerSet
  <2>3. job[r] \in JobSet /\ MadeFrom(job[r].skill, promo[r])
    BY <2>1 DEF PublishAnswer, JobInv
  <2>4. idem'[p] = [code |-> idem[p].code, status |-> "compiled", skill |-> job[r].skill]
    BY <1>4, <2>1 DEF Answer
  <2>5. [code |-> idem[p].code, status |-> "compiled", skill |-> job[r].skill] \in AnswerSet
    BY <2>2, <2>3 DEF AnswerSet, MadeFrom
  <2>6. idem'[p] # None /\ idem'[p].code = idem[p].code /\ idem'[p].status = "compiled"
    <3> HIDE DEF BridgeInv
    <3> QED
      BY <2>4, <2>5
  <2> QED
    BY <2>6
<1>10. CASE UNCHANGED vars \/ (\E s \in Sources, t \in Tenants \cup {None} : SetMapping(s, t))
              \/ (\E t \in Tenants, n \in Names : CreateAgentSkill(t, n))
  BY <1>2, <1>10 DEF vars, dbVars, SetMapping, CreateAgentSkill
<1> QED
  BY <1>8, <1>9, <1>10 DEF Next

(* A stored answer keeps its code, and changes only into the compiled one; *)
(* only a refusal is ever taken away.                                      *)
THEOREM StoredAnswersKept == Spec => StoredAnswerKept
<1>1. BridgeInv /\ [Next]_vars =>
        [\A p \in Promotions : idem[p] # None /\ idem'[p] # idem[p] =>
           IF idem'[p] = None THEN idem[p].code = 400
           ELSE idem'[p].code = idem[p].code /\ idem'[p].status = "compiled"]_vars
  BY AnswerStep
<1> QED
  BY <1>1, BridgeInvariant, PTL DEF Spec, StoredAnswerKept

-------------------------------------------------------------------------------
(* Names of compiled skills. *)

(* A step that inserts no row and brings no task to its insert. *)
LEMMA NamesUnmoved ==
  ASSUME NamesDifferUnlessRaced, UNCHANGED <<skills, userNames, raced>>,
         \A q \in Requests : pc'[q] = "insert" =>
           pc[q] = "insert" /\ job'[q] = job[q] /\ tenant'[q] = tenant[q]
  PROVE  NamesDifferUnlessRaced'
<1>1. \A t : TakenNames(t)' = TakenNames(t)
  BY DEF TakenNames
<1> QED
  BY <1>1 DEF NamesDifferUnlessRaced

(* A task that chooses a name chooses one that is not taken. *)
LEMMA ResolveNameNames ==
  ASSUME BridgeInv, NamesDifferUnlessRaced, NEW r \in Requests, ResolveName(r)
  PROVE  NamesDifferUnlessRaced'
<1> USE NoneAssumption DEF BridgeInv
<1>1. \A t : TakenNames(t)' = TakenNames(t)
  BY DEF ResolveName, dbVars, TakenNames
<1>2. UNCHANGED <<skills, raced, tenant>>
  BY DEF ResolveName, dbVars
<1>3. \A q \in Requests \ {r} : pc'[q] = pc[q] /\ job'[q] = job[q]
  BY DEF ResolveName, Compiled, TypeOK
<1>4. pc'[r] = "insert" => job'[r].name \notin TakenNames(tenant[r])
  <2>1. CASE \E i \in FreeSuffixes(NameOf[promo[r]], TakenNames(tenant[r])) :
               job' = [job EXCEPT ![r] = Job("compiled", None, <<NameOf[promo[r]], i>>)]
    BY <2>1 DEF FreeSuffixes, Job, TypeOK
  <2>2. CASE Compiled(r, Job("rejected", None, None))
    BY <2>2 DEF Compiled, Job, TypeOK
  <2> QED
    BY <2>1, <2>2 DEF ResolveName
<1> QED
  BY <1>1, <1>2, <1>3, <1>4 DEF NamesDifferUnlessRaced

(* A row that comes in is not seen by the tasks of other tenants. *)
LEMMA InsertSkillNames ==
  ASSUME BridgeInv, NamesDifferUnlessRaced, NEW r \in Requests, InsertSkill(r)
  PROVE  NamesDifferUnlessRaced'
<1> USE NoneAssumption DEF BridgeInv
<1> DEFINE row == [tenant |-> tenant[r], name |-> job[r].name, by |-> promo[r]]
<1>1. pc[r] = "insert" /\ skills[r] = None
  BY DEF InsertSkill, InsertedInv
<1>2. row \in SkillSet /\ row # None
  BY <1>1 DEF SkillSet, RequestInv, JobInv
<1>3. row.tenant = tenant[r] /\ row.name = job[r].name
  OBVIOUS
<1>4. /\ skills' = [skills EXCEPT ![r] = row]
      /\ raced' = raced \cup (AboutToInsert(tenant[r]) \ {r})
      /\ UNCHANGED <<userNames, tenant>>
  BY DEF InsertSkill
<1>5. pc'[r] # "insert" /\ \A q \in Requests \ {r} : pc'[q] = pc[q] /\ job'[q] = job[q]
  BY <1>1 DEF InsertSkill, Compiled, TypeOK, JobSet, JobInv
<1> HIDE DEF row
<1>6. skills'[r] = row /\ \A q \in Requests \ {r} : skills'[q] = skills[q]
  BY <1>4 DEF TypeOK
<1>7. \A t : t # tenant[r] => TakenNames(t)' = TakenNames(t)
  BY <1>1, <1>2, <1>3, <1>4, <1>6 DEF TakenNames
<1>8. ASSUME NEW q \in Requests \ {r}, skills[q] # None, skills[q].tenant = tenant[r],
             skills[q].name = job[r].name
      PROVE  r \in raced'
  BY <1>1, <1>4, <1>8 DEF NamesDifferUnlessRaced, TakenNames
<1>9. ASSUME NEW q \in Requests, pc'[q] = "insert"
      PROVE  q \in raced' \/ job'[q].name \notin TakenNames(tenant[q])'
  <2>1. q # r /\ pc[q] = "insert" /\ job'[q] = job[q] /\ tenant'[q] = tenant[q]
    BY <1>4, <1>5, <1>9
  <2>2. CASE tenant[q] = tenant[r]
    BY <1>4, <2>1, <2>2 DEF AboutToInsert
  <2>3. CASE tenant[q] # tenant[r]
    <3>1. TakenNames(tenant[q])' = TakenNames(tenant[q])
      BY <1>7, <2>1, <2>3
    <3> QED
      BY <1>4, <2>1, <3>1 DEF NamesDifferUnlessRaced
  <2> QED
    BY <2>2, <2>3
<1>10. ASSUME NEW q \in Requests, NEW p \in Requests, skills'[q] # None, skills'[p] # None, q # p
       PROVE  \/ skills'[q].tenant # skills'[p].tenant \/ skills'[q].name # skills'[p].name
              \/ q \in raced' \/ p \in raced'
  <2>1. CASE q # r /\ p # r
    BY <1>4, <1>6, <1>10, <2>1 DEF NamesDifferUnlessRaced
  <2>2. CASE q = r \/ p = r
    BY <1>3, <1>6, <1>8, <1>10, <2>2
  <2> QED
    BY <2>1, <2>2
<1> QED
  BY <1>9, <1>10 DEF NamesDifferUnlessRaced

(* ... nor is one that a user stores. *)
LEMMA CreateAgentSkillNames ==
  ASSUME NamesDifferUnlessRaced, NEW t \in Tenants, NEW n \in Names, CreateAgentSkill(t, n)
  PROVE  NamesDifferUnlessRaced'
<1> USE DEF CreateAgentSkill
<1>1. \A u : u # t => TakenNames(u)' = TakenNames(u)
  BY DEF TakenNames
<1>2. \A q \in Requests : pc[q] = "insert" /\ tenant[q] = t => q \in raced'
  BY DEF AboutToInsert
<1> QED
  BY <1>1, <1>2 DEF NamesDifferUnlessRaced

(* Every step preserves the property. *)
LEMMA NextNames == BridgeInv /\ NamesDifferUnlessRaced /\ [Next]_vars => NamesDifferUnlessRaced'
<1> SUFFICES ASSUME BridgeInv, NamesDifferUnlessRaced, [Next]_vars PROVE NamesDifferUnlessRaced'
  OBVIOUS
<1> USE DEF BridgeInv
<1>1. ASSUME NEW r \in Requests,
             Receive(r) \/ RejectDelivery(r) \/ Stop(r) \/ \E p \in Promotions : Deliver(r, p)
      PROVE  NamesDifferUnlessRaced'
  BY <1>1, NamesUnmoved DEF Receive, CheckIdempotency, ResolveTenant, PersistCandidate, RecordAnswer,
     Respond, RejectDelivery, Stop, Deliver, dbVars, TypeOK
<1>2. ASSUME NEW r \in Requests,
             LoadCandidate(r) \/ PublishAnswer(r) \/ LoadAckContext(r) \/ SendAck(r)
      PROVE  NamesDifferUnlessRaced'
  BY <1>2, NamesUnmoved DEF LoadCandidate, Compiled, PublishAnswer, LoadAckContext, SendAck, dbVars,
     TypeOK
<1>3. ASSUME NEW r \in Requests, Work(r) PROVE NamesDifferUnlessRaced'
  BY <1>2, <1>3, ResolveNameNames, InsertSkillNames DEF Work
<1>4. ASSUME NEW s \in Sources, NEW t \in Tenants \cup {None}, SetMapping(s, t)
      PROVE  NamesDifferUnlessRaced'
  BY <1>4, NamesUnmoved DEF SetMapping
<1>5. ASSUME NEW p \in Promotions, ForgetRefusal(p) PROVE NamesDifferUnlessRaced'
  BY <1>5, NamesUnmoved DEF ForgetRefusal
<1>6. CASE UNCHANGED vars
  BY <1>6, NamesUnmoved DEF vars, dbVars
<1> QED
  BY <1>1, <1>3, <1>4, <1>5, <1>6, CreateAgentSkillNames DEF Next

(* Two skills of a tenant share a name only if a task was about to insert  *)
(* when another row of its tenant came in, for any number of tasks.        *)
THEOREM NamesDiffer == Spec => []NamesDifferUnlessRaced
<1>1. Init => NamesDifferUnlessRaced
  BY DEF Init, NamesDifferUnlessRaced
<1> QED
  BY <1>1, NextNames, BridgeInvariant, PTL DEF Spec
=============================================================================
