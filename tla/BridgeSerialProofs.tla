-------------------------- MODULE BridgeSerialProofs --------------------------
(***************************************************************************)
(* If the POSTs of one promotion do not overlap, the receiver and its      *)
(* compile tasks give a promotion one answer, one skill and one ack, and   *)
(* implement PromotionLedger, for every set of promotions, tenants and     *)
(* requests and whatever stops or is retried.                              *)
(***************************************************************************)
EXTENDS BridgeProofs

USE BridgeAssumption, NoneAssumption DEF Receiving, Working, Answered

(* A step that touches neither answers, candidates, skills, acks nor       *)
(* coroutines.                                                             *)
LEMMA UnchangedSerial ==
  ASSUME SerialInv, UNCHANGED <<idem, promoted, skills, pc, promo, reply, job, acks>>
  PROVE  SerialInv'
BY DEF SerialInv, OneReceiver, OneAccepter, NothingRecordedYet, FirstAnswers, KindStatus,
       StoredAnswers, RepliesAgree, SkillOfAccepter, OwnJob, OwnSkill, AckOfAccepter, Accepter, Ack

(* With Overlap = FALSE a promotion has one POST in the receiver. *)
LEMMA DeliverSerial ==
  ASSUME BridgeInv, SerialInv, NEW r \in Requests, NEW p \in Promotions, Overlap = FALSE, Deliver(r, p)
  PROVE  SerialInv'
<1> USE DEF Deliver, dbVars, BridgeInv, SerialInv
<1>1. OneReceiver'
  BY DEF OneReceiver, TypeOK
<1>2. OneAccepter'
  BY DEF OneAccepter, Accepter, TypeOK
<1>3. NothingRecordedYet'
  BY DEF NothingRecordedYet, FirstAnswers, Answer, KindStatus, TypeOK
<1>4. StoredAnswers'
  BY DEF StoredAnswers, FirstAnswers, Answer, KindStatus, TypeOK
<1>5. RepliesAgree'
  BY DEF RepliesAgree, Accepts, RequestInv, TypeOK
<1>6. SkillOfAccepter'
  BY DEF SkillOfAccepter, Accepter, TypeOK
<1>7. OwnJob'
  BY DEF OwnJob, OwnSkill, TypeOK
<1>8. AckOfAccepter'
  BY DEF AckOfAccepter, Accepter, Ack, OwnSkill, TypeOK
<1> QED
  BY <1>1, <1>2, <1>3, <1>4, <1>5, <1>6, <1>7, <1>8

(* A rejected POST promises nothing, and reaches no table. *)
LEMMA RejectDeliverySerial ==
  ASSUME BridgeInv, SerialInv, NEW r \in Requests, RejectDelivery(r)
  PROVE  SerialInv'
<1> USE DEF RejectDelivery, Answer, dbVars, BridgeInv, SerialInv
<1>1. OneReceiver'
  BY DEF OneReceiver, TypeOK
<1>2. OneAccepter'
  BY DEF OneAccepter, Accepter, TypeOK
<1>3. NothingRecordedYet'
  BY DEF NothingRecordedYet, FirstAnswers, Answer, KindStatus, TypeOK
<1>4. StoredAnswers'
  BY DEF StoredAnswers, FirstAnswers, Answer, KindStatus, TypeOK
<1>5. RepliesAgree'
  <2>1. reply'[r] \in AnswerSet /\ ~Accepts(reply'[r])
    BY DEF TypeOK, AnswerSet, Accepts
  <2> QED
    BY <2>1 DEF RepliesAgree, TypeOK
<1>6. SkillOfAccepter'
  BY DEF SkillOfAccepter, Accepter, TypeOK
<1>7. OwnJob'
  BY DEF OwnJob, OwnSkill, TypeOK
<1>8. AckOfAccepter'
  BY DEF AckOfAccepter, Accepter, Ack, OwnSkill, TypeOK
<1> QED
  BY <1>1, <1>2, <1>3, <1>4, <1>5, <1>6, <1>7, <1>8

(* A replay agrees with the stored answer it was made of. *)
LEMMA CheckIdempotencySerial ==
  ASSUME BridgeInv, SerialInv, NEW r \in Requests, CheckIdempotency(r)
  PROVE  SerialInv'
<1> USE DEF CheckIdempotency, dbVars, BridgeInv, SerialInv
<1> DEFINE prior == idem[promo[r]]
<1>p. promo[r] \in Promotions
  BY DEF RequestInv
<1>0. \/ pc'[r] = "resolve" /\ reply' = reply
      \/ /\ pc'[r] = "respond" /\ prior # None /\ reply'[r] \in AnswerSet
         /\ reply'[r].code # 202 /\ reply'[r].skill = prior.skill
         /\ Accepts(reply'[r]) <=> prior.code = 202
  <2>1. CASE prior = None
    BY <2>1 DEF TypeOK
  <2>2. CASE prior # None
    <3>1. prior \in AnswerSet /\ prior.code \in {202, 400}
      BY <1>p, <2>2 DEF StoredAnswers, FirstAnswers, Answer, TypeOK
    <3>2. reply'[r] = Replay(prior) /\ pc'[r] = "respond"
      BY <2>2 DEF TypeOK
    <3>3. Replay(prior) \in AnswerSet /\ Replay(prior).skill = prior.skill
          /\ Replay(prior).code = IF prior.code = 202 THEN 409 ELSE prior.code
      BY <3>1 DEF Replay, AnswerSet
    <3> QED
      BY <2>2, <3>1, <3>2, <3>3 DEF Accepts
  <2> QED
    BY <2>1, <2>2
<1>1. OneReceiver'
  BY DEF OneReceiver, TypeOK
<1>2. OneAccepter'
  BY <1>0 DEF OneAccepter, Accepter, TypeOK
<1>3. NothingRecordedYet'
  BY DEF NothingRecordedYet, FirstAnswers, Answer, KindStatus, TypeOK
<1>4. StoredAnswers'
  BY DEF StoredAnswers, FirstAnswers, Answer, KindStatus, TypeOK
<1>5. RepliesAgree'
  BY <1>0 DEF RepliesAgree, TypeOK
<1>6. SkillOfAccepter'
  BY DEF SkillOfAccepter, Accepter, TypeOK
<1>7. OwnJob'
  BY DEF OwnJob, OwnSkill, TypeOK
<1>8. AckOfAccepter'
  BY DEF AckOfAccepter, Accepter, Ack, OwnSkill, TypeOK
<1> QED
  BY <1>1, <1>2, <1>3, <1>4, <1>5, <1>6, <1>7, <1>8

(* The refusal of an unmapped tenant is a first answer. *)
LEMMA ResolveTenantSerial ==
  ASSUME BridgeInv, SerialInv, NEW r \in Requests, ResolveTenant(r)
  PROVE  SerialInv'
<1> USE DEF ResolveTenant, dbVars, BridgeInv, SerialInv
<1>1. OneReceiver'
  BY DEF OneReceiver, TypeOK
<1>2. OneAccepter'
  BY DEF OneAccepter, Accepter, TypeOK
<1>3. NothingRecordedYet'
  BY DEF NothingRecordedYet, FirstAnswers, Answer, KindStatus, TypeOK
<1>4. StoredAnswers'
  BY DEF StoredAnswers, FirstAnswers, Answer, KindStatus, TypeOK
<1>5. RepliesAgree'
  BY DEF RepliesAgree, Accepts, RequestInv, TypeOK
<1>6. SkillOfAccepter'
  BY DEF SkillOfAccepter, Accepter, TypeOK
<1>7. OwnJob'
  BY DEF OwnJob, OwnSkill, TypeOK
<1>8. AckOfAccepter'
  BY DEF AckOfAccepter, Accepter, Ack, OwnSkill, TypeOK
<1> QED
  BY <1>1, <1>2, <1>3, <1>4, <1>5, <1>6, <1>7, <1>8

(* The answer formed here is a first answer. *)
LEMMA PersistCandidateSerial ==
  ASSUME BridgeInv, SerialInv, NEW r \in Requests, PersistCandidate(r)
  PROVE  SerialInv'
<1> USE DEF PersistCandidate, dbVars, BridgeInv, SerialInv
<1>1. OneReceiver'
  BY DEF OneReceiver, TypeOK
<1>2. OneAccepter'
  BY DEF OneAccepter, Accepter, TypeOK
<1>3. NothingRecordedYet'
  BY DEF NothingRecordedYet, FirstAnswers, Answer, KindStatus, TypeOK
<1>4. StoredAnswers'
  BY DEF StoredAnswers, FirstAnswers, Answer, KindStatus, TypeOK
<1>5. RepliesAgree'
  BY DEF RepliesAgree, Accepts, RequestInv, TypeOK
<1>6. SkillOfAccepter'
  BY DEF SkillOfAccepter, Accepter, TypeOK
<1>7. OwnJob'
  BY DEF OwnJob, OwnSkill, TypeOK
<1>8. AckOfAccepter'
  BY DEF AckOfAccepter, Accepter, Ack, OwnSkill, TypeOK
<1> QED
  BY <1>1, <1>2, <1>3, <1>4, <1>5, <1>6, <1>7, <1>8

(* Nothing was stored, so this reply is what is stored; if it accepts,     *)
(* it is the first to: no earlier reply of the promotion did. *)
LEMMA RecordAnswerSerial ==
  ASSUME BridgeInv, SerialInv, NEW r \in Requests, RecordAnswer(r)
  PROVE  SerialInv'
<1> USE DEF RecordAnswer, dbVars, BridgeInv, SerialInv
<1> DEFINE p == promo[r]
<1>p. /\ p \in Promotions /\ idem[p] = None /\ reply[r] \in AnswerSet
      /\ reply[r] \in FirstAnswers(p) /\ reply[r].status # "compiled"
  BY DEF RequestInv, NothingRecordedYet
<1>a. /\ reply[r].code \in {202, 400} /\ reply[r].skill = None
      /\ Accepts(reply[r]) <=> reply[r].code = 202
  BY <1>p DEF FirstAnswers, Answer, Accepts
<1>i. idem'[p] = reply[r] /\ reply[r] # None /\ \A q \in Promotions \ {p} : idem'[q] = idem[q]
  BY <1>p DEF TypeOK
<1>c. pc'[r] = "respond" /\ \A q \in Requests \ {r} : pc'[q] = pc[q]
  BY DEF TypeOK
<1>n. \A q \in Requests \ {r} : promo[q] = p =>
        /\ pc[q] \notin {"check", "resolve", "persist", "record", "respond", "publish"}
        /\ ~Accepter(q) /\ (pc[q] \in Answered => ~Accepts(reply[q]))
  BY <1>p DEF OneReceiver, RepliesAgree, Accepter, Accepts
<1>1. OneReceiver'
  BY DEF OneReceiver, TypeOK
<1>2. OneAccepter'
  BY <1>c, <1>n DEF OneAccepter, Accepter
<1>3. NothingRecordedYet'
  <2>1. ASSUME NEW q \in Requests, pc'[q] \in {"resolve", "persist", "record"}
        PROVE  idem'[promo[q]] = None /\ (pc'[q] = "record" => reply[q] \in FirstAnswers(promo[q]))
    BY <1>c, <1>n, <1>i, <2>1 DEF NothingRecordedYet, RequestInv
  <2> QED
    BY <2>1 DEF NothingRecordedYet
<1>4. StoredAnswers'
  BY <1>p, <1>i DEF StoredAnswers
<1>5. RepliesAgree'
  <2>1. ASSUME NEW q \in Requests \ {r}, pc[q] \in Answered, promo[q] # p \/ pc[q] # "respond"
        PROVE  /\ promo[q] # None /\ Accepts(reply[q]) =>
                   /\ idem'[promo[q]] # None /\ idem'[promo[q]].code = 202
                   /\ reply[q].skill # None => reply[q].skill = idem'[promo[q]].skill
               /\ pc[q] = "respond" /\ ~Accepts(reply[q]) =>
                   ~(idem'[promo[q]] # None /\ idem'[promo[q]].code = 202)
    <3>1. promo[q] \in Promotions \cup {None} /\ (pc[q] = "respond" => promo[q] \in Promotions)
      BY DEF TypeOK, RequestInv
    <3>2. CASE promo[q] = p
      BY <1>n, <2>1, <3>2
    <3>3. CASE promo[q] # p
      BY <1>i, <2>1, <3>1, <3>3 DEF RepliesAgree
    <3> QED
      BY <3>2, <3>3
  <2>2. \A q \in Requests \ {r} : promo[q] # p \/ pc[q] # "respond"
    BY <1>n
  <2>3. Accepts(reply[r]) => idem'[p] # None /\ idem'[p].code = 202 /\ reply[r].skill = None
    BY <1>a, <1>i
  <2>4. ~Accepts(reply[r]) => idem'[p].code # 202
    BY <1>a, <1>i
  <2> QED
    BY <1>p, <1>c, <2>1, <2>2, <2>3, <2>4 DEF RepliesAgree
<1>6. SkillOfAccepter'
  <2>1. ASSUME NEW q \in Requests, skills[q] # None PROVE Accepter(q)' /\ promo[q] = skills[q].by
    BY <1>c, <2>1 DEF SkillOfAccepter, Accepter, InsertedInv
  <2>2. ASSUME NEW q \in Requests, pc'[q] = "publish" PROVE idem'[promo[q]].status # "compiled"
    BY <1>c, <1>n, <1>i, <2>2 DEF SkillOfAccepter, RequestInv
  <2> QED
    BY <2>1, <2>2 DEF SkillOfAccepter
<1>7. OwnJob'
  BY DEF OwnJob, OwnSkill, TypeOK
<1>8. AckOfAccepter'
  BY DEF AckOfAccepter, Accepter, Ack, OwnSkill, TypeOK
<1> QED
  BY <1>1, <1>2, <1>3, <1>4, <1>5, <1>6, <1>7, <1>8

(* The accepter alone goes on to compile. *)
LEMMA RespondSerial ==
  ASSUME BridgeInv, SerialInv, NEW r \in Requests, Respond(r)
  PROVE  SerialInv'
<1> USE DEF Respond, AcceptedSkill, dbVars, BridgeInv, SerialInv
<1>1. OneReceiver'
  BY DEF OneReceiver, TypeOK
<1>2. OneAccepter'
  BY DEF OneAccepter, Accepter, TypeOK
<1>3. NothingRecordedYet'
  BY DEF NothingRecordedYet, FirstAnswers, Answer, KindStatus, TypeOK
<1>4. StoredAnswers'
  BY DEF StoredAnswers, FirstAnswers, Answer, KindStatus, TypeOK
<1>5. RepliesAgree'
  BY DEF RepliesAgree, Accepts, RequestInv, TypeOK
<1>6. SkillOfAccepter'
  BY DEF SkillOfAccepter, Accepter, TypeOK
<1>7. OwnJob'
  BY DEF OwnJob, OwnSkill, TypeOK
<1>8. AckOfAccepter'
  BY DEF AckOfAccepter, Accepter, Ack, OwnSkill, TypeOK
<1> QED
  BY <1>1, <1>2, <1>3, <1>4, <1>5, <1>6, <1>7, <1>8

(* As long as the accepter's task has not inserted it, there is no skill. *)
LEMMA NoSkillYet ==
  ASSUME BridgeInv, SerialInv, NEW r \in Requests, pc[r] \in {"load", "name", "insert"}
  PROVE  /\ promo[r] \in Promotions
         /\ \A s \in Requests : skills[s] # None => skills[s].by # promo[r]
         /\ promoted[promo[r]] # None => promoted[promo[r]].status # "compiled"
         /\ idem[promo[r]] # None => idem[promo[r]].status # "compiled"
<1> USE DEF BridgeInv, SerialInv
<1>1. promo[r] \in Promotions /\ Accepter(r)
  BY DEF RequestInv, RepliesAgree, Accepter, AnswerSet
<1>2. \A s \in Requests : skills[s] # None => skills[s].by # promo[r]
  <2> SUFFICES ASSUME NEW s \in Requests, skills[s] # None, skills[s].by = promo[r] PROVE FALSE
    OBVIOUS
  <2>1. Accepter(s) /\ promo[s] = promo[r]
    BY DEF SkillOfAccepter
  <2>2. s = r
    BY <1>1, <2>1 DEF OneAccepter
  <2> QED
    BY <2>2 DEF InsertedInv
<1>3. promoted[promo[r]] # None => promoted[promo[r]].status # "compiled"
  BY <1>1, <1>2 DEF CompiledRowHasSkill, MadeFrom
<1>4. idem[promo[r]] # None => idem[promo[r]].status # "compiled"
  BY <1>1, <1>2 DEF PublishedSkillExists, MadeFrom
<1> QED
  BY <1>1, <1>2, <1>3, <1>4

(* A candidate found compiled would have a skill, which only the accepter  *)
(* inserts: its task finds it queued, or rejected. *)
LEMMA LoadCandidateSerial ==
  ASSUME BridgeInv, SerialInv, NEW r \in Requests, LoadCandidate(r)
  PROVE  SerialInv'
<1> USE DEF LoadCandidate, Compiled, Job, dbVars, BridgeInv, SerialInv
<1>0. pc[r] = "load" /\ pc'[r] \in {"name", "context"}
      /\ (pc'[r] = "context" => job'[r].outcome = "rejected")
      /\ \A q \in Requests \ {r} : pc'[q] = pc[q] /\ job'[q] = job[q]
  BY NoSkillYet DEF Visible, TypeOK
<1>1. OneReceiver'
  BY DEF OneReceiver, TypeOK
<1>2. OneAccepter'
  BY DEF OneAccepter, Accepter, TypeOK
<1>3. NothingRecordedYet'
  BY DEF NothingRecordedYet, FirstAnswers, Answer, KindStatus, TypeOK
<1>4. StoredAnswers'
  BY DEF StoredAnswers, FirstAnswers, Answer, KindStatus, TypeOK
<1>5. RepliesAgree'
  BY DEF RepliesAgree, Accepts, RequestInv, TypeOK
<1>6. SkillOfAccepter'
  BY <1>0 DEF SkillOfAccepter, Accepter
<1>7. OwnJob'
  BY <1>0 DEF OwnJob, OwnSkill
<1>8. AckOfAccepter'
  BY DEF AckOfAccepter, Accepter, Ack, OwnSkill, TypeOK
<1> QED
  BY <1>1, <1>2, <1>3, <1>4, <1>5, <1>6, <1>7, <1>8

(* A name is chosen, or the compile is rejected. *)
LEMMA ResolveNameSerial ==
  ASSUME BridgeInv, SerialInv, NEW r \in Requests, ResolveName(r)
  PROVE  SerialInv'
<1> USE DEF ResolveName, Compiled, Job, dbVars, BridgeInv, SerialInv
<1>1. OneReceiver'
  BY DEF OneReceiver, TypeOK
<1>2. OneAccepter'
  BY DEF OneAccepter, Accepter, TypeOK
<1>3. NothingRecordedYet'
  BY DEF NothingRecordedYet, FirstAnswers, Answer, KindStatus, TypeOK
<1>4. StoredAnswers'
  BY DEF StoredAnswers, FirstAnswers, Answer, KindStatus, TypeOK
<1>5. RepliesAgree'
  BY DEF RepliesAgree, Accepts, RequestInv, TypeOK
<1>6. SkillOfAccepter'
  BY DEF SkillOfAccepter, Accepter, TypeOK
<1>7. OwnJob'
  BY DEF OwnJob, OwnSkill, TypeOK
<1>8. AckOfAccepter'
  BY DEF AckOfAccepter, Accepter, Ack, OwnSkill, TypeOK
<1> QED
  BY <1>1, <1>2, <1>3, <1>4, <1>5, <1>6, <1>7, <1>8

(* The skill inserted is the accepter's, and not yet published. *)
LEMMA InsertSkillSerial ==
  ASSUME BridgeInv, SerialInv, NEW r \in Requests, InsertSkill(r)
  PROVE  SerialInv'
<1> USE DEF InsertSkill, Compiled, dbVars, BridgeInv, SerialInv
<1>0. /\ pc[r] = "insert" /\ pc'[r] \in {"publish", "context"}
      /\ skills'[r].by = promo[r] /\ promo[r] \in Promotions
      /\ \A q \in Requests \ {r} : pc'[q] = pc[q] /\ skills'[q] = skills[q]
  BY DEF TypeOK, RequestInv
<1>a. Accepter(r) /\ Accepter(r)' /\ idem[promo[r]] # None
  BY <1>0 DEF RepliesAgree, Accepter, Accepts, AnswerSet
<1>1. OneReceiver'
  BY DEF OneReceiver, TypeOK
<1>2. OneAccepter'
  BY DEF OneAccepter, Accepter, TypeOK
<1>3. NothingRecordedYet'
  BY DEF NothingRecordedYet, FirstAnswers, Answer, KindStatus, TypeOK
<1>4. StoredAnswers'
  BY DEF StoredAnswers, FirstAnswers, Answer, KindStatus, TypeOK
<1>5. RepliesAgree'
  BY DEF RepliesAgree, Accepts, RequestInv, TypeOK
<1>6. SkillOfAccepter'
  BY <1>0, <1>a, NoSkillYet DEF SkillOfAccepter, Accepter
<1>7. OwnJob'
  BY DEF OwnJob, OwnSkill, TypeOK
<1>8. AckOfAccepter'
  BY DEF AckOfAccepter, Accepter, Ack, OwnSkill, TypeOK
<1> QED
  BY <1>1, <1>2, <1>3, <1>4, <1>5, <1>6, <1>7, <1>8

(* The stored acceptance names a skill from now on; replies named none. *)
LEMMA PublishAnswerSerial ==
  ASSUME BridgeInv, SerialInv, NEW r \in Requests, PublishAnswer(r)
  PROVE  SerialInv'
<1> USE DEF PublishAnswer, dbVars, BridgeInv, SerialInv
<1> DEFINE p == promo[r]
<1>p. p \in SkillPromotions /\ p \in Promotions
  BY DEF RequestInv
<1>a. Accepter(r) /\ idem[p] # None /\ idem[p].code = 202 /\ idem[p].status # "compiled"
  BY <1>p DEF RepliesAgree, Accepter, Accepts, AnswerSet, SkillOfAccepter
<1>f. idem[p].skill = None
  <2>1. idem[p] \in FirstAnswers(p) => idem[p].skill = None
    BY DEF FirstAnswers, Answer
  <2>2. \A q \in Requests : idem[p] = Answer(202, "compiled", q) => idem[p].status = "compiled"
    BY DEF Answer
  <2> QED
    BY <1>p, <1>a, <2>1, <2>2 DEF StoredAnswers
<1>j. job[r].skill = r
  BY DEF OwnJob, OwnSkill, JobInv
<1>i. idem'[p] = Answer(202, "compiled", r) /\ \A q \in Promotions \ {p} : idem'[q] = idem[q]
  BY <1>p, <1>a, <1>j DEF TypeOK
<1>v. idem'[p] # None /\ idem'[p].code = 202 /\ idem'[p].skill = r
  <2>1. Answer(202, "compiled", r) \in AnswerSet
    BY DEF Answer, AnswerSet
  <2> QED
    BY <1>i, <2>1 DEF Answer
<1>c. pc'[r] = "context" /\ \A q \in Requests \ {r} : pc'[q] = pc[q]
  BY DEF TypeOK
<1>1. OneReceiver'
  BY DEF OneReceiver, TypeOK
<1>2. OneAccepter'
  BY DEF OneAccepter, Accepter, TypeOK
<1>3. NothingRecordedYet'
  BY DEF NothingRecordedYet, FirstAnswers, Answer, KindStatus, TypeOK
<1>4. StoredAnswers'
  BY <1>p, <1>i DEF StoredAnswers
<1>5. RepliesAgree'
  <2>1. ASSUME NEW q \in Requests, pc[q] \in Answered
        PROVE  /\ promo[q] # None /\ Accepts(reply[q]) =>
                   /\ idem'[promo[q]] # None /\ idem'[promo[q]].code = 202
                   /\ reply[q].skill # None => reply[q].skill = idem'[promo[q]].skill
               /\ pc[q] = "respond" /\ ~Accepts(reply[q]) =>
                   ~(idem'[promo[q]] # None /\ idem'[promo[q]].code = 202)
    <3>1. promo[q] \in Promotions \cup {None} /\ (pc[q] = "respond" => promo[q] \in Promotions)
      BY DEF TypeOK, RequestInv
    <3>2. CASE promo[q] = p
      BY <1>p, <1>a, <1>f, <1>v, <2>1, <3>2 DEF RepliesAgree
    <3>3. CASE promo[q] # p
      BY <1>i, <2>1, <3>1, <3>3 DEF RepliesAgree
    <3> QED
      BY <3>2, <3>3
  <2> QED
    BY <1>c, <2>1 DEF RepliesAgree
<1>6. SkillOfAccepter'
  <2>1. ASSUME NEW q \in Requests, skills[q] # None PROVE Accepter(q)' /\ promo[q] = skills[q].by
    BY <1>c, <2>1 DEF SkillOfAccepter, Accepter
  <2>2. ASSUME NEW q \in Requests, pc'[q] = "publish" PROVE idem'[promo[q]].status # "compiled"
    <3>1. q # r /\ pc[q] = "publish"
      BY <1>c, <2>2
    <3>2. Accepter(q) /\ promo[q] \in Promotions
      BY <3>1 DEF RepliesAgree, Accepter, AnswerSet, RequestInv
    <3>3. promo[q] # p
      BY <1>a, <3>1, <3>2 DEF OneAccepter
    <3> QED
      BY <1>i, <3>1, <3>2, <3>3 DEF SkillOfAccepter
  <2> QED
    BY <2>1, <2>2 DEF SkillOfAccepter
<1>7. OwnJob'
  BY DEF OwnJob, OwnSkill, TypeOK
<1>8. AckOfAccepter'
  BY DEF AckOfAccepter, Accepter, Ack, OwnSkill, TypeOK
<1> QED
  BY <1>1, <1>2, <1>3, <1>4, <1>5, <1>6, <1>7, <1>8

(* Reading the ack context keeps the job. *)
LEMMA LoadAckContextSerial ==
  ASSUME BridgeInv, SerialInv, NEW r \in Requests, LoadAckContext(r)
  PROVE  SerialInv'
<1> USE DEF LoadAckContext, dbVars, BridgeInv, SerialInv
<1>1. OneReceiver'
  BY DEF OneReceiver, TypeOK
<1>2. OneAccepter'
  BY DEF OneAccepter, Accepter, TypeOK
<1>3. NothingRecordedYet'
  BY DEF NothingRecordedYet, FirstAnswers, Answer, KindStatus, TypeOK
<1>4. StoredAnswers'
  BY DEF StoredAnswers, FirstAnswers, Answer, KindStatus, TypeOK
<1>5. RepliesAgree'
  BY DEF RepliesAgree, Accepts, RequestInv, TypeOK
<1>6. SkillOfAccepter'
  BY DEF SkillOfAccepter, Accepter, TypeOK
<1>7. OwnJob'
  BY DEF OwnJob, OwnSkill, TypeOK
<1>8. AckOfAccepter'
  BY DEF AckOfAccepter, Accepter, Ack, OwnSkill, TypeOK
<1> QED
  BY <1>1, <1>2, <1>3, <1>4, <1>5, <1>6, <1>7, <1>8

(* Each POST repeats the accepter's ack. *)
LEMMA SendAckSerial ==
  ASSUME BridgeInv, SerialInv, NEW r \in Requests, SendAck(r)
  PROVE  SerialInv'
<1> USE DEF SendAck, dbVars, BridgeInv, SerialInv
<1>1. OneReceiver'
  BY DEF OneReceiver, TypeOK
<1>2. OneAccepter'
  BY DEF OneAccepter, Accepter, TypeOK
<1>3. NothingRecordedYet'
  BY DEF NothingRecordedYet, FirstAnswers, Answer, KindStatus, TypeOK
<1>4. StoredAnswers'
  BY DEF StoredAnswers, FirstAnswers, Answer, KindStatus, TypeOK
<1>5. RepliesAgree'
  BY DEF RepliesAgree, Accepts, RequestInv, TypeOK
<1>6. SkillOfAccepter'
  BY DEF SkillOfAccepter, Accepter, TypeOK
<1>7. OwnJob'
  BY DEF OwnJob, OwnSkill, TypeOK
<1>8. AckOfAccepter'
  <2>1. pc[r] = "ack" /\ pc'[r] \in {"ack", "done"} /\ \A q \in Requests \ {r} : pc'[q] = pc[q]
    BY DEF TypeOK
  <2>2. Accepter(r) /\ job[r] # None /\ OwnSkill(r)
    BY <2>1 DEF RepliesAgree, Accepter, AnswerSet, JobInv, OwnJob
  <2>3. acks' \subseteq acks \cup {Ack(r)}
    OBVIOUS
  <2>4. ASSUME NEW q \in Requests, Accepter(q), pc[q] \in {"ack", "done"}, job[q] # None, OwnSkill(q)
        PROVE  Accepter(q)' /\ pc'[q] \in {"ack", "done"} /\ job'[q] # None /\ OwnSkill(q)'
               /\ Ack(q)' = Ack(q)
    BY <2>1, <2>4 DEF Accepter, OwnSkill, Ack
  <2>5. ASSUME NEW a \in acks'
        PROVE  \E q \in Requests : Accepter(q) /\ pc[q] \in {"ack", "done"} /\ job[q] # None
                                   /\ a = Ack(q) /\ OwnSkill(q)
    BY <2>1, <2>2, <2>3 DEF AckOfAccepter
  <2> QED
    BY <2>4, <2>5 DEF AckOfAccepter
<1> QED
  BY <1>1, <1>2, <1>3, <1>4, <1>5, <1>6, <1>7, <1>8

(* A coroutine that stops keeps what it answered and inserted. *)
LEMMA StopSerial ==
  ASSUME BridgeInv, SerialInv, NEW r \in Requests, Stop(r)
  PROVE  SerialInv'
<1> USE DEF Stop, dbVars, BridgeInv, SerialInv
<1>1. OneReceiver'
  BY DEF OneReceiver, TypeOK
<1>2. OneAccepter'
  BY DEF OneAccepter, Accepter, TypeOK
<1>3. NothingRecordedYet'
  BY DEF NothingRecordedYet, FirstAnswers, Answer, KindStatus, TypeOK
<1>4. StoredAnswers'
  BY DEF StoredAnswers, FirstAnswers, Answer, KindStatus, TypeOK
<1>5. RepliesAgree'
  BY DEF RepliesAgree, Accepts, RequestInv, TypeOK
<1>6. SkillOfAccepter'
  BY DEF SkillOfAccepter, Accepter, InsertedInv, TypeOK
<1>7. OwnJob'
  BY DEF OwnJob, OwnSkill, TypeOK
<1>8. AckOfAccepter'
  BY DEF AckOfAccepter, Accepter, Ack, OwnSkill, TypeOK
<1> QED
  BY <1>1, <1>2, <1>3, <1>4, <1>5, <1>6, <1>7, <1>8

(* Mappings are not part of the invariant. *)
LEMMA SetMappingSerial ==
  ASSUME SerialInv, NEW s \in Sources, NEW t \in Tenants \cup {None}, SetMapping(s, t)
  PROVE  SerialInv'
<1> USE DEF SetMapping, SerialInv
<1> QED
  BY UnchangedSerial

(* Nor are the skills users create. *)
LEMMA CreateAgentSkillSerial ==
  ASSUME SerialInv, NEW t \in Tenants, NEW n \in Names, CreateAgentSkill(t, n)
  PROVE  SerialInv'
BY UnchangedSerial DEF CreateAgentSkill

(* The operator deletes a refusal: it is nobody's acceptance. *)
LEMMA ForgetRefusalSerial ==
  ASSUME BridgeInv, SerialInv, NEW p \in Promotions, ForgetRefusal(p)
  PROVE  SerialInv'
<1> USE DEF ForgetRefusal, BridgeInv, SerialInv
<1>i. idem[p].code = 400 /\ idem'[p] = None /\ \A q \in Promotions \ {p} : idem'[q] = idem[q]
  BY DEF TypeOK
<1>1. OneReceiver' /\ OneAccepter' /\ OwnJob' /\ AckOfAccepter'
  BY DEF OneReceiver, OneAccepter, OwnJob, OwnSkill, AckOfAccepter, Accepter, Ack
<1>2. NothingRecordedYet'
  BY <1>i DEF NothingRecordedYet, RequestInv, FirstAnswers, KindStatus
<1>3. StoredAnswers'
  BY <1>i DEF StoredAnswers, FirstAnswers, KindStatus
<1>4. RepliesAgree'
  BY <1>i DEF RepliesAgree, RequestInv, TypeOK
<1>5. SkillOfAccepter'
  <2>1. ASSUME NEW q \in Requests, pc[q] = "publish" PROVE idem'[promo[q]].status # "compiled"
    <3>1. promo[q] \in Promotions /\ promo[q] # None /\ reply[q].code = 202
      BY <2>1 DEF RequestInv, RepliesAgree
    <3>2. promo[q] # p
      BY <1>i, <2>1, <3>1 DEF RepliesAgree, Accepts
    <3> QED
      BY <1>i, <2>1, <3>1, <3>2 DEF SkillOfAccepter
  <2> QED
    BY <2>1 DEF SkillOfAccepter, Accepter
<1> QED
  BY <1>1, <1>2, <1>3, <1>4, <1>5

(* Nothing is delivered yet. *)
LEMMA InitSerial == Init => SerialInv
BY DEF Init, SerialInv, OneReceiver, OneAccepter, NothingRecordedYet, StoredAnswers, RepliesAgree,
       SkillOfAccepter, OwnJob, AckOfAccepter, Accepter

(* Action by action. *)
LEMMA NextSerial ==
  ASSUME Overlap = FALSE, BridgeInv, SerialInv, [Next]_vars
  PROVE  SerialInv'
<1>1. ASSUME NEW r \in Requests, Receive(r) PROVE SerialInv'
  BY <1>1, CheckIdempotencySerial, ResolveTenantSerial, PersistCandidateSerial, RecordAnswerSerial,
     RespondSerial DEF Receive
<1>2. ASSUME NEW r \in Requests, Work(r) PROVE SerialInv'
  BY <1>2, LoadCandidateSerial, ResolveNameSerial, InsertSkillSerial, PublishAnswerSerial,
     LoadAckContextSerial, SendAckSerial DEF Work
<1>3. ASSUME NEW r \in Requests, RejectDelivery(r) \/ Stop(r) \/ \E p \in Promotions : Deliver(r, p)
      PROVE  SerialInv'
  BY <1>3, RejectDeliverySerial, StopSerial, DeliverSerial
<1>4. ASSUME NEW s \in Sources, NEW t \in Tenants \cup {None}, SetMapping(s, t) PROVE SerialInv'
  BY <1>4, SetMappingSerial
<1>5. ASSUME NEW p \in Promotions, ForgetRefusal(p) PROVE SerialInv'
  BY <1>5, ForgetRefusalSerial
<1>6. ASSUME NEW t \in Tenants, NEW n \in Names, CreateAgentSkill(t, n) PROVE SerialInv'
  BY <1>6, CreateAgentSkillSerial
<1>7. CASE UNCHANGED vars
  BY <1>7, UnchangedSerial DEF vars, dbVars
<1> QED
  BY <1>1, <1>2, <1>3, <1>4, <1>5, <1>6, <1>7 DEF Next

-------------------------------------------------------------------------------
(* What serial deliveries of any promotions give: the inductive invariant  *)
(* behind one answer, one skill and one ack.                               *)
THEOREM SerialInvariant == ASSUME Overlap = FALSE PROVE Spec => []SerialInv
<1>1. BridgeInv /\ SerialInv /\ [Next]_vars => SerialInv'
  BY NextSerial
<1> QED
  BY <1>1, InitSerial, BridgeInvariant, PTL DEF Spec

(* A promotion is compiled into one skill, however often it is delivered   *)
(* and wherever a coroutine stops: the accepter's task inserted it.        *)
THEOREM OneSkill == ASSUME Overlap = FALSE PROVE Spec => []OneSkillPerPromotion
<1>1. SerialInv => OneSkillPerPromotion
  BY DEF SerialInv, OneSkillPerPromotion, SkillOfAccepter, OneAccepter
<1> QED
  BY <1>1, SerialInvariant, PTL

(* Replies agree with the stored answer, and an acceptance is kept: what   *)
(* was stored is not overwritten, and published once.                      *)
THEOREM AnswersAreCanonical == ASSUME Overlap = FALSE PROVE Spec => []AnswersCanonical
<1>1. BridgeInv /\ SerialInv => AnswersCanonical
  <2> SUFFICES ASSUME BridgeInv, SerialInv, NEW r \in Requests
               PROVE  LET stored == idem[promo[r]] IN
                      /\ pc[r] = "respond" => Accepts(reply[r]) = (stored # None /\ stored.code = 202)
                      /\ pc[r] \in Working \cup {"done"} /\ promo[r] # None /\ Accepts(reply[r]) =>
                           /\ stored # None /\ stored.code = 202
                           /\ reply[r].skill # None => reply[r].skill = stored.skill
    BY DEF AnswersCanonical
  <2>1. pc[r] = "respond" => promo[r] # None
    BY DEF BridgeInv, RequestInv
  <2> QED
    BY <2>1 DEF SerialInv, RepliesAgree, Accepts
<1> QED
  BY <1>1, SerialInvariant, BridgeInvariant, PTL

(* The-loom hears one thing of a promotion, with the name its skill is     *)
(* stored under: all acks are the accepter's.                              *)
THEOREM AcksOfOneTask == ASSUME Overlap = FALSE PROVE Spec => []AcksAgree
<1>1. SerialInv => AcksAgree
  <2> SUFFICES ASSUME SerialInv, NEW a \in acks
               PROVE  /\ \A b \in acks : a.promotion = b.promotion => a = b
                      /\ a.outcome = "compiled" => a.name = skills[a.skill].name
    BY DEF AcksAgree
  <2>1. PICK r \in Requests : Accepter(r) /\ a = Ack(r) /\ OwnSkill(r)
    BY DEF SerialInv, AckOfAccepter
  <2>2. a.promotion = promo[r] /\ a.outcome = job[r].outcome /\ a.name = job[r].name
        /\ a.skill = job[r].skill
    BY <2>1 DEF Ack
  <2>3. ASSUME NEW b \in acks, a.promotion = b.promotion PROVE a = b
    <3>1. PICK q \in Requests : Accepter(q) /\ b = Ack(q)
      BY DEF SerialInv, AckOfAccepter
    <3>2. b.promotion = promo[q]
      BY <3>1 DEF Ack
    <3>3. q = r
      BY <2>1, <2>2, <2>3, <3>1, <3>2 DEF SerialInv, OneAccepter
    <3> QED
      BY <2>1, <3>1, <3>3
  <2>4. a.outcome = "compiled" => a.name = skills[a.skill].name
    BY <2>1, <2>2 DEF OwnSkill
  <2> QED
    BY <2>3, <2>4
<1> QED
  BY <1>1, SerialInvariant, PTL

-------------------------------------------------------------------------------
(* The ledger: how the two tables are read, and what each action does to   *)
(* that reading.                                                           *)
LEMMA LedgerStarts == Init => Ledger!LedgerInit
BY DEF Init, Ledger!LedgerInit, LedgerAnswer

(* Until the skill is published, the first answer is what is stored. *)
LEMMA FirstAnswerStored ==
  ASSUME StoredAnswers, NEW p \in Promotions, idem[p] # None, idem[p].status # "compiled"
  PROVE  idem[p] \in FirstAnswers(p)
<1>1. ASSUME NEW s \in Requests, idem[p] = Answer(202, "compiled", s) PROVE FALSE
  BY <1>1 DEF Answer
<1> QED
  BY <1>1 DEF StoredAnswers

(* The reading of a row depends on that row alone. *)
LEMMA SameAnswer ==
  ASSUME NEW p \in Promotions, idem'[p] = idem[p]
  PROVE  LedgerAnswer(p)' = LedgerAnswer(p)
BY DEF LedgerAnswer

(* A changed row changes the ledger's answer of its promotion alone. *)
LEMMA AnswerMoves ==
  ASSUME NEW p \in Promotions, NEW a, LedgerAnswer(p)' = a,
         \A q \in Promotions \ {p} : idem'[q] = idem[q]
  PROVE  [q \in Promotions |-> LedgerAnswer(q)]'
           = [[q \in Promotions |-> LedgerAnswer(q)] EXCEPT ![p] = a]
<1>1. \A q \in Promotions : LedgerAnswer(q)' = IF q = p THEN a ELSE LedgerAnswer(q)
  BY SameAnswer
<1> QED
  BY <1>1

(* Steps that leave both tables alone are no steps of the ledger. *)
LEMMA LedgerUnmoved ==
  ASSUME UNCHANGED <<idem, promoted>>
  PROVE  UNCHANGED Ledger!ledgerVars
BY DEF Ledger!ledgerVars, LedgerAnswer

(* A candidate's row is born without a skill. *)
LEMMA PersistCandidateLedger ==
  ASSUME BridgeInv, NEW r \in Requests, PersistCandidate(r)
  PROVE  UNCHANGED Ledger!ledgerVars
<1>1. promoted \in [Promotions -> CandidateSet \cup {None}] /\ promo[r] \in Promotions
  BY DEF BridgeInv, TypeOK, RequestInv, PersistCandidate, Receiving
<1>2. idem' = idem
  BY DEF PersistCandidate
<1>3. ASSUME NEW p \in Promotions
      PROVE  (IF promoted'[p] = None THEN None ELSE promoted'[p].skill)
             = (IF promoted[p] = None THEN None ELSE promoted[p].skill)
  BY <1>1 DEF PersistCandidate
<1> QED
  BY <1>2, <1>3 DEF Ledger!ledgerVars, LedgerAnswer

(* The first answer of a promotion accepts or refuses it. *)
LEMMA RecordAnswerLedger ==
  ASSUME BridgeInv, SerialInv, NEW r \in Requests, RecordAnswer(r)
  PROVE  Ledger!LedgerNext
<1> USE DEF RecordAnswer, BridgeInv, SerialInv
<1> DEFINE p == promo[r]
<1>1. p \in Promotions /\ idem[p] = None /\ reply[r] \in FirstAnswers(p) /\ reply[r] # None
  BY DEF RequestInv, NothingRecordedYet
<1>2. idem'[p] = reply[r] /\ \A q \in Promotions \ {p} : idem'[q] = idem[q]
  BY <1>1 DEF TypeOK
<1>3. LedgerAnswer(p) = "none"
  BY <1>1 DEF LedgerAnswer
<1>4. \A q \in Promotions \ {p} : LedgerAnswer(q)' = LedgerAnswer(q)
  BY <1>2, SameAnswer
<1>5. CASE reply[r].code = 202
  <2>1. LedgerAnswer(p)' = IF p \in SkillPromotions THEN "queued" ELSE "deferred"
    BY <1>1, <1>2, <1>5 DEF LedgerAnswer, FirstAnswers, Answer, KindStatus
  <2>2. Ledger!Accept(p)
    BY <1>1, <1>3, <1>4, <2>1 DEF Ledger!Accept
  <2> QED
    BY <1>1, <2>2 DEF Ledger!LedgerNext
<1>6. CASE reply[r].code = 400
  <2>1. LedgerAnswer(p)' = "refused"
    BY <1>1, <1>2, <1>6 DEF LedgerAnswer
  <2>2. Ledger!Refuse(p)
    BY <1>1, <1>3, <1>4, <2>1 DEF Ledger!Refuse
  <2> QED
    BY <1>1, <2>2 DEF Ledger!LedgerNext
<1> QED
  BY <1>1, <1>5, <1>6 DEF FirstAnswers, Answer

(* The accepter's INSERT compiles a promotion still queued, into a row no  *)
(* promotion has.                                                          *)
LEMMA InsertSkillLedger ==
  ASSUME BridgeInv, SerialInv, NEW r \in Requests, InsertSkill(r)
  PROVE  Ledger!LedgerNext
<1> USE DEF BridgeInv, SerialInv
<1> DEFINE p == promo[r]
           Row(q) == IF promoted[q] = None THEN None ELSE promoted[q].skill
<1>1. /\ pc[r] = "insert" /\ p \in SkillPromotions /\ p \in Promotions
      /\ Visible(p, tenant[r]) /\ skills[r] = None
  BY DEF InsertSkill, RequestInv, JobInv, InsertedInv
<1>2. LedgerAnswer(p) = "queued"
  <2>1. idem[p] # None /\ idem[p].code = 202 /\ idem[p].status # "compiled"
    BY <1>1, NoSkillYet DEF RepliesAgree, Accepts, AnswerSet
  <2>2. idem[p] \in FirstAnswers(p)
    BY <1>1, <2>1, FirstAnswerStored
  <2> QED
    BY <1>1, <2>1, <2>2 DEF FirstAnswers, Answer, KindStatus, LedgerAnswer
<1>3. Row(p) = None
  BY <1>1, NoSkillYet DEF CompiledRowHasSkill, TypeOK
<1>4. \A q \in Promotions : Row(q) # r
  BY <1>1 DEF CompiledRowHasSkill, MadeFrom
<1>5. promoted'[p] # None /\ promoted'[p].skill = r
      /\ \A q \in Promotions \ {p} : promoted'[q] = promoted[q]
  <2> DEFINE candidate == [promoted[p] EXCEPT !.status = "compiled", !.skill = r]
  <2>1. promoted[p] \in CandidateSet /\ promoted' = [promoted EXCEPT ![p] = candidate]
    BY <1>1 DEF InsertSkill, TypeOK, Visible
  <2>2. candidate \in CandidateSet /\ candidate # None /\ candidate.skill = r
    BY <2>1, NoneAssumption DEF CandidateSet
  <2> QED
    BY <1>1, <2>1, <2>2 DEF TypeOK
<1>6. UNCHANGED [q \in Promotions |-> LedgerAnswer(q)]
  BY DEF InsertSkill, LedgerAnswer
<1>7. [q \in Promotions |-> Row(q)]' = [[q \in Promotions |-> Row(q)] EXCEPT ![p] = r]
  <2>1. \A q \in Promotions : Row(q)' = IF q = p THEN r ELSE Row(q)
    BY <1>5
  <2> HIDE DEF Row
  <2> QED
    BY <1>1, <2>1
<1>8. Ledger!Compile(p, r)
  BY <1>1, <1>2, <1>3, <1>4, <1>6, <1>7 DEF Ledger!Compile
<1> QED
  BY <1>1, <1>8 DEF Ledger!LedgerNext

(* Publishing puts the compiled skill into the stored acceptance. *)
LEMMA PublishAnswerLedger ==
  ASSUME BridgeInv, SerialInv, NEW r \in Requests, PublishAnswer(r)
  PROVE  Ledger!LedgerNext
<1> USE DEF PublishAnswer, BridgeInv, SerialInv
<1> DEFINE p == promo[r]
<1>1. /\ pc[r] = "publish" /\ p \in SkillPromotions /\ p \in Promotions
      /\ MadeFrom(job[r].skill, p)
  BY DEF RequestInv, JobInv
<1>2. idem[p] # None /\ idem[p].code = 202 /\ idem[p].status = "queued"
  <2>1. idem[p] # None /\ idem[p].code = 202 /\ idem[p].status # "compiled"
    BY <1>1 DEF RepliesAgree, Accepts, AnswerSet, SkillOfAccepter
  <2>2. idem[p] \in FirstAnswers(p)
    BY <1>1, <2>1, FirstAnswerStored
  <2> QED
    BY <1>1, <2>1, <2>2 DEF FirstAnswers, Answer, KindStatus
<1>3. promoted[p] # None /\ promoted[p].skill # None
  BY <1>1 DEF MadeFrom, SkillStaysInTenant, CompiledRowHasSkill
<1>4. idem'[p] = Answer(202, "compiled", job[r].skill) /\ idem'[p] \in AnswerSet
      /\ \A q \in Promotions \ {p} : idem'[q] = idem[q]
  BY <1>1, <1>2 DEF TypeOK, MadeFrom, Answer, AnswerSet
<1>5. LedgerAnswer(p) = "queued"
  BY <1>2 DEF LedgerAnswer
<1>6. LedgerAnswer(p)' = "published"
  BY <1>4 DEF LedgerAnswer, Answer
<1>7. \A q \in Promotions \ {p} : LedgerAnswer(q)' = LedgerAnswer(q)
  BY <1>4, SameAnswer
<1>8. Ledger!Publish(p)
  BY <1>1, <1>3, <1>5, <1>6, <1>7 DEF Ledger!Publish
<1> QED
  BY <1>1, <1>8 DEF Ledger!LedgerNext

(* Deleting a refusal reopens the promotion. *)
LEMMA ForgetRefusalLedger ==
  ASSUME BridgeInv, NEW p \in Promotions, ForgetRefusal(p)
  PROVE  Ledger!LedgerNext
<1>1. /\ idem[p] # None /\ idem[p].code = 400 /\ idem'[p] = None
      /\ \A q \in Promotions \ {p} : idem'[q] = idem[q]
      /\ promoted' = promoted
  BY DEF ForgetRefusal, BridgeInv, TypeOK
<1>2. LedgerAnswer(p) = "refused" /\ LedgerAnswer(p)' = "none"
  BY <1>1 DEF LedgerAnswer
<1>3. [q \in Promotions |-> LedgerAnswer(q)]'
        = [[q \in Promotions |-> LedgerAnswer(q)] EXCEPT ![p] = "none"]
  BY <1>1, <1>2, AnswerMoves
<1>4. Ledger!Reopen(p)
  BY <1>1, <1>2, <1>3 DEF Ledger!Reopen
<1> QED
  BY <1>4 DEF Ledger!LedgerNext

(* Every step of the bridge is a step of the ledger, or leaves it alone. *)
LEMMA LedgerStep ==
  ASSUME BridgeInv, SerialInv, [Next]_vars
  PROVE  [Ledger!LedgerNext]_(Ledger!ledgerVars)
<1>1. ASSUME NEW r \in Requests, Receive(r)
      PROVE  [Ledger!LedgerNext]_(Ledger!ledgerVars)
  <2>1. CASE CheckIdempotency(r) \/ ResolveTenant(r) \/ Respond(r)
    BY <2>1, LedgerUnmoved DEF CheckIdempotency, ResolveTenant, Respond, dbVars
  <2> QED
    BY <1>1, <2>1, PersistCandidateLedger, RecordAnswerLedger DEF Receive
<1>2. ASSUME NEW r \in Requests, Work(r)
      PROVE  [Ledger!LedgerNext]_(Ledger!ledgerVars)
  <2>1. CASE LoadCandidate(r) \/ ResolveName(r) \/ LoadAckContext(r) \/ SendAck(r)
    BY <2>1, LedgerUnmoved DEF LoadCandidate, ResolveName, LoadAckContext, SendAck, dbVars
  <2> QED
    BY <1>2, <2>1, InsertSkillLedger, PublishAnswerLedger DEF Work
<1>3. ASSUME NEW r \in Requests, RejectDelivery(r) \/ Stop(r) \/ \E p \in Promotions : Deliver(r, p)
      PROVE  [Ledger!LedgerNext]_(Ledger!ledgerVars)
  BY <1>3, LedgerUnmoved DEF RejectDelivery, Stop, Deliver, dbVars
<1>4. ASSUME NEW s \in Sources, NEW t \in Tenants \cup {None}, SetMapping(s, t)
      PROVE  [Ledger!LedgerNext]_(Ledger!ledgerVars)
  BY <1>4, LedgerUnmoved DEF SetMapping
<1>5. ASSUME NEW p \in Promotions, ForgetRefusal(p)
      PROVE  [Ledger!LedgerNext]_(Ledger!ledgerVars)
  BY <1>5, ForgetRefusalLedger
<1>6. ASSUME NEW t \in Tenants, NEW n \in Names, CreateAgentSkill(t, n)
      PROVE  [Ledger!LedgerNext]_(Ledger!ledgerVars)
  BY <1>6, LedgerUnmoved DEF CreateAgentSkill
<1>7. CASE UNCHANGED vars
  BY <1>7, LedgerUnmoved DEF vars, dbVars
<1> QED
  BY <1>1, <1>2, <1>3, <1>4, <1>5, <1>6, <1>7 DEF Next

(* The receiver and its compile tasks implement the ledger of promotions,  *)
(* for any promotions, tenants, requests and stops.                        *)
THEOREM LedgerImplemented == ASSUME Overlap = FALSE PROVE Spec => ImplementsLedger
BY BridgeInvariant, SerialInvariant, LedgerStarts, LedgerStep, PTL
   DEF Spec, ImplementsLedger, Ledger!LedgerSpec
=============================================================================
