-------------------------------- MODULE Bridge --------------------------------
(***************************************************************************)
(* The receiving half of the skill-making bridge.  The-loom POSTs          *)
(* promotion candidates; each POST is handled by one coroutine that first  *)
(* runs receive_promotion_candidate (services/skill_making/                *)
(* bridge_receiver.py), sends the response, and then, for a freshly        *)
(* accepted skill, runs compile_and_ack (compile_worker.py) as a           *)
(* BackgroundTask.  Every database call is a transaction of its own behind *)
(* an await, so coroutines interleave between any two of them, and a       *)
(* coroutine may stop at any of them: a database error, a cancelled        *)
(* request or the death of its worker process.                             *)
(*                                                                         *)
(* A request handles one delivery and is never reused.  The id of the      *)
(* student_skills row its compile task inserts (gen_random_uuid(), one     *)
(* INSERT per task) is named by the request itself: ids are fresh.         *)
(*                                                                         *)
(* Overlap says whether the-loom may have two POSTs of one promotion_id    *)
(* in the receiver at the same time (a retry after a client timeout) or    *)
(* starts one only when no other is being received.                        *)
(***************************************************************************)
EXTENDS Naturals

CONSTANTS
  Promotions,       \* promotion_ids
  SkillPromotions,  \* promotions with candidate_kind = skill
  Sources,          \* source-side (the-loom) tenant ids
  SourceOf,         \* payload.tenant_id of each promotion
  Tenants,          \* engine-side tenant ids
  BaseNames,        \* suggested skill names
  NameOf,           \* payload.source.frontmatter.name of each promotion
  Requests,         \* POSTs the-loom makes
  None,
  Overlap,          \* may POSTs of one promotion overlap?
  MAX_COLLISION_SUFFIX_ATTEMPTS,
  RETRY_ATTEMPTS,
  MaxStops,         \* bound: coroutines that stop half-way
  MaxOperator       \* bound: rows the operator and other users write

ASSUME BridgeAssumption ==
  /\ SkillPromotions \subseteq Promotions
  /\ SourceOf \in [Promotions -> Sources]
  /\ NameOf \in [Promotions -> BaseNames]
  /\ Overlap \in BOOLEAN
  /\ {MAX_COLLISION_SUFFIX_ATTEMPTS, MaxStops, MaxOperator} \subseteq Nat
  /\ RETRY_ATTEMPTS \in Nat \ {0}

VARIABLES
  (* Postgres *)
  mapping,    \* tenant_id_mapping: Sources -> Tenants, None if no row
  idem,       \* bridge_idempotency: promotion -> stored answer, or None
  promoted,   \* promoted_skills: promotion -> row, or None
  skills,     \* student_skills inserted by compile tasks, by row id
  userNames,  \* <<tenant, name>> of the other student_skills rows
  (* one coroutine per request *)
  pc,         \* the next transaction or network call of the request
  promo,      \* the promotion it delivers
  tenant,     \* engine_tenant_id it resolved
  reply,      \* the ReceiverResult it is going to send, or has sent
  job,        \* the CompiledSkillResult of its compile task
  tries,      \* ack POSTs its compile task has made
  (* outside *)
  acks,       \* registration acks the-loom has received
  (* history *)
  raced,      \* tasks that had chosen a name when their tenant got another row
  stops, operated   \* how much of the two bounds is used

dbVars  == <<mapping, idem, promoted, skills, userNames, raced>>
vars    == <<dbVars, pc, promo, tenant, reply, job, tries, acks, stops, operated>>

-------------------------------------------------------------------------------
(* Names, answers and rows. A name is a base name with the number of its   *)
(* '-promoted-N' suffix, 0 for none.                                       *)

Names == BaseNames \X (0 .. MAX_COLLISION_SUFFIX_ATTEMPTS)

Answer(code, status, skill) == [code |-> code, status |-> status, skill |-> skill]

AnswerSet == [code : {202, 400, 401, 409},
              status : {"queued", "kind_not_yet_handled", "compiled",
                        "unknown_source_tenant", "schema_invalid", "hmac_invalid"},
              skill : Requests \cup {None}]
CandidateSet == [tenant : Tenants, status : {"queued", "kind_not_yet_handled", "compiled"},
                 skill : Requests \cup {None}]
SkillSet == [tenant : Tenants, name : Names, by : Promotions]
JobSet == [outcome : {"compiled", "rejected"}, skill : Requests \cup {None},
           name : Names \cup {None}]
AckSet == [promotion : Promotions, outcome : {"compiled", "rejected"},
           skill : Requests \cup {None}, name : Names \cup {None}, source : Sources]

(* None stands for SQL NULL, Python None and "no row": no value is None. *)
ASSUME NoneAssumption ==
  None \notin Promotions \cup Tenants \cup Requests \cup Names
              \cup AnswerSet \cup CandidateSet \cup SkillSet \cup JobSet

Receiving == {"check", "resolve", "persist", "record", "respond"}
Working   == {"load", "name", "insert", "publish", "context", "ack"}

Init ==
  /\ mapping \in [Sources -> Tenants \cup {None}]
  /\ idem = [p \in Promotions |-> None]
  /\ promoted = [p \in Promotions |-> None]
  /\ skills = [r \in Requests |-> None]
  /\ userNames = {}
  /\ pc = [r \in Requests |-> "idle"]
  /\ promo = [r \in Requests |-> None]
  /\ tenant = [r \in Requests |-> None]
  /\ reply = [r \in Requests |-> None]
  /\ job = [r \in Requests |-> None]
  /\ tries = [r \in Requests |-> 0]
  /\ acks = {} /\ raced = {}
  /\ stops = 0 /\ operated = 0

-------------------------------------------------------------------------------
(* The receiver.                                                           *)

(* A signed, well-formed POST arrives: signature and schema checks run     *)
(* without an await, up to the first database call.                        *)
Deliver(r, p) ==
  /\ pc[r] = "idle"
  /\ Overlap \/ \A q \in Requests : ~(promo[q] = p /\ pc[q] \in Receiving)
  /\ promo' = [promo EXCEPT ![r] = p]
  /\ pc' = [pc EXCEPT ![r] = "check"]
  /\ UNCHANGED <<dbVars, tenant, reply, job, tries, acks, stops, operated>>

(* A POST whose signature or body does not check out is answered before    *)
(* any database call.                                                      *)
RejectDelivery(r) ==
  /\ pc[r] = "idle"
  /\ \E rejection \in {Answer(401, "hmac_invalid", None), Answer(400, "schema_invalid", None)} :
        reply' = [reply EXCEPT ![r] = rejection]
  /\ pc' = [pc EXCEPT ![r] = "done"]
  /\ UNCHANGED <<dbVars, promo, tenant, job, tries, acks, stops, operated>>

(* Mutant: every stored answer is replayed as 409, a refusal too. *)
ReplayAnyAs409(prior) == [prior EXCEPT !.code = 409]

(* get_existing: a stored answer is replayed, a 202 as 409. *)
Replay(prior) == IF prior.code = 202 THEN [prior EXCEPT !.code = 409] ELSE prior

(* Mutant: a promotion still queued is received again. *)
CheckIdempotencyRequeues(r) ==
  LET prior == idem[promo[r]] IN
  /\ pc[r] = "check"
  /\ \/ /\ (prior # None => prior.status = "queued")
        /\ pc' = [pc EXCEPT ![r] = "resolve"]
        /\ UNCHANGED reply
     \/ /\ prior # None /\ prior.status # "queued"
        /\ reply' = [reply EXCEPT ![r] = Replay(prior)]
        /\ pc' = [pc EXCEPT ![r] = "respond"]
  /\ UNCHANGED <<dbVars, promo, tenant, job, tries, acks, stops, operated>>

CheckIdempotency(r) ==
  LET prior == idem[promo[r]] IN
  /\ pc[r] = "check"
  /\ \/ /\ prior = None
        /\ pc' = [pc EXCEPT ![r] = "resolve"]
        /\ UNCHANGED reply
     \/ /\ prior # None
        /\ reply' = [reply EXCEPT ![r] = Replay(prior)]
        /\ pc' = [pc EXCEPT ![r] = "respond"]
  /\ UNCHANGED <<dbVars, promo, tenant, job, tries, acks, stops, operated>>

(* resolve_engine_tenant: an unmapped source tenant is refused. *)
ResolveTenant(r) ==
  LET mapped == mapping[SourceOf[promo[r]]] IN
  /\ pc[r] = "resolve"
  /\ \/ /\ mapped # None
        /\ tenant' = [tenant EXCEPT ![r] = mapped]
        /\ pc' = [pc EXCEPT ![r] = "persist"]
        /\ UNCHANGED reply
     \/ /\ mapped = None
        /\ reply' = [reply EXCEPT ![r] = Answer(400, "unknown_source_tenant", None)]
        /\ pc' = [pc EXCEPT ![r] = "record"]
        /\ UNCHANGED tenant
  /\ UNCHANGED <<dbVars, promo, job, tries, acks, stops, operated>>

KindStatus(p) == IF p \in SkillPromotions THEN "queued" ELSE "kind_not_yet_handled"

(* Mutant: ON CONFLICT DO UPDATE SET status, so a late delivery requeues. *)
PersistCandidateRequeues(r) ==
  LET p == promo[r] IN
  /\ pc[r] = "persist"
  /\ promoted' = [promoted EXCEPT ![p] =
        IF @ = None THEN [tenant |-> tenant[r], status |-> KindStatus(p), skill |-> None]
        ELSE [@ EXCEPT !.status = KindStatus(p)]]
  /\ reply' = [reply EXCEPT ![r] = Answer(202, KindStatus(p), None)]
  /\ pc' = [pc EXCEPT ![r] = "record"]
  /\ UNCHANGED <<mapping, idem, skills, userNames, raced, promo, tenant, job, tries, acks,
                 stops, operated>>

(* _persist_candidate: INSERT ... ON CONFLICT (promotion_id) DO NOTHING. *)
PersistCandidate(r) ==
  LET p == promo[r] IN
  /\ pc[r] = "persist"
  /\ promoted' = [promoted EXCEPT ![p] =
        IF @ = None THEN [tenant |-> tenant[r], status |-> KindStatus(p), skill |-> None] ELSE @]
  /\ reply' = [reply EXCEPT ![r] = Answer(202, KindStatus(p), None)]
  /\ pc' = [pc EXCEPT ![r] = "record"]
  /\ UNCHANGED <<mapping, idem, skills, userNames, raced, promo, tenant, job, tries, acks,
                 stops, operated>>

(* Mutant: ON CONFLICT DO UPDATE, the last writer's answer stays. *)
RecordAnswerOverwrites(r) ==
  /\ pc[r] = "record"
  /\ idem' = [idem EXCEPT ![promo[r]] = reply[r]]
  /\ pc' = [pc EXCEPT ![r] = "respond"]
  /\ UNCHANGED <<mapping, promoted, skills, userNames, raced, promo, tenant, reply, job, tries,
                 acks, stops, operated>>

(* record: INSERT ... ON CONFLICT (promotion_id) DO NOTHING. The request   *)
(* keeps its own answer, whoever won.                                      *)
RecordAnswer(r) ==
  /\ pc[r] = "record"
  /\ idem' = [idem EXCEPT ![promo[r]] = IF @ = None THEN reply[r] ELSE @]
  /\ pc' = [pc EXCEPT ![r] = "respond"]
  /\ UNCHANGED <<mapping, promoted, skills, userNames, raced, promo, tenant, reply, job, tries,
                 acks, stops, operated>>

(* Mutant: a candidate of any kind is compiled. *)
AcceptedAnyKind(r) == reply[r].code = 202

(* The response goes out; the route has scheduled compile_and_ack if this  *)
(* very request accepted a skill.                                          *)
AcceptedSkill(r) == reply[r].code = 202 /\ promo[r] \in SkillPromotions

Respond(r) ==
  /\ pc[r] = "respond"
  /\ pc' = [pc EXCEPT ![r] = IF AcceptedSkill(r) THEN "load" ELSE "done"]
  /\ UNCHANGED <<dbVars, promo, tenant, reply, job, tries, acks, stops, operated>>

-------------------------------------------------------------------------------
(* The compile task.                                                       *)

(* Mutant: no row-level security. *)
VisibleToAll(p, t) == promoted[p] # None

(* promoted_skills is under row-level security: a transaction scoped to    *)
(* tenant t sees the row of p only if t owns it.                           *)
Visible(p, t) == promoted[p] # None /\ promoted[p].tenant = t

Job(outcome, skill, name) == [outcome |-> outcome, skill |-> skill, name |-> name]

(* Mutants: a rejected compile is published too; none is published. *)
CompiledAlwaysPublishes(r, result) ==
  /\ job' = [job EXCEPT ![r] = result]
  /\ pc' = [pc EXCEPT ![r] = "publish"]

CompiledNeverPublishes(r, result) ==
  /\ job' = [job EXCEPT ![r] = result]
  /\ pc' = [pc EXCEPT ![r] = "context"]

(* The compile returned: a compiled result is first written into the       *)
(* idempotency row, a rejected one goes straight to the ack.               *)
Compiled(r, result) ==
  /\ job' = [job EXCEPT ![r] = result]
  /\ pc' = [pc EXCEPT ![r] = IF result.outcome = "compiled" THEN "publish" ELSE "context"]

(* First transaction of compile_from_bridge_candidate. *)
LoadCandidate(r) ==
  LET p == promo[r]
      row == promoted[p]
  IN
  /\ pc[r] = "load"
  /\ \/ /\ Visible(p, tenant[r]) /\ row.status = "queued"
        /\ pc' = [pc EXCEPT ![r] = "name"]
        /\ UNCHANGED job
     \/ /\ Visible(p, tenant[r]) /\ row.status = "compiled"
        /\ Compiled(r, Job("compiled", row.skill, <<NameOf[p], 0>>))
     \/ /\ ~(Visible(p, tenant[r]) /\ row.status \in {"queued", "compiled"})
        /\ Compiled(r, Job("rejected", None, None))
  /\ UNCHANGED <<dbVars, promo, tenant, reply, tries, acks, stops, operated>>

(* Mutant: the names of compiled skills are not looked at. *)
TakenByUsers(t) == {n \in Names : <<t, n>> \in userNames}

TakenNames(t) ==
  {skills[r].name : r \in {q \in Requests : skills[q] # None /\ skills[q].tenant = t}}
    \cup {n \in Names : <<t, n>> \in userNames}

(* The suffixes _resolve_name_collision may choose: the least free one. *)
FreeSuffixes(base, taken) ==
  {i \in 0 .. MAX_COLLISION_SUFFIX_ATTEMPTS : <<base, i>> \notin taken}

ResolveName(r) ==
  LET base == NameOf[promo[r]]
      free == FreeSuffixes(base, TakenNames(tenant[r]))
  IN
  /\ pc[r] = "name"
  /\ \/ \E i \in free :
          /\ \A k \in free : i <= k
          /\ job' = [job EXCEPT ![r] = Job("compiled", None, <<base, i>>)]
          /\ pc' = [pc EXCEPT ![r] = "insert"]
     \/ /\ free = {}
        /\ Compiled(r, Job("rejected", None, None))
  /\ UNCHANGED <<dbVars, promo, tenant, reply, tries, acks, stops, operated>>

(* The tasks that have chosen a name for this tenant. *)
AboutToInsert(t) == {r \in Requests : pc[r] = "insert" /\ tenant[r] = t}

(* Last transaction of compile_from_bridge_candidate: the INSERT into      *)
(* student_skills and the UPDATE of promoted_skills commit together.       *)
InsertSkill(r) ==
  LET p == promo[r] IN
  /\ pc[r] = "insert"
  /\ skills' = [skills EXCEPT ![r] = [tenant |-> tenant[r], name |-> job[r].name, by |-> p]]
  /\ promoted' = [promoted EXCEPT ![p] =
        IF Visible(p, tenant[r]) THEN [@ EXCEPT !.status = "compiled", !.skill = r] ELSE @]
  /\ Compiled(r, [job[r] EXCEPT !.skill = r])
  /\ raced' = raced \cup (AboutToInsert(tenant[r]) \ {r})
  /\ UNCHANGED <<mapping, idem, userNames, promo, tenant, reply, tries, acks, stops,
                 operated>>

(* update_response: the stored body becomes the compiled one, the stored   *)
(* code stays.                                                             *)
PublishAnswer(r) ==
  LET p == promo[r] IN
  /\ pc[r] = "publish"
  /\ idem' = [idem EXCEPT ![p] =
        IF @ = None THEN None ELSE Answer(@.code, "compiled", job[r].skill)]
  /\ pc' = [pc EXCEPT ![r] = "context"]
  /\ UNCHANGED <<mapping, promoted, skills, userNames, raced, promo, tenant, reply, job, tries,
                 acks, stops, operated>>

(* _load_ack_context: no visible row, no ack. *)
LoadAckContext(r) ==
  /\ pc[r] = "context"
  /\ pc' = [pc EXCEPT ![r] = IF Visible(promo[r], tenant[r]) THEN "ack" ELSE "done"]
  /\ UNCHANGED <<dbVars, promo, tenant, reply, job, tries, acks, stops, operated>>

(* Mutants: the ack names the suggested name, or reports success always. *)
AckSuggestedName(r) ==
  [promotion |-> promo[r], outcome |-> job[r].outcome, skill |-> job[r].skill,
   name |-> IF job[r].skill = None THEN None ELSE <<NameOf[promo[r]], 0>>,
   source |-> SourceOf[promo[r]]]

AckAlwaysCompiled(r) ==
  [promotion |-> promo[r], outcome |-> "compiled", skill |-> job[r].skill,
   name |-> job[r].name, source |-> SourceOf[promo[r]]]

Ack(r) == [promotion |-> promo[r], outcome |-> job[r].outcome, skill |-> job[r].skill,
           name |-> job[r].name, source |-> SourceOf[promo[r]]]

(* Mutant: one POST too many. *)
SendAckOnceMore(r) ==
  /\ pc[r] = "ack"
  /\ \E taken \in BOOLEAN, ended \in BOOLEAN :
        /\ acks' = IF taken THEN acks \cup {Ack(r)} ELSE acks
        /\ tries' = [tries EXCEPT ![r] = @ + 1]
        /\ pc' = [pc EXCEPT ![r] =
                    IF ended \/ tries[r] = RETRY_ATTEMPTS THEN "done" ELSE "ack"]
  /\ UNCHANGED <<dbVars, promo, tenant, reply, job, stops, operated>>

(* One POST of send_registration_ack. The-loom may take the ack and the    *)
(* engine still see a timeout or a 5xx, in which case it POSTs again until *)
(* RETRY_ATTEMPTS; a 2xx and a 4xx end the task.                           *)
SendAck(r) ==
  /\ pc[r] = "ack"
  /\ \E taken \in BOOLEAN, ended \in BOOLEAN :
        /\ acks' = IF taken THEN acks \cup {Ack(r)} ELSE acks
        /\ tries' = [tries EXCEPT ![r] = @ + 1]
        /\ pc' = [pc EXCEPT ![r] =
                    IF ended \/ tries[r] + 1 = RETRY_ATTEMPTS THEN "done" ELSE "ack"]
  /\ UNCHANGED <<dbVars, promo, tenant, reply, job, stops, operated>>

-------------------------------------------------------------------------------
(* The environment.                                                        *)

(* A coroutine stops: its next database call raised, or its worker died.   *)
(* What it committed stays; a receiver that stops never sends its reply.   *)
Stop(r) ==
  /\ pc[r] \in Receiving \cup Working
  /\ stops < MaxStops
  /\ stops' = stops + 1
  /\ pc' = [pc EXCEPT ![r] = IF pc[r] \in Receiving THEN "failed" ELSE "done"]
  /\ UNCHANGED <<dbVars, promo, tenant, reply, job, tries, acks, operated>>

(* The operator maps a source tenant, or removes its mapping. *)
SetMapping(s, t) ==
  /\ operated < MaxOperator
  /\ (mapping[s] = None) # (t = None)
  /\ mapping' = [mapping EXCEPT ![s] = t]
  /\ operated' = operated + 1
  /\ UNCHANGED <<idem, promoted, skills, userNames, raced, pc, promo, tenant, reply, job, tries,
                 acks, stops>>

(* The operator deletes a recorded 400, as the receiver's comment tells    *)
(* them to after adding a mapping.                                         *)
ForgetRefusal(p) ==
  /\ operated < MaxOperator
  /\ idem[p] # None /\ idem[p].code = 400
  /\ idem' = [idem EXCEPT ![p] = None]
  /\ operated' = operated + 1
  /\ UNCHANGED <<mapping, promoted, skills, userNames, raced, pc, promo, tenant, reply, job,
                 tries, acks, stops>>

(* A user creates an agent with a skill of this name. *)
CreateAgentSkill(t, n) ==
  /\ operated < MaxOperator
  /\ <<t, n>> \notin userNames
  /\ userNames' = userNames \cup {<<t, n>>}
  /\ raced' = raced \cup AboutToInsert(t)
  /\ operated' = operated + 1
  /\ UNCHANGED <<mapping, idem, promoted, skills, pc, promo, tenant, reply, job, tries,
                 acks, stops>>

Receive(r) == \/ CheckIdempotency(r) \/ ResolveTenant(r) \/ PersistCandidate(r)
              \/ RecordAnswer(r) \/ Respond(r)

Work(r) == \/ LoadCandidate(r) \/ ResolveName(r) \/ InsertSkill(r)
           \/ PublishAnswer(r) \/ LoadAckContext(r) \/ SendAck(r)

Next ==
  \/ \E r \in Requests :
        \/ RejectDelivery(r) \/ Receive(r) \/ Work(r) \/ Stop(r)
        \/ \E p \in Promotions : Deliver(r, p)
  \/ \E s \in Sources, t \in Tenants \cup {None} : SetMapping(s, t)
  \/ \E p \in Promotions : ForgetRefusal(p)
  \/ \E t \in Tenants, n \in Names : CreateAgentSkill(t, n)

Spec == Init /\ [][Next]_vars

(* The event loop runs every ready coroutine: a request that has arrived   *)
(* takes its next step. Nobody promises further POSTs.                     *)
FairSpec == Spec /\ \A r \in Requests : WF_vars(Receive(r)) /\ WF_vars(Work(r))
=============================================================================
