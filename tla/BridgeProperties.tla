--------------------------- MODULE BridgeProperties ---------------------------
(***************************************************************************)
(* What must hold of module Bridge.  The first group holds whatever the    *)
(* requests interleave; the second needs the-loom not to overlap two POSTs *)
(* of one promotion_id (Overlap = FALSE), and fails without it.            *)
(***************************************************************************)
EXTENDS Bridge, FiniteSets

TypeOK ==
  /\ mapping \in [Sources -> Tenants \cup {None}]
  /\ idem \in [Promotions -> AnswerSet \cup {None}]
  /\ promoted \in [Promotions -> CandidateSet \cup {None}]
  /\ skills \in [Requests -> SkillSet \cup {None}]
  /\ userNames \subseteq Tenants \X Names
  /\ pc \in [Requests -> {"idle", "failed", "done"} \cup Receiving \cup Working]
  /\ promo \in [Requests -> Promotions \cup {None}]
  /\ tenant \in [Requests -> Tenants \cup {None}]
  /\ reply \in [Requests -> AnswerSet \cup {None}]
  /\ job \in [Requests -> JobSet \cup {None}]
  /\ tries \in [Requests -> 0 .. RETRY_ATTEMPTS]
  /\ acks \subseteq AckSet /\ raced \subseteq Requests
  /\ stops \in 0 .. MaxStops
  /\ operated \in 0 .. MaxOperator

-------------------------------------------------------------------------------
(* Every interleaving. *)

(* s is a skill this promotion was compiled into. *)
MadeFrom(s, p) == s \in Requests /\ skills[s] # None /\ skills[s].by = p

(* A promoted_skills row marked compiled points at a student_skills row    *)
(* made from it, in the row's own tenant, although the compile spans three *)
(* transactions and another task may be compiling the same row.            *)
CompiledRowHasSkill ==
  \A p \in Promotions : promoted[p] # None =>
    /\ (promoted[p].status = "compiled") = (promoted[p].skill # None)
    /\ promoted[p].skill # None =>
         /\ MadeFrom(promoted[p].skill, p)
         /\ skills[promoted[p].skill].tenant = promoted[p].tenant

(* No skill lands in a tenant that does not own the candidate it came      *)
(* from, even if the source tenant was mapped elsewhere between two        *)
(* deliveries; and only a candidate of kind skill is ever compiled.        *)
SkillStaysInTenant ==
  \A s \in Requests : skills[s] # None =>
    LET p == skills[s].by IN
    /\ p \in SkillPromotions
    /\ promoted[p] # None /\ promoted[p].status = "compiled"
    /\ promoted[p].tenant = skills[s].tenant

(* The existing_skill_id a 409 replay surfaces is a real skill of that     *)
(* promotion: update_response runs in its own transaction after the        *)
(* compile, and must never get ahead of it or mix promotions up.           *)
PublishedSkillExists ==
  \A p \in Promotions : idem[p] # None /\ idem[p].status = "compiled" =>
    MadeFrom(idem[p].skill, p)

(* An ack of outcome compiled names a real skill of the acked promotion    *)
(* and the-loom's own tenant id; the-loom registers what it is told.       *)
AckedSkillExists ==
  \A a \in acks :
    /\ a.source = SourceOf[a.promotion]
    /\ IF a.outcome = "compiled" THEN MadeFrom(a.skill, a.promotion) ELSE a.skill = None

(* Tasks of one tenant choose their names from what is taken and insert in *)
(* another transaction: two skills of a tenant share a name only if one of *)
(* the two tasks was about to insert when another row came in; a task that *)
(* nobody came in between inserts a name which is still free.              *)
NamesDifferUnlessRaced ==
  /\ \A s, q \in Requests : skills[s] # None /\ skills[q] # None /\ s # q =>
       \/ skills[s].tenant # skills[q].tenant
       \/ skills[s].name # skills[q].name
       \/ s \in raced \/ q \in raced
  /\ \A r \in Requests : pc[r] = "insert" =>
       r \in raced \/ job[r].name \notin TakenNames(tenant[r])

(* Someone who sees the row of p is on the way to compile it, or to        *)
(* publish what it was compiled into.                                      *)
IsTaskOf(r, p) ==
  /\ promo[r] = p /\ tenant[r] = promoted[p].tenant
  /\ reply[r] # None /\ reply[r].code = 202
  /\ pc[r] \in IF promoted[p].status = "queued"
               THEN {"record", "respond", "load", "name", "insert"}
               ELSE {"respond", "load", "publish"}

HasTask(p) == \E r \in Requests : IsTaskOf(r, p)

(* A task that sees the row of p found every suffix of its name taken.     *)
GaveUp(r, p) ==
  /\ promo[r] = p /\ tenant[r] = promoted[p].tenant
  /\ pc[r] \in {"context", "ack", "done"} /\ job[r] # None /\ job[r].outcome = "rejected"

NoNameLeft(p) ==
  /\ promoted[p] # None /\ promoted[p].status = "queued"
  /\ \E r \in Requests : GaveUp(r, p)

(* p was compiled before its answer was stored, the answer being that of a *)
(* request whose tenant does not see the row: its source was mapped        *)
(* elsewhere meanwhile.                                                    *)
IsElsewhere(r, p) == promo[r] = p /\ tenant[r] \notin {None, promoted[p].tenant}

Stranded(p) ==
  /\ promoted[p] # None /\ promoted[p].status = "compiled" /\ ~HasTask(p)
  /\ \E r \in Requests : IsElsewhere(r, p)

(* No promotion waits for nobody: only the request that was answered 202   *)
(* brings a task, and of several that overlap some belong to tenants that  *)
(* do not see the row.  As long as no coroutine has stopped half-way, a    *)
(* promotion whose answer says queued has a task that will change that,    *)
(* unless it is out of names or stranded.                                  *)
QueuedIsWorkedOn ==
  stops = 0 =>
    \A p \in Promotions : idem[p] # None /\ idem[p].status = "queued" =>
      HasTask(p) \/ NoNameLeft(p) \/ Stranded(p)

(* A stored answer keeps its status code for good, and its body changes    *)
(* only into the compiled one; only the operator takes it away, and only   *)
(* a refusal.                                                              *)
StoredAnswerKept ==
  [][\A p \in Promotions : idem[p] # None /\ idem'[p] # idem[p] =>
       IF idem'[p] = None THEN idem[p].code = 400
       ELSE idem'[p].code = idem[p].code /\ idem'[p].status = "compiled"]_vars

-------------------------------------------------------------------------------
(* The inductive invariant behind the first group: what a coroutine knows  *)
(* at each of its steps, although others ran at every await in between.    *)

(* A request past the resolver has a tenant; one that works has accepted a *)
(* skill; its retries are counted from zero.                               *)
RequestInv ==
  \A r \in Requests :
    /\ pc[r] \in Receiving \cup Working => promo[r] \in Promotions
    /\ pc[r] \in {"persist"} \cup Working => tenant[r] \in Tenants
    /\ pc[r] \in {"record", "respond"} =>
         reply[r] \in AnswerSet /\ (reply[r].code = 202 => tenant[r] \in Tenants)
    /\ pc[r] = "record" => reply[r].status # "compiled"
    /\ pc[r] \in Working => promo[r] \in SkillPromotions
    /\ pc[r] \notin {"ack", "done"} => tries[r] = 0
    /\ pc[r] = "ack" => tries[r] < RETRY_ATTEMPTS

(* A task that chose a name still sees its row, and a finished compile     *)
(* holds a skill of its promotion.                                         *)
JobInv ==
  \A r \in Requests :
    /\ pc[r] \in {"name", "insert"} => Visible(promo[r], tenant[r])
    /\ pc[r] \in {"insert", "publish", "context", "ack"} => job[r] \in JobSet
    /\ pc[r] = "insert" => job[r].name \in Names
    /\ pc[r] \in {"insert", "publish"} => job[r].outcome = "compiled"
    /\ pc[r] \in {"publish", "context", "ack"} =>
         IF job[r].outcome = "compiled" THEN MadeFrom(job[r].skill, promo[r])
         ELSE job[r].skill = None

(* A request's row exists only after its own INSERT. *)
InsertedInv ==
  \A r \in Requests : skills[r] # None =>
    pc[r] \in {"publish", "context", "ack", "done"}

BridgeInv ==
  /\ TypeOK /\ RequestInv /\ JobInv /\ InsertedInv
  /\ CompiledRowHasSkill /\ SkillStaysInTenant
  /\ PublishedSkillExists /\ AckedSkillExists

(* What QueuedIsWorkedOn rests on, together with BridgeInv: nobody has a   *)
(* tenant before it resolves one, only who was answered 202 works, an      *)
(* answer that says queued has a row, and a queued row has a task, its     *)
(* answer stored or not.                                                   *)
RequestsProgress ==
  \A r \in Requests :
    /\ pc[r] \in {"idle", "check", "resolve"} => tenant[r] = None
    /\ pc[r] \in Working => reply[r] # None /\ reply[r].code = 202

HasSkillRow(p) ==
  /\ p \in SkillPromotions
  /\ promoted[p] # None /\ promoted[p].status \in {"queued", "compiled"}

AnswersHaveRows ==
  /\ \A p \in Promotions :
       /\ promoted[p] # None => promoted[p].status \in {KindStatus(p), "compiled"}
       /\ idem[p] # None /\ idem[p].status = "queued" => HasSkillRow(p)
  /\ \A r \in Requests : pc[r] = "record" =>
       /\ reply[r].status = "queued" => reply[r].code = 202
       /\ reply[r].status = "queued" => HasSkillRow(promo[r])

RowsAreWorkedOn ==
  stops = 0 =>
    \A p \in Promotions : promoted[p] # None /\ promoted[p].status = "queued" =>
      HasTask(p) \/ NoNameLeft(p)

QueuedInv == RequestsProgress /\ AnswersHaveRows /\ RowsAreWorkedOn /\ QueuedIsWorkedOn

-------------------------------------------------------------------------------
(* Without overlapping POSTs of one promotion. *)

(* A promotion is compiled into at most one skill, whatever stops where    *)
(* and however often the-loom retries.                                     *)
OneSkillPerPromotion ==
  \A s, t \in Requests : skills[s] # None /\ skills[t] # None =>
    (skills[s].by = skills[t].by => s = t)

(* Every response agrees with the stored answer at the moment it leaves,   *)
(* and an acceptance is never taken back: all later answers are 409s of    *)
(* the same acceptance, naming the same skill once they name one.          *)
Accepts(a) == a.code \in {202, 409}

AnswersCanonical ==
  \A r \in Requests :
    LET stored == idem[promo[r]] IN
    /\ pc[r] = "respond" => Accepts(reply[r]) = (stored # None /\ stored.code = 202)
    /\ pc[r] \in Working \cup {"done"} /\ promo[r] # None /\ Accepts(reply[r]) =>
         /\ stored # None /\ stored.code = 202
         /\ reply[r].skill # None => reply[r].skill = stored.skill

(* The-loom never hears both compiled and rejected of one promotion, nor   *)
(* two skills, nor a name other than the one the skill was stored under.   *)
AcksAgree ==
  \A a \in acks :
    /\ \A b \in acks : a.promotion = b.promotion => a = b
    /\ a.outcome = "compiled" => a.name = skills[a.skill].name

(* What these rest on: the inductive invariant of serial deliveries,       *)
(* together with BridgeInv.                                                *)
OneReceiver ==
  \A r, q \in Requests :
    pc[r] \in Receiving /\ pc[q] \in Receiving /\ promo[r] = promo[q] => r = q

(* The request whose acceptance was stored; it is the one that compiles.   *)
Answered == {"respond", "done"} \cup Working
Accepter(r) == pc[r] \in Answered /\ reply[r] # None /\ reply[r].code = 202

OneAccepter ==
  \A r, q \in Requests : Accepter(r) /\ Accepter(q) /\ promo[r] = promo[q] => r = q

FirstAnswers(p) ==
  {Answer(202, KindStatus(p), None), Answer(400, "unknown_source_tenant", None)}

(* Whoever found no answer still finds none when it records its own.       *)
NothingRecordedYet ==
  \A r \in Requests :
    /\ pc[r] \in {"resolve", "persist", "record"} => idem[promo[r]] = None
    /\ pc[r] = "record" => reply[r] \in FirstAnswers(promo[r])

(* What is stored is a first answer, or the acceptance of a skill with the *)
(* skill it was compiled into.                                             *)
StoredAnswers ==
  \A p \in Promotions : idem[p] # None =>
    \/ idem[p] \in FirstAnswers(p)
    \/ /\ p \in SkillPromotions
       /\ \E s \in Requests : idem[p] = Answer(202, "compiled", s)

(* Replies agree with what is stored, from the moment they are known.      *)
RepliesAgree ==
  \A r \in Requests : pc[r] \in Answered =>
    /\ reply[r] \in AnswerSet
    /\ pc[r] \in Working => reply[r].code = 202
    /\ promo[r] # None /\ Accepts(reply[r]) =>
         /\ idem[promo[r]] # None /\ idem[promo[r]].code = 202
         /\ reply[r].skill # None => reply[r].skill = idem[promo[r]].skill
    /\ pc[r] = "respond" /\ ~Accepts(reply[r]) =>
         ~(idem[promo[r]] # None /\ idem[promo[r]].code = 202)

(* A skill was inserted by the accepter's task, which publishes it once.   *)
SkillOfAccepter ==
  \A s \in Requests :
    /\ skills[s] # None => Accepter(s) /\ promo[s] = skills[s].by
    /\ pc[s] = "publish" => idem[promo[s]].status # "compiled"

OwnSkill(r) == job[r].outcome = "compiled" => job[r].skill = r /\ job[r].name = skills[r].name

OwnJob == \A r \in Requests : pc[r] \in {"publish", "context", "ack"} => OwnSkill(r)

AckOfAccepter ==
  \A a \in acks : \E r \in Requests :
    /\ Accepter(r) /\ pc[r] \in {"ack", "done"} /\ job[r] # None
    /\ a = Ack(r) /\ OwnSkill(r)

SerialInv ==
  /\ OneReceiver /\ OneAccepter /\ NothingRecordedYet /\ StoredAnswers
  /\ RepliesAgree /\ SkillOfAccepter /\ OwnJob /\ AckOfAccepter

(* The abstract specification, its state read off the two tables.          *)
LedgerAnswer(p) ==
  CASE idem[p] = None -> "none"
    [] idem[p] # None /\ idem[p].code = 400 -> "refused"
    [] idem[p] # None /\ idem[p].code # 400 ->
         CASE idem[p].status = "queued" -> "queued"
           [] idem[p].status = "kind_not_yet_handled" -> "deferred"
           [] idem[p].status = "compiled" -> "published"

Ledger == INSTANCE PromotionLedger WITH
  Skills  <- Requests,
  answer  <- [p \in Promotions |-> LedgerAnswer(p)],
  skillOf <- [p \in Promotions |-> IF promoted[p] = None THEN None ELSE promoted[p].skill]

(* The receiver and its compile tasks, together, implement the ledger.     *)
ImplementsLedger == Ledger!LedgerSpec

-------------------------------------------------------------------------------
(* Liveness. *)

StoredStatus(p, status) == idem[p] # None /\ idem[p].status = status

(* If no coroutine stops half-way, an answer recorded as queued becomes    *)
(* one that carries the compiled skill, unless the promotion is out of     *)
(* names or stranded.                                                      *)
QueuedGetsPublished ==
  \A p \in Promotions :
    StoredStatus(p, "queued") ~>
      StoredStatus(p, "compiled") \/ NoNameLeft(p) \/ Stranded(p)

(* "Engine state is unchanged; loom will retry or pull" (compile_worker):  *)
(* a queued promotion is compiled by the time the-loom has used up all its *)
(* retries.                                                                *)
RetriesRecover ==
  \A p \in Promotions :
    StoredStatus(p, "queued") /\ (\A r \in Requests : promo[r] = p)
      ~> StoredStatus(p, "compiled")
=============================================================================
