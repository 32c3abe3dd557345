--------------------------- MODULE PromotionLedger ---------------------------
(***************************************************************************)
(* What the skill-making bridge promises the-loom, one promotion at a      *)
(* time: a promotion has at most one recorded answer; an accepted skill    *)
(* is compiled at most once, into a skill of its own; and only a compiled  *)
(* skill is ever published as the promotion's existing_skill_id.  Nothing  *)
(* here knows of requests, database transactions or background tasks:      *)
(* module Bridge is shown to implement this one.                           *)
(***************************************************************************)
CONSTANTS
  Promotions,       \* promotion_ids, the wire contract's idempotency key
  SkillPromotions,  \* those whose candidate_kind is 'skill'
  Skills,           \* ids of rows of student_skills
  None

VARIABLES
  answer,   \* answer[p]: what a POST of p is answered from now on
  skillOf   \* skillOf[p]: the skill p was compiled into, or None

ledgerVars == <<answer, skillOf>>

AnswerStatus == {"none", "refused", "deferred", "queued", "published"}

(* Every answer is one the wire contract knows, every skill a real id. *)
LedgerTypeOK == /\ answer \in [Promotions -> AnswerStatus]
                /\ skillOf \in [Promotions -> Skills \cup {None}]

LedgerInit == /\ answer = [p \in Promotions |-> "none"]
              /\ skillOf = [p \in Promotions |-> None]

(* The source tenant has no mapping: 400, and it stays 400 ... *)
Refuse(p) == /\ answer[p] = "none"
             /\ answer' = [answer EXCEPT ![p] = "refused"]
             /\ UNCHANGED skillOf

(* ... until the operator deletes the recorded answer. *)
Reopen(p) == /\ answer[p] = "refused"
             /\ answer' = [answer EXCEPT ![p] = "none"]
             /\ UNCHANGED skillOf

Accept(p) == /\ answer[p] = "none"
             /\ answer' = [answer EXCEPT ![p] = IF p \in SkillPromotions
                                                THEN "queued" ELSE "deferred"]
             /\ UNCHANGED skillOf

(* A skill is compiled only after it was accepted, once, and shares its    *)
(* skill with no other promotion.                                          *)
Compile(p, s) == /\ answer[p] = "queued" /\ skillOf[p] = None
                 /\ \A q \in Promotions : skillOf[q] # s
                 /\ skillOf' = [skillOf EXCEPT ![p] = s]
                 /\ UNCHANGED answer

Publish(p) == /\ answer[p] = "queued" /\ skillOf[p] # None
              /\ answer' = [answer EXCEPT ![p] = "published"]
              /\ UNCHANGED skillOf

LedgerNext == \E p \in Promotions :
                 \/ Refuse(p) \/ Reopen(p) \/ Accept(p) \/ Publish(p)
                 \/ \E s \in Skills : Compile(p, s)

LedgerSpec == LedgerInit /\ [][LedgerNext]_ledgerVars
=============================================================================
