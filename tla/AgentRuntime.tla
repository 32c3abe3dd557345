------------------------------ MODULE AgentRuntime ------------------------------
(***************************************************************************)
(* Chatting with student-built agents: the chat routes of                  *)
(* services/api/main.py, the thread gate in front of them, and             *)
(* core/runtime/runtime.py, which loads an agent's configuration with its  *)
(* tenant's provider key, builds the agent and caches both, keyed by       *)
(* <<tenant, agent>>, for the life of the worker process.  Requests are    *)
(* coroutines of one event loop: a step runs from one await to the next.   *)
(* A database transaction is atomic and sees only what row-level security  *)
(* shows to the tenant it is scoped to.                                    *)
(*                                                                         *)
(* No endpoint changes or deletes an agent, and none calls                 *)
(* invalidate_agent: what goes stale is the key.  The tag that telemetry   *)
(* carries (lookup_source_tenant) is left out, its await is not.           *)
(***************************************************************************)
EXTENDS Naturals

CONSTANTS
  Tenants,
  Agents,        \* ids of user_agents rows
  Default,       \* agent_id = None: the platform's own agent
  Threads,       \* thread ids: sent by a client, or a fresh uuid4
  Requests,
  None,
  MaxWrites,     \* bound: writes of provider keys
  MaxRestarts    \* bound: restarts of the worker process

ASSUME RuntimeAssumption ==
  /\ Default \notin Agents
  /\ {MaxWrites, MaxRestarts} \subseteq Nat

VARIABLES
  (* Postgres *)
  agentOf,      \* user_agents: the tenant of each agent, None if no row
  secret,       \* student_secrets: the provider key of each tenant, or None
  threadOf,     \* conversations: the tenant of each thread, None if no row
  transcript,   \* checkpoints: the tenants whose messages a thread holds
  (* the worker process *)
  configs,      \* _agent_configs
  built,        \* _built_agents
  (* one coroutine per request *)
  pc, caller, agent, thread,
  local,        \* the AgentConfig or the agent instance it holds
  (* history *)
  since,        \* the keys its tenant has had since the request arrived
  held,         \* the keys each tenant has had since the worker started
  (* bounds *)
  writes, restarts

vars == <<agentOf, secret, threadOf, transcript, configs, built,
          pc, caller, agent, thread, local, since, held, writes, restarts>>

(* A key is known by who stored it and when. *)
Keys == [of : Tenants, nr : 1 .. MaxWrites]

(* What tells configurations apart here; an instance is the configuration  *)
(* it was built from.                                                      *)
Configs == [tenant : Tenants, agent : Agents, key : Keys \cup {None}]

CacheKeys == Tenants \X Agents
CacheKey(r) == <<caller[r], agent[r]>>

ASSUME NoneAssumption == None \notin Tenants \cup Threads \cup Keys \cup Configs

Init ==
  /\ agentOf \in [Agents -> Tenants \cup {None}]
  /\ secret = [t \in Tenants |-> None]
  /\ threadOf = [th \in Threads |-> None]
  /\ transcript = [th \in Threads |-> {}]
  /\ configs = [k \in CacheKeys |-> None]
  /\ built = [k \in CacheKeys |-> None]
  /\ pc = [r \in Requests |-> "idle"]
  /\ caller = [r \in Requests |-> None]
  /\ agent = [r \in Requests |-> Default]
  /\ thread = [r \in Requests |-> None]
  /\ local = [r \in Requests |-> None]
  /\ since = [r \in Requests |-> {}]
  /\ held = [t \in Tenants |-> {None}]
  /\ writes = 0 /\ restarts = 0

-------------------------------------------------------------------------------
(* A request. *)

(* /chat, /chat/{agent_id} (their streams, /skills/run) and                *)
(* /threads/{thread_id}/state all go through the thread gate first.        *)
Arrive(r, t, a, th, next) ==
  /\ pc[r] = "idle"
  /\ caller' = [caller EXCEPT ![r] = t]
  /\ agent' = [agent EXCEPT ![r] = a]
  /\ thread' = [thread EXCEPT ![r] = th]
  /\ since' = [since EXCEPT ![r] = {secret[t]}]
  /\ pc' = [pc EXCEPT ![r] = next]
  /\ UNCHANGED <<agentOf, secret, threadOf, transcript, configs, built, local, held, writes,
                 restarts>>

Chat(r) == \E t \in Tenants, a \in Agents \cup {Default}, th \in Threads :
              Arrive(r, t, a, th, "chat")
ReadThread(r) == \E t \in Tenants, th \in Threads : Arrive(r, t, Default, th, "read")

(* Mutant: ON CONFLICT DO UPDATE SET tenant_id, the last caller owns it. *)
GateTakesOver(r) ==
  /\ pc[r] \in {"chat", "read"}
  /\ threadOf' = [threadOf EXCEPT ![thread[r]] = caller[r]]
  /\ pc' = [pc EXCEPT ![r] = IF pc[r] = "chat" THEN "resolve" ELSE "state"]
  /\ UNCHANGED <<agentOf, secret, transcript, configs, built, caller, agent, thread, local,
                 since, held, writes, restarts>>

(* _ensure_thread_belongs_to_tenant: INSERT ... ON CONFLICT DO NOTHING,    *)
(* then SELECT what row-level security shows; one transaction.             *)
Gate(r) ==
  /\ pc[r] \in {"chat", "read"}
  /\ threadOf' = [threadOf EXCEPT ![thread[r]] = IF @ = None THEN caller[r] ELSE @]
  /\ pc' = [pc EXCEPT ![r] =
        IF threadOf'[thread[r]] # caller[r] THEN "forbidden"
        ELSE IF pc[r] = "chat" THEN "resolve" ELSE "state"]
  /\ UNCHANGED <<agentOf, secret, transcript, configs, built, caller, agent, thread, local,
                 since, held, writes, restarts>>

(* _resolve_agent up to its first await: both caches are looked up. *)
Resolve(r) ==
  LET k == CacheKey(r) IN
  /\ pc[r] = "resolve"
  /\ \/ /\ agent[r] = Default
        /\ pc' = [pc EXCEPT ![r] = "invoke"]
        /\ UNCHANGED local
     \/ /\ agent[r] # Default /\ built[k] # None
        /\ local' = [local EXCEPT ![r] = built[k]]
        /\ pc' = [pc EXCEPT ![r] = "invoke"]
     \/ /\ agent[r] # Default /\ built[k] = None /\ configs[k] # None
        /\ local' = [local EXCEPT ![r] = configs[k]]
        /\ pc' = [pc EXCEPT ![r] = "build"]
     \/ /\ agent[r] # Default /\ built[k] = None /\ configs[k] = None
        /\ pc' = [pc EXCEPT ![r] = "load"]
        /\ UNCHANGED local
  /\ UNCHANGED <<agentOf, secret, threadOf, transcript, configs, built, caller, agent, thread,
                 since, held, writes, restarts>>

(* Mutants: no row-level security on user_agents, on student_secrets. *)
SeesAnyAgent(t, a) == agentOf[a] # None
SeenAnyKey(t) == IF \E u \in Tenants : secret[u] # None
                 THEN secret[CHOOSE u \in Tenants : secret[u] # None] ELSE None

(* The rows the tenant of the transaction sees. *)
SeesAgent(t, a) == agentOf[a] = t
SeenKey(t) == secret[t]

(* _get_config's transaction. *)
LoadConfig(r) ==
  LET t == caller[r] IN
  /\ pc[r] = "load"
  /\ \/ /\ SeesAgent(t, agent[r])
        /\ local' = [local EXCEPT ![r] = [tenant |-> t, agent |-> agent[r], key |-> SeenKey(t)]]
        /\ pc' = [pc EXCEPT ![r] = "store"]
     \/ /\ ~SeesAgent(t, agent[r])
        /\ pc' = [pc EXCEPT ![r] = "notfound"]
        /\ UNCHANGED local
  /\ UNCHANGED <<agentOf, secret, threadOf, transcript, configs, built, caller, agent, thread,
                 since, held, writes, restarts>>

(* _get_config after the commit: the configuration is cached as it was     *)
(* read. lookup_source_tenant follows.                                     *)
StoreConfig(r) ==
  /\ pc[r] = "store"
  /\ configs' = [configs EXCEPT ![CacheKey(r)] = local[r]]
  /\ pc' = [pc EXCEPT ![r] = "build"]
  /\ UNCHANGED <<agentOf, secret, threadOf, transcript, built, caller, agent, thread, local,
                 since, held, writes, restarts>>

(* After lookup_source_tenant: the agent is built and cached, or building  *)
(* it raises (no model, a provider without a key).                         *)
BuildAgent(r) ==
  /\ pc[r] = "build"
  /\ \/ /\ built' = [built EXCEPT ![CacheKey(r)] = local[r]]
        /\ pc' = [pc EXCEPT ![r] = "invoke"]
     \/ /\ pc' = [pc EXCEPT ![r] = "failed"]
        /\ UNCHANGED built
  /\ UNCHANGED <<agentOf, secret, threadOf, transcript, configs, caller, agent, thread, local,
                 since, held, writes, restarts>>

(* ainvoke: the checkpointer stores the caller's message in the thread. *)
Invoke(r) ==
  /\ pc[r] = "invoke"
  /\ transcript' = [transcript EXCEPT ![thread[r]] = @ \cup {caller[r]}]
  /\ pc' = [pc EXCEPT ![r] = "done"]
  /\ UNCHANGED <<agentOf, secret, threadOf, configs, built, caller, agent, thread, local,
                 since, held, writes, restarts>>

-------------------------------------------------------------------------------
(* The environment. *)

(* /agents/create. *)
CreateAgent(t, a) ==
  /\ agentOf[a] = None
  /\ agentOf' = [agentOf EXCEPT ![a] = t]
  /\ UNCHANGED <<secret, threadOf, transcript, configs, built, pc, caller, agent, thread,
                 local, since, held, writes, restarts>>

(* /secrets/set and DELETE /secrets/{provider_slug}. *)
WriteSecret(t, value) ==
  /\ writes < MaxWrites
  /\ secret' = [secret EXCEPT ![t] = value]
  /\ held' = [held EXCEPT ![t] = @ \cup {value}]
  /\ since' = [r \in Requests |-> since[r] \cup IF caller[r] = t THEN {value} ELSE {}]
  /\ writes' = writes + 1
  /\ UNCHANGED <<agentOf, threadOf, transcript, configs, built, pc, caller, agent, thread,
                 local, restarts>>

SetSecret(t) == WriteSecret(t, [of |-> t, nr |-> writes + 1])
DeleteSecret(t) == secret[t] # None /\ WriteSecret(t, None)

(* Mutant: configurations outlive the worker. *)
RestartKeepsConfigs ==
  /\ restarts < MaxRestarts
  /\ restarts' = restarts + 1
  /\ built' = [k \in CacheKeys |-> None]
  /\ pc' = [r \in Requests |-> IF pc[r] = "idle" THEN "idle" ELSE "gone"]
  /\ held' = [t \in Tenants |-> {secret[t]}]
  /\ UNCHANGED <<agentOf, secret, threadOf, transcript, configs, caller, agent, thread, local,
                 since, writes>>

(* The worker restarts: its requests and caches are gone. *)
Restart ==
  /\ restarts < MaxRestarts
  /\ restarts' = restarts + 1
  /\ configs' = [k \in CacheKeys |-> None]
  /\ built' = [k \in CacheKeys |-> None]
  /\ pc' = [r \in Requests |-> IF pc[r] = "idle" THEN "idle" ELSE "gone"]
  /\ held' = [t \in Tenants |-> {secret[t]}]
  /\ UNCHANGED <<agentOf, secret, threadOf, transcript, caller, agent, thread, local, since,
                 writes>>

Serve(r) == Gate(r) \/ Resolve(r) \/ LoadConfig(r) \/ StoreConfig(r) \/ BuildAgent(r)
              \/ Invoke(r)

Next ==
  \/ \E r \in Requests : Chat(r) \/ ReadThread(r) \/ Serve(r)
  \/ \E t \in Tenants : SetSecret(t) \/ DeleteSecret(t) \/ \E a \in Agents : CreateAgent(t, a)
  \/ Restart

Spec == Init /\ [][Next]_vars
=============================================================================
