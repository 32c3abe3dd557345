--------------------------- MODULE RuntimeProperties ---------------------------
(* What must hold of the agent runtime and the thread gate. *)
EXTENDS AgentRuntime

RuntimeTypeOK ==
  /\ agentOf \in [Agents -> Tenants \cup {None}]
  /\ secret \in [Tenants -> Keys \cup {None}]
  /\ threadOf \in [Threads -> Tenants \cup {None}]
  /\ transcript \in [Threads -> SUBSET Tenants]
  /\ configs \in [CacheKeys -> Configs \cup {None}]
  /\ built \in [CacheKeys -> Configs \cup {None}]
  /\ pc \in [Requests -> {"idle", "chat", "read", "forbidden", "resolve", "state", "load",
                          "store", "build", "invoke", "notfound", "failed", "done", "gone"}]
  /\ caller \in [Requests -> Tenants \cup {None}]
  /\ agent \in [Requests -> Agents \cup {Default}]
  /\ thread \in [Requests -> Threads \cup {None}]
  /\ local \in [Requests -> Configs \cup {None}]
  /\ since \in [Requests -> SUBSET (Keys \cup {None})]
  /\ held \in [Tenants -> SUBSET (Keys \cup {None})]
  /\ writes \in 0 .. MaxWrites
  /\ restarts \in 0 .. MaxRestarts

(* c is a configuration of agent a for tenant t: the agent is t's, and the *)
(* provider key, if there is one, is one t stored.                         *)
Serves(c, t, a) ==
  /\ c # None /\ c.tenant = t /\ c.agent = a
  /\ agentOf[a] = t
  /\ c.key # None => c.key.of = t

(* A chat runs the agent it asked for, of its own tenant, on a key of its  *)
(* own tenant, although caches, other tenants' builds and its own awaits   *)
(* lie between the request and the call.                                   *)
AgentServesOwnTenant ==
  \A r \in Requests : pc[r] = "invoke" /\ agent[r] # Default => Serves(local[r], caller[r], agent[r])

(* A thread holds messages of the one tenant that claimed it, and a state  *)
(* request that was let through reads a thread of its own tenant, also     *)
(* when two tenants bring the same new thread id at once.                  *)
ThreadsStayInTenant ==
  /\ \A th \in Threads : transcript[th] \subseteq {threadOf[th]} \ {None}
  /\ \A r \in Requests : pc[r] = "state" => threadOf[thread[r]] = caller[r]

(* How stale a key can be: caches and chats hold keys their tenant has had *)
(* since the worker started, although nothing tells them of a key that was *)
(* replaced or deleted; after a restart nobody uses what was replaced      *)
(* before it.                                                              *)
KeyFromThisWorker ==
  /\ \A r \in Requests : pc[r] \in {"store", "build", "invoke"} /\ agent[r] # Default =>
       local[r].key \in held[caller[r]]
  /\ \A k \in CacheKeys :
       /\ configs[k] # None => configs[k].key \in held[k[1]]
       /\ built[k] # None => built[k].key \in held[k[1]]

(* What the first two rest on: every request past the gate owns its        *)
(* thread, and what is cached under a key, or held by a request, serves    *)
(* that tenant and agent.                                                  *)
RuntimeInv ==
  /\ RuntimeTypeOK
  /\ \A r \in Requests :
       /\ pc[r] \notin {"idle", "gone"} => caller[r] \in Tenants /\ thread[r] \in Threads
       /\ pc[r] \in {"resolve", "load", "store", "build", "invoke", "state"} =>
            threadOf[thread[r]] = caller[r]
       /\ pc[r] \in {"load", "store", "build"} => agent[r] \in Agents
       /\ pc[r] \in {"store", "build"} => Serves(local[r], caller[r], agent[r])
  /\ \A k \in CacheKeys :
       /\ configs[k] # None => Serves(configs[k], k[1], k[2])
       /\ built[k] # None => Serves(built[k], k[1], k[2])
  /\ \A t \in Tenants : secret[t] # None => secret[t].of = t
  /\ AgentServesOwnTenant /\ ThreadsStayInTenant

(* "get_secret retrieves the decrypted plaintext only when the runtime     *)
(* needs it for an actual provider call" (core/auth/secrets.py): a chat    *)
(* that runs on a key runs on one its tenant had when it arrived or has    *)
(* had since then, not on one that was replaced or deleted before.         *)
KeyReadWhenNeeded ==
  \A r \in Requests : pc[r] = "invoke" /\ agent[r] # Default =>
    local[r].key = None \/ local[r].key \in since[r]
=============================================================================
