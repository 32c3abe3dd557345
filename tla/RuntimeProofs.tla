----------------------------- MODULE RuntimeProofs -----------------------------
(***************************************************************************)
(* RuntimeInv is an inductive invariant of AgentRuntime for every set of   *)
(* tenants, agents, threads and requests: neither the caches nor the       *)
(* awaits between a lookup and its use lead across tenants.                *)
(***************************************************************************)
EXTENDS RuntimeProperties, TLAPS

USE RuntimeAssumption, NoneAssumption

(* The conjuncts of RuntimeInv one by one. *)
RequestsKnow ==
  \A r \in Requests :
    /\ pc[r] \notin {"idle", "gone"} => caller[r] \in Tenants /\ thread[r] \in Threads
    /\ pc[r] \in {"resolve", "load", "store", "build", "invoke", "state"} =>
         threadOf[thread[r]] = caller[r]
    /\ pc[r] \in {"load", "store", "build"} => agent[r] \in Agents
    /\ pc[r] \in {"store", "build"} => Serves(local[r], caller[r], agent[r])

CachesServe ==
  \A k \in CacheKeys :
    /\ configs[k] # None => Serves(configs[k], k[1], k[2])
    /\ built[k] # None => Serves(built[k], k[1], k[2])

KeysOwned == \A t \in Tenants : secret[t] # None => secret[t].of = t

(* RuntimeInv is what its parts say together. *)
LEMMA RuntimeParts ==
  RuntimeInv <=> /\ RuntimeTypeOK /\ RequestsKnow /\ CachesServe /\ KeysOwned
                 /\ AgentServesOwnTenant /\ ThreadsStayInTenant
BY DEF RuntimeInv, RequestsKnow, CachesServe, KeysOwned

(* ... and in the next state. *)
LEMMA RuntimePartsNext ==
  ASSUME RuntimeTypeOK', RequestsKnow', CachesServe', KeysOwned',
         AgentServesOwnTenant', ThreadsStayInTenant'
  PROVE  RuntimeInv'
BY DEF RuntimeInv, RequestsKnow, CachesServe, KeysOwned

(* A fresh worker on a database whose agents have any owner. *)
LEMMA InitRuntimeInv == Init => RuntimeInv
<1> SUFFICES ASSUME Init PROVE RuntimeInv
  OBVIOUS
<1>1. RuntimeTypeOK
  BY DEF Init, RuntimeTypeOK
<1>2. RequestsKnow /\ CachesServe /\ KeysOwned /\ AgentServesOwnTenant
  BY DEF Init, RequestsKnow, CachesServe, KeysOwned, AgentServesOwnTenant, RuntimeTypeOK
<1>3. ThreadsStayInTenant
  BY DEF Init, ThreadsStayInTenant
<1> QED
  BY <1>1, <1>2, <1>3, RuntimeParts

(* A request that arrives holds nothing yet. *)
LEMMA ArriveInv ==
  ASSUME RuntimeInv, NEW r \in Requests, NEW t \in Tenants, NEW a \in Agents \cup {Default},
         NEW th \in Threads, NEW next \in {"chat", "read"}, Arrive(r, t, a, th, next)
  PROVE  RuntimeInv'
<1> USE RuntimeParts DEF Arrive
<1>1. RuntimeTypeOK'
  BY DEF RuntimeTypeOK
<1>2. RequestsKnow'
  BY DEF RequestsKnow, Serves, RuntimeTypeOK
<1>3. CachesServe' /\ KeysOwned'
  BY DEF CachesServe, KeysOwned, Serves
<1>4. AgentServesOwnTenant' /\ ThreadsStayInTenant'
  BY DEF AgentServesOwnTenant, ThreadsStayInTenant, Serves, RuntimeTypeOK
<1> QED
  BY <1>1, <1>2, <1>3, <1>4, RuntimePartsNext

(* A thread that has an owner keeps it, and only its owner gets through. *)
LEMMA GateInv ==
  ASSUME RuntimeInv, NEW r \in Requests, Gate(r)
  PROVE  RuntimeInv'
<1> USE RuntimeParts
<1>1. caller[r] \in Tenants /\ thread[r] \in Threads /\ pc[r] \in {"chat", "read"}
  BY DEF Gate, RequestsKnow
<1>2. \A th \in Threads : threadOf[th] # None => threadOf'[th] = threadOf[th]
  BY <1>1 DEF Gate, RuntimeTypeOK
<1>3. RuntimeTypeOK'
  BY <1>1 DEF Gate, RuntimeTypeOK
<1>4. \A q \in Requests : pc'[q] \in {"resolve", "state"} /\ q = r =>
        threadOf'[thread[q]] = caller[q]
  BY <1>1 DEF Gate, RuntimeTypeOK
<1>5. pc'[r] \in {"resolve", "state", "forbidden"}
  BY DEF Gate, RuntimeTypeOK
<1>6. \A q \in Requests : q # r => pc'[q] = pc[q]
  BY DEF Gate, RuntimeTypeOK
<1>7. UNCHANGED <<agentOf, secret, transcript, configs, built, caller, agent, thread, local>>
  BY DEF Gate
<1>8. RequestsKnow'
  <2> SUFFICES ASSUME NEW q \in Requests
               PROVE  /\ pc'[q] \notin {"idle", "gone"} => caller[q] \in Tenants /\ thread[q] \in Threads
                      /\ pc'[q] \in {"resolve", "load", "store", "build", "invoke", "state"} =>
                           threadOf'[thread[q]] = caller[q]
                      /\ pc'[q] \in {"load", "store", "build"} => agent[q] \in Agents
                      /\ pc'[q] \in {"store", "build"} => Serves(local[q], caller[q], agent[q])
    BY <1>7 DEF RequestsKnow, Serves
  <2>1. CASE q = r
    BY <1>1, <1>4, <1>5, <2>1
  <2>2. CASE q # r
    BY <1>2, <1>6, <2>2 DEF RequestsKnow
  <2> QED
    BY <2>1, <2>2
<1>9. CachesServe' /\ KeysOwned'
  BY <1>7 DEF CachesServe, KeysOwned, Serves
<1>10. AgentServesOwnTenant'
  BY <1>5, <1>6, <1>7 DEF AgentServesOwnTenant, Serves
<1>11. ThreadsStayInTenant'
  BY <1>1, <1>2, <1>4, <1>5, <1>6, <1>7 DEF ThreadsStayInTenant, RequestsKnow, RuntimeTypeOK
<1> QED
  BY <1>3, <1>8, <1>9, <1>10, <1>11, RuntimePartsNext

(* What a cache holds serves the request that finds it there. *)
LEMMA ResolveInv ==
  ASSUME RuntimeInv, NEW r \in Requests, Resolve(r)
  PROVE  RuntimeInv'
<1> USE RuntimeParts DEF Resolve
<1>1. caller[r] \in Tenants /\ thread[r] \in Threads /\ agent[r] \in Agents \cup {Default}
  BY DEF RequestsKnow, RuntimeTypeOK
<1>2. agent[r] # Default => CacheKey(r) \in CacheKeys
  BY <1>1 DEF CacheKey, CacheKeys
<1>3. RuntimeTypeOK'
  BY <1>1, <1>2 DEF RuntimeTypeOK
<1>4. /\ agent[r] # Default /\ built[CacheKey(r)] # None =>
           Serves(built[CacheKey(r)], caller[r], agent[r])
      /\ agent[r] # Default /\ configs[CacheKey(r)] # None =>
           Serves(configs[CacheKey(r)], caller[r], agent[r])
  BY <1>1, <1>2 DEF CachesServe, CacheKey
<1>5. RequestsKnow'
  BY <1>1, <1>4 DEF RequestsKnow, Serves, RuntimeTypeOK
<1>6. CachesServe' /\ KeysOwned'
  BY DEF CachesServe, KeysOwned, Serves
<1>7. AgentServesOwnTenant' /\ ThreadsStayInTenant'
  BY <1>1, <1>4 DEF AgentServesOwnTenant, ThreadsStayInTenant, Serves, RuntimeTypeOK
<1> QED
  BY <1>3, <1>5, <1>6, <1>7, RuntimePartsNext

(* A configuration is loaded under the tenant that asked, with its key. *)
LEMMA LoadConfigInv ==
  ASSUME RuntimeInv, NEW r \in Requests, LoadConfig(r)
  PROVE  RuntimeInv'
<1> USE RuntimeParts DEF LoadConfig, SeesAgent, SeenKey
<1>1. caller[r] \in Tenants /\ thread[r] \in Threads /\ agent[r] \in Agents
  BY DEF RequestsKnow
<1>2. secret[caller[r]] \in Keys \cup {None}
  BY <1>1 DEF RuntimeTypeOK
<1>3. [tenant |-> caller[r], agent |-> agent[r], key |-> secret[caller[r]]] \in Configs
  BY <1>1, <1>2 DEF Configs
<1>4. RuntimeTypeOK'
  BY <1>3 DEF RuntimeTypeOK
<1>5. /\ UNCHANGED <<agentOf, secret, threadOf, transcript, configs, built, caller, agent, thread>>
      /\ \A q \in Requests : q # r => pc'[q] = pc[q] /\ local'[q] = local[q]
      /\ pc'[r] \in {"store", "notfound"}
  BY DEF RuntimeTypeOK
<1>6. pc'[r] = "store" => Serves(local'[r], caller[r], agent[r])
  <2> SUFFICES ASSUME pc'[r] = "store" PROVE Serves(local'[r], caller[r], agent[r])
    OBVIOUS
  <2>1. /\ local'[r] = [tenant |-> caller[r], agent |-> agent[r], key |-> secret[caller[r]]]
        /\ agentOf[agent[r]] = caller[r]
    BY <1>5 DEF RuntimeTypeOK
  <2> QED
    BY <1>1, <1>3, <2>1 DEF Serves, KeysOwned
<1>7. RequestsKnow'
  <2> SUFFICES ASSUME NEW q \in Requests
               PROVE  /\ pc'[q] \notin {"idle", "gone"} => caller[q] \in Tenants /\ thread[q] \in Threads
                      /\ pc'[q] \in {"resolve", "load", "store", "build", "invoke", "state"} =>
                           threadOf[thread[q]] = caller[q]
                      /\ pc'[q] \in {"load", "store", "build"} => agent[q] \in Agents
                      /\ pc'[q] \in {"store", "build"} => Serves(local'[q], caller[q], agent[q])
    BY <1>5 DEF RequestsKnow, Serves
  <2>1. CASE q = r
    BY <1>1, <1>5, <1>6, <2>1 DEF RequestsKnow
  <2>2. CASE q # r
    BY <1>5, <2>2 DEF RequestsKnow
  <2> QED
    BY <2>1, <2>2
<1>8. CachesServe' /\ KeysOwned'
  BY <1>5 DEF CachesServe, KeysOwned, Serves
<1>9. AgentServesOwnTenant' /\ ThreadsStayInTenant'
  BY <1>5 DEF AgentServesOwnTenant, ThreadsStayInTenant, Serves
<1> QED
  BY <1>4, <1>7, <1>8, <1>9, RuntimePartsNext

(* What is cached serves the key it is cached under. *)
LEMMA StoreConfigInv ==
  ASSUME RuntimeInv, NEW r \in Requests, StoreConfig(r)
  PROVE  RuntimeInv'
<1> USE RuntimeParts DEF StoreConfig
<1>1. /\ caller[r] \in Tenants /\ thread[r] \in Threads /\ agent[r] \in Agents
      /\ Serves(local[r], caller[r], agent[r])
  BY DEF RequestsKnow
<1>2. CacheKey(r) = <<caller[r], agent[r]>> /\ CacheKey(r) \in CacheKeys
  BY <1>1 DEF CacheKey, CacheKeys
<1>3. RuntimeTypeOK'
  BY <1>2 DEF RuntimeTypeOK
<1>4. RequestsKnow'
  BY <1>1 DEF RequestsKnow, Serves, RuntimeTypeOK
<1>5. CachesServe'
  <2> SUFFICES ASSUME NEW k \in CacheKeys
               PROVE  /\ configs'[k] # None => Serves(configs'[k], k[1], k[2])
                      /\ built[k] # None => Serves(built[k], k[1], k[2])
    BY DEF CachesServe, Serves
  <2>1. configs'[k] = IF k = CacheKey(r) THEN local[r] ELSE configs[k]
    BY DEF RuntimeTypeOK
  <2> QED
    BY <1>1, <1>2, <2>1 DEF CachesServe
<1>6. KeysOwned' /\ AgentServesOwnTenant' /\ ThreadsStayInTenant'
  BY DEF KeysOwned, AgentServesOwnTenant, ThreadsStayInTenant, Serves, RuntimeTypeOK
<1> QED
  BY <1>3, <1>4, <1>5, <1>6, RuntimePartsNext

(* ... and so is what is built from it. *)
LEMMA BuildAgentInv ==
  ASSUME RuntimeInv, NEW r \in Requests, BuildAgent(r)
  PROVE  RuntimeInv'
<1> USE RuntimeParts DEF BuildAgent
<1>1. /\ caller[r] \in Tenants /\ thread[r] \in Threads /\ agent[r] \in Agents
      /\ Serves(local[r], caller[r], agent[r])
  BY DEF RequestsKnow
<1>2. CacheKey(r) = <<caller[r], agent[r]>> /\ CacheKey(r) \in CacheKeys
  BY <1>1 DEF CacheKey, CacheKeys
<1>3. RuntimeTypeOK'
  BY <1>2 DEF RuntimeTypeOK
<1>4. RequestsKnow'
  BY <1>1 DEF RequestsKnow, Serves, RuntimeTypeOK
<1>5. CachesServe'
  <2> SUFFICES ASSUME NEW k \in CacheKeys
               PROVE  /\ configs[k] # None => Serves(configs[k], k[1], k[2])
                      /\ built'[k] # None => Serves(built'[k], k[1], k[2])
    BY DEF CachesServe, Serves
  <2>1. built'[k] = IF k = CacheKey(r) THEN built'[k] ELSE built[k]
    BY DEF RuntimeTypeOK
  <2>2. built'[CacheKey(r)] \in {local[r], built[CacheKey(r)]}
    BY <1>2 DEF RuntimeTypeOK
  <2> QED
    BY <1>1, <1>2, <2>1, <2>2 DEF CachesServe
<1>6. KeysOwned' /\ AgentServesOwnTenant' /\ ThreadsStayInTenant'
  BY <1>1 DEF KeysOwned, AgentServesOwnTenant, ThreadsStayInTenant, Serves, RuntimeTypeOK
<1> QED
  BY <1>3, <1>4, <1>5, <1>6, RuntimePartsNext

(* A message goes to the thread its sender owns. *)
LEMMA InvokeInv ==
  ASSUME RuntimeInv, NEW r \in Requests, Invoke(r)
  PROVE  RuntimeInv'
<1> USE RuntimeParts DEF Invoke
<1>1. caller[r] \in Tenants /\ thread[r] \in Threads /\ threadOf[thread[r]] = caller[r]
  BY DEF RequestsKnow
<1>2. RuntimeTypeOK'
  BY <1>1 DEF RuntimeTypeOK
<1>3. RequestsKnow' /\ CachesServe' /\ KeysOwned' /\ AgentServesOwnTenant'
  BY <1>1 DEF RequestsKnow, CachesServe, KeysOwned, AgentServesOwnTenant, Serves, RuntimeTypeOK
<1>4. ThreadsStayInTenant'
  BY <1>1 DEF ThreadsStayInTenant, RuntimeTypeOK
<1> QED
  BY <1>2, <1>3, <1>4, RuntimePartsNext

(* A new agent takes no agent from anyone. *)
LEMMA CreateAgentInv ==
  ASSUME RuntimeInv, NEW t \in Tenants, NEW a \in Agents, CreateAgent(t, a)
  PROVE  RuntimeInv'
<1> USE RuntimeParts DEF CreateAgent
<1>1. RuntimeTypeOK'
  BY DEF RuntimeTypeOK
<1>2. \A c, u, b : Serves(c, u, b) /\ u \in Tenants /\ b \in Agents => Serves(c, u, b)'
  BY DEF Serves, RuntimeTypeOK
<1>3. RequestsKnow'
  BY <1>2 DEF RequestsKnow, RuntimeTypeOK
<1>4. CachesServe'
  BY <1>2 DEF CachesServe, CacheKeys
<1>5. AgentServesOwnTenant'
  BY <1>2 DEF AgentServesOwnTenant, RequestsKnow, RuntimeTypeOK
<1>6. KeysOwned' /\ ThreadsStayInTenant'
  BY DEF KeysOwned, ThreadsStayInTenant
<1> QED
  BY <1>1, <1>3, <1>4, <1>5, <1>6, RuntimePartsNext

(* A key is stored under the tenant that stores it. *)
LEMMA SecretInv ==
  ASSUME RuntimeInv, NEW t \in Tenants, SetSecret(t) \/ DeleteSecret(t)
  PROVE  RuntimeInv'
<1> USE RuntimeParts
<1>1. PICK value \in Keys \cup {None} :
        WriteSecret(t, value) /\ (value # None => value.of = t)
  BY DEF SetSecret, DeleteSecret, WriteSecret, Keys, RuntimeTypeOK
<1> USE <1>1 DEF WriteSecret
<1>2. RuntimeTypeOK'
  BY DEF RuntimeTypeOK
<1>3. RequestsKnow' /\ CachesServe' /\ AgentServesOwnTenant' /\ ThreadsStayInTenant'
  BY DEF RequestsKnow, CachesServe, AgentServesOwnTenant, ThreadsStayInTenant, Serves
<1>4. KeysOwned'
  BY DEF KeysOwned, RuntimeTypeOK
<1> QED
  BY <1>2, <1>3, <1>4, RuntimePartsNext

(* A restarted worker holds nothing. *)
LEMMA RestartInv ==
  ASSUME RuntimeInv, Restart
  PROVE  RuntimeInv'
<1> USE RuntimeParts DEF Restart
<1>1. RuntimeTypeOK'
  BY DEF RuntimeTypeOK
<1>2. \A r \in Requests : pc'[r] \in {"idle", "gone"}
  OBVIOUS
<1>3. RequestsKnow' /\ AgentServesOwnTenant' /\ ThreadsStayInTenant'
  BY <1>2 DEF RequestsKnow, AgentServesOwnTenant, ThreadsStayInTenant
<1>4. CachesServe' /\ KeysOwned'
  BY DEF CachesServe, KeysOwned
<1> QED
  BY <1>1, <1>3, <1>4, RuntimePartsNext

(* Nothing changes in a stuttering step. *)
LEMMA RuntimeStutterInv == RuntimeInv /\ UNCHANGED vars => RuntimeInv'
<1> SUFFICES ASSUME RuntimeInv, UNCHANGED vars PROVE RuntimeInv'
  OBVIOUS
<1> USE RuntimeParts DEF vars
<1>1. RuntimeTypeOK'
  BY DEF RuntimeTypeOK
<1>2. RequestsKnow' /\ CachesServe' /\ KeysOwned' /\ AgentServesOwnTenant' /\ ThreadsStayInTenant'
  BY DEF RequestsKnow, CachesServe, KeysOwned, AgentServesOwnTenant, ThreadsStayInTenant, Serves
<1> QED
  BY <1>1, <1>2, RuntimePartsNext

(* Every step preserves the invariant. *)
LEMMA NextRuntimeInv == RuntimeInv /\ [Next]_vars => RuntimeInv'
<1> SUFFICES ASSUME RuntimeInv, [Next]_vars PROVE RuntimeInv'
  OBVIOUS
<1>1. ASSUME NEW r \in Requests, Chat(r) \/ ReadThread(r) PROVE RuntimeInv'
  BY <1>1, ArriveInv DEF Chat, ReadThread
<1>2. ASSUME NEW r \in Requests, Serve(r) PROVE RuntimeInv'
  BY <1>2, GateInv, ResolveInv, LoadConfigInv, StoreConfigInv, BuildAgentInv, InvokeInv
  DEF Serve
<1>3. ASSUME NEW t \in Tenants, SetSecret(t) \/ DeleteSecret(t) PROVE RuntimeInv'
  BY <1>3, SecretInv
<1>4. ASSUME NEW t \in Tenants, NEW a \in Agents, CreateAgent(t, a) PROVE RuntimeInv'
  BY <1>4, CreateAgentInv
<1> QED
  BY <1>1, <1>2, <1>3, <1>4, RestartInv, RuntimeStutterInv DEF Next

(* The invariant holds in every reachable state, for any number of         *)
(* tenants, agents and requests.                                           *)
THEOREM RuntimeInvariant == Spec => []RuntimeInv
BY InitRuntimeInv, NextRuntimeInv, PTL DEF Spec

(* No chat runs another tenant's agent or spends another tenant's key.     *)
THEOREM AgentsServeOwnTenant == Spec => []AgentServesOwnTenant
<1>1. RuntimeInv => AgentServesOwnTenant
  BY DEF RuntimeInv
<1> QED
  BY <1>1, RuntimeInvariant, PTL

(* No thread mixes tenants, and none is read by another tenant. *)
THEOREM ThreadsKeepTenant == Spec => []ThreadsStayInTenant
<1>1. RuntimeInv => ThreadsStayInTenant
  BY DEF RuntimeInv
<1> QED
  BY <1>1, RuntimeInvariant, PTL

-------------------------------------------------------------------------------
(* How stale a key can be. *)

(* What KeyFromThisWorker rests on: the key of now has been had. *)
KeyNowHeld == \A t \in Tenants : secret[t] \in held[t]

KeyInv == KeyNowHeld /\ KeyFromThisWorker

(* Steps that touch neither keys nor caches, and put no configuration into *)
(* a request's hands.                                                      *)
LEMMA KeysUnmoved ==
  ASSUME KeyInv, UNCHANGED <<secret, held, configs, built>>,
         \A q \in Requests : pc'[q] \in {"store", "build", "invoke"} /\ agent'[q] # Default =>
           /\ local'[q] = local[q] /\ caller'[q] = caller[q]
           /\ pc[q] \in {"store", "build", "invoke"} /\ agent[q] # Default
  PROVE  KeyInv'
BY DEF KeyInv, KeyNowHeld, KeyFromThisWorker

(* A cache holds what a request may use. *)
LEMMA ResolveKeys ==
  ASSUME RuntimeInv, KeyInv, NEW r \in Requests, Resolve(r)
  PROVE  KeyInv'
<1> USE RuntimeParts DEF Resolve
<1>1. caller[r] \in Tenants /\ agent[r] \in Agents \cup {Default}
  BY DEF RequestsKnow, RuntimeTypeOK
<1>2. UNCHANGED <<secret, held, configs, built, caller, agent>>
  OBVIOUS
<1>3. \A q \in Requests \ {r} : pc'[q] = pc[q] /\ local'[q] = local[q]
  BY DEF RuntimeTypeOK
<1>4. agent[r] # Default =>
        CacheKey(r) = <<caller[r], agent[r]>> /\ CacheKey(r) \in CacheKeys
  BY <1>1 DEF CacheKey, CacheKeys
<1>5. pc'[r] \in {"store", "build", "invoke"} /\ agent[r] # Default =>
        \/ built[CacheKey(r)] # None /\ local'[r] = built[CacheKey(r)]
        \/ configs[CacheKey(r)] # None /\ local'[r] = configs[CacheKey(r)]
  BY DEF RuntimeTypeOK
<1>6. pc'[r] \in {"store", "build", "invoke"} /\ agent[r] # Default =>
        local'[r].key \in held[caller[r]]
  BY <1>4, <1>5 DEF KeyInv, KeyFromThisWorker
<1> QED
  BY <1>2, <1>3, <1>6 DEF KeyInv, KeyNowHeld, KeyFromThisWorker

(* The key that is loaded is the key of now. *)
LEMMA LoadConfigKeys ==
  ASSUME RuntimeInv, KeyInv, NEW r \in Requests, LoadConfig(r)
  PROVE  KeyInv'
<1> USE RuntimeParts DEF LoadConfig, SeenKey
<1>1. caller[r] \in Tenants
  BY DEF RequestsKnow
<1>2. UNCHANGED <<secret, held, configs, built, caller, agent>>
  OBVIOUS
<1>3. \A q \in Requests \ {r} : pc'[q] = pc[q] /\ local'[q] = local[q]
  BY DEF RuntimeTypeOK
<1>4. pc'[r] \in {"store", "build", "invoke"} => local'[r].key = secret[caller[r]]
  BY DEF RuntimeTypeOK
<1> QED
  BY <1>1, <1>2, <1>3, <1>4 DEF KeyInv, KeyNowHeld, KeyFromThisWorker

(* What is cached was in a request's hands. *)
LEMMA CacheKeysHeld ==
  ASSUME RuntimeInv, KeyInv, NEW r \in Requests, StoreConfig(r) \/ BuildAgent(r)
  PROVE  KeyInv'
<1> USE RuntimeParts DEF StoreConfig, BuildAgent
<1>1. caller[r] \in Tenants /\ agent[r] \in Agents /\ agent[r] # Default
      /\ local[r].key \in held[caller[r]]
  BY RuntimeAssumption DEF RequestsKnow, KeyInv, KeyFromThisWorker
<1>2. UNCHANGED <<secret, held, caller, agent, local>>
  OBVIOUS
<1>3. \A q \in Requests \ {r} : pc'[q] = pc[q]
  BY DEF RuntimeTypeOK
<1>4. CacheKey(r) = <<caller[r], agent[r]>> /\ CacheKey(r) \in CacheKeys
  BY <1>1 DEF CacheKey, CacheKeys
<1>5. \A k \in CacheKeys :
        /\ k # CacheKey(r) => configs'[k] = configs[k] /\ built'[k] = built[k]
        /\ configs'[CacheKey(r)] \in {local[r], configs[CacheKey(r)]}
        /\ built'[CacheKey(r)] \in {local[r], built[CacheKey(r)]}
  BY <1>4 DEF RuntimeTypeOK
<1>6. ASSUME NEW k \in CacheKeys
      PROVE  /\ configs'[k] # None => configs'[k].key \in held[k[1]]
             /\ built'[k] # None => built'[k].key \in held[k[1]]
  BY <1>1, <1>4, <1>5 DEF KeyInv, KeyFromThisWorker
<1>7. ASSUME NEW q \in Requests, pc'[q] \in {"store", "build", "invoke"}, agent[q] # Default
      PROVE  local[q].key \in held[caller[q]]
  BY <1>1, <1>3, <1>7 DEF KeyInv, KeyFromThisWorker
<1>8. KeyNowHeld'
  BY <1>2 DEF KeyInv, KeyNowHeld
<1> QED
  BY <1>2, <1>6, <1>7, <1>8 DEF KeyInv, KeyFromThisWorker

(* A key that is written is had from now on; what was had stays so. *)
LEMMA SecretKeys ==
  ASSUME RuntimeInv, KeyInv, NEW t \in Tenants, NEW value, WriteSecret(t, value)
  PROVE  KeyInv'
<1> USE RuntimeParts DEF WriteSecret
<1>1. \A u \in Tenants : held[u] \subseteq held'[u]
  BY DEF RuntimeTypeOK
<1>2. \A u \in Tenants : secret'[u] \in held'[u]
  BY DEF RuntimeTypeOK, KeyInv, KeyNowHeld
<1>3. \A r \in Requests : pc[r] \in {"store", "build", "invoke"} => caller[r] \in Tenants
  BY DEF RequestsKnow
<1>4. UNCHANGED <<configs, built, pc, agent, caller, local>>
  OBVIOUS
<1> QED
  BY <1>1, <1>2, <1>3, <1>4 DEF KeyInv, KeyNowHeld, KeyFromThisWorker

(* Every step preserves the invariant. *)
LEMMA NextKeyInv == RuntimeInv /\ KeyInv /\ [Next]_vars => KeyInv'
<1> SUFFICES ASSUME RuntimeInv, KeyInv, [Next]_vars PROVE KeyInv'
  OBVIOUS
<1> USE RuntimeParts
<1>1. ASSUME NEW r \in Requests, Chat(r) \/ ReadThread(r) PROVE KeyInv'
  BY <1>1, KeysUnmoved DEF Chat, ReadThread, Arrive, RuntimeTypeOK
<1>2. ASSUME NEW r \in Requests, Gate(r) \/ Invoke(r) PROVE KeyInv'
  BY <1>2, KeysUnmoved DEF Gate, Invoke, RuntimeTypeOK
<1>3. ASSUME NEW r \in Requests, Serve(r) PROVE KeyInv'
  BY <1>2, <1>3, ResolveKeys, LoadConfigKeys, CacheKeysHeld DEF Serve
<1>4. ASSUME NEW t \in Tenants, SetSecret(t) \/ DeleteSecret(t) PROVE KeyInv'
  BY <1>4, SecretKeys DEF SetSecret, DeleteSecret
<1>5. ASSUME NEW t \in Tenants, NEW a \in Agents, CreateAgent(t, a) PROVE KeyInv'
  BY <1>5, KeysUnmoved DEF CreateAgent
<1>6. CASE Restart
  <2>1. \A r \in Requests : pc'[r] \notin {"store", "build", "invoke"}
    BY <1>6 DEF Restart
  <2>2. \A k \in CacheKeys : configs'[k] = None /\ built'[k] = None
    BY <1>6 DEF Restart, CacheKeys
  <2>3. \A t \in Tenants : secret'[t] \in held'[t]
    BY <1>6 DEF Restart
  <2> QED
    BY <2>1, <2>2, <2>3 DEF KeyInv, KeyNowHeld, KeyFromThisWorker
<1>7. CASE UNCHANGED vars
  BY <1>7, KeysUnmoved DEF vars
<1> QED
  BY <1>1, <1>3, <1>4, <1>5, <1>6, <1>7 DEF Next

(* A chat's key was its tenant's at some time since the worker started.    *)
THEOREM KeysAreFromThisWorker == Spec => []KeyFromThisWorker
<1>1. Init => KeyInv
  BY DEF Init, KeyInv, KeyNowHeld, KeyFromThisWorker, CacheKeys
<1>2. KeyInv => KeyFromThisWorker
  BY DEF KeyInv
<1> QED
  BY <1>1, <1>2, NextKeyInv, RuntimeInvariant, PTL DEF Spec
=============================================================================
