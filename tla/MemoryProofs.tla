------------------------------ MODULE MemoryProofs ------------------------------
(***************************************************************************)
(* MemoryInv is an inductive invariant of MemorySync for every set of      *)
(* machines and sessions: the table, which has no key, keeps one row of a  *)
(* memory unless operations overlap, and always one outside an operation.  *)
(***************************************************************************)
EXTENDS MemoryProperties, TLAPS

USE MemoryAssumption

(* Everything the invariant says of the table. *)
StoreInv ==
  /\ rows \subseteq Rows /\ newest \in Nat /\ {known, overlap, lost} \subseteq BOOLEAN
  /\ stage \in [Actors -> {"idle", "fetched", "cleared"}]
  /\ task \in [Actors -> Tasks \cup {None}]
  /\ alone \in Actors \cup {None}
  /\ TasksKnown /\ AloneIsAlone /\ OverlapIsKnown /\ OneRowUnlessOverlap /\ RecordKept

(* Everything else. *)
DiskInv ==
  /\ now \in Nat /\ faults \in 0 .. MaxFaults
  /\ file \in [Machines -> Files \cup {None}]
  /\ events \in [Machines -> Seq({"modified", "deleted"})]
  /\ watcher \in [Machines -> {"off", "on", "dead"}]
  /\ main \in [Machines -> {"off", "list", "rows", "write", "touch", "push", "pushing", "observe"}]
  /\ listed \in [Machines -> SUBSET Rows]
  /\ row \in [Machines -> Rows \cup {None}]
  /\ starts \in [Machines -> 0 .. MaxStarts]
  /\ missed \subseteq Machines
  /\ RowChosen

(* MemoryInv is what the two say together. *)
LEMMA MemoryParts == MemoryInv <=> StoreInv /\ DiskInv
BY DEF MemoryInv, MemoryTypeOK, StoreInv, DiskInv

(* No operation is under way and nothing is stored. *)
LEMMA InitStore == Init => StoreInv
<1> SUFFICES ASSUME Init PROVE StoreInv
  OBVIOUS
<1>1. \A a \in Actors : stage[a] = "idle"
  BY DEF Init
<1>2. TasksKnown /\ AloneIsAlone /\ OverlapIsKnown
  BY <1>1 DEF TasksKnown, AloneIsAlone, OverlapIsKnown
<1>3. OneRowUnlessOverlap /\ RecordKept
  BY DEF Init, OneRowUnlessOverlap, RecordKept
<1> QED
  BY <1>2, <1>3 DEF Init, StoreInv

(* An operation begins: it is alone, or all that overlap are known to. *)
LEMMA FetchStore ==
  ASSUME StoreInv, NEW a \in Actors, stage[a] = "idle",
         NEW op \in {"push", "write", "delete"}, NEW body \in Nat, NEW r \in Fetched,
         op = "delete" => r # None /\ ~r.deleted /\ body = r.body,
         a \in Machines => op # "write", Fetch(a, op, body, r)
  PROVE  StoreInv'
<1> USE DEF StoreInv, Fetch
<1>1. r \in Rows \cup {None} /\ IF rows = {} THEN r = None ELSE r \in rows
  BY DEF Fetched
<1>2. [op |-> op, body |-> body, ts |-> 0, found |-> r] \in Tasks
  BY <1>1 DEF Tasks
<1>3. task' \in [Actors -> Tasks \cup {None}] /\ task'[a] \in Tasks /\ task'[a].found = r
      /\ task'[a].op = op /\ task'[a].body = body /\ \A b \in Actors \ {a} : task'[b] = task[b]
  BY <1>2
<1>4. stage' \in [Actors -> {"idle", "fetched", "cleared"}] /\ stage'[a] = "fetched"
      /\ \A b \in Actors \ {a} : stage'[b] = stage[b]
  OBVIOUS
<1>5. TasksKnown'
  BY <1>3, <1>4 DEF TasksKnown, ToBeDeleted
<1>6. AloneIsAlone'
  BY <1>1, <1>3, <1>4 DEF AloneIsAlone
<1>7. OverlapIsKnown'
  BY <1>4 DEF OverlapIsKnown
<1>8. OneRowUnlessOverlap' /\ RecordKept'
  BY <1>4 DEF OneRowUnlessOverlap, RecordKept
<1> QED
  BY <1>3, <1>4, <1>5, <1>6, <1>7, <1>8

(* A soft delete begins, or has nothing to do. *)
LEMMA FetchToDeleteStore ==
  ASSUME StoreInv, NEW a \in Actors, stage[a] = "idle", FetchToDelete(a)
  PROVE  StoreInv'
<1>1. PICK r \in Fetched :
        IF r = None \/ (r # None /\ r.deleted) THEN UNCHANGED store
        ELSE Fetch(a, "delete", r.body, r)
  BY DEF FetchToDelete
<1>2. CASE UNCHANGED store
  BY <1>2 DEF store, StoreInv, TasksKnown, ToBeDeleted, AloneIsAlone, OverlapIsKnown,
              OneRowUnlessOverlap, RecordKept
<1>3. CASE r # None /\ ~r.deleted /\ Fetch(a, "delete", r.body, r)
  <2>1. r.body \in Nat
    BY <1>3 DEF Fetched, StoreInv, Rows
  <2> QED
    BY <1>3, <2>1, FetchStore
<1> QED
  BY <1>1, <1>2, <1>3

(* The rows that were found are deleted; the operation goes on. *)
LEMMA ClearStore ==
  ASSUME StoreInv, NEW a \in Actors, stage[a] = "fetched",
         rows' = Cleared(a), stage' = [stage EXCEPT ![a] = "cleared"],
         NEW t \in Tasks, task' = [task EXCEPT ![a] = t],
         t.op = task[a].op, t.found = task[a].found,
         t.op = "delete" => t.body = task[a].body /\ t.ts = task[a].found.ts,
         UNCHANGED <<known, newest, alone, overlap, lost>>
  PROVE  StoreInv'
<1> USE DEF StoreInv
<1>1. stage' \in [Actors -> {"idle", "fetched", "cleared"}] /\ stage'[a] = "cleared"
      /\ \A b \in Actors \ {a} : stage'[b] = stage[b]
  OBVIOUS
<1>2. task' \in [Actors -> Tasks \cup {None}] /\ task'[a] = t
      /\ \A b \in Actors \ {a} : task'[b] = task[b]
  OBVIOUS
<1>3. rows' \subseteq rows
  BY DEF Cleared
<1>4. TasksKnown'
  BY <1>1, <1>2 DEF TasksKnown, ToBeDeleted
<1>5. AloneIsAlone'
  BY <1>1, <1>2 DEF AloneIsAlone, Cleared
<1>6. OverlapIsKnown' /\ OneRowUnlessOverlap'
  BY <1>1, <1>3 DEF OverlapIsKnown, OneRowUnlessOverlap
<1>7. RecordKept'
  BY <1>1 DEF RecordKept
<1> QED
  BY <1>1, <1>2, <1>3, <1>4, <1>5, <1>6, <1>7

(* The row is inserted: after an operation that ran alone it is the one.   *)
LEMMA InsertStore ==
  ASSUME StoreInv, NEW a \in Actors, Insert(a)
  PROVE  StoreInv'
<1> USE DEF StoreInv, Insert
<1> DEFINE r == [body |-> task[a].body, ts |-> task[a].ts, deleted |-> task[a].op = "delete"]
<1>1. task[a] \in Tasks
  BY DEF TasksKnown, ToBeDeleted
<1>2. r \in Rows /\ task[a].ts \in Nat
  BY <1>1 DEF Tasks, Rows
<1>3. rows' = rows \cup {r} /\ rows' \subseteq Rows /\ newest' \in Nat
  BY <1>2
<1>4. stage' \in [Actors -> {"idle", "fetched", "cleared"}] /\ stage'[a] = "idle"
      /\ \A b \in Actors \ {a} : stage'[b] = stage[b]
  OBVIOUS
<1>5. task' \in [Actors -> Tasks \cup {None}] /\ \A b \in Actors \ {a} : task'[b] = task[b]
  OBVIOUS
<1>6. TasksKnown'
  BY <1>4, <1>5 DEF TasksKnown, ToBeDeleted
<1>7. AloneIsAlone'
  BY <1>4 DEF AloneIsAlone
<1>8. ~overlap' => alone = a
  BY DEF OverlapIsKnown
<1>9. OverlapIsKnown'
  BY <1>4, <1>8 DEF OverlapIsKnown, AloneIsAlone
<1>10. OneRowUnlessOverlap'
  BY <1>3, <1>8 DEF OneRowUnlessOverlap, AloneIsAlone
<1>11. RecordKept'
  BY <1>3 DEF RecordKept
<1> QED
  BY <1>3, <1>4, <1>5, <1>6, <1>7, <1>9, <1>10, <1>11

(* An operation ends early: nothing is added, and it is known if a row may *)
(* be missing.                                                             *)
LEMMA EndStore ==
  ASSUME StoreInv, NEW a \in Actors, rows' \subseteq rows,
         stage' = [stage EXCEPT ![a] = "idle"], task' = [task EXCEPT ![a] = None],
         lost' \in BOOLEAN, lost => lost',
         stage[a] = "cleared" \/ rows' # rows => lost',
         rows' # rows => stage[a] # "idle",
         UNCHANGED <<known, newest, alone, overlap>>
  PROVE  StoreInv'
<1> USE DEF StoreInv
<1>1. stage' \in [Actors -> {"idle", "fetched", "cleared"}] /\ stage'[a] = "idle"
      /\ \A b \in Actors \ {a} : stage'[b] = stage[b]
  OBVIOUS
<1>2. task' \in [Actors -> Tasks \cup {None}] /\ \A b \in Actors \ {a} : task'[b] = task[b]
  OBVIOUS
<1>3. TasksKnown'
  BY <1>1, <1>2 DEF TasksKnown, ToBeDeleted
<1>4. AloneIsAlone'
  BY <1>1, <1>2 DEF AloneIsAlone
<1>5. OverlapIsKnown' /\ OneRowUnlessOverlap'
  BY <1>1 DEF OverlapIsKnown, OneRowUnlessOverlap
<1>6. RecordKept'
  BY <1>1 DEF RecordKept
<1> QED
  BY <1>1, <1>2, <1>3, <1>4, <1>5, <1>6

-------------------------------------------------------------------------------
(* Steps that leave the table and its operations alone. *)
LEMMA StoreUnchanged ==
  ASSUME StoreInv, UNCHANGED store
  PROVE  StoreInv'
BY DEF store, StoreInv, TasksKnown, ToBeDeleted, AloneIsAlone, OverlapIsKnown, OneRowUnlessOverlap,
       RecordKept

(* What the observer queues is a sequence of events. *)
LEMMA RaiseType ==
  ASSUME DiskInv, NEW m \in Machines, NEW e \in {"modified", "deleted"}, Raise(m, e)
  PROVE  events' \in [Machines -> Seq({"modified", "deleted"})]
<1>1. events[m] \in Seq({"modified", "deleted"})
  BY DEF DiskInv
<1>2. Append(events[m], e) \in Seq({"modified", "deleted"})
  BY <1>1
<1> QED
  BY <1>1, <1>2 DEF DiskInv, Raise

(* A request of a session. *)
LEMMA SessionInv ==
  ASSUME MemoryInv, NEW s \in Sessions, Request(s) \/ Serve(s) \/ SessionFails(s)
  PROVE  MemoryInv'
<1> USE MemoryParts DEF Actors
<1>1. CASE WriteRequest(s)
  <2>1. StoreInv'
    BY <1>1, FetchStore DEF WriteRequest, StoreInv
  <2>2. DiskInv'
    BY <1>1 DEF WriteRequest, DiskInv, RowChosen, disk, shim
  <2> QED
    BY <2>1, <2>2 DEF MemoryInv, MemoryTypeOK, StoreInv, DiskInv
<1>2. CASE DeleteRequest(s)
  <2>1. StoreInv'
    BY <1>2, FetchToDeleteStore DEF DeleteRequest
  <2>2. DiskInv'
    BY <1>2 DEF DeleteRequest, DiskInv, RowChosen, disk, shim
  <2> QED
    BY <2>1, <2>2 DEF MemoryInv, MemoryTypeOK, StoreInv, DiskInv
<1>3. CASE ClearForRequest(s)
  <2>1. task[s] \in Tasks /\ (task[s].op = "delete" => task[s].found # None)
    BY <1>3 DEF ClearForRequest, StoreInv, TasksKnown
  <2>2. CASE /\ task[s].op = "write" /\ now' = now + 1
             /\ task' = [task EXCEPT ![s].body = now', ![s].ts = now']
    <3> DEFINE t == [task[s] EXCEPT !.body = now', !.ts = now']
    <3>0. now' \in Nat
      BY <2>2 DEF DiskInv
    <3>1. t \in Tasks /\ t.op = "write" /\ t.op = task[s].op /\ t.found = task[s].found
      BY <2>1, <2>2, <3>0 DEF Tasks
    <3>2. task' = [task EXCEPT ![s] = t]
      BY <2>2 DEF StoreInv
    <3> HIDE DEF t
    <3>3. StoreInv'
      BY <1>3, <3>1, <3>2, ClearStore DEF ClearForRequest
    <3>4. DiskInv'
      BY <1>3, <2>2 DEF ClearForRequest, DiskInv, RowChosen, disk, shim
    <3> QED
      BY <3>3, <3>4 DEF MemoryInv, MemoryTypeOK, StoreInv, DiskInv
  <2>3. CASE task[s].op = "delete" /\ task' = [task EXCEPT ![s].ts = task[s].found.ts] /\ now' = now
    <3> DEFINE t == [task[s] EXCEPT !.ts = task[s].found.ts]
    <3>1. t \in Tasks /\ t.op = task[s].op /\ t.found = task[s].found
          /\ t.body = task[s].body /\ t.ts = task[s].found.ts
      BY <2>1, <2>3 DEF Tasks, Rows
    <3>2. task' = [task EXCEPT ![s] = t]
      BY <2>3 DEF StoreInv
    <3> HIDE DEF t
    <3>3. StoreInv'
      BY <1>3, <3>1, <3>2, ClearStore DEF ClearForRequest
    <3>4. DiskInv'
      BY <1>3, <2>3 DEF ClearForRequest, DiskInv, RowChosen, disk, shim
    <3> QED
      BY <3>3, <3>4 DEF MemoryInv, MemoryTypeOK, StoreInv, DiskInv
  <2> QED
    BY <1>3, <2>2, <2>3 DEF ClearForRequest
<1>4. CASE Insert(s)
  <2>1. StoreInv'
    BY <1>4, InsertStore
  <2>2. DiskInv'
    BY <1>4 DEF Insert, DiskInv, RowChosen, disk
  <2> QED
    BY <2>1, <2>2 DEF MemoryInv, MemoryTypeOK, StoreInv, DiskInv
<1>5. CASE SessionFails(s)
  <2>1. StoreInv'
    BY <1>5, EndStore DEF SessionFails, Abandon, StoreInv
  <2>2. DiskInv'
    BY <1>5 DEF SessionFails, Abandon, DiskInv, RowChosen, disk, shim
  <2> QED
    BY <2>1, <2>2 DEF MemoryInv, MemoryTypeOK, StoreInv, DiskInv
<1> QED
  BY <1>1, <1>2, <1>3, <1>4, <1>5 DEF Request, Serve

(* A push fetches a row for the content of a file. *)
LEMMA PushStore ==
  ASSUME MemoryInv, NEW m \in Machines, stage[m] = "idle", file[m] # None, Push(m)
  PROVE  StoreInv'
<1>1. file[m].body \in Nat
  BY MemoryParts DEF DiskInv, Files
<1> QED
  BY <1>1, MemoryParts, FetchStore DEF Push, Actors

(* A shim's operation clears the table, or ends because the file is gone. *)
LEMMA ClearForShimStore ==
  ASSUME MemoryInv, NEW m \in Machines, ClearForShim(m)
  PROVE  StoreInv'
<1> USE MemoryParts DEF Actors
<1>1. /\ task[m] \in Tasks /\ task[m].op \in {"push", "delete"}
      /\ task[m].op = "delete" => task[m].found # None
  BY DEF ClearForShim, StoreInv, TasksKnown, Tasks
<1>2. CASE task[m].op = "push" /\ file[m] = None
  BY <1>2, EndStore DEF ClearForShim, Cleared, StoreInv
<1>3. CASE ~(task[m].op = "push" /\ file[m] = None)
  <2> DEFINE ts == IF task[m].op = "push" THEN file[m].mtime ELSE task[m].found.ts
             t == [task[m] EXCEPT !.ts = ts]
  <2>1. ts \in Nat
    BY <1>1, <1>3 DEF Tasks, Rows, DiskInv, Files
  <2>2. task' = [task EXCEPT ![m] = t]
    BY <1>3 DEF ClearForShim, StoreInv
  <2>4. task[m].op = "delete" => ts = task[m].found.ts
    OBVIOUS
  <2> HIDE DEF ts
  <2>3. /\ t \in Tasks /\ t.op = task[m].op /\ t.found = task[m].found
        /\ t.body = task[m].body /\ t.ts = ts
    BY <1>1, <2>1 DEF Tasks
  <2> HIDE DEF t
  <2> QED
    BY <1>3, <2>2, <2>3, <2>4, ClearStore DEF ClearForShim
<1> QED
  BY <1>2, <1>3

(* The watcher thread. *)
LEMMA WatchInv ==
  ASSUME MemoryInv, NEW m \in Machines, Watch(m) \/ WatcherFails(m)
  PROVE  MemoryInv'
<1> USE MemoryParts DEF Actors
<1>1. CASE HandleEvent(m)
  <2>1. StoreInv'
    BY <1>1, PushStore, StoreUnchanged, FetchToDeleteStore DEF HandleEvent
  <2>2. Tail(events[m]) \in Seq({"modified", "deleted"})
    BY <1>1 DEF HandleEvent, DiskInv
  <2>3. DiskInv'
    BY <1>1, <2>2 DEF HandleEvent, DiskInv, RowChosen, shim
  <2> QED
    BY <2>1, <2>3 DEF MemoryInv, MemoryTypeOK, StoreInv, DiskInv
<1>2. CASE ClearForShim(m)
  <2>1. DiskInv'
    BY <1>2 DEF ClearForShim, DiskInv, RowChosen, disk
  <2> QED
    BY <1>2, <2>1, ClearForShimStore DEF MemoryInv, MemoryTypeOK, StoreInv, DiskInv
<1>3. CASE Insert(m)
  <2>1. StoreInv'
    BY <1>3, InsertStore
  <2>2. DiskInv'
    BY <1>3 DEF Insert, DiskInv, RowChosen, disk
  <2> QED
    BY <2>1, <2>2 DEF MemoryInv, MemoryTypeOK, StoreInv, DiskInv
<1>4. CASE WatcherFails(m)
  <2>1. StoreInv'
    BY <1>4, EndStore DEF WatcherFails, Abandon, StoreInv
  <2>2. DiskInv'
    BY <1>4 DEF WatcherFails, Abandon, DiskInv, RowChosen, disk
  <2> QED
    BY <2>1, <2>2 DEF MemoryInv, MemoryTypeOK, StoreInv, DiskInv
<1> QED
  BY <1>1, <1>2, <1>3, <1>4 DEF Watch

(* A pull has looked at a row: it is written to disk, or it is not. *)
LEMMA TakeRow ==
  ASSUME DiskInv, NEW m \in Machines, NEW r \in listed[m],
         listed' = [listed EXCEPT ![m] = listed[m] \ {r}],
         \/ row' = row /\ main' = main
         \/ row' = [row EXCEPT ![m] = r] /\ main' = [main EXCEPT ![m] = "write"],
         UNCHANGED <<file, events, missed, watcher, starts, now, faults>>
  PROVE  DiskInv'
<1>1. listed \in [Machines -> SUBSET Rows] /\ row \in [Machines -> Rows \cup {None}]
  BY DEF DiskInv
<1>2. r \in Rows /\ r # None
  BY <1>1
<1>3. listed[m] \ {r} \in SUBSET Rows
  BY <1>1
<1>4. listed' \in [Machines -> SUBSET Rows]
  BY <1>1, <1>3
<1>5. CASE row' = row /\ main' = main
  BY <1>4, <1>5 DEF DiskInv, RowChosen
<1>6. CASE row' = [row EXCEPT ![m] = r] /\ main' = [main EXCEPT ![m] = "write"]
  <2>1. row' \in [Machines -> Rows \cup {None}]
    BY <1>1, <1>2, <1>6
  <2>2. RowChosen'
    BY <1>1, <1>2, <1>6 DEF DiskInv, RowChosen
  <2> QED
    BY <1>4, <1>6, <2>1, <2>2 DEF DiskInv
<1> QED
  BY <1>5, <1>6

(* A pull is through with its rows. *)
LEMMA MovedOn ==
  ASSUME DiskInv, NEW m \in Machines, NEW l \in {"push", "list"},
         main' = [main EXCEPT ![m] = l], row' = row, listed' = listed,
         UNCHANGED <<file, events, missed, watcher, starts, now, faults>>
  PROVE  DiskInv'
BY DEF DiskInv, RowChosen

(* The main thread, which leaves the table to its push. *)
LEMMA RunInv ==
  ASSUME MemoryInv, NEW m \in Machines, Run(m)
  PROVE  MemoryInv'
<1> USE MemoryParts DEF Actors, Goto
<1>1. CASE PullList(m)
  <2>1. DiskInv'
    BY <1>1 DEF PullList, DiskInv, RowChosen, StoreInv, disk
  <2> QED
    BY <1>1, <2>1, StoreUnchanged DEF PullList, MemoryInv, MemoryTypeOK, StoreInv, DiskInv
<1>2. CASE PullRow(m)
  <2>1. UNCHANGED <<store, disk, watcher, starts, now, faults>>
    BY <1>2 DEF PullRow
  <2>2. ASSUME listed[m] = {} PROVE DiskInv'
    <3>1. row' = row /\ listed' = listed
          /\ \E l \in {"push", "list"} : main' = [main EXCEPT ![m] = l]
      BY <1>2, <2>2 DEF PullRow
    <3> QED
      BY <2>1, <3>1, MovedOn DEF disk
  <2>3. ASSUME NEW r \in listed[m], listed' = [listed EXCEPT ![m] = listed[m] \ {r}],
               \/ row' = row /\ main' = main
               \/ row' = [row EXCEPT ![m] = r] /\ main' = [main EXCEPT ![m] = "write"]
        PROVE  DiskInv'
    BY <2>1, <2>3, TakeRow DEF disk
  <2>4. DiskInv'
    <3>1. \/ listed[m] = {}
          \/ \E r \in listed[m] : listed' = [listed EXCEPT ![m] = listed[m] \ {r}]
                                /\ \/ row' = row /\ main' = main
                                   \/ row' = [row EXCEPT ![m] = r] /\ main' = [main EXCEPT ![m] = "write"]
      BY <1>2, Zenon DEF PullRow, Goto
    <3> QED
      BY <3>1, <2>2, <2>3
  <2>5. StoreInv'
    BY <2>1, StoreUnchanged
  <2> QED
    BY <2>4, <2>5 DEF MemoryInv, MemoryTypeOK, StoreInv, DiskInv
<1>3. CASE PullWrite(m)
  <2>1. row[m] \in Rows
    BY <1>3 DEF PullWrite, DiskInv, RowChosen
  <2>4. [body |-> row[m].body, mtime |-> now] \in Files
    BY <2>1 DEF DiskInv, Rows, Files
  <2>2. events' \in [Machines -> Seq({"modified", "deleted"})]
    BY <1>3, RaiseType DEF PullWrite
  <2>3. DiskInv'
    BY <1>3, <2>4, <2>2 DEF PullWrite, DiskInv, RowChosen
  <2> QED
    BY <1>3, <2>3, StoreUnchanged DEF PullWrite, MemoryInv, MemoryTypeOK, StoreInv, DiskInv
<1>4. CASE PullTouch(m)
  <2>1. events' \in [Machines -> Seq({"modified", "deleted"})]
    BY <1>4, RaiseType DEF PullTouch, DiskInv
  <2>3. row[m].ts \in Nat
    BY <1>4 DEF PullTouch, DiskInv, RowChosen, Rows
  <2>4. file' \in [Machines -> Files \cup {None}]
    <3>1. CASE file[m] = None
      BY <1>4, <3>1 DEF PullTouch, DiskInv
    <3>2. CASE file[m] # None
      <4>3. file[m] \in Files
        BY <3>2 DEF DiskInv
      <4>1. [file[m] EXCEPT !.mtime = row[m].ts] \in Files
        BY <2>3, <4>3 DEF Files
      <4>2. file' = [file EXCEPT ![m] = [file[m] EXCEPT !.mtime = row[m].ts]]
        BY <1>4, <3>2 DEF PullTouch
      <4> QED
        BY <4>1, <4>2 DEF DiskInv
    <3> QED
      BY <3>1, <3>2
  <2>2. DiskInv'
    BY <1>4, <2>1, <2>4 DEF PullTouch, DiskInv, RowChosen
  <2> QED
    BY <1>4, <2>2, StoreUnchanged DEF PullTouch, MemoryInv, MemoryTypeOK, StoreInv, DiskInv
<1>5. CASE StartupPush(m)
  <2>1. StoreInv'
    BY <1>5, PushStore, StoreUnchanged DEF StartupPush
  <2>2. DiskInv'
    BY <1>5 DEF StartupPush, DiskInv, RowChosen, disk
  <2> QED
    BY <2>1, <2>2 DEF MemoryInv, MemoryTypeOK, StoreInv, DiskInv
<1>6. CASE Observe(m)
  <2>1. DiskInv'
    BY <1>6 DEF Observe, DiskInv, RowChosen, disk
  <2> QED
    BY <1>6, <2>1, StoreUnchanged DEF Observe, MemoryInv, MemoryTypeOK, StoreInv, DiskInv
<1> QED
  BY <1>1, <1>2, <1>3, <1>4, <1>5, <1>6 DEF Run

(* A shim starts, stops or dies. *)
LEMMA StartStopInv ==
  ASSUME MemoryInv, NEW m \in Machines, Start(m) \/ Stop(m) \/ ShimDies(m)
  PROVE  MemoryInv'
<1> USE MemoryParts DEF Actors, Goto
<1>0. [events EXCEPT ![m] = <<>>] \in [Machines -> Seq({"modified", "deleted"})]
  BY DEF DiskInv
<1>1. CASE Start(m)
  <2>1. DiskInv'
    BY <1>1 DEF Start, DiskInv, RowChosen
  <2> QED
    BY <1>1, <2>1, StoreUnchanged DEF Start, MemoryInv, MemoryTypeOK, StoreInv, DiskInv
<1>2. CASE Stop(m)
  <2>1. DiskInv'
    BY <1>0, <1>2 DEF Stop, DiskInv, RowChosen
  <2> QED
    BY <1>2, <2>1, StoreUnchanged DEF Stop, MemoryInv, MemoryTypeOK, StoreInv, DiskInv
<1>3. CASE ShimDies(m)
  <2>1. StoreInv'
    BY <1>3, EndStore DEF ShimDies, Abandon, StoreInv
  <2>2. DiskInv'
    BY <1>0, <1>3 DEF ShimDies, Abandon, DiskInv, RowChosen
  <2> QED
    BY <2>1, <2>2 DEF MemoryInv, MemoryTypeOK, StoreInv, DiskInv
<1> QED
  BY <1>1, <1>2, <1>3

(* Somebody saves or removes a file. *)
LEMMA FileInv ==
  ASSUME MemoryInv, NEW m \in Machines, EditFile(m) \/ RemoveFile(m)
  PROVE  MemoryInv'
<1> USE MemoryParts
<1>1. events' \in [Machines -> Seq({"modified", "deleted"})]
  BY RaiseType DEF EditFile, RemoveFile
<1>2. now' \in Nat /\ [body |-> now', mtime |-> now'] \in Files
  BY DEF EditFile, RemoveFile, DiskInv, Files
<1>3. file' \in [Machines -> Files \cup {None}] /\ missed' \subseteq Machines
  BY <1>2 DEF EditFile, RemoveFile, DiskInv
<1>4. DiskInv'
  BY <1>1, <1>2, <1>3 DEF EditFile, RemoveFile, DiskInv, RowChosen, shim
<1>5. StoreInv'
  BY StoreUnchanged DEF EditFile, RemoveFile
<1> QED
  BY <1>4, <1>5 DEF MemoryInv, MemoryTypeOK, StoreInv, DiskInv

(* The state in which nothing has started. *)
LEMMA InitMemoryInv == Init => MemoryInv
<1> SUFFICES ASSUME Init PROVE MemoryInv
  OBVIOUS
<1>1. DiskInv
  BY DEF Init, DiskInv, RowChosen
<1> QED
  BY <1>1, InitStore, MemoryParts

-------------------------------------------------------------------------------
(* The invariant, and the two properties it was strengthened from. *)
THEOREM MemoryIsSafe == Spec => []MemoryInv
<1>1. MemoryInv /\ [Next]_vars => MemoryInv'
  <2> SUFFICES ASSUME MemoryInv, [Next]_vars PROVE MemoryInv'
    OBVIOUS
  <2>1. ASSUME NEW s \in Sessions, Request(s) \/ Serve(s) \/ SessionFails(s) PROVE MemoryInv'
    BY <2>1, SessionInv
  <2>2. ASSUME NEW m \in Machines, Run(m) PROVE MemoryInv'
    BY <2>2, RunInv
  <2>3. ASSUME NEW m \in Machines, Watch(m) \/ WatcherFails(m) PROVE MemoryInv'
    BY <2>3, WatchInv
  <2>4. ASSUME NEW m \in Machines, Start(m) \/ Stop(m) \/ ShimDies(m) PROVE MemoryInv'
    BY <2>4, StartStopInv
  <2>5. ASSUME NEW m \in Machines, EditFile(m) \/ RemoveFile(m) PROVE MemoryInv'
    BY <2>5, FileInv
  <2>6. CASE UNCHANGED vars
    <3>1. StoreInv'
      BY <2>6, StoreUnchanged, MemoryParts DEF vars
    <3>2. DiskInv'
      BY <2>6, MemoryParts DEF vars, disk, shim, DiskInv, RowChosen
    <3> QED
      BY <3>1, <3>2 DEF MemoryInv, MemoryTypeOK, StoreInv, DiskInv
  <2> QED
    BY <2>1, <2>2, <2>3, <2>4, <2>5, <2>6 DEF Next
<1> QED
  BY <1>1, InitMemoryInv, PTL DEF Spec

(* For any number of sessions and machines: the keyless table has one row  *)
(* of a memory from an operation that ran alone until operations overlap.  *)
THEOREM SingleWriterKeepsOneRow == Spec => []OneRowUnlessOverlap
<1>1. MemoryInv => OneRowUnlessOverlap
  BY DEF MemoryInv
<1> QED
  BY <1>1, MemoryIsSafe, PTL

(* For any number of sessions and machines, overlapping or not: a memory   *)
(* that was stored has a row outside the operations, unless one was cut    *)
(* short.                                                                  *)
THEOREM MemoryIsKept == Spec => []RecordKept
<1>1. MemoryInv => RecordKept
  BY DEF MemoryInv
<1> QED
  BY <1>1, MemoryIsSafe, PTL

-------------------------------------------------------------------------------
(* What the operations do to the record that a caller may rely on. *)

RecordStep == [Upsert!StoreNext]_(Upsert!storeVars)

(* The element of a set that has no other. *)
LEMMA OnlyOne ==
  ASSUME NEW S, NEW r \in S, \A p, q \in S : p = q
  PROVE  (CHOOSE q \in S : TRUE) = r
OBVIOUS

(* A row is known by its fields. *)
LEMMA SameRow ==
  ASSUME NEW p \in Rows, NEW q \in Rows,
         p.body = q.body, p.ts = q.ts, p.deleted = q.deleted
  PROVE  p = q
BY DEF Rows

(* Nothing is stored, and no operation has begun. *)
LEMMA RecordStarts == Init => Upsert!StoreInit
<1> SUFFICES ASSUME Init PROVE Upsert!StoreInit
  OBVIOUS
<1>1. rows = {} /\ alone = None /\ overlap = FALSE /\ lost = FALSE
  BY DEF Init
<1> QED
  BY <1>1 DEF Upsert!StoreInit, StoredRecord

(* A step that leaves table and operations alone leaves the record alone.  *)
LEMMA RecordUnmoved ==
  ASSUME UNCHANGED store
  PROVE  RecordStep
BY DEF store, StoredRecord, RecordStep, Upsert!storeVars

(* While operations overlap there is no record to rely on. *)
LEMMA RecordUnknown ==
  ASSUME overlap, overlap'
  PROVE  RecordStep
BY DEF StoredRecord, RecordStep, Upsert!storeVars

(* Between operations, and before one's delete, the record is the row.     *)
LEMMA RecordIsRow ==
  ASSUME ~overlap, alone = None \/ stage[alone] # "cleared"
  PROVE  StoredRecord = IF rows = {} THEN None ELSE CHOOSE r \in rows : TRUE
BY DEF StoredRecord

(* An operation begins: the promise is off if another one is under way.    *)
LEMMA FetchRecord ==
  ASSUME StoreInv, NEW a \in Actors, stage[a] = "idle", NEW op, NEW body, NEW r,
         Fetch(a, op, body, r)
  PROVE  RecordStep
<1> USE DEF StoreInv, Fetch
<1>1. stage'[a] = "fetched" /\ a # None
  OBVIOUS
<1>2. CASE \A b \in Actors \ {a} : stage[b] = "idle"
  <2>1. alone' = a /\ overlap' = overlap /\ rows' = rows /\ lost' = lost
    BY <1>2
  <2>2. CASE overlap
    BY <2>1, <2>2, RecordUnknown
  <2>3. CASE ~overlap
    <3>1. alone = None \/ stage[alone] # "cleared"
      BY <1>2
    <3>2. StoredRecord' = IF rows = {} THEN None ELSE CHOOSE q \in rows : TRUE
      BY <1>1, <2>1, <2>3 DEF StoredRecord
    <3>3. StoredRecord' = StoredRecord
      BY <2>3, <3>1, <3>2, RecordIsRow
    <3> QED
      BY <2>1, <3>3 DEF RecordStep, Upsert!storeVars
  <2> QED
    BY <2>2, <2>3
<1>3. CASE ~(\A b \in Actors \ {a} : stage[b] = "idle")
  <2>1. overlap' = TRUE
    BY <1>3
  <2>2. Upsert!OperationsOverlap
    BY <2>1 DEF Upsert!OperationsOverlap, StoredRecord
  <2> QED
    BY <2>2 DEF RecordStep, Upsert!StoreNext
<1> QED
  BY <1>2, <1>3

(* A soft delete begins, or has nothing to do. *)
LEMMA FetchToDeleteRecord ==
  ASSUME StoreInv, NEW a \in Actors, stage[a] = "idle", FetchToDelete(a)
  PROVE  RecordStep
BY FetchRecord, RecordUnmoved DEF FetchToDelete

(* The table is cleared: the record is what the operation found there.     *)
LEMMA ClearRecord ==
  ASSUME StoreInv, NEW a \in Actors, stage[a] = "fetched",
         stage' = [stage EXCEPT ![a] = "cleared"], task'[a].found = task[a].found,
         UNCHANGED <<alone, overlap, lost>>
  PROVE  RecordStep
<1> USE DEF StoreInv
<1>1. CASE overlap
  BY <1>1, RecordUnknown
<1>2. CASE ~overlap
  <2>1. alone = a /\ a # None
    BY <1>2 DEF OverlapIsKnown
  <2>2. IF rows = {} THEN task[a].found = None ELSE task[a].found \in rows
    BY <2>1 DEF AloneIsAlone
  <2>3. StoredRecord = task[a].found
    <3>1. StoredRecord = IF rows = {} THEN None ELSE CHOOSE r \in rows : TRUE
      BY <1>2, <2>1, RecordIsRow
    <3>2. \A p, q \in rows : p = q
      BY <1>2 DEF OneRowUnlessOverlap
    <3> QED
      BY <2>2, <3>1, <3>2, OnlyOne
  <2>4. StoredRecord' = task[a].found
    BY <1>2, <2>1 DEF StoredRecord
  <2> QED
    BY <2>3, <2>4 DEF RecordStep, Upsert!storeVars
<1> QED
  BY <1>1, <1>2

(* The row is inserted: that is when the record is written or deleted.     *)
LEMMA InsertRecord ==
  ASSUME StoreInv, NEW a \in Actors, Insert(a)
  PROVE  RecordStep
<1> USE DEF StoreInv
<1> DEFINE r == [body |-> task[a].body, ts |-> task[a].ts, deleted |-> task[a].op = "delete"]
<1>1. CASE overlap /\ alone # a
  BY <1>1, RecordUnknown DEF Insert
<1>2. CASE ~(overlap /\ alone # a)
  <2>1. stage[a] = "cleared" /\ alone = a /\ a # None /\ rows = {}
    BY <1>2 DEF Insert, OverlapIsKnown, AloneIsAlone
  <2>2. task[a] \in Tasks /\ r \in Rows
    BY <2>1 DEF TasksKnown, Tasks, Rows
  <2>3. rows' = {r} /\ stage'[a] = "idle" /\ alone' = a /\ overlap' = FALSE /\ lost' = FALSE
    BY <1>2, <2>1 DEF Insert
  <2>4. StoredRecord' = r
    <3> HIDE DEF r
    <3>1. (CHOOSE q \in rows' : TRUE) = r
      BY <2>3, OnlyOne
    <3> QED
      BY <2>1, <2>3, <3>1 DEF StoredRecord
  <2>5. Upsert!Stored
    BY <2>2, <2>3, <2>4 DEF Upsert!Stored
  <2>6. CASE task[a].op # "delete"
    <3>1. Upsert!Write
      BY <2>4, <2>5, <2>6 DEF Upsert!Write
    <3> QED
      BY <3>1 DEF RecordStep, Upsert!StoreNext
  <2>7. CASE task[a].op = "delete"
    <3> DEFINE t == task[a]
    <3>1. /\ t.found \in Rows /\ t.found # None /\ ~t.found.deleted
          /\ t.body = t.found.body /\ t.ts = t.found.ts
      BY <2>1, <2>2, <2>7 DEF TasksKnown, ToBeDeleted, Tasks
    <3>2. ~overlap => StoredRecord = t.found
      BY <2>1 DEF StoredRecord
    <3>3. r = [t.found EXCEPT !.deleted = TRUE]
      <4>1. r.body = t.found.body /\ r.ts = t.found.ts /\ r.deleted = TRUE
        BY <2>7, <3>1
      <4>2. ASSUME NEW f \in Rows
            PROVE  LET g == [f EXCEPT !.deleted = TRUE] IN
                   g \in Rows /\ g.body = f.body /\ g.ts = f.ts /\ g.deleted = TRUE
        BY DEF Rows
      <4> HIDE DEF r, t
      <4> QED
        BY <2>2, <3>1, <4>1, <4>2, SameRow
    <3>4. r.deleted
      BY <2>7
    <3> HIDE DEF r, t
    <3>5. Upsert!SoftDelete
      BY <2>4, <2>5, <3>1, <3>2, <3>3, <3>4 DEF Upsert!SoftDelete
    <3> QED
      BY <3>5 DEF RecordStep, Upsert!StoreNext
  <2> QED
    BY <2>6, <2>7
<1> QED
  BY <1>1, <1>2

(* An operation ends early: it leaves no trace, or the record is lost.     *)
LEMMA EndRecord ==
  ASSUME StoreInv, NEW a \in Actors,
         stage' = [stage EXCEPT ![a] = "idle"], task' = [task EXCEPT ![a] = None],
         UNCHANGED <<alone, overlap>>,
         \/ rows' = rows /\ lost' = lost /\ stage[a] # "cleared"
         \/ rows' \subseteq rows /\ lost' = TRUE /\ stage[a] = "cleared"
         \/ rows' = Cleared(a) /\ lost' = TRUE /\ stage[a] = "fetched"
  PROVE  RecordStep
<1> USE DEF StoreInv
<1>1. CASE overlap
  BY <1>1, RecordUnknown
<1>2. CASE ~overlap /\ rows' = rows /\ lost' = lost /\ stage[a] # "cleared"
  <2>1. StoredRecord' = StoredRecord
    <3>1. CASE alone = None \/ alone = a
      BY <1>2, <3>1 DEF StoredRecord
    <3>2. CASE alone # None /\ alone # a
      BY <1>2, <3>2 DEF StoredRecord
    <3> QED
      BY <3>1, <3>2
  <2> QED
    BY <1>2, <2>1 DEF RecordStep, Upsert!storeVars
<1>3. CASE ~overlap /\ lost' = TRUE /\ stage[a] # "idle" /\ rows' = {}
  <2>1. alone = a /\ a # None
    BY <1>3 DEF OverlapIsKnown
  <2>2. StoredRecord' = None
    BY <1>3, <2>1 DEF StoredRecord
  <2>3. Upsert!CutShort
    BY <1>3, <2>2 DEF Upsert!CutShort
  <2> QED
    BY <2>3 DEF RecordStep, Upsert!StoreNext
<1>4. ~overlap /\ stage[a] # "idle" => alone = a
  BY DEF OverlapIsKnown
<1>5. ~overlap /\ stage[a] = "cleared" => rows = {}
  BY <1>4 DEF AloneIsAlone
<1>6. ~overlap /\ stage[a] = "fetched" => Cleared(a) = {}
  BY <1>4 DEF AloneIsAlone, Cleared
<1> QED
  BY <1>1, <1>2, <1>3, <1>5, <1>6

(* Every step of the sessions and shims is one of the register, or leaves  *)
(* it alone.                                                               *)
LEMMA StoreStep ==
  ASSUME MemoryInv, [Next]_vars
  PROVE  RecordStep
<1> USE MemoryParts DEF Actors
<1>1. ASSUME NEW s \in Sessions, Request(s) PROVE RecordStep
  BY <1>1, FetchRecord, FetchToDeleteRecord DEF Request, WriteRequest, DeleteRequest
<1>2. ASSUME NEW s \in Sessions, ClearForRequest(s) PROVE RecordStep
  <2>1. task \in [Actors -> Tasks \cup {None}] /\ task[s] \in Tasks
    BY <1>2 DEF ClearForRequest, StoreInv, TasksKnown
  <2>2. task'[s].found = task[s].found
    BY <1>2, <2>1 DEF ClearForRequest, Tasks
  <2> QED
    BY <1>2, <2>2, ClearRecord DEF ClearForRequest
<1>3. ASSUME NEW a \in Actors, Insert(a) PROVE RecordStep
  BY <1>3, InsertRecord
<1>4. ASSUME NEW s \in Sessions, SessionFails(s) PROVE RecordStep
  BY <1>4, EndRecord DEF SessionFails, Abandon, StoreInv
<1>5. ASSUME NEW m \in Machines, HandleEvent(m) \/ StartupPush(m) PROVE RecordStep
  BY <1>5, FetchRecord, FetchToDeleteRecord, RecordUnmoved DEF HandleEvent, StartupPush, Push
<1>6. ASSUME NEW m \in Machines, ClearForShim(m) PROVE RecordStep
  <2>1. task \in [Actors -> Tasks \cup {None}] /\ task[m] \in Tasks
    BY <1>6 DEF ClearForShim, StoreInv, TasksKnown
  <2>2. CASE task[m].op = "push" /\ file[m] = None
    BY <1>6, <2>2, EndRecord DEF ClearForShim
  <2>3. CASE ~(task[m].op = "push" /\ file[m] = None)
    <3>1. task'[m].found = task[m].found
      BY <1>6, <2>1, <2>3 DEF ClearForShim, Tasks
    <3> QED
      BY <1>6, <2>3, <3>1, ClearRecord DEF ClearForShim
  <2> QED
    BY <2>2, <2>3
<1>7. ASSUME NEW m \in Machines, WatcherFails(m) \/ ShimDies(m) PROVE RecordStep
  BY <1>7, EndRecord DEF WatcherFails, ShimDies, Abandon, StoreInv
<1>8. ASSUME NEW m \in Machines,
             \/ Start(m) \/ Stop(m) \/ EditFile(m) \/ RemoveFile(m)
             \/ PullList(m) \/ PullRow(m) \/ PullWrite(m) \/ PullTouch(m) \/ Observe(m)
      PROVE  RecordStep
  BY <1>8, RecordUnmoved DEF Start, Stop, EditFile, RemoveFile, PullList, PullRow, PullWrite,
                             PullTouch, Observe
<1>9. CASE UNCHANGED vars
  BY <1>9, RecordUnmoved DEF vars
<1> QED
  BY <1>1, <1>2, <1>3, <1>4, <1>5, <1>6, <1>7, <1>8, <1>9 DEF Next, Serve, Watch, Run

(* For any number of sessions and machines, fetch, delete and insert on a  *)
(* table without a key are a register with upsert and soft delete until    *)
(* operations overlap, and again from the next one that runs alone.        *)
THEOREM StoreImplemented == Spec => ImplementsStore
<1>1. MemoryInv /\ [Next]_vars => [Upsert!StoreNext]_(Upsert!storeVars)
  BY StoreStep DEF RecordStep
<1> QED
  BY <1>1, MemoryIsSafe, RecordStarts, PTL DEF Spec, ImplementsStore, Upsert!StoreSpec
=============================================================================
