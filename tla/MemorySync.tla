------------------------------ MODULE MemorySync ------------------------------
(***************************************************************************)
(* The memory store of the developers' sessions and the shim that mirrors  *)
(* it on disk: deprecated/lancedb-memory (lance.py, mcp_server.py) and     *)
(* docs/_archive/scripts/memory_shim.py.  Sessions, each with a memory     *)
(* server of its own, and one shim per machine share a LanceDB table that  *)
(* has no key: to replace a row is to fetch, to delete and to insert it.   *)
(*                                                                         *)
(* The model follows one memory.  Its content is known by the time it was  *)
(* written, in the form it is stored in: what is pulled to disk and parsed *)
(* again is stored the same, up to blank lines.  A call on the table is    *)
(* atomic and sees the latest version; a file is written in one step.  The *)
(* shim's lock is left out: its main thread pushes only before the watcher *)
(* thread starts, and pull_all does not take it.                           *)
(***************************************************************************)
EXTENDS Naturals, Sequences

CONSTANTS
  Machines,   \* each with a directory of memory files and a shim
  Sessions,   \* processes that run a memory server
  None,
  MaxTime,    \* bound: edits, removals and requests begin before this time
  MaxStarts,  \* bound: starts of each shim
  MaxFaults   \* bound: processes that die, and store calls that raise

Rows == [body : Nat, ts : Nat, deleted : BOOLEAN]
Files == [body : Nat, mtime : Nat]
Actors == Machines \cup Sessions

ASSUME MemoryAssumption ==
  /\ Machines \cap Sessions = {}
  /\ None \notin Rows \cup Files \cup Actors
  /\ {MaxTime, MaxStarts, MaxFaults} \subseteq Nat

VARIABLES
  rows,       \* the table: the rows with this memory's id
  now,
  (* store operations: a session's request, a shim's push or soft delete *)
  stage,      \* "idle", "fetched" (before the delete), "cleared" (after it)
  task,       \* what the operation is doing
  (* one machine: its disk and its shim *)
  file,
  events,     \* what the watcher has not handled yet
  watcher,    \* the thread that handles events: "off", "on" or "dead"
  main,       \* where the main thread is
  listed,     \* rows of this pull that are still to be looked at
  row,        \* the row it is writing to disk
  starts, faults,
  (* history *)
  known,      \* a row was stored
  newest,     \* the highest timestamp that was stored
  alone,      \* the last operation that began, if no other was under way then or since
  overlap,    \* operations overlapped, and none has run alone since
  lost,       \* an operation ended between its delete and its insert; nothing stored since
  missed      \* machines whose file changed when nobody was watching it

store == <<rows, stage, task, known, newest, alone, overlap, lost>>
disk == <<file, events, missed>>
shim == <<watcher, main, listed, row, starts>>
vars == <<store, disk, shim, now, faults>>

Init ==
  /\ rows = {} /\ now = 0
  /\ stage = [a \in Actors |-> "idle"]
  /\ task = [a \in Actors |-> None]
  /\ file = [m \in Machines |-> None]
  /\ events = [m \in Machines |-> <<>>]
  /\ watcher = [m \in Machines |-> "off"]
  /\ main = [m \in Machines |-> "off"]
  /\ listed = [m \in Machines |-> {}]
  /\ row = [m \in Machines |-> None]
  /\ starts = [m \in Machines |-> 0] /\ faults = 0
  /\ known = FALSE /\ newest = 0 /\ alone = None /\ overlap = FALSE /\ lost = FALSE
  /\ missed = {}

-------------------------------------------------------------------------------
(* Store operations. *)

(* Mutant: rows that are deleted are not found. *)
FetchedLive == IF \E r \in rows : ~r.deleted THEN {r \in rows : ~r.deleted} ELSE {None}

(* _fetch_one: some row of this id, deleted or not; which one is not said. *)
Fetched == IF rows = {} THEN {None} ELSE rows

(* An operation on the table begins with the row it found. *)
Fetch(a, op, body, found) ==
  /\ stage' = [stage EXCEPT ![a] = "fetched"]
  /\ task' = [task EXCEPT ![a] = [op |-> op, body |-> body, ts |-> 0, found |-> found]]
  /\ IF \A b \in Actors \ {a} : stage[b] = "idle"
     THEN alone' = a /\ UNCHANGED overlap
     ELSE alone' = None /\ overlap' = TRUE
  /\ UNCHANGED <<rows, known, newest, lost>>

(* Mutant: a soft delete does not keep the content. *)
FetchToDeleteEmptied(a) ==
  \E r \in Fetched :
    IF r = None \/ (r # None /\ r.deleted) THEN UNCHANGED store ELSE Fetch(a, "delete", 0, r)

(* A soft delete finds a row that is not deleted yet, or has nothing to do. *)
FetchToDelete(a) ==
  \E r \in Fetched :
    IF r = None \/ (r # None /\ r.deleted) THEN UNCHANGED store
    ELSE Fetch(a, "delete", r.body, r)

(* memory_write *)
WriteRequest(s) ==
  /\ stage[s] = "idle" /\ now < MaxTime
  /\ now' = now + 1
  /\ \E r \in Fetched : Fetch(s, "write", 0, r)
  /\ UNCHANGED <<disk, shim, faults>>

(* memory_delete *)
DeleteRequest(s) ==
  /\ stage[s] = "idle" /\ now < MaxTime
  /\ now' = now + 1
  /\ FetchToDelete(s)
  /\ UNCHANGED <<disk, shim, faults>>

(* Rows of this id are deleted, all of them, if one was found. *)
Cleared(a) == IF task[a].found = None THEN rows ELSE {}

(* A session deletes what it found and stamps its record with the time; a  *)
(* record that is soft-deleted keeps its content and its timestamp.        *)
ClearForRequest(s) ==
  LET t == task[s] IN
  /\ stage[s] = "fetched"
  /\ rows' = Cleared(s)
  /\ stage' = [stage EXCEPT ![s] = "cleared"]
  /\ \/ /\ t.op = "write" /\ now' = now + 1
        /\ task' = [task EXCEPT ![s].body = now', ![s].ts = now']
     \/ /\ t.op = "delete" /\ task' = [task EXCEPT ![s].ts = t.found.ts]
        /\ UNCHANGED now
  /\ UNCHANGED <<known, newest, alone, overlap, lost, disk, shim, faults>>

(* A shim does the same, but a push asks the file for its time only then:  *)
(* a file that is gone raises, and the exception ends the thread.          *)
ClearForShim(m) ==
  LET t == task[m]
      gone == t.op = "push" /\ file[m] = None IN
  /\ stage[m] = "fetched"
  /\ rows' = Cleared(m)
  /\ IF gone
     THEN /\ stage' = [stage EXCEPT ![m] = "idle"] /\ task' = [task EXCEPT ![m] = None]
          /\ lost' = TRUE
          /\ watcher' = [watcher EXCEPT ![m] = IF @ = "on" THEN "dead" ELSE @]
          /\ main' = [main EXCEPT ![m] = IF @ = "pushing" THEN "off" ELSE @]
     ELSE /\ stage' = [stage EXCEPT ![m] = "cleared"]
          /\ task' = [task EXCEPT ![m].ts = IF t.op = "push" THEN file[m].mtime ELSE t.found.ts]
          /\ UNCHANGED <<lost, watcher, main>>
  /\ UNCHANGED <<known, newest, alone, overlap, listed, row, starts, disk, now, faults>>

(* Mutant: a delete does not put its tombstone back. *)
InsertNoTombstone(a) ==
  LET t == task[a] IN
  /\ stage[a] = "cleared"
  /\ rows' = IF t.op = "delete" THEN rows
             ELSE rows \cup {[body |-> t.body, ts |-> t.ts, deleted |-> FALSE]}
  /\ known' = TRUE
  /\ newest' = IF t.ts > newest THEN t.ts ELSE newest
  /\ stage' = [stage EXCEPT ![a] = "idle"]
  /\ task' = [task EXCEPT ![a] = None]
  /\ overlap' = (overlap /\ alone # a) /\ lost' = FALSE
  /\ main' = [m \in Machines |-> IF m = a /\ main[m] = "pushing" THEN "observe" ELSE main[m]]
  /\ UNCHANGED <<alone, watcher, listed, row, starts, disk, now, faults>>

(* insert_records: the row is embedded and added; what is pushed or written *)
(* is not deleted, whatever the old row was.                               *)
Insert(a) ==
  LET t == task[a] IN
  /\ stage[a] = "cleared"
  /\ rows' = rows \cup {[body |-> t.body, ts |-> t.ts, deleted |-> t.op = "delete"]}
  /\ known' = TRUE
  /\ newest' = IF t.ts > newest THEN t.ts ELSE newest
  /\ stage' = [stage EXCEPT ![a] = "idle"]
  /\ task' = [task EXCEPT ![a] = None]
  /\ overlap' = (overlap /\ alone # a) /\ lost' = FALSE
  /\ main' = [m \in Machines |-> IF m = a /\ main[m] = "pushing" THEN "observe" ELSE main[m]]
  /\ UNCHANGED <<alone, watcher, listed, row, starts, disk, now, faults>>

-------------------------------------------------------------------------------
(* The disk. *)

(* The observer queues what happens to the file, once if it repeats.       *)
Raise(m, e) ==
  events' = [events EXCEPT ![m] =
               IF watcher[m] # "on" \/ (@ # <<>> /\ @[Len(@)] = e) THEN @ ELSE Append(@, e)]

(* A session, or a person, saves the file. *)
EditFile(m) ==
  /\ now < MaxTime
  /\ now' = now + 1
  /\ file' = [file EXCEPT ![m] = [body |-> now', mtime |-> now']]
  /\ Raise(m, "modified")
  /\ missed' = IF watcher[m] = "off" /\ main[m] \in {"pushing", "observe"}
               THEN missed \cup {m} ELSE missed \ {m}
  /\ UNCHANGED <<store, shim, faults>>

RemoveFile(m) ==
  /\ now < MaxTime /\ file[m] # None
  /\ now' = now + 1
  /\ file' = [file EXCEPT ![m] = None]
  /\ Raise(m, "deleted")
  /\ UNCHANGED <<store, missed, shim, faults>>

-------------------------------------------------------------------------------
(* The shim's watcher thread: one event after the other. *)

(* push_file parses the file before it looks at the table; no file, no push. *)
Push(m) == \E r \in Fetched : Fetch(m, "push", file[m].body, r)

HandleEvent(m) ==
  /\ watcher[m] = "on" /\ stage[m] = "idle" /\ events[m] # <<>>
  /\ events' = [events EXCEPT ![m] = Tail(@)]
  /\ \/ /\ Head(events[m]) = "modified" /\ file[m] # None
        /\ Push(m)
     \/ /\ Head(events[m]) = "modified" /\ file[m] = None
        /\ UNCHANGED store
     \/ /\ Head(events[m]) = "deleted"
        /\ FetchToDelete(m)
  /\ UNCHANGED <<file, missed, shim, now, faults>>

-------------------------------------------------------------------------------
(* The shim's main thread. *)

Goto(m, pc) == main' = [main EXCEPT ![m] = pc]

(* run_daemon hydrates the disk from the table first. *)
Start(m) ==
  /\ main[m] = "off" /\ starts[m] < MaxStarts
  /\ starts' = [starts EXCEPT ![m] = @ + 1]
  /\ Goto(m, "list")
  /\ missed' = missed \ {m}
  /\ UNCHANGED <<store, file, events, watcher, listed, row, now, faults>>

(* pull_all lists the rows ... *)
PullList(m) ==
  /\ main[m] = "list"
  /\ listed' = [listed EXCEPT ![m] = rows]
  /\ Goto(m, "rows")
  /\ UNCHANGED <<store, disk, watcher, row, starts, now, faults>>

(* Mutant: a file that is there is never replaced. *)
PullRowIfMissing(m) ==
  /\ main[m] = "rows"
  /\ \/ \E r \in listed[m] :
          /\ \A q \in listed[m] : q.ts <= r.ts
          /\ listed' = [listed EXCEPT ![m] = @ \ {r}]
          /\ IF r.deleted \/ file[m] # None
             THEN UNCHANGED <<row, main>>
             ELSE row' = [row EXCEPT ![m] = r] /\ Goto(m, "write")
     \/ /\ listed[m] = {}
        /\ Goto(m, IF watcher[m] = "off" THEN "push" ELSE "list")
        /\ UNCHANGED <<row, listed>>
  /\ UNCHANGED <<store, disk, watcher, starts, now, faults>>

(* ... and looks at them, newest first: a deleted row is left alone, and so *)
(* is a file that is as new as the row.                                    *)
PullRow(m) ==
  /\ main[m] = "rows"
  /\ \/ \E r \in listed[m] :
          /\ \A q \in listed[m] : q.ts <= r.ts
          /\ listed' = [listed EXCEPT ![m] = @ \ {r}]
          /\ IF r.deleted \/ (file[m] # None /\ file[m].mtime >= r.ts)
             THEN UNCHANGED <<row, main>>
             ELSE row' = [row EXCEPT ![m] = r] /\ Goto(m, "write")
     \/ /\ listed[m] = {}
        /\ Goto(m, IF watcher[m] = "off" THEN "push" ELSE "list")
        /\ UNCHANGED <<row, listed>>
  /\ UNCHANGED <<store, disk, watcher, starts, now, faults>>

(* The file is written, whatever has happened to it since it was looked at. *)
PullWrite(m) ==
  /\ main[m] = "write"
  /\ file' = [file EXCEPT ![m] = [body |-> row[m].body, mtime |-> now]]
  /\ Raise(m, "modified")
  /\ Goto(m, "touch")
  /\ UNCHANGED <<store, missed, watcher, listed, row, starts, now, faults>>

(* os.utime gives the file, if it is still there, the row's time. *)
PullTouch(m) ==
  /\ main[m] = "touch"
  /\ IF file[m] = None THEN UNCHANGED <<file, events>>
     ELSE /\ file' = [file EXCEPT ![m].mtime = row[m].ts]
          /\ Raise(m, "modified")
  /\ Goto(m, "rows") /\ row' = [row EXCEPT ![m] = None]
  /\ UNCHANGED <<store, missed, watcher, listed, starts, now, faults>>

(* At startup a file that is there is pushed, edited or not. *)
StartupPush(m) ==
  /\ main[m] = "push" /\ stage[m] = "idle"
  /\ \/ file[m] # None /\ Push(m) /\ Goto(m, "pushing")
     \/ file[m] = None /\ Goto(m, "observe") /\ UNCHANGED store
  /\ UNCHANGED <<disk, watcher, listed, row, starts, now, faults>>

(* The observer starts, and polling with it ... *)
Observe(m) ==
  /\ main[m] = "observe"
  /\ watcher' = [watcher EXCEPT ![m] = "on"]
  /\ Goto(m, "list")
  /\ UNCHANGED <<store, disk, listed, row, starts, now, faults>>

(* ... or, with --once, that was it.  A signal ends the polling: events    *)
(* nobody has handled are dropped with the observer.                       *)
Stop(m) ==
  /\ main[m] = "observe" \/ (main[m] = "list" /\ watcher[m] # "off" /\ stage[m] = "idle")
  /\ watcher' = [watcher EXCEPT ![m] = "off"]
  /\ events' = [events EXCEPT ![m] = <<>>]
  /\ Goto(m, "off")
  /\ UNCHANGED <<store, file, missed, listed, row, starts, now, faults>>

-------------------------------------------------------------------------------
(* Faults. *)

Abandon(a) ==
  /\ faults < MaxFaults /\ faults' = faults + 1
  /\ stage' = [stage EXCEPT ![a] = "idle"]
  /\ task' = [task EXCEPT ![a] = None]
  /\ lost' = (lost \/ stage[a] = "cleared")
  /\ UNCHANGED <<rows, known, newest, alone, overlap, now>>

(* A session dies, or a call on the table raises. *)
SessionFails(s) ==
  /\ stage[s] # "idle"
  /\ Abandon(s)
  /\ UNCHANGED <<disk, shim>>

(* A call on the table raises in the watcher thread: nothing catches it. *)
WatcherFails(m) ==
  /\ watcher[m] = "on" /\ stage[m] # "idle"
  /\ Abandon(m)
  /\ watcher' = [watcher EXCEPT ![m] = "dead"]
  /\ UNCHANGED <<disk, main, listed, row, starts>>

ShimDies(m) ==
  /\ main[m] # "off"
  /\ Abandon(m)
  /\ watcher' = [watcher EXCEPT ![m] = "off"]
  /\ events' = [events EXCEPT ![m] = <<>>]
  /\ listed' = [listed EXCEPT ![m] = {}] /\ row' = [row EXCEPT ![m] = None]
  /\ Goto(m, "off")
  /\ UNCHANGED <<file, missed, starts>>

-------------------------------------------------------------------------------
Request(s) == WriteRequest(s) \/ DeleteRequest(s)
Serve(s) == ClearForRequest(s) \/ Insert(s)
Watch(m) == HandleEvent(m) \/ ClearForShim(m) \/ Insert(m)
Run(m) == PullList(m) \/ PullRow(m) \/ PullWrite(m) \/ PullTouch(m) \/ StartupPush(m) \/ Observe(m)

Next ==
  \/ \E s \in Sessions : Request(s) \/ Serve(s) \/ SessionFails(s)
  \/ \E m \in Machines : \/ Start(m) \/ Run(m) \/ Watch(m) \/ Stop(m)
                         \/ EditFile(m) \/ RemoveFile(m)
                         \/ WatcherFails(m) \/ ShimDies(m)

(* A request that was begun and the threads of a shim go on; nobody has to *)
(* edit a file, make a request, or start or stop a shim.                   *)
Fairness ==
  /\ \A s \in Sessions : WF_vars(Serve(s))
  /\ \A m \in Machines : WF_vars(Watch(m)) /\ WF_vars(Run(m))

Spec == Init /\ [][Next]_vars /\ Fairness
=============================================================================
