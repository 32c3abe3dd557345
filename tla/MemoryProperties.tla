--------------------------- MODULE MemoryProperties ---------------------------
(* What must hold of the memory store and of the shim. *)
EXTENDS MemorySync, MemoryText

Tasks == [op : {"push", "write", "delete"}, body : Nat, ts : Nat, found : Rows \cup {None}]

MemoryTypeOK ==
  /\ rows \subseteq Rows
  /\ now \in Nat /\ newest \in Nat /\ faults \in 0 .. MaxFaults
  /\ stage \in [Actors -> {"idle", "fetched", "cleared"}]
  /\ task \in [Actors -> Tasks \cup {None}]
  /\ file \in [Machines -> Files \cup {None}]
  /\ events \in [Machines -> Seq({"modified", "deleted"})]
  /\ watcher \in [Machines -> {"off", "on", "dead"}]
  /\ main \in [Machines -> {"off", "list", "rows", "write", "touch", "push", "pushing", "observe"}]
  /\ listed \in [Machines -> SUBSET Rows]
  /\ row \in [Machines -> Rows \cup {None}]
  /\ starts \in [Machines -> 0 .. MaxStarts]
  /\ {known, overlap, lost} \subseteq BOOLEAN
  /\ missed \subseteq Machines
  /\ alone \in Actors \cup {None}

(* "Upsert: delete-then-insert [...] this is correct under single-writer   *)
(* Phase 1" (mcp_server.py): the table has one row of the memory, although *)
(* it has no key, from one operation of a session or of a shim that runs   *)
(* alone until two are under way at once.                                  *)
OneRowUnlessOverlap == ~overlap => \A q, r \in rows : q = r

(* "The row is preserved with visibility='deleted' so recovery is          *)
(* possible" (mcp_server.py): once stored, a memory has a row, deleted or  *)
(* not, except between an operation's delete and its insert, whatever      *)
(* overlaps; unless an operation died there, or the file that was pushed   *)
(* was removed before its time was asked for, and nothing was stored since. *)
RecordKept == known /\ rows = {} => lost \/ \E a \in Actors : stage[a] = "cleared"

(* A soft delete keeps what it found, which was not deleted. *)
ToBeDeleted(a) ==
  LET t == task[a] IN
  /\ ~t.found.deleted /\ t.body = t.found.body
  /\ stage[a] = "cleared" => t.ts = t.found.ts

(* An operation under way knows what it does: a soft delete has a row, and *)
(* a shim does not write for anybody.                                      *)
TasksKnown ==
  \A a \in Actors : stage[a] # "idle" =>
    /\ task[a] \in Tasks
    /\ task[a].op = "delete" => task[a].found # None /\ ToBeDeleted(a)
    /\ a \in Machines => task[a].op # "write"

(* An operation that runs alone has found what there is, and cleared it.   *)
AloneIsAlone ==
  \A a \in Actors : alone = a /\ stage[a] # "idle" =>
    /\ \A b \in Actors : stage[b] # "idle" => b = a
    /\ stage[a] = "fetched" => IF rows = {} THEN task[a].found = None ELSE task[a].found \in rows
    /\ stage[a] = "cleared" => rows = {}

(* A pull that writes has chosen a row. *)
RowChosen == \A m \in Machines : main[m] \in {"write", "touch"} => row[m] # None

OverlapIsKnown == ~overlap => \A a \in Actors : stage[a] # "idle" => alone = a

(* What the two rest on, together with them. *)
MemoryInv ==
  /\ MemoryTypeOK
  /\ RowChosen
  /\ TasksKnown
  /\ AloneIsAlone
  /\ OverlapIsKnown
  /\ OneRowUnlessOverlap
  /\ RecordKept

(* The record of the memory, while no operations overlap: an operation     *)
(* replaces or deletes it when it inserts, not when it clears the table.   *)
StoredRecord ==
  IF overlap THEN None
  ELSE IF alone # None /\ stage[alone] = "cleared" THEN task[alone].found
  ELSE IF rows = {} THEN None ELSE CHOOSE r \in rows : TRUE

Upsert == INSTANCE UpsertStore WITH
  Records <- Rows, record <- StoredRecord, serial <- ~overlap, lost <- lost /\ ~overlap

(* "Correct under single-writer" (mcp_server.py): fetch, delete and insert *)
(* on a table without a key are an upsert, and a soft delete keeps the     *)
(* record with its content and timestamp, whoever dies and wherever; once  *)
(* operations overlapped, again from the next one that runs alone.         *)
ImplementsStore == Upsert!StoreSpec

(* A machine's file and the store agree: what is stored and not deleted is *)
(* what the file says, and a file that is there has a row.                 *)
Agree(m) ==
  /\ \A r \in rows : ~r.deleted => file[m] # None /\ file[m].body = r.body
  /\ rows = {} => file[m] = None

(* "File-protocol reads/writes propagate to LanceDB and vice versa"        *)
(* (memory_shim.py): once nobody writes any more, the file of a machine    *)
(* whose shim watches it comes to agree with the store and stays so,       *)
(* whatever pulls, events and requests had crossed; unless store           *)
(* operations overlapped and none has run alone since, one was cut short   *)
(* and nothing was stored since, or the file was edited between the        *)
(* startup push and the observer.                                          *)
FileAndStoreAgree ==
  \A m \in Machines :
    <>[](watcher[m] # "on" \/ overlap \/ lost \/ m \in missed \/ Agree(m))

(* A memory with a description of one line and a body is the same after    *)
(* it was pushed and pulled.                                               *)
TypedTextsComeBack ==
  \A w \in Words, content \in AllTexts :
    content # EmptyText /\ content[1] # Blank =>
      Reread(Split(Combine(Memory(<<w>>, content)))) = Memory(<<w>>, content)

(* What is left is the text without a run of blank lines. *)
LosesBlanks(text, left) ==
  \E p, q \in 0 .. Len(text) :
    /\ p <= q
    /\ \A i \in p + 1 .. q : text[i] = Blank
    /\ left = SubSeq(text, 1, p) \o SubSeq(text, q + 1, Len(text))

(* Of a stored text a pull and a push drop blank lines only, and the next  *)
(* pull and push are the last that change anything.                        *)
StoredTextsComeBack ==
  \A stored \in AllTexts :
    LET twice == RoundTrip(RoundTrip(stored)) IN
    /\ LosesBlanks(stored, RoundTrip(stored))
    /\ RoundTrip(twice) = twice

(* What a memory says survives the trip between a machine's files and the  *)
(* table, whatever the text: a file keeps what it says when it is pushed   *)
(* and pulled, a row when it is pulled and pushed, and pulls and pushes do *)
(* not go on changing it.                                                  *)
TextSurvives ==
  /\ (\E m \in Machines : file[m] # None) => TypedTextsComeBack
  /\ (\E r \in rows : ~r.deleted) => StoredTextsComeBack

(* "Conflict policy: last-write-wins by timestamp" (memory_shim.py): the   *)
(* table keeps the row with the newest timestamp that was stored.          *)
LastWriteWins == rows # {} => \E r \in rows : r.ts = newest
=============================================================================
