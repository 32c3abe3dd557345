------------------------------ MODULE RoadmapFile ------------------------------
(***************************************************************************)
(* ROADMAP.md and the code that reads and edits it:                        *)
(* services/admin/roadmap/file.py, the agent tools of tools.py and the     *)
(* endpoints of services/api/main.py.  An endpoint runs on the worker's    *)
(* event loop and awaits nothing; a tool is a synchronous function that    *)
(* runs on a thread of its own.  A call reads the file without the lock,   *)
(* computes the new text, and takes the lock only to write: write_text     *)
(* truncates the file and then fills it.                                   *)
(*                                                                         *)
(* A text is a sequence of lines: headings and table rows.  Notes, other   *)
(* lines and layout are left out.  One read() is one step, and a person    *)
(* saves the file in one step, not in the middle of a write.               *)
(***************************************************************************)
EXTENDS Naturals, Sequences

CONSTANTS
  Calls,
  EndpointCalls,  \* the calls that are HTTP requests; the others are tools
  Titles,         \* item titles, up to letter case
  Contains,       \* <<q, t>>: title t contains the string q
  Statuses,       \* the values of VALID_STATUSES
  Sections,
  Texts,          \* the texts a person writes
  Requests,       \* what calls ask for
  None,
  MaxEdits,       \* bound: saves from an editor
  MaxFaults       \* bound: failed writes and stops of the process

Rows == [title : Titles, status : Statuses]
Lines == Rows \cup [section : Sections]

(* What a call can ask for; None stands for a status that is not valid. *)
Operations ==
  [op : {"update"}, title : Titles, status : Statuses \cup {None}]
    \cup [op : {"add"}, section : Sections, title : Titles, status : Statuses \cup {None}]
    \cup [op : {"overwrite"}, text : Texts]
    \cup [op : {"read"}]

ASSUME RoadmapAssumption ==
  /\ EndpointCalls \subseteq Calls
  /\ None \notin Calls \cup Statuses
  /\ \A t \in Titles : <<t, t>> \in Contains
  /\ Texts \subseteq Seq(Lines)
  /\ Requests \subseteq Operations
  /\ {MaxEdits, MaxFaults} \subseteq Nat

VARIABLES
  file,      \* ROADMAP.md; empty when it does not exist
  lock,      \* the call that holds _lock, or None
  pc, req,
  text,      \* new content, computed by the call
  edits, faults,
  (* history *)
  ledger,    \* the file, had every change been made in one step
  stale,     \* calls whose text was computed from a file that has changed since
  sound      \* no stale text and no broken write since the last whole text

vars == <<file, lock, pc, req, text, edits, faults, ledger, stale, sound>>

Init ==
  /\ file \in Texts \cup {<<>>}
  /\ lock = None
  /\ pc = [c \in Calls |-> "idle"]
  /\ req = [c \in Calls |-> [op |-> "read"]]
  /\ text = [c \in Calls |-> <<>>]
  /\ edits = 0 /\ faults = 0
  /\ ledger = file /\ stale = {} /\ sound = TRUE

-------------------------------------------------------------------------------
(* The text algorithms. *)

(* The rows whose title contains the string that is looked for. *)
Hits(lines, q) ==
  {i \in DOMAIN lines : lines[i] \in Rows /\ <<q, lines[i].title>> \in Contains}

IsSole(S) == \E i \in S : S = {i}

(* Mutant: of several hits the first one, exact or not, is taken. *)
FirstOfMatches(lines, q) ==
  {i \in Hits(lines, q) : \A j \in Hits(lines, q) : i <= j}

(* One hit is the row; of several, the one whose whole title it is. *)
Matches(lines, q) ==
  IF IsSole(Hits(lines, q)) THEN Hits(lines, q)
  ELSE {i \in Hits(lines, q) : lines[i].title = q}

(* The first heading of a section. *)
HeadingAt(lines, s) ==
  {i \in DOMAIN lines : /\ lines[i] = [section |-> s]
                        /\ \A j \in 1 .. i - 1 : lines[j] # lines[i]}

(* Whether a request that edits a text finds its place there. *)
Accepts(r, lines) ==
  CASE r.op = "update" -> IsSole(Matches(lines, r.title))
    [] r.op = "add" -> HeadingAt(lines, r.section) # {}
    [] OTHER -> TRUE

Place(r, lines) ==
  CHOOSE i \in IF r.op = "update" THEN Matches(lines, r.title)
               ELSE HeadingAt(lines, r.section) : TRUE

(* The new text: one row gets its status, or one row is put right after    *)
(* the heading, whether the section has such a row or not.                 *)
Result(r, lines) ==
  LET i == Place(r, lines) IN
  CASE r.op = "update" -> [lines EXCEPT ![i] = [title |-> @.title, status |-> r.status]]
    [] r.op = "add" -> SubSeq(lines, 1, i) \o <<[title |-> r.title, status |-> r.status]>>
                         \o SubSeq(lines, i + 1, Len(lines))
    [] r.op = "overwrite" -> r.text
    [] OTHER -> lines

-------------------------------------------------------------------------------
(* A call. *)

Working == {"read", "lock", "write"}
LoopIsBusy == \E c \in EndpointCalls : pc[c] \in Working
Refused(r) == r.op \in {"update", "add"} /\ r.status = None

(* The local variables of calls that end. *)
Forget(C) ==
  /\ req' = [c \in Calls |-> IF c \in C THEN [op |-> "read"] ELSE req[c]]
  /\ text' = [c \in Calls |-> IF c \in C THEN <<>> ELSE text[c]]
  /\ stale' = stale \ C

(* Mutant: the endpoint runs on a thread pool, as a plain def would. *)
BeginAnyTime(c, r) ==
  /\ pc[c] = "idle"
  /\ req' = [req EXCEPT ![c] = r]
  /\ pc' = [pc EXCEPT ![c] = IF Refused(r) THEN "error"
                             ELSE IF r.op = "overwrite" THEN "lock" ELSE "read"]
  /\ text' = [text EXCEPT ![c] = IF r.op = "overwrite" THEN r.text ELSE <<>>]
  /\ UNCHANGED <<file, lock, edits, faults, ledger, stale, sound>>

(* The event loop starts an endpoint, or hands a tool to a thread, when no *)
(* endpoint is running on it.  A status that is not valid is refused.      *)
Begin(c, r) ==
  /\ pc[c] = "idle" /\ ~LoopIsBusy
  /\ r.op = "overwrite" => c \in EndpointCalls
  /\ req' = [req EXCEPT ![c] = r]
  /\ pc' = [pc EXCEPT ![c] = IF Refused(r) THEN "error"
                             ELSE IF r.op = "overwrite" THEN "lock" ELSE "read"]
  /\ text' = [text EXCEPT ![c] = IF r.op = "overwrite" THEN r.text ELSE <<>>]
  /\ UNCHANGED <<file, lock, edits, faults, ledger, stale, sound>>

(* read_roadmap, without the lock: in the middle of a write it sees what   *)
(* has been written so far.  Then the new text, or an error; an empty text *)
(* counts as "not found".                                                  *)
ReadFile(c) ==
  LET r == req[c] IN
  /\ pc[c] = "read"
  /\ \/ /\ r.op = "read" /\ pc' = [pc EXCEPT ![c] = "ok"]
        /\ UNCHANGED <<text, stale>>
     \/ /\ r.op # "read" /\ (file = <<>> \/ ~Accepts(r, file))
        /\ pc' = [pc EXCEPT ![c] = "error"]
        /\ UNCHANGED <<text, stale>>
     \/ /\ r.op # "read" /\ file # <<>> /\ Accepts(r, file)
        /\ text' = [text EXCEPT ![c] = Result(r, file)]
        /\ pc' = [pc EXCEPT ![c] = "lock"]
        /\ stale' = IF lock = None THEN stale ELSE stale \cup {c}
  /\ UNCHANGED <<file, lock, req, edits, faults, ledger, sound>>

(* The calls whose text a change of the file makes stale. *)
Overtaken(c) == {d \in Calls \ {c} : pc[d] = "lock" /\ req[d].op # "overwrite"}

(* Mutant: write_roadmap without the lock. *)
OpenUnlocked(c) ==
  /\ pc[c] = "lock"
  /\ lock' = c
  /\ file' = <<>>
  /\ pc' = [pc EXCEPT ![c] = "write"]
  /\ stale' = stale \cup Overtaken(c)
  /\ UNCHANGED <<req, text, edits, faults, ledger, sound>>

(* write_roadmap takes the lock, and opening the file truncates it. *)
OpenFile(c) ==
  /\ pc[c] = "lock" /\ lock = None
  /\ lock' = c
  /\ file' = <<>>
  /\ pc' = [pc EXCEPT ![c] = "write"]
  /\ stale' = stale \cup Overtaken(c)
  /\ UNCHANGED <<req, text, edits, faults, ledger, sound>>

WriteSome(c) ==
  /\ pc[c] = "write"
  /\ \E n \in Len(file) + 1 .. Len(text[c]) : file' = SubSeq(text[c], 1, n)
  /\ UNCHANGED <<lock, pc, req, text, edits, faults, ledger, stale, sound>>

(* The whole text is written: the lock is released, the call is answered. *)
CloseFile(c) ==
  LET r == req[c] IN
  /\ pc[c] = "write" /\ file = text[c]
  /\ lock' = None
  /\ pc' = [pc EXCEPT ![c] = "ok"]
  /\ ledger' = IF Accepts(r, ledger) THEN Result(r, ledger) ELSE ledger
  /\ sound' = (r.op = "overwrite" \/ (sound /\ c \notin stale))
  /\ Forget({c})
  /\ UNCHANGED <<file, edits, faults>>

(* Mutant: acquire and release without with or finally. *)
FailHoldingLock(c) ==
  /\ pc[c] = "write" /\ faults < MaxFaults
  /\ pc' = [pc EXCEPT ![c] = "failed"]
  /\ faults' = faults + 1
  /\ sound' = FALSE
  /\ Forget({c})
  /\ UNCHANGED <<file, lock, edits, ledger>>

(* The write raises (a full disk, a volume that is gone): the with releases *)
(* the lock, the file keeps what was written.                              *)
WriteFails(c) ==
  /\ pc[c] = "write" /\ faults < MaxFaults
  /\ lock' = None
  /\ pc' = [pc EXCEPT ![c] = "failed"]
  /\ faults' = faults + 1
  /\ sound' = FALSE
  /\ Forget({c})
  /\ UNCHANGED <<file, edits, ledger>>

(* The process stops and starts again: its calls and its lock are gone. *)
Restart ==
  /\ faults < MaxFaults
  /\ lock' = None
  /\ pc' = [c \in Calls |-> IF pc[c] \in Working THEN "gone" ELSE pc[c]]
  /\ faults' = faults + 1
  /\ sound' = (sound /\ lock = None)
  /\ Forget({c \in Calls : pc[c] \in Working})
  /\ UNCHANGED <<file, edits, ledger>>

(* Someone saves the file from an editor: the volume is the host's. *)
Edit ==
  /\ edits < MaxEdits /\ lock = None
  /\ file' \in Texts /\ ledger' = file'
  /\ edits' = edits + 1
  /\ stale' = stale \cup Overtaken(None) /\ sound' = TRUE
  /\ UNCHANGED <<lock, pc, req, text, faults>>

Step(c) == ReadFile(c) \/ OpenFile(c) \/ WriteSome(c) \/ CloseFile(c)

Next ==
  \/ \E c \in Calls : \/ \E r \in Requests : Begin(c, r)
                      \/ Step(c)
                      \/ WriteFails(c)
  \/ Restart \/ Edit

(* A thread that can run goes on; the lock is free again and again. *)
Fairness == \A c \in Calls : WF_vars(Step(c))

Spec == Init /\ [][Next]_vars /\ Fairness
=============================================================================
