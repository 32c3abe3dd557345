--------------------------- MODULE RoadmapProperties ---------------------------
(* What must hold of the roadmap file and of its readers and writers. *)
EXTENDS RoadmapFile

RoadmapTypeOK ==
  /\ file \in Seq(Lines) /\ ledger \in Seq(Lines)
  /\ lock \in Calls \cup {None}
  /\ pc \in [Calls -> Working \cup {"idle", "ok", "error", "failed", "gone"}]
  /\ req \in [Calls -> Operations]
  /\ text \in [Calls -> Seq(Lines)]
  /\ edits \in 0 .. MaxEdits /\ faults \in 0 .. MaxFaults
  /\ stale \subseteq Calls
  /\ sound \in BOOLEAN

(* "ROADMAP.md is the single source of truth; this module reads and        *)
(* surgically updates it" (file.py): outside a write the file is what its  *)
(* changes make of it, one after the other, whatever threads are between   *)
(* their read and their write; unless a text was written that another      *)
(* write or an edit had overtaken, or a write broke off, and no whole text *)
(* has replaced the file since.                                            *)
NoChangeLost == lock = None /\ sound => file = ledger

(* An endpoint reads, computes and writes while the event loop does        *)
(* nothing else: without tools on their threads and without an editor, no  *)
(* endpoint overwrites what it has not seen, lock or no lock.              *)
EndpointsDoNotOverlap ==
  stale \cap EndpointCalls # {} =>
    edits > 0 \/ \E c \in Calls \ EndpointCalls : pc[c] # "idle"

(* An update sets the status of one row, one whose title contains what was *)
(* asked for, and touches nothing else; when other rows contain it too, it *)
(* is the only row with exactly that title.                                *)
UpdateIsSurgical ==
  \A c \in Calls :
    pc[c] = "write" /\ c \notin stale /\ sound /\ req[c].op = "update" =>
      LET q == req[c].title IN
      \E i \in Hits(ledger, q) :
        /\ text[c] = [ledger EXCEPT ![i] = [title |-> ledger[i].title, status |-> req[c].status]]
        /\ \A j \in Hits(ledger, q) \ {i} : ledger[i].title = q /\ ledger[j].title # q

(* The holder of the lock is the one that writes, and the file is the      *)
(* beginning of its text.                                                  *)
WriterHoldsLock ==
  \A c \in Calls : /\ pc[c] = "write" <=> lock = c
                   /\ pc[c] = "write" => file = SubSeq(text[c], 1, Len(file))

(* Whoever waits for the lock with a text of the old file is overtaken. *)
WriterOvertakes == lock # None => Overtaken(lock) \subseteq stale

(* A call that is at work has a valid status; one that has read computes   *)
(* new text.                                                               *)
WorkIsValid ==
  \A c \in Calls : /\ pc[c] \in Working => ~Refused(req[c])
                   /\ pc[c] \in {"lock", "write"} => req[c].op # "read"

(* A text that is not stale is the change its call asks for, made to the   *)
(* file as the ledger has it.                                              *)
TextsFollow ==
  \A c \in Calls : pc[c] \in {"lock", "write"} =>
    /\ req[c].op = "overwrite" => text[c] = req[c].text
    /\ req[c].op # "overwrite" /\ c \notin stale /\ sound =>
         Accepts(req[c], ledger) /\ text[c] = Result(req[c], ledger)

OneEndpointAtATime ==
  \A c, d \in EndpointCalls : pc[c] \in Working /\ pc[d] \in Working => c = d

(* What they rest on, together. *)
RoadmapInv ==
  /\ RoadmapTypeOK
  /\ WriterHoldsLock
  /\ WriterOvertakes
  /\ WorkIsValid
  /\ TextsFollow
  /\ OneEndpointAtATime
  /\ NoChangeLost
  /\ EndpointsDoNotOverlap

(* Every call ends, also when a write fails while others wait for the lock. *)
CallsEnd == \A c \in Calls : pc[c] \in Working ~> pc[c] \in {"ok", "error", "failed", "gone"}
=============================================================================
