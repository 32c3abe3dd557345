----------------------------- MODULE RoadmapProofs -----------------------------
(***************************************************************************)
(* RoadmapInv is an inductive invariant of RoadmapFile for every set of    *)
(* calls, titles, sections and texts: outside a write a file that is sound *)
(* holds every change that was made, and endpoints alone do not overlap.   *)
(***************************************************************************)
EXTENDS RoadmapProperties, TLAPS

USE RoadmapAssumption

(* Reading a heading's or a row's place yields an index of the text. *)
LEMMA PlaceIndex ==
  ASSUME NEW r \in Operations, NEW lines \in Seq(Lines), Accepts(r, lines),
         r.op \in {"update", "add"}
  PROVE  Place(r, lines) \in 1 .. Len(lines)
<1>1. CASE r.op = "update"
  <2>1. Place(r, lines) \in Matches(lines, r.title)
    BY <1>1 DEF Place, Accepts, IsSole
  <2> QED
    BY <2>1 DEF Matches, Hits
<1>2. CASE r.op = "add"
  <2>1. Place(r, lines) \in HeadingAt(lines, r.section)
    BY <1>2 DEF Place, Accepts
  <2> QED
    BY <2>1 DEF HeadingAt
<1> QED
  BY <1>1, <1>2

(* An update finds a row, not a heading. *)
LEMMA PlaceIsRow ==
  ASSUME NEW r \in Operations, NEW lines \in Seq(Lines), Accepts(r, lines), r.op = "update"
  PROVE  lines[Place(r, lines)] \in Rows
<1>1. Place(r, lines) \in Matches(lines, r.title)
  BY DEF Place, Accepts, IsSole
<1> QED
  BY <1>1 DEF Matches, Hits

(* A request turns a text it accepts into a text. *)
LEMMA ResultType ==
  ASSUME NEW r \in Operations, NEW lines \in Seq(Lines), Accepts(r, lines), ~Refused(r)
  PROVE  Result(r, lines) \in Seq(Lines)
<1> DEFINE i == Place(r, lines)
<1>1. CASE r.op = "update"
  <2>1. i \in 1 .. Len(lines) /\ lines[i] \in Rows
    BY <1>1, PlaceIndex, PlaceIsRow
  <2>2. [title |-> lines[i].title, status |-> r.status] \in Lines
    BY <1>1, <2>1 DEF Refused, Rows, Lines, Operations
  <2>3. Result(r, lines) = [lines EXCEPT ![i] = [title |-> lines[i].title, status |-> r.status]]
    BY <1>1, <2>1 DEF Result
  <2> HIDE DEF i
  <2> QED
    BY <2>1, <2>2, <2>3
<1>2. CASE r.op = "add"
  <2>1. i \in 1 .. Len(lines)
    BY <1>2, PlaceIndex
  <2>2. [title |-> r.title, status |-> r.status] \in Lines
    BY <1>2 DEF Refused, Rows, Lines, Operations
  <2>3. Result(r, lines) = SubSeq(lines, 1, i) \o <<[title |-> r.title, status |-> r.status]>>
                             \o SubSeq(lines, i + 1, Len(lines))
    BY <1>2 DEF Result
  <2> HIDE DEF i
  <2>4. SubSeq(lines, 1, i) \in Seq(Lines) /\ SubSeq(lines, i + 1, Len(lines)) \in Seq(Lines)
    BY <2>1
  <2>5. <<[title |-> r.title, status |-> r.status]>> \in Seq(Lines)
    BY <2>2
  <2> QED
    BY <2>3, <2>4, <2>5
<1>3. CASE r.op = "overwrite"
  BY <1>3 DEF Result, Operations
<1>4. CASE r.op = "read"
  BY <1>4 DEF Result
<1> QED
  BY <1>1, <1>2, <1>3, <1>4 DEF Operations
-------------------------------------------------------------------------------
(* The parts of the invariant that a step can disturb, in the next state. *)
LEMMA RoadmapParts ==
  ASSUME RoadmapTypeOK', WriterHoldsLock', WriterOvertakes', WorkIsValid', TextsFollow',
         OneEndpointAtATime', NoChangeLost', EndpointsDoNotOverlap'
  PROVE  RoadmapInv'
BY DEF RoadmapInv

(* The file as it is found, no call at work. *)
LEMMA InitRoadmapInv == Init => RoadmapInv
<1> SUFFICES ASSUME Init PROVE RoadmapInv
  OBVIOUS
<1>1. RoadmapTypeOK
  <2>0. Texts \subseteq Seq(Lines) /\ <<>> \in Seq(Lines)
    OBVIOUS
  <2>1. file \in Seq(Lines) /\ ledger \in Seq(Lines)
    BY <2>0 DEF Init
  <2>2. req \in [Calls -> Operations] /\ text \in [Calls -> Seq(Lines)]
    BY DEF Init, Operations
  <2>3. edits \in 0 .. MaxEdits /\ faults \in 0 .. MaxFaults
    BY DEF Init
  <2> QED
    BY <2>1, <2>2, <2>3 DEF Init, RoadmapTypeOK
<1>2. WriterHoldsLock
  <2>1. \A c \in Calls : pc[c] # "write" /\ lock # c
    BY DEF Init
  <2> QED
    BY <2>1 DEF WriterHoldsLock
<1>4. WriterOvertakes /\ WorkIsValid /\ TextsFollow
  BY DEF Init, WriterOvertakes, WorkIsValid, TextsFollow, Working
<1>3. OneEndpointAtATime /\ NoChangeLost /\ EndpointsDoNotOverlap
  BY DEF Init, OneEndpointAtATime, NoChangeLost, EndpointsDoNotOverlap, Working
<1> QED
  BY <1>1, <1>2, <1>3, <1>4 DEF RoadmapInv

(* The event loop begins a call when no endpoint runs; the lock and the    *)
(* file are left alone.                                                    *)
LEMMA BeginInv ==
  ASSUME RoadmapInv, NEW c \in Calls, NEW r \in Requests, Begin(c, r)
  PROVE  RoadmapInv'
<1> USE DEF RoadmapInv, Begin
<1>1. r \in Operations /\ (r.op = "overwrite" => r.text \in Seq(Lines))
  BY DEF Operations
<1>2. RoadmapTypeOK'
  BY <1>1 DEF RoadmapTypeOK, Working
<1>3. WriterHoldsLock'
  BY DEF WriterHoldsLock, RoadmapTypeOK
<1>4. WriterOvertakes'
  BY DEF WriterOvertakes, Overtaken, RoadmapTypeOK
<1>5. WorkIsValid'
  BY DEF WorkIsValid, Working, Refused, RoadmapTypeOK
<1>6. TextsFollow'
  BY DEF TextsFollow, RoadmapTypeOK
<1>7. OneEndpointAtATime'
  BY DEF OneEndpointAtATime, LoopIsBusy, RoadmapTypeOK
<1>8. NoChangeLost' /\ EndpointsDoNotOverlap'
  BY DEF NoChangeLost, EndpointsDoNotOverlap, RoadmapTypeOK
<1> QED
  BY <1>2, <1>3, <1>4, <1>5, <1>6, <1>7, <1>8, RoadmapParts

(* A read in the middle of a write gives a stale text, any other read the  *)
(* change of what the ledger has.                                          *)
LEMMA ReadFileInv ==
  ASSUME RoadmapInv, NEW c \in Calls, ReadFile(c)
  PROVE  RoadmapInv'
<1> USE DEF RoadmapInv, ReadFile
<1>0. req[c] \in Operations /\ ~Refused(req[c])
  BY DEF WorkIsValid, Working, RoadmapTypeOK
<1>8. text' \in [Calls -> Seq(Lines)]
  <2>1. CASE text' = text
    BY <2>1 DEF RoadmapTypeOK
  <2>2. CASE Accepts(req[c], file) /\ text' = [text EXCEPT ![c] = Result(req[c], file)]
    <3>1. Result(req[c], file) \in Seq(Lines)
      BY <1>0, <2>2, ResultType DEF RoadmapTypeOK
    <3> QED
      BY <2>2, <3>1 DEF RoadmapTypeOK
  <2> QED
    BY <2>1, <2>2
<1>1. RoadmapTypeOK'
  BY <1>8 DEF RoadmapTypeOK, Working
<1>2. WriterHoldsLock'
  BY DEF WriterHoldsLock, RoadmapTypeOK
<1>3. WriterOvertakes'
  BY DEF WriterOvertakes, Overtaken, RoadmapTypeOK
<1>4. WorkIsValid'
  BY DEF WorkIsValid, Working, RoadmapTypeOK
<1>5. TextsFollow'
  <2> SUFFICES ASSUME NEW d \in Calls, pc'[d] \in {"lock", "write"}
               PROVE  /\ req[d].op = "overwrite" => text'[d] = req[d].text
                      /\ req[d].op # "overwrite" /\ d \notin stale' /\ sound =>
                           Accepts(req[d], ledger) /\ text'[d] = Result(req[d], ledger)
    BY DEF TextsFollow
  <2>1. CASE d # c
    BY <2>1 DEF TextsFollow, RoadmapTypeOK
  <2>2. CASE d = c
    <3>1. /\ Accepts(req[c], file) /\ text' = [text EXCEPT ![c] = Result(req[c], file)]
          /\ stale' = IF lock = None THEN stale ELSE stale \cup {c}
      BY <2>2 DEF RoadmapTypeOK
    <3>2. req[c].op = "overwrite" => Result(req[c], file) = req[c].text
      BY DEF Result
    <3>3. c \notin stale' => lock = None
      BY <3>1
    <3> QED
      BY <2>2, <3>1, <3>2, <3>3 DEF NoChangeLost, RoadmapTypeOK
  <2> QED
    BY <2>1, <2>2
<1>6. OneEndpointAtATime' /\ NoChangeLost'
  BY DEF OneEndpointAtATime, NoChangeLost, Working, RoadmapTypeOK
<1>7. EndpointsDoNotOverlap'
  <2>1. CASE stale' = stale
    BY <2>1 DEF EndpointsDoNotOverlap, RoadmapTypeOK
  <2>2. CASE stale' = stale \cup {c} /\ c \in EndpointCalls /\ lock # None
    <3>1. lock \in Calls /\ pc[lock] = "write" /\ lock # c
      BY <2>2 DEF WriterHoldsLock, RoadmapTypeOK
    <3>2. lock \notin EndpointCalls
      BY <2>2, <3>1 DEF OneEndpointAtATime, Working
    <3> QED
      BY <3>1, <3>2 DEF EndpointsDoNotOverlap, RoadmapTypeOK
  <2>3. CASE stale' = stale \cup {c} /\ c \notin EndpointCalls
    BY <2>3 DEF EndpointsDoNotOverlap, RoadmapTypeOK
  <2> QED
    BY <2>1, <2>2, <2>3
<1> QED
  BY <1>1, <1>2, <1>3, <1>4, <1>5, <1>6, <1>7, RoadmapParts

(* Taking the lock and truncating the file overtakes every text that was   *)
(* computed from it.                                                       *)
LEMMA OpenFileInv ==
  ASSUME RoadmapInv, NEW c \in Calls, OpenFile(c)
  PROVE  RoadmapInv'
<1> USE DEF RoadmapInv, OpenFile
<1>1. RoadmapTypeOK'
  BY DEF RoadmapTypeOK, Working, Overtaken
<1>2. WriterHoldsLock'
  BY DEF WriterHoldsLock, RoadmapTypeOK
<1>3. WriterOvertakes'
  BY DEF WriterOvertakes, Overtaken, RoadmapTypeOK
<1>4. WorkIsValid'
  BY DEF WorkIsValid, Working, RoadmapTypeOK
<1>5. TextsFollow'
  BY DEF TextsFollow, RoadmapTypeOK
<1>6. OneEndpointAtATime' /\ NoChangeLost'
  BY DEF OneEndpointAtATime, NoChangeLost, Working, RoadmapTypeOK
<1>7. EndpointsDoNotOverlap'
  <2>1. CASE c \in EndpointCalls
    <3>1. Overtaken(c) \cap EndpointCalls = {}
      BY <2>1 DEF Overtaken, OneEndpointAtATime, Working
    <3> QED
      BY <3>1 DEF EndpointsDoNotOverlap, RoadmapTypeOK
  <2>2. CASE c \notin EndpointCalls
    BY <2>2 DEF EndpointsDoNotOverlap, RoadmapTypeOK
  <2> QED
    BY <2>1, <2>2
<1> QED
  BY <1>1, <1>2, <1>3, <1>4, <1>5, <1>6, <1>7, RoadmapParts

(* The file grows along the text of the call that holds the lock. *)
LEMMA WriteSomeInv ==
  ASSUME RoadmapInv, NEW c \in Calls, WriteSome(c)
  PROVE  RoadmapInv'
<1> USE DEF RoadmapInv, WriteSome
<1>1. PICK n \in Len(file) + 1 .. Len(text[c]) : file' = SubSeq(text[c], 1, n)
  OBVIOUS
<1>2. text[c] \in Seq(Lines) /\ n \in 1 .. Len(text[c]) /\ lock = c
  BY <1>1 DEF RoadmapTypeOK, WriterHoldsLock
<1>3. file' \in Seq(Lines) /\ Len(file') = n
  BY <1>1, <1>2
<1>4. RoadmapTypeOK'
  BY <1>3 DEF RoadmapTypeOK
<1>5. WriterHoldsLock'
  BY <1>1, <1>2, <1>3 DEF WriterHoldsLock
<1>6. WriterOvertakes' /\ WorkIsValid' /\ TextsFollow'
  BY DEF WriterOvertakes, Overtaken, WorkIsValid, TextsFollow
<1>7. OneEndpointAtATime' /\ EndpointsDoNotOverlap'
  BY DEF OneEndpointAtATime, EndpointsDoNotOverlap
<1>8. NoChangeLost'
  BY <1>2 DEF NoChangeLost
<1> QED
  BY <1>4, <1>5, <1>6, <1>7, <1>8, RoadmapParts

(* The lock is released and the text is in the file: what was sound stays  *)
(* so if the text was not stale, and every other text that is waiting is.  *)
LEMMA CloseFileInv ==
  ASSUME RoadmapInv, NEW c \in Calls, CloseFile(c)
  PROVE  RoadmapInv'
<1> USE DEF RoadmapInv, CloseFile, Forget
<1>1. req[c] \in Operations /\ ~Refused(req[c]) /\ req[c].op # "read" /\ lock = c
  BY DEF WorkIsValid, WriterHoldsLock, Working, RoadmapTypeOK
<1>2. ledger' \in Seq(Lines)
  BY <1>1, ResultType DEF RoadmapTypeOK
<1>3. RoadmapTypeOK'
  BY <1>2 DEF RoadmapTypeOK, Working, Operations
<1>4. WriterHoldsLock'
  BY <1>1 DEF WriterHoldsLock, RoadmapTypeOK
<1>5. WriterOvertakes' /\ WorkIsValid'
  BY DEF WriterOvertakes, WorkIsValid, Working, Refused, RoadmapTypeOK
<1>6. TextsFollow'
  <2> SUFFICES ASSUME NEW d \in Calls, pc'[d] \in {"lock", "write"}
               PROVE  /\ req'[d].op = "overwrite" => text'[d] = req'[d].text
                      /\ req'[d].op = "overwrite" \/ d \in stale'
    BY DEF TextsFollow
  <2>1. d # c /\ pc[d] = "lock" /\ req'[d] = req[d] /\ text'[d] = text[d]
    BY <1>1 DEF WriterHoldsLock, RoadmapTypeOK
  <2>2. req[d].op = "overwrite" \/ d \in stale
    BY <1>1, <2>1 DEF WriterOvertakes, Overtaken
  <2> QED
    BY <2>1, <2>2 DEF TextsFollow
<1>7. OneEndpointAtATime'
  BY DEF OneEndpointAtATime, Working, RoadmapTypeOK
<1>8. NoChangeLost'
  <2>1. CASE req[c].op = "overwrite"
    <3>1. Accepts(req[c], ledger) /\ Result(req[c], ledger) = req[c].text
      BY <2>1 DEF Accepts, Result
    <3> QED
      BY <2>1, <3>1 DEF TextsFollow, NoChangeLost
  <2>2. CASE req[c].op # "overwrite"
    BY <2>2 DEF TextsFollow, NoChangeLost
  <2> QED
    BY <2>1, <2>2
<1>9. EndpointsDoNotOverlap'
  BY DEF EndpointsDoNotOverlap, RoadmapTypeOK
<1> QED
  BY <1>3, <1>4, <1>5, <1>6, <1>7, <1>8, <1>9, RoadmapParts

(* A write that breaks off releases the lock and is not sound. *)
LEMMA WriteFailsInv ==
  ASSUME RoadmapInv, NEW c \in Calls, WriteFails(c)
  PROVE  RoadmapInv'
<1> USE DEF RoadmapInv, WriteFails, Forget
<1>1. lock = c
  BY DEF WriterHoldsLock
<1>2. RoadmapTypeOK'
  <2>1. faults' \in 0 .. MaxFaults
    BY DEF RoadmapTypeOK
  <2>2. req' \in [Calls -> Operations] /\ text' \in [Calls -> Seq(Lines)] /\ stale' \subseteq Calls
    BY DEF RoadmapTypeOK, Operations
  <2>3. pc' \in [Calls -> Working \cup {"idle", "ok", "error", "failed", "gone"}]
    BY DEF RoadmapTypeOK
  <2> QED
    BY <2>1, <2>2, <2>3 DEF RoadmapTypeOK
<1>3. WriterHoldsLock'
  BY <1>1 DEF WriterHoldsLock, RoadmapTypeOK
<1>4. WriterOvertakes' /\ WorkIsValid'
  BY DEF WriterOvertakes, WorkIsValid, Working, Refused, RoadmapTypeOK
<1>5. TextsFollow'
  BY DEF TextsFollow, RoadmapTypeOK
<1>6. OneEndpointAtATime' /\ NoChangeLost'
  BY DEF OneEndpointAtATime, NoChangeLost, Working, RoadmapTypeOK
<1>7. EndpointsDoNotOverlap'
  BY DEF EndpointsDoNotOverlap, RoadmapTypeOK
<1> QED
  BY <1>2, <1>3, <1>4, <1>5, <1>6, <1>7, RoadmapParts

(* A stop leaves no call at work, and only an open file that is not sound. *)
LEMMA RestartInv ==
  ASSUME RoadmapInv, Restart
  PROVE  RoadmapInv'
<1> USE DEF RoadmapInv, Restart, Forget
<1>1. RoadmapTypeOK'
  BY DEF RoadmapTypeOK, Working, Operations
<1>2. \A c \in Calls : pc'[c] \notin Working
  BY DEF Working
<1>3. WriterHoldsLock' /\ WriterOvertakes'
  BY <1>2 DEF WriterHoldsLock, WriterOvertakes, Working
<1>4. WorkIsValid' /\ TextsFollow' /\ OneEndpointAtATime'
  BY <1>2 DEF WorkIsValid, TextsFollow, OneEndpointAtATime, Working
<1>5. NoChangeLost'
  BY DEF NoChangeLost
<1>6. EndpointsDoNotOverlap'
  BY DEF EndpointsDoNotOverlap, RoadmapTypeOK
<1> QED
  BY <1>1, <1>3, <1>4, <1>5, <1>6, RoadmapParts

(* A saved file is what the ledger starts from, and overtakes every text. *)
LEMMA EditInv ==
  ASSUME RoadmapInv, Edit
  PROVE  RoadmapInv'
<1> USE DEF RoadmapInv, Edit
<1>1. RoadmapTypeOK'
  BY DEF RoadmapTypeOK, Overtaken
<1>2. \A c \in Calls : pc[c] # "write"
  BY DEF WriterHoldsLock
<1>3. WriterHoldsLock' /\ WriterOvertakes' /\ WorkIsValid'
  BY <1>2 DEF WriterHoldsLock, WriterOvertakes, WorkIsValid
<1>4. TextsFollow'
  <2>1. \A c \in Calls : pc[c] = "lock" /\ req[c].op # "overwrite" => c \in stale'
    BY DEF Overtaken
  <2> QED
    BY <1>2, <2>1 DEF TextsFollow
<1>5. OneEndpointAtATime' /\ NoChangeLost'
  BY DEF OneEndpointAtATime, NoChangeLost
<1>6. EndpointsDoNotOverlap'
  BY DEF EndpointsDoNotOverlap, RoadmapTypeOK
<1> QED
  BY <1>1, <1>3, <1>4, <1>5, <1>6, RoadmapParts

-------------------------------------------------------------------------------
(* The invariant, and the two properties it was strengthened from.  *)
THEOREM RoadmapIsSafe == Spec => []RoadmapInv
<1>1. RoadmapInv /\ [Next]_vars => RoadmapInv'
  <2> SUFFICES ASSUME RoadmapInv, [Next]_vars PROVE RoadmapInv'
    OBVIOUS
  <2>1. ASSUME NEW c \in Calls, NEW r \in Requests, Begin(c, r) PROVE RoadmapInv'
    BY <2>1, BeginInv
  <2>2. ASSUME NEW c \in Calls, Step(c) PROVE RoadmapInv'
    BY <2>2, ReadFileInv, OpenFileInv, WriteSomeInv, CloseFileInv DEF Step
  <2>3. ASSUME NEW c \in Calls, WriteFails(c) PROVE RoadmapInv'
    BY <2>3, WriteFailsInv
  <2>4. CASE Restart
    BY <2>4, RestartInv
  <2>5. CASE Edit
    BY <2>5, EditInv
  <2>6. CASE UNCHANGED vars
    BY <2>6 DEF vars, RoadmapInv, RoadmapTypeOK, WriterHoldsLock, WriterOvertakes, Overtaken,
                WorkIsValid, TextsFollow, OneEndpointAtATime, NoChangeLost, EndpointsDoNotOverlap
  <2> QED
    BY <2>1, <2>2, <2>3, <2>4, <2>5, <2>6 DEF Next
<1> QED
  BY <1>1, InitRoadmapInv, PTL DEF Spec

(* For any number of calls and threads, texts and edits: outside a write a *)
(* file that is sound holds every change that was made to it.              *)
THEOREM RoadmapLosesNothing == Spec => []NoChangeLost
<1>1. RoadmapInv => NoChangeLost
  BY DEF RoadmapInv
<1> QED
  BY <1>1, RoadmapIsSafe, PTL

(* For any number of endpoint calls: they overlap with a tool or with an   *)
(* editor, never with each other.                                          *)
THEOREM EndpointsAreAtomic == Spec => []EndpointsDoNotOverlap
<1>1. RoadmapInv => EndpointsDoNotOverlap
  BY DEF RoadmapInv
<1> QED
  BY <1>1, RoadmapIsSafe, PTL

(* The row that is chosen is one whose title contains the string, and the  *)
(* only one with that title whenever there is another such row.            *)
LEMMA PlaceIsChosen ==
  ASSUME NEW r \in Operations, NEW lines \in Seq(Lines), Accepts(r, lines), r.op = "update"
  PROVE  /\ Place(r, lines) \in Hits(lines, r.title)
         /\ \A j \in Hits(lines, r.title) \ {Place(r, lines)} :
              lines[Place(r, lines)].title = r.title /\ lines[j].title # r.title
<1> DEFINE i == Place(r, lines)
<1>1. PICK k \in Matches(lines, r.title) : Matches(lines, r.title) = {k}
  BY DEF Accepts, IsSole
<1>2. i = k
  BY <1>1 DEF Place
<1>3. CASE IsSole(Hits(lines, r.title))
  BY <1>1, <1>2, <1>3 DEF Matches
<1>4. CASE ~IsSole(Hits(lines, r.title))
  BY <1>1, <1>2, <1>4 DEF Matches
<1> QED
  BY <1>3, <1>4

(* For any titles and any relation of containment between them: an update  *)
(* that nothing overtook sets the status of the one row it is meant for.   *)
THEOREM UpdatesAreSurgical == Spec => []UpdateIsSurgical
<1>1. RoadmapInv => UpdateIsSurgical
  <2> SUFFICES ASSUME RoadmapInv, NEW c \in Calls, pc[c] = "write", c \notin stale, sound,
                      req[c].op = "update"
               PROVE  \E i \in Hits(ledger, req[c].title) :
                        /\ text[c] = [ledger EXCEPT
                              ![i] = [title |-> ledger[i].title, status |-> req[c].status]]
                        /\ \A j \in Hits(ledger, req[c].title) \ {i} :
                             ledger[i].title = req[c].title /\ ledger[j].title # req[c].title
    BY DEF UpdateIsSurgical
  <2>1. req[c] \in Operations /\ ledger \in Seq(Lines)
    BY DEF RoadmapInv, RoadmapTypeOK
  <2>2. Accepts(req[c], ledger) /\ text[c] = Result(req[c], ledger)
    BY DEF RoadmapInv, TextsFollow
  <2> DEFINE i == Place(req[c], ledger)
  <2>3. /\ i \in Hits(ledger, req[c].title)
        /\ \A j \in Hits(ledger, req[c].title) \ {i} :
             ledger[i].title = req[c].title /\ ledger[j].title # req[c].title
    BY <2>1, <2>2, PlaceIsChosen
  <2>4. i \in 1 .. Len(ledger)
    BY <2>1, <2>2, PlaceIndex
  <2>5. text[c] = [ledger EXCEPT ![i] = [title |-> ledger[i].title, status |-> req[c].status]]
    BY <2>1, <2>2, <2>4 DEF Result
  <2> HIDE DEF i
  <2> QED
    BY <2>3, <2>5
<1> QED
  BY <1>1, RoadmapIsSafe, PTL
=============================================================================
