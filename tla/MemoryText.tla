------------------------------ MODULE MemoryText ------------------------------
(***************************************************************************)
(* What happens to a memory's text on its way from a file to the table and *)
(* back (docs/_archive/scripts/memory_shim.py): description and body of    *)
(* the file are stored as one text, which a pull takes apart, writes as a  *)
(* file with frontmatter, and the next push parses again.                  *)
(*                                                                         *)
(* A text is the sequence of its lines, what str.split("\n") makes of it:  *)
(* the empty text has one line, the empty one.  YAML gives a description   *)
(* of one line back as it was.  Names and types are left out.              *)
(***************************************************************************)
EXTENDS Naturals, Sequences

CONSTANTS
  Words,     \* lines that are not empty
  MaxLines   \* bound: lines of a text

Blank == ""

ASSUME TextAssumption == Blank \notin Words /\ MaxLines \in Nat

EmptyText == <<Blank>>
AllTexts == UNION {[1 .. n -> Words \cup {Blank}] : n \in 1 .. MaxLines}

Memory(description, content) == [description |-> description, content |-> content]

(* Mutant: the two are joined by one newline. *)
CombineWithoutBlank(m) ==
  IF m.description # EmptyText /\ m.content # EmptyText THEN m.description \o m.content
  ELSE IF m.description # EmptyText THEN m.description ELSE m.content

(* _combine_for_storage *)
Combine(m) ==
  IF m.description # EmptyText /\ m.content # EmptyText
  THEN m.description \o EmptyText \o m.content
  ELSE IF m.description # EmptyText THEN m.description ELSE m.content

(* _split_for_storage: the text is cut at its first blank line, if that    *)
(* has a newline on both sides and a single line before it.                *)
Split(stored) ==
  IF Len(stored) >= 3 /\ stored[2] = Blank
  THEN Memory(<<stored[1]>>, SubSeq(stored, 3, Len(stored)))
  ELSE Memory(EmptyText, stored)

(* str.lstrip: the lines from the first one that is not blank. *)
Stripped(text) ==
  LET said == {i \in DOMAIN text : text[i] # Blank} IN
  IF said = {} THEN EmptyText
  ELSE SubSeq(text, CHOOSE i \in said : \A j \in said : i <= j, Len(text))

(* serialize_memory writes a file, parse_memory_file reads it again.       *)
Reread(m) == Memory(m.description, Stripped(m.content))

(* A stored text that is pulled to a file and pushed from there. *)
RoundTrip(stored) == Combine(Reread(Split(stored)))
=============================================================================
