---------------------------- MODULE MemoryTextProofs ----------------------------
(* Proofs about the text of a memory on its way between file and table.    *)
EXTENDS MemoryProperties, SequenceTheorems, WellFoundedInduction, TLAPS

Lines == Words \cup {Blank}

(* A set of numbers that is not empty has a least one. *)
LEMMA LeastExists ==
  ASSUME NEW S \in SUBSET Nat, S # {}
  PROVE  \E i \in S : \A j \in S : i <= j
<1> DEFINE R == OpToRel(<, Nat)
<1>1. PICK i \in S : \A j \in S : <<j, i>> \notin R
  <2> HIDE DEF R
  <2>1. IsWellFoundedOn(R, Nat)
    BY NatLessThanWellFounded DEF R
  <2> QED
    BY <2>1, WFMin, Zenon
<1>2. \A j \in S : ~(j < i)
  <2> SUFFICES ASSUME NEW j \in S, j < i PROVE FALSE
    OBVIOUS
  <2>1. j \in Nat /\ i \in Nat
    OBVIOUS
  <2>2. <<j, i>> \in Nat \X Nat /\ <<j, i>>[1] = j /\ <<j, i>>[2] = i
    BY <2>1
  <2>3. R = {ss \in Nat \X Nat : ss[1] < ss[2]}
    BY Zenon DEF OpToRel
  <2>4. <<j, i>> \in R
    <3> HIDE DEF R
    <3> QED
      BY <2>2, <2>3
  <2> QED
    BY <2>4, <1>1
<1>3. \A j \in S : i <= j
  BY <1>2
<1> QED
  BY <1>3

(* A sequence joined to one of two elements starts with these two. *)
LEMMA TwoFirst ==
  ASSUME NEW S, NEW h \in Seq(S), NEW t \in Seq(S), Len(h) = 2
  PROVE  /\ h \o t \in Seq(S)
         /\ Len(h \o t) = 2 + Len(t)
         /\ (h \o t)[1] = h[1]
         /\ (h \o t)[2] = h[2]
<1> DEFINE s == h \o t
<1>1. Len(t) \in Nat
  BY LenProperties
<1>2. /\ s \in Seq(S)
      /\ Len(s) = Len(h) + Len(t)
      /\ \A i \in 1 .. Len(h) + Len(t) : s[i] = IF i <= Len(h) THEN h[i] ELSE t[i - Len(h)]
  BY ConcatProperties, Zenon
<1> HIDE DEF s
<1>3. \A i \in 1 .. 2 : i \in 1 .. Len(h) + Len(t) /\ i <= Len(h)
  BY <1>1
<1>4. s[1] = h[1] /\ s[2] = h[2]
  <2>1. 1 \in 1 .. 2 /\ 2 \in 1 .. 2
    OBVIOUS
  <2> QED
    BY <1>2, <1>3, <2>1, Zenon
<1>5. Len(s) = 2 + Len(t)
  BY <1>2, Zenon
<1> QED
  BY <1>2, <1>4, <1>5, Zenon DEF s

(* A typed memory with a description of one line and a body comes back     *)
(* from the table as it was in its file, however long it is.               *)
THEOREM MemoriesComeBack ==
  ASSUME NEW w \in Words, NEW content \in Seq(Lines),
         content # <<>>, content # EmptyText, content[1] # Blank
  PROVE  Reread(Split(Combine(Memory(<<w>>, content)))) = Memory(<<w>>, content)
<1> DEFINE head == <<w>> \o EmptyText
           stored == head \o content
<1>1. w # Blank /\ <<w>> # EmptyText
  BY TextAssumption DEF EmptyText
<1>2. Combine(Memory(<<w>>, content)) = stored
  BY <1>1 DEF Combine, Memory
<1>3. head \in Seq(Lines) /\ Len(head) = 2 /\ head[1] = w /\ head[2] = Blank
  BY DEF EmptyText, Lines
<1>4. content \in Seq(Lines) /\ Len(content) \in Nat /\ Len(content) >= 1
      /\ DOMAIN content = 1 .. Len(content)
  BY LenProperties, EmptySeq
<1>5. stored \in Seq(Lines) /\ Len(stored) = 2 + Len(content)
      /\ stored[1] = w /\ stored[2] = Blank
  <2> HIDE DEF head
  <2> QED
    BY <1>3, <1>4, TwoFirst
<1>6. SubSeq(stored, 3, Len(stored)) = content
  BY <1>3, <1>4, <1>5, SubSeqOfConcat2
<1>7. Split(stored) = Memory(<<w>>, content)
  <2>1. Len(stored) >= 3
    <3> HIDE DEF stored
    <3> QED
      BY <1>4, <1>5
  <2> HIDE DEF stored
  <2> QED
    BY <2>1, <1>5, <1>6, Zenon DEF Split
<1>8. Stripped(content) = content
  <2> DEFINE said == {i \in DOMAIN content : content[i] # Blank}
             first == CHOOSE i \in said : \A j \in said : i <= j
  <2>1. 1 \in said /\ \A j \in said : j \in Nat /\ 1 <= j
    BY <1>4
  <2>2. first = 1
    BY <2>1
  <2>3. SubSeq(content, 1, Len(content)) = content
    BY <1>4, SubSeqFull
  <2> QED
    BY <2>1, <2>2, <2>3 DEF Stripped
<1>9. Reread(Memory(<<w>>, content)) = Memory(<<w>>, content)
  BY <1>8 DEF Reread, Memory
<1> QED
  BY <1>2, <1>7, <1>9

(* The first word of a text is its line k. *)
StartsAt(text, k) ==
  /\ k \in 1 .. Len(text) /\ text[k] # Blank
  /\ \A i \in 1 .. k - 1 : text[i] = Blank

(* What lstrip leaves of a text: nothing, or all from its first word on. *)
LEMMA StrippedText ==
  ASSUME NEW text \in Seq(Lines)
  PROVE  \/ (\A i \in 1 .. Len(text) : text[i] = Blank) /\ Stripped(text) = EmptyText
         \/ \E k \in Nat : StartsAt(text, k) /\ Stripped(text) = SubSeq(text, k, Len(text))
<1> DEFINE said == {i \in DOMAIN text : text[i] # Blank}
           first == CHOOSE i \in said : \A j \in said : i <= j
<1>1. Len(text) \in Nat /\ DOMAIN text = 1 .. Len(text)
  BY LenProperties
<1>2. CASE said = {}
  BY <1>1, <1>2 DEF Stripped
<1>3. CASE said # {}
  <2>1. said \in SUBSET Nat
    BY <1>1
  <2>2. \E i \in said : \A j \in said : i <= j
    <3> HIDE DEF said
    <3> QED
      BY <1>3, <2>1, LeastExists
  <2>3. first \in said /\ \A j \in said : first <= j
    BY <2>2, Zenon
  <2>4. Stripped(text) = SubSeq(text, first, Len(text))
    BY <1>3, Zenon DEF Stripped
  <2> HIDE DEF first
  <2>5. StartsAt(text, first)
    BY <1>1, <2>1, <2>3 DEF StartsAt
  <2> QED
    BY <2>1, <2>3, <2>4, <2>5
<1> QED
  BY <1>2, <1>3

(* One line of a text. *)
LEMMA OneLine ==
  ASSUME NEW text \in Seq(Lines), NEW k \in 1 .. Len(text)
  PROVE  SubSeq(text, k, k) = <<text[k]>>
<1>1. Len(text) \in Nat /\ k \in k .. Len(text) /\ k + 1 \in Int /\ k < k + 1
  BY LenProperties
<1>2. SubSeq(text, k, k) = <<text[k]>> \o SubSeq(text, k + 1, k)
  BY <1>1, SubSeqRecursiveFirst
<1>3. SubSeq(text, k + 1, k) = <<>>
  BY <1>1, SubSeqEmpty
<1>4. <<text[k]>> \o <<>> = <<text[k]>>
  OBVIOUS
<1> QED
  BY <1>2, <1>3, <1>4, Zenon

(* How a text is shown to lose lines p + 1 .. q. *)
LEMMA BlanksLost ==
  ASSUME NEW text, NEW left, NEW p \in 0 .. Len(text), NEW q \in 0 .. Len(text), p <= q,
         \A i \in p + 1 .. q : text[i] = Blank,
         left = SubSeq(text, 1, p) \o SubSeq(text, q + 1, Len(text))
  PROVE  LosesBlanks(text, left)
BY Zenon DEF LosesBlanks

(* The end of a text, when all before it is blank. *)
LEMMA EndOfText ==
  ASSUME NEW text \in Seq(Lines), NEW k \in 1 .. Len(text),
         \A i \in 1 .. k - 1 : text[i] = Blank
  PROVE  LosesBlanks(text, SubSeq(text, k, Len(text)))
<1> DEFINE n == Len(text)
           end == SubSeq(text, k, n)
<1>1. n \in Nat /\ k - 1 \in 0 .. n /\ 0 \in 0 .. n /\ 0 <= k - 1 /\ 0 + 1 = 1 /\ (k - 1) + 1 = k
  BY LenProperties
<1>2. end \in Seq(Lines)
  BY <1>1, LenProperties, SubSeqProperties
<1>3. SubSeq(text, 1, 0) = <<>>
  BY SubSeqEmpty
<1>4. end = SubSeq(text, 1, 0) \o SubSeq(text, (k - 1) + 1, n)
  <2> HIDE DEF end
  <2>1. end = <<>> \o end
    BY <1>2, ConcatEmptySeq
  <2> QED
    BY <2>1, <1>1, <1>3 DEF end
<1> QED
  BY <1>1, <1>4, BlanksLost, Zenon

(* A text that is stripped only loses the blank lines it begins with.      *)
LEMMA StrippedLosesBlanks ==
  ASSUME NEW text \in Seq(Lines), text # <<>>, NEW before \in 0 .. Len(text),
         \A i \in 1 .. before : text[i] = Blank,
         NEW rest \in Seq(Lines), Len(rest) = Len(text) - before,
         \A i \in 1 .. Len(rest) : rest[i] = text[before + i]
  PROVE  LosesBlanks(text, Stripped(rest))
<1> DEFINE n == Len(text)
<1>1. n \in Nat \ {0} /\ n \in 1 .. n
  BY EmptySeq
<1>3. CASE (\A i \in 1 .. Len(rest) : rest[i] = Blank) /\ Stripped(rest) = EmptyText
  <2>1. \A i \in 1 .. n : text[i] = Blank
    <3> SUFFICES ASSUME NEW i \in 1 .. n, i > before
                 PROVE  text[i] = Blank
      BY <1>1
    <3>1. i - before \in 1 .. Len(rest) /\ before + (i - before) = i
      BY <1>1
    <3> QED
      BY <1>3, <3>1
  <2>2. SubSeq(text, n, n) = EmptyText
    BY <1>1, <2>1, OneLine DEF EmptyText
  <2>3. \A i \in 1 .. n - 1 : text[i] = Blank
    BY <1>1, <2>1
  <2> QED
    BY <1>1, <1>3, <2>2, <2>3, EndOfText, Zenon
<1>4. CASE \E k \in Nat : StartsAt(rest, k) /\ Stripped(rest) = SubSeq(rest, k, Len(rest))
  <2>1. PICK k \in Nat : StartsAt(rest, k) /\ Stripped(rest) = SubSeq(rest, k, Len(rest))
    BY <1>4
  <2>2. before + k \in 1 .. n
    BY <1>1, <2>1 DEF StartsAt
  <2>3. \A i \in 1 .. (before + k) - 1 : text[i] = Blank
    <3> SUFFICES ASSUME NEW i \in 1 .. (before + k) - 1, i > before
                 PROVE  text[i] = Blank
      BY <1>1
    <3>1. i - before \in 1 .. k - 1 /\ i - before \in 1 .. Len(rest) /\ before + (i - before) = i
      BY <1>1, <2>1 DEF StartsAt
    <3> QED
      BY <2>1, <3>1 DEF StartsAt
  <2>4. SubSeq(rest, k, Len(rest)) = SubSeq(text, before + k, n)
    BY <1>1, <2>1, <2>2 DEF StartsAt
  <2> QED
    BY <2>1, <2>2, <2>3, <2>4, EndOfText
<1> QED
  BY <1>3, <1>4, StrippedText

-------------------------------------------------------------------------------
(* A pull and a push of a stored text. *)

IsCut(text) == Len(text) >= 3 /\ text[2] = Blank
Body(text) == SubSeq(text, 3, Len(text))

(* A text that is not cut comes back stripped. *)
LEMMA TripOfUncut ==
  ASSUME NEW text, ~IsCut(text)
  PROVE  RoundTrip(text) = Stripped(text)
<1>1. Split(text) = Memory(EmptyText, text)
  BY Zenon DEF Split, IsCut
<1>2. Reread(Split(text)) = Memory(EmptyText, Stripped(text))
  BY <1>1 DEF Reread, Memory
<1> QED
  BY <1>2 DEF RoundTrip, Combine, Memory

(* Of a text that is cut the body is stripped, and put back under the line *)
(* above the cut, if there are both.                                       *)
LEMMA TripOfCut ==
  ASSUME NEW text, IsCut(text)
  PROVE  RoundTrip(text) =
           IF text[1] = Blank THEN Stripped(Body(text))
           ELSE IF Stripped(Body(text)) = EmptyText THEN <<text[1]>>
           ELSE <<text[1]>> \o EmptyText \o Stripped(Body(text))
<1> DEFINE body == Stripped(Body(text))
<1>1. Split(text) = Memory(<<text[1]>>, Body(text))
  BY Zenon DEF Split, IsCut, Body
<1>2. Reread(Split(text)) = Memory(<<text[1]>>, body)
  BY <1>1 DEF Reread, Memory
<1>3. RoundTrip(text) = Combine(Memory(<<text[1]>>, body))
  BY <1>2 DEF RoundTrip
<1>4. <<text[1]>> = EmptyText <=> text[1] = Blank
  BY DEF EmptyText
<1> HIDE DEF body
<1>5. Combine(Memory(<<text[1]>>, body)) =
        IF text[1] = Blank THEN body
        ELSE IF body = EmptyText THEN <<text[1]>>
        ELSE <<text[1]>> \o EmptyText \o body
  BY <1>4 DEF Combine, Memory
<1> QED
  BY <1>3, <1>5 DEF body

(* The body of a text that is cut. *)
LEMMA BodyOfCut ==
  ASSUME NEW text \in Seq(Lines), IsCut(text)
  PROVE  /\ Body(text) \in Seq(Lines)
         /\ Len(Body(text)) = Len(text) - 2
         /\ \A i \in 1 .. Len(Body(text)) : Body(text)[i] = text[2 + i]
<1>1. Len(text) \in Nat /\ \A i \in 3 .. Len(text) : text[i] \in Lines
  BY LenProperties
<1> QED
  BY <1>1, SubSeqProperties DEF Body, IsCut

(* A pull and a push drop one run of blank lines, which may be empty. *)
LEMMA TripLosesBlanks ==
  ASSUME NEW text \in Seq(Lines), text # <<>>
  PROVE  LosesBlanks(text, RoundTrip(text))
<1> DEFINE n == Len(text)
           b == Body(text)
           body == Stripped(b)
<1>1. n \in Nat \ {0}
  BY EmptySeq
<1>2. CASE ~IsCut(text)
  <2>1. Len(text) = Len(text) - 0 /\ \A i \in 1 .. n : text[i] = text[0 + i]
    BY <1>1
  <2>2. 0 \in 0 .. n /\ \A i \in 1 .. 0 : text[i] = Blank
    BY <1>1
  <2>3. LosesBlanks(text, Stripped(text))
    BY <2>1, <2>2, StrippedLosesBlanks
  <2> QED
    BY <1>2, <2>3, TripOfUncut
<1>3. CASE IsCut(text) /\ text[1] = Blank
  <2>1. 2 \in 0 .. n /\ \A i \in 1 .. 2 : text[i] = Blank
    BY <1>1, <1>3 DEF IsCut
  <2>2. b \in Seq(Lines) /\ Len(b) = n - 2 /\ \A i \in 1 .. Len(b) : b[i] = text[2 + i]
    BY <1>3, BodyOfCut
  <2>3. LosesBlanks(text, body)
    <3> HIDE DEF b
    <3> QED
      BY <2>1, <2>2, StrippedLosesBlanks
  <2> QED
    BY <1>3, <2>3, TripOfCut, Zenon
<1>4. CASE IsCut(text) /\ text[1] # Blank
  <2>1. b \in Seq(Lines) /\ Len(b) = n - 2 /\ \A i \in 1 .. Len(b) : b[i] = text[2 + i]
    BY <1>4, BodyOfCut
  <2>2. SubSeq(text, 1, 1) = <<text[1]>>
    BY <1>1, OneLine
  <2>3. CASE body = EmptyText
    <3>1. \A i \in 1 .. Len(b) : b[i] = Blank
      <4> HIDE DEF b
      <4> SUFFICES ASSUME NEW k \in Nat, StartsAt(b, k), body = SubSeq(b, k, Len(b))
                   PROVE  FALSE
        BY <2>1, StrippedText
      <4>1. body[1] = b[k] /\ EmptyText[1] = Blank
        BY <1>1, <2>1 DEF StartsAt, EmptyText
      <4> QED
        BY <2>3, <4>1 DEF StartsAt
    <3>2. \A i \in 1 + 1 .. n : text[i] = Blank
      <4> HIDE DEF b
      <4> SUFFICES ASSUME NEW i \in 3 .. n
                   PROVE  text[i] = Blank
        BY <1>1, <1>4 DEF IsCut
      <4>1. i - 2 \in 1 .. Len(b) /\ 2 + (i - 2) = i
        BY <1>1, <2>1
      <4> QED
        BY <2>1, <3>1, <4>1
    <3>3. <<text[1]>> = SubSeq(text, 1, 1) \o SubSeq(text, n + 1, n)
      <4>1. SubSeq(text, n + 1, n) = <<>>
        BY <1>1, SubSeqEmpty
      <4>2. <<text[1]>> \o <<>> = <<text[1]>>
        OBVIOUS
      <4> QED
        BY <2>2, <4>1, <4>2, Zenon
    <3>4. 1 \in 0 .. n /\ n \in 0 .. n /\ 1 <= n
      BY <1>1
    <3>5. LosesBlanks(text, <<text[1]>>)
      BY <3>2, <3>3, <3>4, BlanksLost, Zenon
    <3> QED
      BY <1>4, <2>3, <3>5, TripOfCut, Zenon
  <2>4. CASE body # EmptyText
    <3>1. PICK k \in Nat : StartsAt(b, k) /\ body = SubSeq(b, k, Len(b))
      <4> HIDE DEF b
      <4> QED
        BY <2>1, <2>4, StrippedText
    <3>2. \A i \in 2 + 1 .. k + 1 : text[i] = Blank
      <4> HIDE DEF b
      <4> SUFFICES ASSUME NEW i \in 3 .. k + 1
                   PROVE  text[i] = Blank
        OBVIOUS
      <4>1. i - 2 \in 1 .. k - 1 /\ i - 2 \in 1 .. Len(b) /\ 2 + (i - 2) = i
        BY <1>1, <2>1, <3>1 DEF StartsAt
      <4> QED
        BY <2>1, <3>1, <4>1 DEF StartsAt
    <3>3. body = SubSeq(text, k + 2, n)
      <4> HIDE DEF b
      <4> QED
        BY <1>1, <2>1, <3>1 DEF StartsAt
    <3>4. <<text[1]>> \o EmptyText = SubSeq(text, 1, 2)
      <4>1. 1 \in 1 .. n /\ 2 \in 1 .. n /\ 2 \in 1 .. n
        BY <1>1, <1>4 DEF IsCut
      <4>2. SubSeq(text, 1, 2) = SubSeq(text, 1, 1) \o <<text[2]>>
        BY <1>1, <4>1, SubSeqRecursiveSecond
      <4> QED
        BY <1>4, <2>2, <4>2, Zenon DEF EmptyText, IsCut
    <3>5. k + 1 \in 0 .. n /\ 2 \in 0 .. n /\ 2 <= k + 1 /\ (k + 1) + 1 = k + 2
      <4> HIDE DEF b
      <4> QED
        BY <1>1, <2>1, <3>1 DEF StartsAt
    <3>6. LosesBlanks(text, <<text[1]>> \o EmptyText \o body)
      BY <3>2, <3>3, <3>4, <3>5, BlanksLost, Zenon
    <3> QED
      BY <1>4, <2>4, <3>6, TripOfCut
  <2> QED
    BY <2>3, <2>4
<1> QED
  BY <1>2, <1>3, <1>4

(* A text whose first line is not blank. *)
StartsWithWord(text) == text \in Seq(Lines) /\ text # <<>> /\ text[1] # Blank

(* What lstrip leaves is empty or starts with a word. *)
LEMMA StrippedStartsWithWord ==
  ASSUME NEW text \in Seq(Lines), Stripped(text) # EmptyText
  PROVE  StartsWithWord(Stripped(text))
<1>1. PICK k \in Nat : StartsAt(text, k) /\ Stripped(text) = SubSeq(text, k, Len(text))
  BY StrippedText
<1> DEFINE left == SubSeq(text, k, Len(text))
<1>2. Len(text) \in Nat /\ \A i \in k .. Len(text) : text[i] \in Lines
  BY <1>1, LenProperties DEF StartsAt
<1>3. left \in Seq(Lines) /\ Len(left) = Len(text) - k + 1 /\ left[1] = text[k]
  BY <1>1, <1>2, SubSeqProperties DEF StartsAt
<1>4. left # <<>>
  <2> HIDE DEF left
  <2> QED
    BY <1>1, <1>2, <1>3, EmptySeq DEF StartsAt
<1> QED
  BY <1>1, <1>3, <1>4, Zenon DEF StartsAt, StartsWithWord

(* A body under a line and a blank one. *)
LEMMA Headed ==
  ASSUME NEW w \in Lines, w # Blank, NEW body \in Seq(Lines)
  PROVE  StartsWithWord(<<w>> \o EmptyText \o body)
<1> DEFINE head == <<w>> \o EmptyText
           text == head \o body
<1>1. head \in Seq(Lines) /\ Len(head) = 2 /\ head[1] = w
  BY DEF EmptyText, Lines
<1> HIDE DEF head
<1>2. text \in Seq(Lines) /\ Len(text) = 2 + Len(body) /\ text[1] = w
  BY <1>1, TwoFirst
<1> HIDE DEF text
<1>3. text # <<>>
  BY <1>2, LenProperties, EmptySeq
<1>4. StartsWithWord(text)
  BY <1>2, <1>3 DEF StartsWithWord
<1> QED
  BY <1>4 DEF text, head

(* What comes back from a trip is empty or starts with a word. *)
LEMMA TripStartsWithWord ==
  ASSUME NEW text \in Seq(Lines), text # <<>>
  PROVE  RoundTrip(text) = EmptyText \/ StartsWithWord(RoundTrip(text))
<1> DEFINE body == Stripped(Body(text))
<1>1. CASE ~IsCut(text)
  BY <1>1, TripOfUncut, StrippedStartsWithWord
<1>2. CASE IsCut(text)
  <2>1. body = EmptyText \/ StartsWithWord(body)
    BY <1>2, BodyOfCut, StrippedStartsWithWord
  <2>2. text[1] \in Lines /\ (text[1] # Blank => StartsWithWord(<<text[1]>>))
    BY LenProperties, EmptySeq DEF StartsWithWord
  <2>3. CASE text[1] # Blank /\ body # EmptyText
    <3> HIDE DEF body
    <3>1. body \in Seq(Lines)
      BY <2>1, <2>3 DEF StartsWithWord
    <3>2. StartsWithWord(<<text[1]>> \o EmptyText \o body)
      BY <2>2, <2>3, <3>1, Headed, Zenon
    <3> QED
      BY <1>2, <2>3, <3>2, TripOfCut, Zenon DEF body
  <2>4. CASE text[1] = Blank \/ body = EmptyText
    BY <1>2, <2>1, <2>2, <2>4, TripOfCut
  <2> QED
    BY <2>3, <2>4
<1> QED
  BY <1>1, <1>2

(* A text that starts with a word is not stripped of anything. *)
LEMMA StrippedFixed ==
  ASSUME NEW text, StartsWithWord(text)
  PROVE  Stripped(text) = text
<1>1. Len(text) \in Nat \ {0} /\ ~(\A i \in 1 .. Len(text) : text[i] = Blank)
  BY EmptySeq DEF StartsWithWord
<1>2. PICK k \in Nat : StartsAt(text, k) /\ Stripped(text) = SubSeq(text, k, Len(text))
  BY <1>1, StrippedText DEF StartsWithWord
<1>3. k = 1
  BY <1>1, <1>2 DEF StartsAt, StartsWithWord
<1> QED
  BY <1>2, <1>3, SubSeqFull DEF StartsWithWord

(* A text that starts with a word is the same after two trips and one.     *)
LEMMA SecondTrip ==
  ASSUME NEW text, StartsWithWord(text)
  PROVE  RoundTrip(RoundTrip(text)) = RoundTrip(text)
<1> DEFINE body == Stripped(Body(text))
           w == text[1]
<1>1. text \in Seq(Lines) /\ text # <<>> /\ w \in Words /\ w \in Lines /\ w # Blank
  BY LenProperties, EmptySeq DEF StartsWithWord, Lines
<1>2. CASE ~IsCut(text)
  BY <1>2, TripOfUncut, StrippedFixed, Zenon
<1>3. CASE IsCut(text) /\ body = EmptyText
  <2>1. RoundTrip(text) = <<w>>
    BY <1>1, <1>3, TripOfCut, Zenon
  <2>2. StartsWithWord(<<w>>) /\ ~IsCut(<<w>>)
    BY <1>1 DEF StartsWithWord, IsCut
  <2> QED
    BY <2>1, <2>2, TripOfUncut, StrippedFixed, Zenon
<1>4. CASE IsCut(text) /\ body # EmptyText
  <2>1. StartsWithWord(body)
    BY <1>1, <1>4, BodyOfCut, StrippedStartsWithWord
  <2>2. RoundTrip(text) = <<w>> \o EmptyText \o body
    BY <1>1, <1>4, TripOfCut, Zenon
  <2> HIDE DEF body
  <2>3. Reread(Split(Combine(Memory(<<w>>, body)))) = Memory(<<w>>, body)
    BY <1>1, <1>4, <2>1, MemoriesComeBack, Zenon DEF StartsWithWord
  <2>4. Combine(Memory(<<w>>, body)) = <<w>> \o EmptyText \o body
    <3>1. <<w>> # EmptyText
      BY <1>1 DEF EmptyText
    <3> QED
      BY <1>4, <3>1 DEF Combine, Memory
  <2> QED
    BY <2>2, <2>3, <2>4, Zenon DEF RoundTrip
<1> QED
  BY <1>2, <1>3, <1>4

(* Nothing comes back as nothing. *)
LEMMA TripOfNothing == RoundTrip(EmptyText) = EmptyText
<1>1. EmptyText \in Seq(Lines) /\ ~IsCut(EmptyText) /\ \A i \in 1 .. Len(EmptyText) : EmptyText[i] = Blank
  BY DEF EmptyText, Lines, IsCut
<1>2. ~ \E k \in Nat : StartsAt(EmptyText, k)
  BY <1>1 DEF StartsAt
<1> QED
  BY <1>1, <1>2, TripOfUncut, StrippedText, Zenon

(* The texts of TextSurvives. *)
LEMMA TextsAreSequences ==
  ASSUME NEW text \in AllTexts
  PROVE  text \in Seq(Lines) /\ text # <<>>
<1>1. PICK n \in 1 .. MaxLines : text \in [1 .. n -> Lines]
  BY DEF AllTexts, Lines
<1>2. n \in Nat \ {0} /\ Len(text) = n
  BY <1>1, TextAssumption
<1> QED
  BY <1>1, <1>2

(* What a memory says survives the trip between file and table, whatever   *)
(* the words and however long the texts may be.                            *)
THEOREM TextsSurvive == Spec => []TextSurvives
<1>1. TypedTextsComeBack
  BY TextsAreSequences, MemoriesComeBack DEF TypedTextsComeBack
<1>2. StoredTextsComeBack
  <2> SUFFICES ASSUME NEW stored \in AllTexts
               PROVE  /\ LosesBlanks(stored, RoundTrip(stored))
                      /\ RoundTrip(RoundTrip(RoundTrip(stored))) = RoundTrip(RoundTrip(stored))
    BY DEF StoredTextsComeBack
  <2>1. stored \in Seq(Lines) /\ stored # <<>>
    BY TextsAreSequences
  <2>2. CASE RoundTrip(stored) = EmptyText
    BY <2>1, <2>2, TripLosesBlanks, TripOfNothing
  <2>3. CASE StartsWithWord(RoundTrip(stored))
    BY <2>1, <2>3, TripLosesBlanks, SecondTrip
  <2> QED
    BY <2>1, <2>2, <2>3, TripStartsWithWord
<1>3. TextSurvives
  BY <1>1, <1>2 DEF TextSurvives
<1> QED
  BY <1>3, PTL

=============================================================================
