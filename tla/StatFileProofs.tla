--------------------------- MODULE StatFileProofs ---------------------------
(***************************************************************************)
(* What Process::Data reads from /proc/<pid>/stat, for every name of up to *)
(* MaxWords words and every number of fields: the invariants that the runs *)
(* of StatFile check are theorems.  The argument follows the words: what   *)
(* the items are is known while the name is read, and afterwards it        *)
(* depends only on the number of items that the name was cut into.         *)
(***************************************************************************)
EXTENDS StatFile, SequenceTheorems, TLAPS

\* One of the words of the name.
InName(word) == \E i \in 1 .. Len(name) : word = name[i]

\* One of the first words of the name ends with ")".
Closed(count) == \E i \in 1 .. count : name[i].close

\* Before anything is read there are no items.
Nothing == pos = 0 => statItems = <<>> /\ wordBuffer = <<>>

\* While the name is read, every item but the first is a word of it, and the
\* words are joined until the first one that ends with ")".
InsideName ==
    pos \in 1 .. Len(name) =>
        /\ Len(statItems) \in 1 .. pos
        /\ statItems[1] = Field("pid")
        /\ \A i \in 2 .. Len(statItems) : InName(statItems[i])
        /\ Closed(pos - 1) => Len(statItems) >= 2
        /\ ~ Closed(pos - 1) => Len(statItems) = 1
        /\ ~ Closed(pos - 1) => (wordBuffer = <<>> <=> pos = 1)

\* The name was cut into so many items; the fields follow, one item each.
CutInto(count) ==
    /\ Len(statItems) = count + pos - Len(name)
    /\ statItems[1] = Field("pid")
    /\ \A i \in 2 .. count + 1 : InName(statItems[i])
    /\ \A i \in count + 2 .. Len(statItems) :
         statItems[i] = Field(FieldKind(i - count))
    /\ Plain <=> count = 1

\* After the name no parenthesis is open.
AfterName ==
    pos > Len(name) =>
        /\ wordBuffer = <<>>
        /\ \E count \in 1 .. Len(name) : CutInto(count)

WordInv ==
    /\ Nothing /\ InsideName /\ AfterName
    /\ \A i \in 1 .. Len(wordBuffer) : InName(wordBuffer[i])

\* The text is read to its end, or not at all because the process has gone.
PlaceInv ==
    /\ pc = "open" => pos = 0
    /\ pc \in {"parse", "link"} => pos = Len(Text) \/ (pos = 0 /\ ~ alive)

Right == /\ data.processId = "pid" /\ data.parentId = "ppid"
         /\ data.startTime = "start" /\ data.lastState = "state"

\* The object has its five fields.
IsData ==
    data = [processId |-> data.processId, parentId |-> data.parentId,
            startTime |-> data.startTime, lastState |-> data.lastState,
            executablePath |-> data.executablePath]

\* Nothing is stored before the end of the text.
DataInv ==
    /\ IsData
    /\ pc \in {"open", "read", "parse"} => data = NoData
    /\ pc \in {"link", "done"} /\ data.lastState # "invalid" =>
         (Right <=> Plain)

StatInv == TypeOK /\ WordInv /\ PlaceInv /\ DataInv /\ CrashHasReason

-----------------------------------------------------------------------------
(***************************************************************************)
(* The words of the file.                                                  *)
(***************************************************************************)
USE DEF idIndex, stateIndex, parentIdIndex, startTimeIndex

\* The kinds of the fields.
LEMMA FieldKinds ==
    /\ FieldKind(0) = "pid" /\ FieldKind(2) = "state" /\ FieldKind(3) = "ppid"
    /\ FieldKind(21) = "start"
    /\ \A i \in Nat \ {0, 2, 3, 21} : FieldKind(i) = "other"
  BY DEF FieldKind

\* Fields and the words of names are words.
LEMMA WordsOfFile ==
    /\ \A i \in 0 .. Fields - 1 : Field(FieldKind(i)) \in Words
    /\ NameWords \subseteq Words
    /\ Field("pid") \in Words
<1>1. 0 \in 0 .. Fields - 1
  BY StatAssumption
<1> QED
  BY <1>1, FieldKinds DEF Words

\* A name is a sequence of words, from a "(" to a ")".
LEMMA NameType ==
    ASSUME name \in Names
    PROVE  /\ name \in Seq(NameWords)
           /\ Len(name) \in 1 .. MaxWords
           /\ \A i \in 1 .. Len(name) : name[i] \in NameWords
           /\ name[1].open /\ name[Len(name)].close
<1>1. PICK k \in 1 .. MaxWords : name \in [1 .. k -> NameWords]
  BY DEF Names
<1>2. name \in Seq(NameWords) /\ Len(name) = k
  BY <1>1, StatAssumption
<1> QED
  BY <1>1, <1>2 DEF Names, Last

\* The words of the file: the ID, the name, the other fields from the state on.
LEMMA TextWords ==
    ASSUME name \in Names
    PROVE  /\ Len(Text) = Len(name) + Fields - 1
           /\ Text[1] = Field("pid")
           /\ \A i \in 2 .. Len(name) + 1 : Text[i] = name[i - 1]
           /\ \A i \in Len(name) + 2 .. Len(Text) :
                Text[i] = Field(FieldKind(i - Len(name)))
<1> DEFINE first == <<Field("pid")>>
           rest == [i \in 1 .. Fields - stateIndex |->
                      Field(FieldKind(i - 1 + stateIndex))]
<1>1. first \in Seq(Words) /\ Len(first) = 1 /\ first[1] = Field("pid")
  BY WordsOfFile
<1>2. name \in Seq(Words) /\ Len(name) \in Nat
  BY NameType, WordsOfFile, SeqMonotonic, StatAssumption
<1>3. rest \in Seq(Words) /\ Len(rest) = Fields - 2
  <2>1. Fields - 2 \in Nat /\ \A i \in 1 .. Fields - 2 : i + 1 \in 0 .. Fields - 1
    BY StatAssumption
  <2>2. rest \in [1 .. Fields - 2 -> Words]
    BY <2>1, WordsOfFile
  <2> HIDE DEF rest
  <2> QED
    BY <2>1, <2>2
<1>4. \A i \in 1 .. Fields - 2 : rest[i] = Field(FieldKind(i + 1))
  BY StatAssumption
<1> HIDE DEF first, rest
<1> DEFINE front == first \o name
<1>5. /\ front \in Seq(Words)
      /\ Len(front) = 1 + Len(name)
      /\ \A i \in 1 .. 1 + Len(name) :
           front[i] = IF i <= 1 THEN first[i] ELSE name[i - 1]
  <2>1. /\ front \in Seq(Words)
        /\ Len(front) = Len(first) + Len(name)
        /\ \A i \in 1 .. Len(first) + Len(name) :
             front[i] = IF i <= Len(first) THEN first[i] ELSE name[i - Len(first)]
    BY <1>1, <1>2, ConcatProperties
  <2> HIDE DEF front
  <2> QED
    BY <1>1, <1>2, <2>1
<1>6. Text = front \o rest
  BY DEF Text, first, rest
<1> HIDE DEF front
<1>7. /\ Len(Text) = Len(front) + Len(rest)
      /\ \A i \in 1 .. Len(front) + Len(rest) :
           Text[i] = IF i <= Len(front) THEN front[i]
                     ELSE rest[i - Len(front)]
  BY <1>3, <1>5, <1>6, ConcatProperties
<1>8. /\ Len(Text) = Len(name) + Fields - 1
      /\ \A i \in 1 .. 1 + Len(name) : Text[i] = front[i]
      /\ \A i \in Len(name) + 2 .. Len(Text) :
           Text[i] = rest[i - (1 + Len(name))]
  <2>1. /\ Len(front) + Len(rest) = Len(name) + Fields - 1
        /\ Len(name) \in Nat /\ Fields \in Nat /\ Fields > 2
    BY <1>2, <1>3, <1>5, StatAssumption
  <2>2. \A i \in 1 .. 1 + Len(name) :
          i \in 1 .. Len(front) + Len(rest) /\ i <= Len(front)
    BY <1>5, <2>1
  <2>3. ASSUME NEW i \in Len(name) + 2 .. Len(Text)
        PROVE  Text[i] = rest[i - (1 + Len(name))]
    <3>1. i \in 1 .. Len(front) + Len(rest) /\ ~ i <= Len(front)
      BY <1>5, <1>7, <2>1, <2>3
    <3> QED
      BY <1>5, <1>7, <3>1
  <2> QED
    BY <1>7, <2>1, <2>2, <2>3
<1>9. /\ Text[1] = Field("pid")
      /\ \A i \in 2 .. Len(name) + 1 : Text[i] = name[i - 1]
  BY <1>1, <1>2, <1>5, <1>8
<1>10. ASSUME NEW i \in Len(name) + 2 .. Len(Text)
       PROVE  Text[i] = Field(FieldKind(i - Len(name)))
  <2>1. /\ i - (1 + Len(name)) \in 1 .. Fields - 2
        /\ (i - (1 + Len(name))) + 1 = i - Len(name)
    BY <1>2, <1>8, <1>10, StatAssumption
  <2> QED
    BY <1>4, <1>8, <1>10, <2>1
<1> QED
  BY <1>8, <1>9, <1>10

\* What is asked of a word is different for the two kinds.
LEMMA NameOrField ==
    /\ \A w \in NameWords : /\ w.is \in {"word", "number", "huge"}
                            /\ w.open \in BOOLEAN /\ w.close \in BOOLEAN
    /\ \A kind : /\ Field(kind).is = kind
                 /\ Field(kind).open = FALSE /\ Field(kind).close = FALSE
  BY DEF NameWords, Field

\* Plain says that no word before the last ends with ")".
LEMMA PlainIsOpen == name \in Names => (Plain <=> ~ Closed(Len(name) - 1))
  BY NameType DEF Plain, Closed

\* One word more.
LEMMA ClosedNext ==
    ASSUME name \in Names, NEW i \in 1 .. Len(name)
    PROVE  Closed(i) <=> Closed(i - 1) \/ name[i].close
<1>1. Len(name) \in Nat /\ 1 .. i = 1 .. i - 1 \union {i}
  BY NameType, StatAssumption
<1> QED
  BY <1>1 DEF Closed

\* What is said of the name stays true when the name stays the same.
LEMMA NameKept ==
    ASSUME name' = name
    PROVE  /\ \A word : InName(word) <=> InName(word)'
           /\ \A count : Closed(count) <=> Closed(count)'
           /\ Plain' <=> Plain
           /\ Text' = Text
  BY DEF InName, Closed, Plain, Text

-----------------------------------------------------------------------------
(***************************************************************************)
(* The reader of words.                                                    *)
(***************************************************************************)
\* The words that are joined are words of the name.
Joinable(words) ==
    /\ words \in Seq(NameWords)
    /\ \A i \in 1 .. Len(words) : InName(words[i])

\* A word ends an item that is part of the name, or it is kept to be joined.
Adds(word) ==
    /\ \E item \in NameWords : /\ InName(item)
                               /\ statItems' = Append(statItems, item)
    /\ wordBuffer' = <<>>
    /\ word.close \/ (wordBuffer = <<>> /\ ~ word.open)

Keeps(word) ==
    /\ statItems' = statItems
    /\ wordBuffer' # <<>> /\ Joinable(wordBuffer')
    /\ ~ word.close
    /\ wordBuffer # <<>> \/ word.open

\* What reading a word of the name does.
LEMMA ReadNameWord ==
    ASSUME TypeOK, WordInv, ReadWord, pos \in 1 .. Len(name)
    PROVE  Adds(name[pos]) \/ Keeps(name[pos])
<1> DEFINE word == name[pos]
<1>1. /\ Text[pos + 1] = word /\ word \in NameWords /\ InName(word)
      /\ Len(name) \in Nat
  <2>1. pos + 1 \in 2 .. Len(name) + 1 /\ (pos + 1) - 1 = pos
    BY NameType, StatAssumption DEF TypeOK
  <2> QED
    BY <2>1, NameType, TextWords, StatAssumption DEF TypeOK, InName
<1>2. Joinable(wordBuffer)
  BY DEF TypeOK, WordInv, Joinable
<1> HIDE DEF word
<1>3. CASE wordBuffer # <<>> /\ word.close
  <2>1. /\ statItems' = Append(statItems, Head(Append(wordBuffer, word)))
        /\ wordBuffer' = <<>>
    BY <1>1, <1>3 DEF ReadWord, Take
  <2>2. Head(Append(wordBuffer, word)) = wordBuffer[1] /\ Len(wordBuffer) >= 1
    BY <1>1, <1>2, <1>3 DEF Joinable
  <2>3. wordBuffer[1] \in NameWords /\ InName(wordBuffer[1])
    BY <1>2, <2>2 DEF Joinable
  <2> QED
    BY <1>3, <2>1, <2>2, <2>3 DEF Adds, word
<1>4. CASE wordBuffer # <<>> /\ ~ word.close
  <2>1. statItems' = statItems /\ wordBuffer' = Append(wordBuffer, word)
    BY <1>1, <1>4 DEF ReadWord, Take
  <2>2. wordBuffer' # <<>> /\ Joinable(wordBuffer')
    BY <1>1, <1>2, <2>1 DEF Joinable
  <2> QED
    BY <1>4, <2>1, <2>2 DEF Keeps, word
<1>5. CASE wordBuffer = <<>> /\ word.open /\ ~ word.close
  <2>1. statItems' = statItems /\ wordBuffer' = <<word>>
    BY <1>1, <1>5 DEF ReadWord, Take
  <2>2. wordBuffer' # <<>> /\ Joinable(wordBuffer')
    BY <1>1, <2>1 DEF Joinable
  <2> QED
    BY <1>5, <2>1, <2>2 DEF Keeps, word
<1>6. CASE wordBuffer = <<>> /\ (word.close \/ ~ word.open)
  <2>1. statItems' = Append(statItems, word) /\ wordBuffer' = <<>>
    BY <1>1, <1>6 DEF ReadWord, Take
  <2> QED
    BY <1>1, <1>6, <2>1 DEF Adds, word
<1> QED
  BY <1>3, <1>4, <1>5, <1>6 DEF word

\* What reading a field does, when no words are to be joined.
LEMMA ReadField ==
    ASSUME TypeOK, ReadWord, wordBuffer = <<>>,
           NEW kind, Text[pos + 1] = Field(kind)
    PROVE  statItems' = Append(statItems, Field(kind)) /\ wordBuffer' = <<>>
  BY NameOrField DEF ReadWord, Take

\* The word that is read, by its place in the file.
LEMMA ReadPlace ==
    ASSUME TypeOK, ReadWord
    PROVE  /\ pos \in Nat /\ pos < Len(Text) /\ pos' = pos + 1
           /\ Len(Text) \in Nat /\ Len(name) \in Nat \ {0}
           /\ UNCHANGED <<name, alive, pc, data>>
           /\ pc = "read"
           /\ pos = 0 => Text[pos + 1] = Field("pid")
           /\ pos > Len(name) =>
                /\ Text[pos + 1] = Field(FieldKind(pos + 1 - Len(name)))
                /\ pos + 1 - Len(name) \in 0 .. Fields - 1
<1>1. Len(name) \in Nat \ {0} /\ Len(Text) = Len(name) + Fields - 1
  BY NameType, TextWords, StatAssumption DEF TypeOK
<1>2. pos \in Nat /\ pos < Len(Text) /\ pc = "read"
  BY <1>1, StatAssumption DEF TypeOK, ReadWord, HasWord
<1>3. pos' = pos + 1 /\ UNCHANGED <<name, alive, pc, data>>
  BY DEF ReadWord, Take
<1>4. pos = 0 => Text[pos + 1] = Field("pid")
  BY TextWords DEF TypeOK
<1>5. ASSUME pos > Len(name)
      PROVE  /\ Text[pos + 1] = Field(FieldKind(pos + 1 - Len(name)))
             /\ pos + 1 - Len(name) \in 0 .. Fields - 1
  <2>1. pos + 1 \in Len(name) + 2 .. Len(Text)
    BY <1>1, <1>2, <1>5, StatAssumption
  <2> QED
    BY <1>1, <1>2, <1>5, <2>1, TextWords, StatAssumption DEF TypeOK
<1> QED
  BY <1>1, <1>2, <1>3, <1>4, <1>5, StatAssumption

\* One item more.
LEMMA OneMore ==
    ASSUME statItems \in Seq(Words), NEW item \in Words,
           statItems' = Append(statItems, item)
    PROVE  /\ statItems' \in Seq(Words)
           /\ Len(statItems) \in Nat /\ Len(statItems') = Len(statItems) + 1
           /\ statItems'[Len(statItems) + 1] = item
           /\ \A i \in 1 .. Len(statItems) : statItems'[i] = statItems[i]
  OBVIOUS

\* The words that the reader has are of the types it takes them for.
ReaderType == wordBuffer \in Seq(NameWords) /\ statItems \in Seq(Words)

\* The ID is the first item.
LEMMA FirstWord ==
    ASSUME TypeOK, WordInv, ReadWord, pos = 0
    PROVE  ReaderType' /\ WordInv'
<1>1. /\ statItems' = Append(<<>>, Field("pid")) /\ wordBuffer' = <<>>
      /\ statItems = <<>>
  BY ReadPlace, ReadField DEF WordInv, Nothing
<1>2. statItems' = <<Field("pid")>> /\ ReaderType'
  BY <1>1, WordsOfFile DEF ReaderType
<1>3. Len(statItems') = 1 /\ statItems'[1] = Field("pid") /\ pos' = 1
  BY <1>2, ReadPlace
<1>4. ~ Closed(pos' - 1) /\ Len(name') = Len(name)
  BY <1>3, ReadPlace DEF Closed
<1>5. ~ Closed(pos - 1)'
  BY <1>4, ReadPlace, NameKept
<1>6. InsideName'
  BY <1>1, <1>3, <1>5 DEF InsideName
<1>7. Nothing' /\ AfterName' /\ Len(wordBuffer') = 0
  BY <1>1, <1>3, <1>4, ReadPlace DEF Nothing, AfterName
<1> QED
  BY <1>2, <1>6, <1>7 DEF WordInv

\* A word of the name, the last one included.
LEMMA WordOfName ==
    ASSUME TypeOK, WordInv, ReadWord, pos \in 1 .. Len(name)
    PROVE  ReaderType' /\ WordInv'
<1> DEFINE n == Len(name)
           word == name[pos]
<1>0. /\ n \in Nat /\ pos' = pos + 1 /\ name' = name /\ pos \in Nat
      /\ statItems \in Seq(Words) /\ Len(statItems) \in 1 .. pos
      /\ statItems[1] = Field("pid")
      /\ \A i \in 2 .. Len(statItems) : InName(statItems[i])
  BY ReadPlace DEF TypeOK, WordInv, InsideName
<1>1. Adds(word) \/ Keeps(word)
  BY ReadNameWord
<1>2. Closed(pos) <=> Closed(pos - 1) \/ word.close
  BY ClosedNext DEF TypeOK
<1>3. /\ pos = 1 => word.open
      /\ pos = n => word.close
      /\ pos = 1 => ~ Closed(pos - 1)
  BY <1>0, NameType DEF TypeOK, Closed
<1> HIDE DEF n, word
<1>4. /\ Len(statItems') = Len(statItems) + (IF Adds(word) THEN 1 ELSE 0)
      /\ statItems'[1] = Field("pid")
      /\ \A i \in 2 .. Len(statItems') : InName(statItems'[i])
      /\ ReaderType'
      /\ \A i \in 1 .. Len(wordBuffer') : InName(wordBuffer'[i])
  <2>1. CASE Adds(word)
    <3>1. PICK item \in NameWords : /\ InName(item)
                                    /\ statItems' = Append(statItems, item)
      BY <2>1 DEF Adds
    <3>2. item \in Words
      BY WordsOfFile
    <3>3. wordBuffer' = <<>>
      BY <2>1 DEF Adds
    <3>4. /\ Len(statItems') = Len(statItems) + 1 /\ statItems' \in Seq(Words)
          /\ statItems'[Len(statItems) + 1] = item
          /\ \A i \in 1 .. Len(statItems) : statItems'[i] = statItems[i]
      BY <1>0, <3>1, <3>2, OneMore
    <3> QED
      BY <1>0, <2>1, <3>1, <3>3, <3>4 DEF ReaderType
  <2>2. CASE ~ Adds(word)
    BY <1>0, <1>1, <2>2 DEF Keeps, Joinable, ReaderType
  <2> QED
    BY <2>1, <2>2
<1>5. CASE pos < n
  <2>1. /\ ~ Closed(pos - 1) => Len(statItems) = 1
        /\ ~ Closed(pos - 1) => (wordBuffer = <<>> <=> pos = 1)
        /\ Closed(pos - 1) => Len(statItems) >= 2
    BY DEF WordInv, InsideName
  <2>2. Closed(pos) => Len(statItems') >= 2
    BY <1>0, <1>1, <1>2, <1>4, <2>1 DEF Keeps
  <2>3. ~ Closed(pos) => Len(statItems') = 1 /\ wordBuffer' # <<>>
    BY <1>0, <1>1, <1>2, <1>3, <1>4, <2>1 DEF Adds, Keeps
  <2>4. Len(statItems') \in 1 .. pos + 1
    BY <1>0, <1>4
  <2>5. pos' - 1 = pos /\ pos' # 1
    BY <1>0
  <2>6. Closed(pos) <=> Closed(pos - 1)'
    BY <1>0, <2>5, NameKept
  <2>7. InsideName'
    <3>1. \A i \in 2 .. Len(statItems') : InName(statItems[i])'
      BY <1>0, <1>4 DEF InName
    <3> QED
      BY <1>0, <1>4, <2>2, <2>3, <2>4, <2>5, <2>6, <3>1 DEF InsideName
  <2>8. Nothing' /\ AfterName'
    BY <1>0, <1>5 DEF Nothing, AfterName, n
  <2>9. \A i \in 1 .. Len(wordBuffer') : InName(wordBuffer[i])'
    BY <1>0, <1>4 DEF InName
  <2> QED
    BY <1>4, <2>7, <2>8, <2>9 DEF WordInv
<1>6. CASE pos = n
  <2>1. Adds(word) /\ wordBuffer' = <<>>
    BY <1>1, <1>3, <1>6 DEF Adds, Keeps
  <2>2. Plain <=> Len(statItems) = 1
    <3>1. Plain <=> ~ Closed(pos - 1)
      BY <1>6, PlainIsOpen DEF n, TypeOK
    <3> QED
      BY <1>0, <3>1 DEF WordInv, InsideName
  <2>3. Len(statItems') = Len(statItems) + 1
    BY <1>4, <2>1
  <2>4. PICK count \in 1 .. n : count = Len(statItems)
    BY <1>0, <1>6
  <2>5. CutInto(count)'
    <3>1. Plain' <=> count = 1
      BY <1>0, <2>2, <2>4, NameKept
    <3>2. Len(statItems') = count + pos' - Len(name')
      BY <1>0, <1>6, <2>3, <2>4 DEF n
    <3>3. \A i \in 2 .. count + 1 : InName(statItems[i])'
      BY <1>0, <1>4, <2>3, <2>4 DEF InName
    <3>4. count + 2 .. Len(statItems') = {}
      BY <1>0, <2>3, <2>4
    <3> QED
      BY <1>4, <3>1, <3>2, <3>3, <3>4 DEF CutInto
  <2>6. AfterName'
    BY <1>0, <2>1, <2>5 DEF AfterName, n
  <2>7. Nothing' /\ InsideName'
    BY <1>0, <1>6 DEF Nothing, InsideName, n
  <2>8. \A i \in 1 .. Len(wordBuffer') : InName(wordBuffer[i])'
    BY <1>0, <1>4 DEF InName
  <2> QED
    BY <1>4, <2>6, <2>7, <2>8 DEF WordInv
<1> QED
  BY <1>0, <1>5, <1>6 DEF n

\* A field after the name is an item of its own.
LEMMA FieldAfterName ==
    ASSUME TypeOK, WordInv, ReadWord, pos > Len(name)
    PROVE  ReaderType' /\ WordInv'
<1> DEFINE n == Len(name)
           field == Field(FieldKind(pos + 1 - n))
<1>0. /\ n \in Nat \ {0} /\ pos \in Nat /\ pos' = pos + 1 /\ name' = name
      /\ statItems \in Seq(Words) /\ wordBuffer = <<>> /\ field \in Words
  BY ReadPlace, WordsOfFile DEF TypeOK, WordInv, AfterName
<1>1. statItems' = Append(statItems, field) /\ wordBuffer' = <<>>
  BY <1>0, ReadPlace, ReadField
<1>2. PICK count \in 1 .. n : CutInto(count)
  BY DEF WordInv, AfterName
<1> HIDE DEF n, field
<1>3. /\ statItems' \in Seq(Words)
      /\ Len(statItems) \in Nat /\ Len(statItems') = Len(statItems) + 1
      /\ statItems'[Len(statItems) + 1] = field
      /\ \A i \in 1 .. Len(statItems) : statItems'[i] = statItems[i]
  BY <1>0, <1>1, OneMore
<1>4. Len(statItems) = count + pos - n /\ pos > n
  BY <1>2 DEF CutInto, n
<1>5. CutInto(count)'
  <2>1. Len(statItems') = count + pos' - Len(name')
    BY <1>0, <1>3, <1>4 DEF n
  <2>2. statItems'[1] = Field("pid")
    BY <1>0, <1>2, <1>3, <1>4 DEF CutInto
  <2>3. \A i \in 2 .. count + 1 : InName(statItems[i])'
    <3>1. \A i \in 2 .. count + 1 : i \in 1 .. Len(statItems)
      BY <1>0, <1>2, <1>4
    <3> QED
      BY <1>0, <1>2, <1>3, <3>1 DEF CutInto, InName
  <2>4. ASSUME NEW i \in count + 2 .. Len(statItems')
        PROVE  statItems'[i] = Field(FieldKind(i - count))
    <3>1. CASE i = Len(statItems) + 1
      <4>1. i - count = pos + 1 - n
        BY <1>0, <1>2, <1>4, <3>1
      <4> QED
        BY <1>3, <3>1, <4>1 DEF field
    <3>2. CASE i \in count + 2 .. Len(statItems)
      <4>1. i \in 1 .. Len(statItems)
        BY <1>2, <1>3, <3>2
      <4> QED
        BY <1>2, <1>3, <3>2, <4>1 DEF CutInto
    <3> QED
      BY <1>2, <1>3, <2>4, <3>1, <3>2
  <2>5. Plain' <=> count = 1
    BY <1>0, <1>2, NameKept DEF CutInto
  <2> QED
    BY <2>1, <2>2, <2>3, <2>4, <2>5 DEF CutInto
<1>6. AfterName'
  BY <1>0, <1>1, <1>2, <1>5 DEF AfterName, n
<1>7. Nothing' /\ InsideName'
  BY <1>0, <1>4 DEF Nothing, InsideName, n
<1>8. Len(wordBuffer') = 0 /\ ReaderType'
  BY <1>1, <1>3 DEF ReaderType
<1> QED
  BY <1>6, <1>7, <1>8 DEF WordInv

\* Whatever word is read, the invariant of the reader is kept.
LEMMA ReadKeepsWords == TypeOK /\ WordInv /\ ReadWord => ReaderType' /\ WordInv'
<1> SUFFICES ASSUME TypeOK, WordInv, ReadWord PROVE ReaderType' /\ WordInv'
  OBVIOUS
<1>1. pos = 0 \/ pos \in 1 .. Len(name) \/ pos > Len(name)
  BY ReadPlace
<1> QED
  BY <1>1, FirstWord, WordOfName, FieldAfterName

-----------------------------------------------------------------------------
(***************************************************************************)
(* What is made of the items.                                              *)
(***************************************************************************)
\* At the end of the text every index is valid.  The items that are looked at
\* are the right ones if the name is one item; else the state is a word of the
\* name, and the parent's ID is another field or a word of the name.
LEMMA WholeText ==
    ASSUME TypeOK, WordInv, pos = Len(Text)
    PROVE  /\ Indexed
           /\ Item(idIndex).is = "pid"
           /\ Plain => /\ Item(stateIndex).is = "state"
                       /\ Item(parentIdIndex).is = "ppid"
                       /\ Item(startTimeIndex).is = "start"
           /\ ~ Plain =>
                /\ InName(Item(stateIndex))
                /\ Item(parentIdIndex).is # "state" => InName(Item(parentIdIndex))
                /\ Item(startTimeIndex).is = "other"
<1> DEFINE n == Len(name)
<1>1. /\ n \in 1 .. 18 /\ pos = n + Fields - 1 /\ pos > n
      /\ Fields \in Nat /\ Fields >= 22
  <2>1. Len(name) \in 1 .. MaxWords /\ Len(Text) = Len(name) + Fields - 1
    BY NameType, TextWords DEF TypeOK
  <2>2. MaxWords \in 1 .. 18 /\ Fields \in Nat /\ Fields > 21
    BY StatAssumption
  <2>3. 1 .. MaxWords \subseteq 1 .. 18
    BY <2>2
  <2>4. n \in 1 .. 18
    BY <2>1, <2>3
  <2> QED
    BY <2>1, <2>2, <2>4
<1>2. PICK count \in 1 .. n : CutInto(count)
  BY <1>1 DEF WordInv, AfterName
<1> HIDE DEF n
<1>3. /\ Len(statItems) = count + Fields - 1 /\ Len(statItems) >= 22
      /\ count \in 1 .. 18
  <2>1. Len(statItems) = count + pos - n
    BY <1>2 DEF CutInto, n
  <2> QED
    BY <1>1, <1>2, <2>1
<1>4. /\ statItems[1] = Field("pid")
      /\ \A i \in 2 .. count + 1 : InName(statItems[i])
      /\ \A i \in count + 2 .. Len(statItems) :
           statItems[i] = Field(FieldKind(i - count))
      /\ Plain <=> count = 1
  BY <1>2 DEF CutInto
<1>5. Item(startTimeIndex) = Field(FieldKind(22 - count))
  BY <1>3, <1>4 DEF Item
<1>6. CASE count = 1
  <2>1. statItems[3] = Field(FieldKind(2)) /\ statItems[4] = Field(FieldKind(3))
    BY <1>3, <1>4, <1>6
  <2> QED
    BY <1>3, <1>4, <1>5, <1>6, <2>1, FieldKinds, NameOrField DEF Item, Indexed
<1>7. CASE count # 1
  <2>1. InName(statItems[3])
    BY <1>3, <1>4, <1>7
  <2>2. Item(startTimeIndex).is = "other"
    <3>1. 22 - count \in Nat \ {0, 2, 3, 21}
      BY <1>3, <1>7
    <3> QED
      BY <1>5, <3>1, FieldKinds, NameOrField
  <2>3. CASE count = 2
    <3>1. statItems[4] = Field(FieldKind(2))
      BY <1>3, <1>4, <2>3
    <3> QED
      BY <1>3, <1>4, <1>7, <2>1, <2>2, <3>1, FieldKinds, NameOrField
      DEF Item, Indexed
  <2>4. CASE count > 2
    <3>1. InName(statItems[4])
      BY <1>3, <1>4, <2>4
    <3> QED
      BY <1>3, <1>4, <1>7, <2>1, <2>2, <3>1, NameOrField DEF Item, Indexed
  <2> QED
    BY <1>3, <1>7, <2>3, <2>4
<1> QED
  BY <1>6, <1>7

\* A word of the name is a number, a large number or any other word.
LEMMA KindInName ==
    ASSUME name \in Names, NEW word, InName(word)
    PROVE  word.is \in {"word", "number", "huge"}
  BY NameType, NameOrField DEF InName

-----------------------------------------------------------------------------
(***************************************************************************)
(* The whole constructor.                                                  *)
(***************************************************************************)
\* TypeOK without what is stored, and what is stored.
FrameType ==
    /\ name \in Names /\ alive \in BOOLEAN
    /\ pc \in {"open", "read", "parse", "link", "done", "crashed"}
    /\ pos \in 0 .. Len(Text)
StoredType ==
    /\ data.processId \in {"none", "pid"}
    /\ data.parentId \in {"none", "ppid", "number"}
    /\ data.startTime \in {"none", "start", "other"}
    /\ data.lastState \in {"none", "invalid", "state", "word", "number", "huge"}
    /\ data.executablePath \in {"none", "exe"}

\* TypeOK in its parts, before and after a step.
LEMMA TypeParts == /\ TypeOK <=> FrameType /\ ReaderType /\ StoredType
                   /\ TypeOK' <=> FrameType' /\ ReaderType' /\ StoredType'
  BY DEF TypeOK, FrameType, ReaderType, StoredType

\* What the try block stores: all of it is right exactly if the name is one item.
LEMMA ParsedIsRight ==
    ASSUME TypeOK, WordInv, data = NoData, pos = Len(Text),
           Item(parentIdIndex).is # "huge", data' = Parsed
    PROVE  StoredType' /\ IsData' /\ (Right' <=> Plain)
<1> DEFINE state == Item(stateIndex).is
           parent == Item(parentIdIndex).is
           start == Item(startTimeIndex).is
<1>1. /\ Item(idIndex).is = "pid"
      /\ Plain => state = "state" /\ parent = "ppid" /\ start = "start"
      /\ ~ Plain => /\ state \in {"word", "number", "huge"}
                    /\ parent # "state" => parent \in {"word", "number", "huge"}
                    /\ start = "other"
  BY WholeText, KindInName DEF TypeOK
<1>2. /\ data'.processId = Item(idIndex).is /\ data'.lastState = state
      /\ data'.executablePath = "none"
      /\ data'.parentId = IF parent \notin {"word", "state"} THEN parent ELSE "none"
      /\ data'.startTime = IF parent \notin {"word", "state"} THEN start ELSE "none"
  BY DEF Parsed, NoData, IsNumber
<1> HIDE DEF state, parent, start
<1>3. parent # "huge"
  BY DEF parent
<1>4. StoredType'
  BY <1>1, <1>2, <1>3 DEF StoredType
<1>5. Right' <=> Plain
  BY <1>1, <1>2 DEF Right
<1>6. IsData'
  BY DEF Parsed, NoData, IsData
<1> QED
  BY <1>4, <1>5, <1>6

\* The constructor has the invariant at first.
LEMMA StatInit == Init => StatInv
<1> SUFFICES ASSUME Init PROVE StatInv
  OBVIOUS
<1>1. name \in Names /\ Len(name) \in Nat /\ Len(name) >= 1 /\ Len(Text) \in Nat
  <2>1. Len(name) \in 1 .. MaxWords /\ Len(Text) = Len(name) + Fields - 1
    BY NameType, TextWords DEF Init
  <2> QED
    BY <2>1, StatAssumption DEF Init
<1>2. FrameType /\ ReaderType /\ StoredType
  BY <1>1 DEF Init, FrameType, ReaderType, StoredType, NoData
<1>3. WordInv
  BY <1>1 DEF Init, WordInv, Nothing, InsideName, AfterName
<1> QED
  BY <1>2, <1>3, TypeParts DEF Init, StatInv, PlaceInv, DataInv, IsData, NoData,
      CrashHasReason

\* Steps that read no word leave the reader as it is.
LEMMA ReaderKept ==
    ASSUME UNCHANGED <<name, pos, wordBuffer, statItems>>
    PROVE  /\ ReaderType => ReaderType'
           /\ WordInv => WordInv'
           /\ Text' = Text
  BY DEF ReaderType, WordInv, Nothing, InsideName, AfterName, CutInto, Plain,
         InName, Closed, Text

\* The process ends.
LEMMA VanishKeeps == StatInv /\ Vanish => StatInv'
<1> SUFFICES ASSUME StatInv, Vanish PROVE StatInv'
  OBVIOUS
<1>1. UNCHANGED <<name, pc, pos, wordBuffer, statItems, data>>
      /\ alive' = FALSE
      /\ pc # "crashed"
  BY DEF Vanish
<1>2. ReaderType' /\ WordInv' /\ Text' = Text
  BY <1>1, ReaderKept, TypeParts DEF StatInv
<1>3. FrameType' /\ StoredType'
  BY <1>1, <1>2, TypeParts DEF StatInv, FrameType, StoredType
<1>4. PlaceInv' /\ CrashHasReason'
  BY <1>1, <1>2 DEF StatInv, PlaceInv, CrashHasReason
<1>5. DataInv'
  BY <1>1, NameKept DEF StatInv, DataInv, IsData, Right
<1> QED
  BY <1>2, <1>3, <1>4, <1>5, TypeParts DEF StatInv

\* The file is opened, or is not there.
LEMMA OpenKeeps == StatInv /\ Open => StatInv'
<1> SUFFICES ASSUME StatInv, Open PROVE StatInv'
  OBVIOUS
<1>1. /\ UNCHANGED <<name, alive, pos, wordBuffer, statItems>> /\ data = NoData
      /\ \/ pc' = "read" /\ data' = data
         \/ pc' = "done" /\ data' = [data EXCEPT !.lastState = "invalid"]
  BY DEF Open, StatInv, DataInv
<1>2. FrameType' /\ ReaderType' /\ WordInv'
  BY <1>1, ReaderKept, TypeParts DEF StatInv, FrameType
<1>3. StoredType' /\ DataInv'
  BY <1>1 DEF StoredType, DataInv, IsData, NoData
<1> QED
  BY <1>1, <1>2, <1>3, TypeParts DEF StatInv, PlaceInv, CrashHasReason

\* A word is read.
LEMMA ReadWordKeeps == StatInv /\ ReadWord => StatInv'
<1> SUFFICES ASSUME StatInv, ReadWord PROVE StatInv'
  OBVIOUS
<1>1. /\ UNCHANGED <<name, alive, pc, data>> /\ pc = "read"
      /\ pos' = pos + 1 /\ pos \in Nat /\ pos < Len(Text) /\ Len(Text) \in Nat
  BY ReadPlace DEF StatInv
<1>2. ReaderType' /\ WordInv'
  BY ReadKeepsWords DEF StatInv
<1>3. FrameType'
  <2>1. Text' = Text /\ pos' \in 0 .. Len(Text)
    BY <1>1, NameKept
  <2> QED
    BY <1>1, <2>1, TypeParts DEF StatInv, FrameType
<1>4. StoredType' /\ DataInv'
  BY <1>1, TypeParts DEF StatInv, StoredType, DataInv, IsData
<1> QED
  BY <1>1, <1>2, <1>3, <1>4, TypeParts DEF StatInv, PlaceInv, CrashHasReason

\* The text ends, or there is none because the process has gone.
LEMMA EndOfTextKeeps == StatInv /\ EndOfText => StatInv'
<1> SUFFICES ASSUME StatInv, EndOfText PROVE StatInv'
  OBVIOUS
<1>1. /\ UNCHANGED <<name, alive, pos, wordBuffer, statItems, data>>
      /\ pc = "read" /\ pc' = "parse"
      /\ ~ (pos < Len(Text) /\ (alive \/ pos > 0))
  BY DEF EndOfText, HasWord
<1>2. FrameType' /\ ReaderType' /\ WordInv' /\ Text' = Text
  BY <1>1, ReaderKept, TypeParts DEF StatInv, FrameType
<1>3. pos = Len(Text) \/ (pos = 0 /\ ~ alive)
  <2>1. pos \in Nat /\ Len(Text) \in Nat /\ pos <= Len(Text)
    <3>1. Len(name) \in 1 .. MaxWords /\ Len(Text) = Len(name) + Fields - 1
      BY NameType, TextWords DEF StatInv, TypeOK
    <3>2. Len(Text) \in Nat
      BY <3>1, StatAssumption
    <3> QED
      BY <3>2 DEF StatInv, TypeOK
  <2> QED
    BY <1>1, <2>1
<1>4. StoredType' /\ DataInv' /\ PlaceInv'
  BY <1>1, <1>2, <1>3, TypeParts DEF StatInv, StoredType, DataInv, IsData, PlaceInv
<1> QED
  BY <1>1, <1>2, <1>4, TypeParts DEF StatInv, CrashHasReason

\* The items are converted, or the constructor fails.
LEMMA ParseKeeps == StatInv /\ Parse => StatInv'
<1> SUFFICES ASSUME StatInv, Parse PROVE StatInv'
  OBVIOUS
<1>1. /\ UNCHANGED <<name, alive, pos, wordBuffer, statItems>>
      /\ pc = "parse" /\ data = NoData
      /\ pos = Len(Text) \/ (pos = 0 /\ ~ alive)
  BY DEF Parse, Crash, StatInv, DataInv, PlaceInv
<1>2. ReaderType' /\ WordInv' /\ Text' = Text /\ (Plain' <=> Plain)
  BY <1>1, ReaderKept, NameKept, TypeParts DEF StatInv
<1>3. CASE pc' = "crashed" /\ data' = data
           /\ (~ Indexed \/ Item(parentIdIndex).is = "huge")
  <2>1. FrameType' /\ StoredType' /\ DataInv' /\ PlaceInv'
    BY <1>1, <1>2, <1>3, TypeParts
    DEF StatInv, FrameType, StoredType, DataInv, IsData, PlaceInv
  <2>2. CASE pos = 0 /\ ~ alive
    BY <1>1, <1>2, <1>3, <2>1, <2>2, TypeParts DEF StatInv, CrashHasReason
  <2>3. CASE pos = Len(Text)
    <3>1. Item(parentIdIndex).is = "huge" /\ ~ Plain /\ InName(Item(parentIdIndex))
      BY <1>3, <2>3, WholeText DEF StatInv
    <3>2. \E i \in 1 .. Len(name) : name[i].is = "huge"
      BY <3>1 DEF InName
    <3>3. CrashHasReason'
      BY <1>1, <1>2, <3>1, <3>2 DEF CrashHasReason
    <3> QED
      BY <1>2, <2>1, <3>3, TypeParts DEF StatInv
  <2> QED
    BY <1>1, <2>2, <2>3
<1>4. CASE pc' = "link" /\ data' = Parsed
           /\ Indexed /\ Item(parentIdIndex).is # "huge"
  <2>1. pos = Len(Text)
    <3>1. pos = 0 => Len(statItems) = 0
      BY DEF StatInv, WordInv, Nothing
    <3> QED
      BY <1>1, <1>4, <3>1 DEF Indexed
  <2>2. StoredType' /\ IsData' /\ (Right' <=> Plain)
    BY <1>1, <1>4, <2>1, ParsedIsRight DEF StatInv
  <2>3. FrameType' /\ DataInv' /\ PlaceInv'
    BY <1>1, <1>2, <1>4, <2>1, <2>2, TypeParts
    DEF StatInv, FrameType, DataInv, PlaceInv
  <2> QED
    BY <1>2, <1>4, <2>2, <2>3, TypeParts DEF StatInv, CrashHasReason
<1> QED
  BY <1>1, <1>3, <1>4 DEF Parse, Crash

\* The link to the executable is read.
LEMMA ReadLinkKeeps == StatInv /\ ReadLink => StatInv'
<1> SUFFICES ASSUME StatInv, ReadLink PROVE StatInv'
  OBVIOUS
<1>1. /\ UNCHANGED <<name, alive, pos, wordBuffer, statItems>>
      /\ pc = "link" /\ pc' = "done"
      /\ data' = [data EXCEPT !.executablePath = IF alive THEN "exe" ELSE @]
  BY DEF ReadLink
<1>2. ReaderType' /\ WordInv' /\ Text' = Text /\ (Plain' <=> Plain)
  BY <1>1, ReaderKept, NameKept, TypeParts DEF StatInv
<1>3. FrameType' /\ PlaceInv' /\ CrashHasReason'
  BY <1>1, <1>2, TypeParts DEF StatInv, FrameType, PlaceInv, CrashHasReason
<1>4. /\ data'.processId = data.processId /\ data'.parentId = data.parentId
      /\ data'.startTime = data.startTime /\ data'.lastState = data.lastState
      /\ data'.executablePath \in {"exe", data.executablePath}
  BY <1>1 DEF StatInv, DataInv, IsData
<1>5. IsData'
  BY <1>1 DEF StatInv, DataInv, IsData
<1>6. StoredType' /\ DataInv'
  BY <1>1, <1>2, <1>4, <1>5, TypeParts DEF StatInv, StoredType, DataInv, Right
<1> QED
  BY <1>2, <1>3, <1>6, TypeParts DEF StatInv

\* Every step keeps the invariant.
LEMMA StatNext == StatInv /\ [Next]_vars => StatInv'
<1> SUFFICES ASSUME StatInv, [Next]_vars PROVE StatInv'
  OBVIOUS
<1>1. CASE UNCHANGED vars
  <2>1. UNCHANGED <<name, alive, pc, pos, wordBuffer, statItems, data>>
    BY <1>1 DEF vars
  <2>2. ReaderType' /\ WordInv' /\ Text' = Text
    BY <2>1, ReaderKept, TypeParts DEF StatInv
  <2>3. FrameType' /\ StoredType' /\ PlaceInv' /\ CrashHasReason'
    BY <2>1, <2>2, TypeParts
    DEF StatInv, FrameType, StoredType, PlaceInv, CrashHasReason, Plain
  <2>4. DataInv'
    BY <2>1, NameKept DEF StatInv, DataInv, IsData, Right
  <2> QED
    BY <2>2, <2>3, <2>4, TypeParts DEF StatInv
<1> QED
  BY <1>1, VanishKeeps, OpenKeeps, ReadWordKeeps, EndOfTextKeeps, ParseKeeps,
     ReadLinkKeeps DEF Next

\* What the reader has is known in every state, whatever the name is.
THEOREM StatCorrect == Spec => []StatInv
<1> QED
  BY StatInit, StatNext, PTL DEF Spec

\* What is stored has one of the kinds that it can have: the parent's ID is
\* that of the parent or a number from the name, the start time is a field.
THEOREM StatTypeCorrect == Spec => []TypeOK
<1>1. StatInv => TypeOK
  BY DEF StatInv
<1> QED
  BY <1>1, StatCorrect, PTL

\* The data of a process are its own if, and only if, no word of its name but
\* the last ends with ")".
THEOREM ReadRightCorrect == Spec => []ReadRight
<1>1. StatInv => ReadRight
  BY DEF StatInv, DataInv, Right, ReadRight
<1> QED
  BY <1>1, StatCorrect, PTL

\* Whatever the name is, the constructor fails only because the process has
\* ended before its file was read, or because of a large number in its name.
THEOREM CrashCorrect == Spec => []CrashHasReason
<1>1. StatInv => CrashHasReason
  BY DEF StatInv
<1> QED
  BY <1>1, StatCorrect, PTL
=============================================================================
