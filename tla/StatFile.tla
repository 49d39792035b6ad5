------------------------------ MODULE StatFile ------------------------------
(***************************************************************************)
(* How Process::Data reads /proc/<pid>/stat, while the process may end.    *)
(* The file has the ID, the name in parentheses, the state, the parent's   *)
(* ID and so on, with spaces in between.  A name may have spaces and       *)
(* parentheses of its own, and the reader joins words again until one ends *)
(* with ")".                                                               *)
(*                                                                         *)
(* Of a word it matters whether it begins with "(", whether it ends with   *)
(* ")", and what it "is": a field of the file, or, in a name, a number, a  *)
(* number too large for an int, or any other word.                         *)
(***************************************************************************)
EXTENDS Integers, SequencesExt

CONSTANTS
    MaxWords,      \* words of a name
    Fields         \* fields of the file

idIndex == 0
stateIndex == 2
parentIdIndex == 3
startTimeIndex == 21

\* A name has at most 15 characters, so at most nine words with its parentheses:
\* the item that is read as the start time is never one of them.
ASSUME StatAssumption ==
    /\ MaxWords \in 1 .. startTimeIndex - parentIdIndex
    /\ Fields \in Nat /\ Fields > startTimeIndex

NameWords == {w \in [open : BOOLEAN, close : BOOLEAN, is : {"word", "number", "huge"}] :
                w.open => w.is = "word"}
Field(kind) == [open |-> FALSE, close |-> FALSE, is |-> kind]
FieldKind(i) == CASE i = idIndex        -> "pid"
                  [] i = stateIndex     -> "state"
                  [] i = parentIdIndex  -> "ppid"
                  [] i = startTimeIndex -> "start"
                  [] OTHER              -> "other"
Words == NameWords \union {Field(FieldKind(i)) : i \in 0 .. Fields - 1}

\* The first word of a name begins with "(", the last ends with ")".
Names == {n \in UNION {[1 .. k -> NameWords] : k \in 1 .. MaxWords} :
            n[1].open /\ Last(n).close}

VARIABLES
    name,          \* the name of the process
    alive,         \* the process exists
    pc,            \* where the constructor is
    pos,           \* words read
    wordBuffer,    \* words to be joined
    statItems,     \* the first word of each item
    data           \* what the object has

vars == <<name, alive, pc, pos, wordBuffer, statItems, data>>

Text == <<Field("pid")>> \o name
          \o [i \in 1 .. Fields - stateIndex |-> Field(FieldKind(i - 1 + stateIndex))]
Item(index) == statItems[index + 1]

NoData == [processId |-> "none", parentId |-> "none", startTime |-> "none",
           lastState |-> "none", executablePath |-> "none"]

Init ==
    /\ name \in Names /\ alive = TRUE
    /\ pc = "open" /\ pos = 0
    /\ wordBuffer = <<>> /\ statItems = <<>>
    /\ data = NoData

-----------------------------------------------------------------------------
Vanish ==
    /\ alive /\ pc \notin {"done", "crashed"}
    /\ alive' = FALSE
    /\ UNCHANGED <<name, pc, pos, wordBuffer, statItems, data>>

Open ==
    /\ pc = "open"
    /\ IF alive THEN pc' = "read" /\ UNCHANGED data
       ELSE pc' = "done" /\ data' = [data EXCEPT !.lastState = "invalid"]
    /\ UNCHANGED <<name, alive, pos, wordBuffer, statItems>>

\* The kernel writes the text at the first read, and nothing for a process
\* that has gone.
HasWord == pc = "read" /\ pos < Len(Text) /\ (alive \/ pos > 0)

Take(items, buffer) ==
    /\ pos' = pos + 1
    /\ statItems' = items /\ wordBuffer' = buffer
    /\ UNCHANGED <<name, alive, pc, data>>

\* Mutant: words are not joined.
ReadWordAlone ==
    HasWord /\ Take(Append(statItems, Text[pos + 1]), <<>>)

ReadWord ==
    /\ HasWord
    /\ LET word == Text[pos + 1]
           joined == Append(wordBuffer, word)
       IN  IF wordBuffer # <<>>
           THEN IF word.close THEN Take(Append(statItems, Head(joined)), <<>>)
                              ELSE Take(statItems, joined)
           ELSE IF word.open /\ ~ word.close THEN Take(statItems, <<word>>)
           ELSE Take(Append(statItems, word), <<>>)

EndOfText ==
    /\ pc = "read" /\ ~ HasWord
    /\ pc' = "parse"
    /\ UNCHANGED <<name, alive, pos, wordBuffer, statItems, data>>

-----------------------------------------------------------------------------
\* An index beyond the end of the vector is undefined.
Indexed == Len(statItems) > startTimeIndex
IsNumber(item) == item.is \notin {"word", "state"}

\* What the try block stores: all of it, or what comes before the exception.
Parsed ==
    [data EXCEPT
       !.processId = Item(idIndex).is,
       !.parentId = IF IsNumber(Item(parentIdIndex)) THEN Item(parentIdIndex).is ELSE @,
       !.startTime = IF IsNumber(Item(parentIdIndex)) THEN Item(startTimeIndex).is ELSE @,
       !.lastState = Item(stateIndex).is]

Crash == pc' = "crashed" /\ UNCHANGED <<name, alive, pos, wordBuffer, statItems, data>>

\* Mutant: an exception is not caught.
ParseUncaught ==
    /\ pc = "parse"
    /\ IF ~ Indexed \/ ~ IsNumber(Item(parentIdIndex))
         \/ Item(parentIdIndex).is = "huge" THEN Crash
       ELSE /\ pc' = "link" /\ data' = Parsed
            /\ UNCHANGED <<name, alive, pos, wordBuffer, statItems>>

\* Mutant: what is not a number is stored all the same.
ParseAnything ==
    /\ pc = "parse"
    /\ IF ~ Indexed \/ Item(parentIdIndex).is = "huge" THEN Crash
       ELSE /\ pc' = "link"
            /\ data' = [Parsed EXCEPT !.parentId = Item(parentIdIndex).is]
            /\ UNCHANGED <<name, alive, pos, wordBuffer, statItems>>

\* Of the exceptions of stoi(), out_of_range is not caught.
Parse ==
    /\ pc = "parse"
    /\ IF ~ Indexed \/ Item(parentIdIndex).is = "huge" THEN Crash
       ELSE /\ pc' = "link" /\ data' = Parsed
            /\ UNCHANGED <<name, alive, pos, wordBuffer, statItems>>

ReadLink ==
    /\ pc = "link"
    /\ pc' = "done"
    /\ data' = [data EXCEPT !.executablePath = IF alive THEN "exe" ELSE @]
    /\ UNCHANGED <<name, alive, pos, wordBuffer, statItems>>

Next == Vanish \/ Open \/ ReadWord \/ EndOfText \/ Parse \/ ReadLink

Spec == Init /\ [][Next]_vars

-----------------------------------------------------------------------------
TypeOK ==
    /\ name \in Names /\ alive \in BOOLEAN
    /\ pc \in {"open", "read", "parse", "link", "done", "crashed"}
    /\ pos \in 0 .. Len(Text)
    /\ wordBuffer \in Seq(NameWords) /\ statItems \in Seq(Words)
    /\ data.processId \in {"none", "pid"}
    /\ data.parentId \in {"none", "ppid", "number"}
    /\ data.startTime \in {"none", "start", "other"}
    /\ data.lastState \in {"none", "invalid", "state", "word", "number", "huge"}
    /\ data.executablePath \in {"none", "exe"}

\* No word of the name but the last ends with ")".
Plain == \A i \in 1 .. Len(name) - 1 : ~ name[i].close

\* What is stored about a process that was there when its file was read is its
\* own ID, parent, state and start time if, and only if, no word of its name
\* but the last ends with ")": else its state is taken from the name.
ReadRight ==
    pc = "done" /\ data.lastState # "invalid" =>
        LET right == /\ data.processId = "pid" /\ data.parentId = "ppid"
                     /\ data.startTime = "start" /\ data.lastState = "state"
        IN  right <=> Plain

\* Whatever the name is, its parentheses are balanced in the end and every index
\* is valid: the constructor fails only if the process ended between the open
\* and the read, or if its name has a number in it that is taken for the
\* parent's ID.
CrashHasReason ==
    pc = "crashed" =>
        \/ ~ alive /\ pos = 0
        \/ ~ Plain /\ \E i \in 1 .. Len(name) : name[i].is = "huge"
=============================================================================
