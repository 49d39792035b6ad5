----------------------------- MODULE FileUtils -----------------------------
(***************************************************************************)
(* File::Utils::parentDir(), getPathType() and createDir(), and            *)
(* Pipe::createPipe(), called by several processes at once: every          *)
(* application creates the pipes of its daemon when it starts it, and      *)
(* daemons create the directory of their lock file.                        *)
(*                                                                         *)
(* A path is a sequence of "/" and names, a name being one symbol.  A file *)
(* is known by the directories above it and its name, "/" or "." first.    *)
(* What a file is, is a pair of its type and its access mode.              *)
(***************************************************************************)
EXTENDS Integers, FiniteSets, SequencesExt

CONSTANTS
    Processes,
    Calls,         \* records: op, path, mode
    MaxCalls,      \* calls of each process
    Start,         \* functions: the files there may be at first
    Paths,         \* the paths that parentDir() is checked for
    Modes          \* access modes of pipes

NamesAt(path) == {i \in 1 .. Len(path) : path[i] # "/"}
NthName(path, n) ==
    path[CHOOSE i \in NamesAt(path) :
           Cardinality(NamesAt(path) \cap (1 .. i)) = n]
Names(path) == [n \in 1 .. Cardinality(NamesAt(path)) |-> NthName(path, n)]
Node == [path \in Paths \ {<<>>} |->
           <<IF path[1] = "/" THEN "/" ELSE ".">> \o Names(path)]

Nodes == UNION {{SubSeq(Node[path], 1, k) : k \in 1 .. Len(Node[path])} :
                  path \in Paths \ {<<>>}}

Above(node) == {SubSeq(node, 1, k) : k \in 1 .. Len(node) - 1}

\* A "locked" directory takes no new files.  The link leads nowhere.
None == <<"nonexistent", "none">>
Dir == <<"directory", "rwx">>
Locked == <<"directory", "locked">>
Link == <<"symbolicLink", "none">>
Kinds == {None, Dir, Locked, Link} \union ({"file", "namedPipe"} \X Modes)

ASSUME FilesAssumption ==
    /\ Processes # {} /\ Calls # {}
    /\ MaxCalls \in Nat \ {0}
    /\ \A c \in Calls : /\ c.op \in {"createDir", "createPipe"}
                        /\ c.path \in Paths \ {<<>>} /\ c.mode \in Modes
    /\ \A f \in Start :
         /\ f \in [Nodes -> Kinds]
         /\ \A n \in Nodes : IF Len(n) = 1 THEN f[n] = Dir
                             ELSE f[n] # None => f[Front(n)][1] = "directory"

VARIABLES
    files,         \* what each file is
    pc, call,      \* where each process is in which call
    pending,       \* the directories createDir() has been called for
    result,        \* what the last call returned
    calls,         \* the number of calls
    found,         \* history: the file was there when the call began
    could,         \* history: it was there or could be made
    raced          \* history: others have made files of the path meanwhile

vars == <<files, pc, call, pending, result, calls, found, could, raced>>

-----------------------------------------------------------------------------
(***************************************************************************)
(* Paths.                                                                  *)
(***************************************************************************)
\* createDir() comes twice to the same directory, for "a//" after "a".
EndsInTwo(path) ==
    Len(path) > 1 /\ path[Len(path)] = "/" /\ path[Len(path) - 1] = "/"
Repeats(path) ==
    \/ EndsInTwo(path)
    \/ \E i \in 3 .. Len(path) : \A j \in i - 2 .. i : path[j] = "/"

ParentAt(path, from) ==
    LET slashes == {i \in 1 .. from : path[i] = "/"}
    IN  IF path \in {<<>>, <<"/">>, <<"/", "/">>} \/ slashes = {} THEN <<>>
        ELSE IF Max(slashes) = 1 THEN <<"/">>
        ELSE SubSeq(path, 1, Max(slashes) - 1)

\* Mutant: the last character is looked at as well.
parentDirOfSlash(path) == ParentAt(path, Len(path))

\* find_last_of() starts at the last character but one.  For a path of one
\* character, length - 2 is a large number, and it starts at the end.
parentDir(path) ==
    ParentAt(path, IF Len(path) >= 2 THEN Len(path) - 1 ELSE Len(path))

Symbols == {"/", "."} \union UNION {Range(path) : path \in Paths}

\* There are slashes between names, and Paths has what parentDir() makes of its
\* paths, which is what createDir() is called for in turn.
ASSUME PathsAssumption ==
    /\ Paths \subseteq Seq(Symbols)
    /\ \A path \in Paths \ {<<>>} :
         /\ \A i \in 1 .. Len(path) - 1 : path[i] = "/" \/ path[i + 1] = "/"
         /\ parentDir(path) \in Paths

\* stat(): what is found, or the kind of error.
StatType(path) ==
    LET node == Node[path]
    IN  IF \E a \in Above(node) : files[a][1] \in {"file", "namedPipe"}
        THEN "invalid"
        ELSE IF files[node] \in {None, Link} THEN "nonexistent"
        ELSE IF Last(path) = "/" /\ files[node][1] # "directory" THEN "invalid"
        ELSE files[node][1]

getPathType(path) == IF path = <<>> THEN "invalid" ELSE StatType(path)

\* mkdir() and mkfifo(): a file can be made where there is none.
Free(path) ==
    /\ files[Node[path]] = None
    /\ files[Front(Node[path])] = Dir

-----------------------------------------------------------------------------
Init ==
    /\ files \in Start
    /\ pc = [p \in Processes |-> "idle"]
    /\ call = [p \in Processes |-> CHOOSE c \in Calls : TRUE]
    /\ pending = [p \in Processes |-> <<>>]
    /\ result = [p \in Processes |-> "none"]
    /\ calls = [p \in Processes |-> 0]
    /\ found = [p \in Processes |-> FALSE]
    /\ could = [p \in Processes |-> FALSE]
    /\ raced = [p \in Processes |-> FALSE]

Wanted(c) == IF c.op = "createDir" THEN {Dir, Locked}
             ELSE {<<"namedPipe", c.mode>>}

There(c) ==
    /\ files[Node[c.path]] \in Wanted(c)
    /\ c.op = "createPipe" => Last(c.path) # "/"

\* Nothing is in the way: the lowest of the directories above that exists
\* takes new files.
Makable(c) ==
    /\ files[Node[c.path]] = None
    /\ \A a \in Above(Node[c.path]) :
         \/ files[a] \in {None, Dir}
         \/ files[a] = Locked /\ \E b \in Above(Node[c.path]) :
                                   Len(b) > Len(a) /\ files[b] # None
    /\ ~ Repeats(c.path)
    /\ c.op = "createPipe" => Last(c.path) # "/"

Begin(p) ==
    /\ pc[p] = "idle" /\ calls[p] < MaxCalls
    /\ calls' = [calls EXCEPT ![p] = @ + 1]
    /\ \E c \in Calls :
         /\ call' = [call EXCEPT ![p] = c]
         /\ found' = [found EXCEPT ![p] = There(c)]
         /\ could' = [could EXCEPT ![p] = There(c) \/ Makable(c)]
         /\ IF c.op = "createPipe"
            THEN pc' = [pc EXCEPT ![p] = "access"] /\ UNCHANGED pending
            ELSE /\ pc' = [pc EXCEPT ![p] = "type"]
                 /\ pending' = [pending EXCEPT ![p] = <<c.path>>]
    /\ raced' = [raced EXCEPT ![p] = FALSE]
    /\ result' = [result EXCEPT ![p] = "none"]
    /\ UNCHANGED files

Return(p, value) ==
    /\ pc' = [pc EXCEPT ![p] = "idle"]
    /\ result' = [result EXCEPT ![p] = value]
    /\ pending' = [pending EXCEPT ![p] = <<>>]

GoTo(p, place, dirs) ==
    /\ pc' = [pc EXCEPT ![p] = place]
    /\ pending' = [pending EXCEPT ![p] = dirs]
    /\ UNCHANGED result

\* A createDir() returns true: to the one that called it, or to createPipe().
LeaveCreateDir(p) ==
    IF Len(pending[p]) > 1 THEN GoTo(p, "mkdir", Tail(pending[p]))
    ELSE IF call[p].op = "createPipe" THEN GoTo(p, "mkfifo", <<>>)
    ELSE Return(p, "true")

\* Another process's path has this file in it.
Race(p, node) ==
    raced' = [q \in Processes |->
                \/ raced[q]
                \/ /\ q # p /\ pc[q] # "idle"
                   /\ IsPrefix(node, Node[call[q].path])]

CallFrame == UNCHANGED <<call, calls, found, could>>

\* createPipe(): access(), then stat().
Access(p) ==
    /\ pc[p] = "access"
    /\ LET type == StatType(call[p].path)
           dir == parentDir(call[p].path)
       IN  CASE type = "invalid"     -> Return(p, "false")
             [] type = "nonexistent" ->
                  IF dir = <<>> THEN GoTo(p, "mkfifo", <<>>)
                  ELSE GoTo(p, "type", <<dir>>)
             [] OTHER                -> GoTo(p, "stat", <<>>)
    /\ CallFrame
    /\ UNCHANGED <<files, raced>>

\* Mutant: a file that is there is always an error.
StatRefuses(p) ==
    /\ pc[p] = "stat"
    /\ Return(p, "false")
    /\ CallFrame
    /\ UNCHANGED <<files, raced>>

Stat(p) ==
    /\ pc[p] = "stat"
    /\ Return(p, IF files[Node[call[p].path]] \in Wanted(call[p])
                 THEN "true" ELSE "false")
    /\ CallFrame
    /\ UNCHANGED <<files, raced>>

\* Mutant: the directories above are not made.
CheckTypeFlat(p) ==
    /\ pc[p] = "type"
    /\ LET type == getPathType(Head(pending[p]))
       IN  IF type = "directory" THEN LeaveCreateDir(p)
           ELSE IF type # "nonexistent" THEN Return(p, "false")
           ELSE GoTo(p, "mkdir", pending[p])
    /\ CallFrame
    /\ UNCHANGED <<files, raced>>

\* Mutant: parentPath is not tested.
CheckTypeEmpty(p) ==
    /\ pc[p] = "type"
    /\ LET path == Head(pending[p])
           type == getPathType(path)
       IN  IF type = "directory" THEN LeaveCreateDir(p)
           ELSE IF type # "nonexistent" THEN Return(p, "false")
           ELSE GoTo(p, "type", <<parentDir(path)>> \o pending[p])
    /\ CallFrame
    /\ UNCHANGED <<files, raced>>

\* createDir() to mkdir(): it calls itself for the directory above.
CheckType(p) ==
    /\ pc[p] = "type"
    /\ LET path == Head(pending[p])
           type == getPathType(path)
       IN  IF type = "directory" THEN LeaveCreateDir(p)
           ELSE IF type # "nonexistent" THEN Return(p, "false")
           ELSE IF parentDir(path) = <<>> THEN GoTo(p, "mkdir", pending[p])
           ELSE GoTo(p, "type", <<parentDir(path)>> \o pending[p])
    /\ CallFrame
    /\ UNCHANGED <<files, raced>>

Mkdir(p) ==
    /\ pc[p] = "mkdir"
    /\ LET node == Node[Head(pending[p])]
       IN  IF Free(Head(pending[p]))
           THEN /\ files' = [files EXCEPT ![node] = Dir]
                /\ LeaveCreateDir(p)
                /\ Race(p, node)
           ELSE /\ Return(p, "false")
                /\ UNCHANGED <<files, raced>>
    /\ CallFrame

Mkfifo(p) ==
    /\ pc[p] = "mkfifo"
    /\ LET node == Node[call[p].path]
       IN  IF Free(call[p].path) /\ Last(call[p].path) # "/"
           THEN /\ files' = [files EXCEPT
                              ![node] = <<"namedPipe", call[p].mode>>]
                /\ Return(p, "true")
                /\ Race(p, node)
           ELSE /\ Return(p, "false")
                /\ UNCHANGED <<files, raced>>
    /\ CallFrame

Step(p) == Access(p) \/ Stat(p) \/ CheckType(p) \/ Mkdir(p) \/ Mkfifo(p)

Next == \E p \in Processes : Begin(p) \/ Step(p)

Spec == Init /\ [][Next]_vars

-----------------------------------------------------------------------------
TypeOK ==
    /\ files \in [Nodes -> Kinds]
    /\ pc \in [Processes ->
                {"idle", "access", "stat", "type", "mkdir", "mkfifo"}]
    /\ call \in [Processes -> Calls]
    /\ pending \in [Processes -> Seq(Paths \ {<<>>})]
    /\ result \in [Processes -> {"none", "true", "false"}]
    /\ calls \in [Processes -> 0 .. MaxCalls]
    /\ found \in [Processes -> BOOLEAN]
    /\ could \in [Processes -> BOOLEAN]
    /\ raced \in [Processes -> BOOLEAN]

\* parentDir() names the directory that the file is in, however slashes are
\* repeated, except that it takes the last of two slashes at the end for a
\* file, and is empty for the root and for a file in the working directory.
ParentIsRight(path) ==
    LET node == Node[path]
        parent == parentDir(path)
    IN  IF parent = <<>>
        THEN Len(node) = 1 \/ (Len(node) = 2 /\ node[1] = ".")
        ELSE Node[parent] = IF EndsInTwo(path) THEN node ELSE Front(node)

PathsAreRight == \A path \in Paths \ {<<>>} : ParentIsRight(path)

\* parentDir() is right about every path.  The directories that a createDir()
\* has been called for are therefore all on its path, each shorter than the
\* next, so that it comes to an end.
ParentIsAbove ==
    /\ PathsAreRight
    /\ \A p \in Processes :
         LET dirs == Append(pending[p], call[p].path)
         IN  \A i \in 1 .. Len(pending[p]) :
               /\ IsPrefix(Node[dirs[i]], Node[dirs[i + 1]])
               /\ Len(dirs[i]) < Len(dirs[i + 1]) \/ dirs[i] = call[p].path

\* When a call has returned true, the file is there and is what was asked for.
\* No call returned false that found it so when it began, whatever the others
\* did.  One that did not find it returns false for one of three reasons: a file
\* in its way or a locked directory, repeated slashes, or a race it has lost,
\* when another process has made one of the files of its path since it began.
\* For the last two the file may be there by then: FalseMeansAbsent.
AnswerHasReason ==
    \A p \in Processes :
        /\ result[p] = "true" => There(call[p])
        /\ result[p] = "false" => ~ found[p] /\ (~ could[p] \/ raced[p])

\* However the calls are interleaved, they do not all lose the race: when all
\* have returned and each could have succeeded, one has.
SomeoneSucceeds ==
    (\A p \in Processes : pc[p] = "idle" /\ could[p])
        => \E p \in Processes : result[p] = "true"

-----------------------------------------------------------------------------
(***************************************************************************)
(* What the documentation says and the code does not do.                   *)
(***************************************************************************)
\* Pipe.h of createPipe(): "True if and only if the file was created or a file
\* already exists at that path with the correct properties".  File_Utils.h of
\* createDir(): "false if the directory does not exist and could not be
\* created".  A mkfifo() or mkdir() that finds the file there, with EEXIST, is an
\* error to the code, so that who loses the race for a file returns false with
\* the file in its place.
FalseMeansAbsent ==
    [][\A p \in Processes :
         result[p] = "none" /\ result'[p] = "false" => ~ There(call[p])]_vars
=============================================================================
