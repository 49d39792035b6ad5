-------------------------- MODULE FileUtilsProofs --------------------------
(***************************************************************************)
(* Theorems about FileUtils, for every number of processes and of calls,   *)
(* every set of paths and every file system.                               *)
(***************************************************************************)
EXTENDS FileUtils, FiniteSetTheorems, SequenceTheorems, WellFoundedInduction,
        TLAPS

-----------------------------------------------------------------------------
(***************************************************************************)
(* Paths and nodes.                                                        *)
(***************************************************************************)
\* A set of natural numbers has a smallest one.
LEMMA HasSmallest ==
    ASSUME NEW S \in SUBSET Nat, S # {}
    PROVE  \E x \in S : \A y \in S : x <= y
<1>1. \E x \in S : \A y \in S : ~ (<<y, x>> \in OpToRel(<, Nat))
  BY NatLessThanWellFounded, WFMin
<1>2. \A x, y \in Nat : <<y, x>> \in OpToRel(<, Nat) <=> y < x
  BY DEF OpToRel
<1>3. PICK x \in S : \A y \in S : ~ (y < x)
  BY <1>1, <1>2
<1>4. \A y \in S : x <= y
  BY <1>3
<1> QED
  BY <1>4

\* One that is bounded has a largest one.
LEMMA HasLargest ==
    ASSUME NEW n \in Nat, NEW S \in SUBSET (1 .. n), S # {}
    PROVE  /\ Max(S) \in S
           /\ \A y \in S : y <= Max(S)
<1> DEFINE T == {n - y : y \in S}
<1>1. T \in SUBSET Nat /\ T # {}
  <2>1. \A y \in S : n - y \in Nat
    OBVIOUS
  <2>2. \E y \in S : n - y \in T
    OBVIOUS
  <2> QED
    BY <2>1, <2>2
<1>2. PICK t \in T : \A u \in T : t <= u
  BY <1>1, HasSmallest
<1>3. PICK x \in S : t = n - x
  BY <1>2
<1>4. \A y \in S : y <= x
  <2> SUFFICES ASSUME NEW y \in S PROVE y <= x
    OBVIOUS
  <2>1. n - y \in T
    OBVIOUS
  <2>2. n - x <= n - y
    BY <1>2, <1>3, <2>1
  <2> QED
    BY <2>2
<1>5. \E z \in S : \A y \in S : z >= y
  BY <1>4
<1> QED
  BY <1>5 DEF Max

\* Among n places there is a k-th for every k up to n.
LEMMA NthExists ==
    ASSUME NEW len \in Nat, NEW At \in SUBSET (1 .. len)
    PROVE  /\ IsFiniteSet(At) /\ Cardinality(At) \in Nat
           /\ \A k \in 1 .. Cardinality(At) :
                \E i \in At : Cardinality(At \cap (1 .. i)) = k
<1> DEFINE Rank(i) == Cardinality(At \cap (1 .. i))
           n == Cardinality(At)
           Bad == {k \in 1 .. n : \A i \in At : Rank(i) # k}
<1>1. IsFiniteSet(At) /\ n \in Nat
  <2>1. IsFiniteSet(1 .. len)
    BY FS_Interval
  <2>2. IsFiniteSet(At)
    BY <2>1, FS_Subset
  <2> QED
    BY <2>2, FS_CardinalityType
<1>2. SUFFICES ASSUME Bad # {} PROVE FALSE
  BY <1>1
<1>3. PICK b \in Bad : \A k \in Bad : k <= b
  BY <1>1, <1>2, HasLargest
<1>4. b \in 1 .. n /\ \A i \in At : Rank(i) # b
  BY <1>3
<1>5. b # n
  <2>1. At # {}
    BY <1>1, <1>4, FS_EmptySet
  <2>2. PICK m \in At : \A i \in At : i <= m
    BY <2>1, HasLargest
  <2>3. \A i \in At : i \in 1 .. m
    BY <2>2
  <2>4. At \cap (1 .. m) = At
    BY <2>3
  <2> QED
    BY <1>4, <2>4
<1>6. b + 1 \in 1 .. n /\ b + 1 \notin Bad
  <2>1. b + 1 \in 1 .. n
    BY <1>1, <1>4, <1>5
  <2>2. ~ (b + 1 <= b)
    BY <1>1, <1>4
  <2> QED
    BY <1>3, <2>1, <2>2
<1>7. PICK i \in At : Rank(i) = b + 1
  BY <1>6
<1> DEFINE Before == (At \cap (1 .. i)) \ {i}
<1>8. /\ Before \in SUBSET (1 .. len) /\ Before # {}
      /\ Cardinality(Before) = b
  <2>1. i \in At \cap (1 .. i)
    OBVIOUS
  <2>2. At \cap (1 .. i) \in SUBSET At
    OBVIOUS
  <2>3. IsFiniteSet(At \cap (1 .. i))
    BY <1>1, <2>2, FS_Subset
  <2>4. Cardinality(Before) = b + 1 - 1 /\ IsFiniteSet(Before)
    <3>1. Cardinality(Before) = Rank(i) - 1 /\ IsFiniteSet(Before)
      BY <2>1, <2>3, FS_RemoveElement
    <3> QED
      BY <1>7, <3>1
  <2>5. Cardinality(Before) = b /\ b # 0
    BY <1>1, <1>4, <2>4
  <2> QED
    BY <2>4, <2>5, FS_EmptySet
<1>9. PICK j \in Before : \A k \in Before : k <= j
  BY <1>8, HasLargest
<1>10. At \cap (1 .. j) = Before
  <2>1. j \in At /\ j < i /\ i \in Nat /\ j \in Nat
    BY <1>9
  <2>2. \A k \in Before : k \in At /\ k \in 1 .. j
    BY <1>9
  <2>3. \A k \in At : k <= j => k \in Before
    BY <2>1
  <2> QED
    BY <2>2, <2>3
<1> QED
  BY <1>4, <1>8, <1>9, <1>10

\* And there is only one.
LEMMA NthIsOne ==
    ASSUME NEW len \in Nat, NEW At \in SUBSET (1 .. len), NEW i \in At,
           NEW j \in At, Cardinality(At \cap (1 .. i)) = Cardinality(At \cap (1 .. j))
    PROVE  i = j
<1>1. ASSUME NEW a \in At, NEW b \in At, a < b
      PROVE  Cardinality(At \cap (1 .. a)) # Cardinality(At \cap (1 .. b))
  <2>1. /\ IsFiniteSet(At) /\ At \cap (1 .. b) \in SUBSET At
        /\ At \cap (1 .. a) \in SUBSET At
    BY NthExists
  <2>2. IsFiniteSet(At \cap (1 .. b))
    BY <2>1, FS_Subset
  <2>3. At \cap (1 .. a) \in SUBSET (At \cap (1 .. b))
        /\ b \in At \cap (1 .. b) /\ b \notin At \cap (1 .. a)
    BY <1>1
  <2> QED
    BY <2>2, <2>3, FS_Subset
<1>2. i \in Nat /\ j \in Nat
  OBVIOUS
<1> QED
  BY <1>1, <1>2

\* The names of a path are symbols.
LEMMA NamesType ==
    ASSUME NEW path \in Seq(Symbols)
    PROVE  /\ NamesAt(path) \in SUBSET (1 .. Len(path)) /\ Len(path) \in Nat
           /\ Names(path) \in Seq(Symbols)
           /\ Len(Names(path)) = Cardinality(NamesAt(path))
           /\ Cardinality(NamesAt(path)) \in Nat
           /\ \A k \in 1 .. Len(Names(path)) : Names(path)[k] = NthName(path, k)
<1> DEFINE at == NamesAt(path)
           n == Cardinality(at)
<1>1. at \in SUBSET (1 .. Len(path)) /\ Len(path) \in Nat
  BY DEF NamesAt
<1>2. n \in Nat
      /\ \A k \in 1 .. n : \E i \in at : Cardinality(at \cap (1 .. i)) = k
  BY <1>1, NthExists
<1>3. ASSUME NEW k \in 1 .. n
      PROVE  NthName(path, k) \in Symbols
  <2>1. PICK i \in at : i = CHOOSE j \in at : Cardinality(at \cap (1 .. j)) = k
    BY <1>2
  <2>2. NthName(path, k) = path[i]
    BY <2>1 DEF NthName
  <2> QED
    BY <1>1, <2>2
<1>4. Names(path) = [k \in 1 .. n |-> NthName(path, k)]
  BY DEF Names
<1> HIDE DEF at, n
<1>5. Names(path) \in [1 .. n -> Symbols]
  BY <1>3, <1>4
<1>6. Names(path) \in Seq(Symbols) /\ Len(Names(path)) = n
  BY <1>2, <1>5
<1> QED
  BY <1>1, <1>2, <1>4, <1>6 DEF at, n

\* The names of a path, its node, and the nodes above it.
LEMMA NodeType ==
    ASSUME NEW path \in Paths \ {<<>>}
    PROVE  /\ path \in Seq(Symbols)
           /\ Node[path] \in Seq(Symbols)
           /\ Len(Node[path]) \in Nat \ {0}
           /\ Node[path] \in Nodes
           /\ Len(Node[path]) = 1 + Len(Names(path))
           /\ Node[path][1] = IF path[1] = "/" THEN "/" ELSE "."
           /\ \A k \in 1 .. Len(Names(path)) : Node[path][k + 1] = Names(path)[k]
<1>1. path \in Seq(Symbols) /\ Names(path) \in Seq(Symbols)
  BY PathsAssumption, NamesType
<1> DEFINE top == IF path[1] = "/" THEN "/" ELSE "."
           root == <<top>>
<1>2. Node[path] = root \o Names(path)
  BY DEF Node
<1>3. /\ Node[path] \in Seq(Symbols) /\ Len(Node[path]) = 1 + Len(Names(path))
      /\ Node[path][1] = top
      /\ \A k \in 1 .. Len(Names(path)) : Node[path][k + 1] = Names(path)[k]
  <2>1. root \in Seq(Symbols) /\ Len(root) = 1 /\ root[1] = top
    <3>1. top \in Symbols
      BY DEF Symbols
    <3> HIDE DEF top
    <3> QED
      BY <3>1
  <2> HIDE DEF root
  <2> DEFINE both == root \o Names(path)
  <2>2. /\ both \in Seq(Symbols) /\ Len(both) = Len(root) + Len(Names(path))
        /\ \A i \in 1 .. Len(both) :
             both[i] = IF i <= Len(root) THEN root[i]
                       ELSE Names(path)[i - Len(root)]
    BY <1>1, <2>1, ConcatProperties
  <2> HIDE DEF both, top
  <2>3. Len(Names(path)) \in Nat
    BY <1>1
  <2>4. both[1] = top
    BY <2>1, <2>2, <2>3
  <2>5. ASSUME NEW k \in 1 .. Len(Names(path))
        PROVE  both[k + 1] = Names(path)[k]
    <3>1. k + 1 \in 1 .. Len(both) /\ ~ (k + 1 <= 1) /\ k + 1 - 1 = k
      BY <2>1, <2>2, <2>3
    <3> QED
      BY <2>1, <2>2, <3>1
  <2> QED
    BY <1>2, <2>1, <2>2, <2>4, <2>5 DEF both
<1>4. Len(Node[path]) \in Nat \ {0}
  BY <1>1, <1>3
<1>5. Node[path] = SubSeq(Node[path], 1, Len(Node[path]))
  BY <1>3, SubSeqFull
<1>6. Len(Node[path]) \in 1 .. Len(Node[path])
  BY <1>4
<1>7. Node[path] \in Nodes
  BY <1>5, <1>6 DEF Nodes
<1> QED
  BY <1>1, <1>2, <1>3, <1>4, <1>7

\* The first nodes of a node, one for each length.
Upto(node, k) == SubSeq(node, 1, k)

LEMMA UptoType ==
    ASSUME NEW s \in Seq(Symbols), NEW k \in 1 .. Len(s)
    PROVE  /\ Upto(s, k) \in Seq(Symbols) /\ Len(Upto(s, k)) = k
           /\ \A i \in 1 .. k : Upto(s, k)[i] = s[i]
           /\ \A j \in 1 .. k : Upto(Upto(s, k), j) = Upto(s, j)
           /\ k > 1 => Front(Upto(s, k)) = Upto(s, k - 1)
           /\ Upto(s, Len(s)) = s
<1>1. /\ Upto(s, k) \in Seq(Symbols) /\ Len(Upto(s, k)) = k
      /\ \A i \in 1 .. k : Upto(s, k)[i] = s[i]
  BY DEF Upto
<1>2. \A j \in 1 .. k : Upto(Upto(s, k), j) = Upto(s, j)
  <2> SUFFICES ASSUME NEW j \in 1 .. k PROVE Upto(Upto(s, k), j) = Upto(s, j)
    OBVIOUS
  <2> DEFINE u == Upto(s, k)
  <2>1. u \in Seq(Symbols) /\ Len(u) = k /\ \A i \in 1 .. k : u[i] = s[i]
    BY <1>1
  <2> HIDE DEF u
  <2>2. /\ Upto(u, j) \in Seq(Symbols) /\ Len(Upto(u, j)) = j
        /\ Upto(s, j) \in Seq(Symbols) /\ Len(Upto(s, j)) = j
        /\ \A i \in 1 .. j : Upto(u, j)[i] = u[i] /\ Upto(s, j)[i] = s[i]
    BY <2>1 DEF Upto
  <2>3. Upto(u, j) = Upto(s, j)
    BY <2>1, <2>2, SeqEqual
  <2> QED
    BY <2>3 DEF u
<1>3. k > 1 => Front(Upto(s, k)) = Upto(s, k - 1)
  <2>1. Front(Upto(s, k)) = Upto(Upto(s, k), k - 1)
    BY <1>1 DEF Front, Upto
  <2> QED
    BY <1>2, <2>1
<1>4. Upto(s, Len(s)) = s
  BY SubSeqFull DEF Upto
<1> QED
  BY <1>1, <1>2, <1>3, <1>4

-----------------------------------------------------------------------------
(***************************************************************************)
(* The inductive invariant.                                                *)
(***************************************************************************)
\* Files are in directories.
IsTree(f) ==
    \A n \in Nodes : IF Len(n) = 1 THEN f[n] = Dir
                     ELSE f[n] # None => f[Front(n)][1] = "directory"

\* The lowest of the files above that exists is the m-th and takes new files.
ClearFrom(f, node, m) ==
    /\ f[Upto(node, m)] = Dir
    /\ \A k \in m + 1 .. Len(node) : f[Upto(node, k)] = None

\* The depths of the last and the first directory that createDir() is called
\* for, in a path that does not repeat slashes.
LastAt(c) == IF c.op = "createDir" THEN Len(Node[c.path])
             ELSE Len(Node[c.path]) - 1
HeadAt(c, dirs) == LastAt(c) - Len(dirs) + 1

\* Each of them is one directory further down.
Placed(c, dirs) ==
    /\ ~ Repeats(c.path)
    /\ c.op = "createPipe" => Last(c.path) # "/"
    /\ HeadAt(c, dirs) >= 1
    /\ \A j \in 1 .. Len(dirs) :
         /\ ~ Repeats(dirs[j])
         /\ Node[dirs[j]] = Upto(Node[c.path], HeadAt(c, dirs) + j - 1)

\* Nothing is in the way, and the call is where it will make the first file
\* that is missing.
OnTheWay(f, c, place, dirs) ==
    \E m \in 1 .. Len(Node[c.path]) - 1 :
        /\ ClearFrom(f, Node[c.path], m)
        /\ \/ place = "access"
           \/ place = "type" /\ m <= HeadAt(c, dirs)
           \/ place = "mkdir" /\ m + 1 = HeadAt(c, dirs)
           \/ place = "mkfifo" /\ m + 1 = Len(Node[c.path])

\* Each directory is the one above the next.
IsChain(c, dirs) ==
    /\ \A i \in 1 .. Len(dirs) - 1 : dirs[i] = parentDir(dirs[i + 1])
    /\ dirs # <<>> => dirs[Len(dirs)] = IF c.op = "createDir" THEN c.path
                                        ELSE parentDir(c.path)

\* There(c) of some files f.
IsThere(f, c) ==
    /\ f[Node[c.path]] \in Wanted(c)
    /\ c.op = "createPipe" => Last(c.path) # "/"

\* The file was there from the beginning, and is found at the first look.
IsFound(f, c, place, dirs) ==
    /\ IsThere(f, c)
    /\ \/ place \in {"access", "stat"}
       \/ place = "type" /\ c.op = "createDir" /\ dirs = <<c.path>>

\* What holds of a process: its call, where it is in it, its directories and
\* result, whether the call could succeed and whether others came in between.
Fits(f, c, place, dirs, value, able, lost) ==
    /\ place \in {"type", "mkdir"} <=> dirs # <<>>
    /\ place \in {"access", "stat", "mkfifo"} => c.op = "createPipe"
    /\ IsChain(c, dirs)
    /\ place # "idle" => value = "none"
    /\ place = "idle" /\ able => value # "none"
    /\ place = "stat" =>
         /\ f[Node[c.path]] # None
         /\ Last(c.path) = "/" => f[Node[c.path]][1] = "directory"
    /\ able /\ place # "idle" =>
         \/ IsFound(f, c, place, dirs)
         \/ Placed(c, dirs) /\ (~ lost => OnTheWay(f, c, place, dirs))
    /\ value = "true" => IsThere(f, c)
    /\ value = "false" => ~ able \/ lost

\* A call that has not lost a race, or has made the last file there is on its
\* path.
Wins(f, c, place, dirs, value, able, lost) ==
    \/ ~ able
    \/ ~ lost
    \/ value = "true"
    \/ place # "idle" /\ Placed(c, dirs) /\ OnTheWay(f, c, place, dirs)

FilesInv ==
    /\ TypeOK
    /\ IsTree(files)
    /\ \A p \in Processes : Fits(files, call[p], pc[p], pending[p], result[p],
                                 could[p], raced[p])
    /\ \E p \in Processes : Wins(files, call[p], pc[p], pending[p], result[p],
                                 could[p], raced[p])

\* A call that found its file when it began will return true, or has.
FoundInv ==
    \A p \in Processes : found[p] =>
        IF pc[p] = "idle" THEN result[p] = "true"
        ELSE IsFound(files, call[p], pc[p], pending[p])

-----------------------------------------------------------------------------
(***************************************************************************)
(* The files.                                                              *)
(***************************************************************************)
\* A directory is not nothing, and is one that the code can be asked for.
LEMMA KindFacts ==
    /\ Dir \in Kinds /\ Dir # None /\ Dir[1] = "directory"
    /\ \A k \in Kinds : k[1] = "directory" => /\ k \in {Dir, Locked}
                                              /\ k # None /\ k # Link
    /\ \A mode \in Modes : /\ <<"namedPipe", mode>> \in Kinds
                           /\ <<"namedPipe", mode>> # None
                           /\ <<"namedPipe", mode>> # Link
                           /\ <<"namedPipe", mode>>[1] = "namedPipe"
    /\ None[1] # "directory" /\ None[1] \notin {"file", "namedPipe"}
<1>1. Dir \in Kinds /\ Dir # None /\ Dir[1] = "directory"
  BY DEF Dir, None, Kinds
<1>2. \A k \in Kinds : k[1] = "directory" => k \in {Dir, Locked} /\ k # None
                                             /\ k # Link
  <2> SUFFICES ASSUME NEW k \in Kinds, k[1] = "directory"
               PROVE  k \in {Dir, Locked} /\ k # None /\ k # Link
    OBVIOUS
  <2>1. k \notin {"file", "namedPipe"} \X Modes
    OBVIOUS
  <2>2. k # None /\ k # Link
    BY DEF None, Link
  <2> QED
    BY <2>1, <2>2 DEF Kinds
<1>3. \A mode \in Modes : /\ <<"namedPipe", mode>> \in Kinds
                          /\ <<"namedPipe", mode>> # None
                          /\ <<"namedPipe", mode>> # Link
                          /\ <<"namedPipe", mode>>[1] = "namedPipe"
  BY DEF Kinds, None, Link
<1>4. None[1] # "directory" /\ None[1] \notin {"file", "namedPipe"}
  BY DEF None
<1> QED
  BY <1>1, <1>2, <1>3, <1>4

\* Nodes are the first nodes of a path, and have their own.
LEMMA NodesType ==
    ASSUME NEW n \in Nodes
    PROVE  /\ n \in Seq(Symbols) /\ Len(n) \in Nat \ {0}
           /\ \A k \in 1 .. Len(n) : Upto(n, k) \in Nodes
<1>1. PICK path \in Paths \ {<<>>} :
        \E k \in 1 .. Len(Node[path]) : n = SubSeq(Node[path], 1, k)
  BY DEF Nodes
<1>2. PICK k \in 1 .. Len(Node[path]) : n = Upto(Node[path], k)
  BY <1>1 DEF Upto
<1>3. Node[path] \in Seq(Symbols) /\ Len(Node[path]) \in Nat \ {0}
  BY NodeType
<1>4. n \in Seq(Symbols) /\ Len(n) = k
  BY <1>2, <1>3, UptoType
<1>5. \A j \in 1 .. k : Upto(n, j) = Upto(Node[path], j)
  BY <1>2, <1>3, UptoType
<1>6. \A j \in 1 .. k : Upto(Node[path], j) \in Nodes
  <2> SUFFICES ASSUME NEW j \in 1 .. k PROVE Upto(Node[path], j) \in Nodes
    OBVIOUS
  <2>1. j \in 1 .. Len(Node[path])
    BY <1>3
  <2> QED
    BY <2>1 DEF Nodes, Upto
<1> QED
  BY <1>3, <1>4, <1>5, <1>6

\* What is above a file is a directory, at every depth.
LEMMA AboveAreDirectories ==
    ASSUME NEW f \in [Nodes -> Kinds], IsTree(f), NEW n \in Nodes,
           NEW k \in 1 .. Len(n), f[Upto(n, k)] # None, NEW j \in 1 .. k - 1
    PROVE  f[Upto(n, j)][1] = "directory"
<1> DEFINE Bad == {i \in 1 .. k - 1 : f[Upto(n, i)][1] # "directory"}
<1> SUFFICES ASSUME Bad # {} PROVE FALSE
  OBVIOUS
<1>1. n \in Seq(Symbols) /\ Len(n) \in Nat
      /\ \A i \in 1 .. Len(n) : Upto(n, i) \in Nodes
  BY NodesType
<1>2. k - 1 \in Nat /\ Bad \in SUBSET (1 .. k - 1)
  BY <1>1
<1>3. PICK m \in Bad : \A i \in Bad : i <= m
  BY <1>2, HasLargest
<1>4. m \in 1 .. k - 1 /\ f[Upto(n, m)][1] # "directory"
  BY <1>3
<1>5. m + 1 \notin Bad
  BY <1>3, <1>4
<1>6. m + 1 \in 2 .. k /\ (m + 1 # k => m + 1 \in 1 .. k - 1)
  BY <1>1, <1>4
<1>7. f[Upto(n, m + 1)] # None
  <2>1. CASE m + 1 = k
    BY <2>1
  <2>2. CASE m + 1 # k
    <3>1. f[Upto(n, m + 1)][1] = "directory"
      BY <1>5, <1>6, <2>2
    <3> QED
      BY <3>1, KindFacts
  <2> QED
    BY <2>1, <2>2
<1>8. m + 1 \in 1 .. Len(n) /\ m + 1 > 1 /\ m + 1 - 1 = m
  BY <1>1, <1>6, <1>4
<1>9. /\ Upto(n, m + 1) \in Nodes /\ Len(Upto(n, m + 1)) = m + 1
      /\ Front(Upto(n, m + 1)) = Upto(n, m)
  <2>1. \A i \in 1 .. Len(n) : i > 1 =>
          Len(Upto(n, i)) = i /\ Front(Upto(n, i)) = Upto(n, i - 1)
    BY <1>1, UptoType
  <2> QED
    BY <1>1, <1>8, <2>1
<1>10. f[Front(Upto(n, m + 1))][1] = "directory"
  <2>1. Len(Upto(n, m + 1)) # 1
    <3>1. \A i \in 1 .. k - 1 : i + 1 # 1
      BY <1>1
    <3> QED
      BY <1>4, <1>9, <3>1, Zenon
  <2> QED
    BY <1>7, <1>9, <2>1 DEF IsTree
<1> QED
  BY <1>4, <1>9, <1>10

\* Making a file in a directory keeps all others, and the tree.
LEMMA MakingKeepsTree ==
    ASSUME NEW f \in [Nodes -> Kinds], IsTree(f), NEW n \in Nodes,
           f[n] = None, f[Front(n)] = Dir, NEW v \in Kinds, v # None,
           NEW g, g = [f EXCEPT ![n] = v]
    PROVE  /\ g \in [Nodes -> Kinds] /\ IsTree(g)
           /\ \A o \in Nodes : f[o] # None => g[o] = f[o]
<1>1. g \in [Nodes -> Kinds]
  OBVIOUS
<1>2. \A o \in Nodes : f[o] # None => g[o] = f[o]
  OBVIOUS
<1>3. ASSUME NEW o \in Nodes
      PROVE  IF Len(o) = 1 THEN g[o] = Dir
             ELSE g[o] # None => g[Front(o)][1] = "directory"
  <2>0. IF Len(o) = 1 THEN f[o] = Dir
        ELSE f[o] # None => f[Front(o)][1] = "directory"
    BY DEF IsTree
  <2>1. CASE Len(o) = 1
    BY <2>0, <2>1, <1>2, KindFacts
  <2>2. CASE Len(o) # 1
    <3> SUFFICES ASSUME g[o] # None PROVE g[Front(o)][1] = "directory"
      BY <2>2
    <3>1. f[Front(o)][1] = "directory"
      BY <2>0, <2>2, KindFacts
    <3>2. Front(o) \in Nodes
      <4>1. o \in Seq(Symbols) /\ Len(o) \in Nat \ {0}
        BY NodesType
      <4>2. Len(o) - 1 \in 1 .. Len(o)
        <5>1. \A i \in Nat \ {0} : i # 1 => i - 1 \in 1 .. i
          OBVIOUS
        <5> QED
          BY <4>1, <5>1, <2>2
      <4>3. Upto(o, Len(o) - 1) \in Nodes
        BY <4>2, NodesType
      <4>4. Front(o) = Upto(o, Len(o) - 1)
        BY DEF Front, Upto
      <4> QED
        BY <4>3, <4>4
    <3>3. f[Front(o)] # None
      BY <3>1, KindFacts
    <3> QED
      BY <1>2, <3>1, <3>2, <3>3
  <2> QED
    BY <2>1, <2>2
<1> QED
  BY <1>1, <1>2, <1>3 DEF IsTree

-----------------------------------------------------------------------------
(***************************************************************************)
(* parentDir() and stat().                                                 *)
(***************************************************************************)
\* A path or a node that is not a single one has at least two.
LEMMA AtLeastTwo == \A n \in Nat \ {0} : n # 1 => n >= 2
  OBVIOUS

\* What parentDir() finds is shorter than the path, and repeats slashes only
\* when the path does.
LEMMA ParentDirIsShorter ==
    ASSUME NEW path \in Paths \ {<<>>}, parentDir(path) # <<>>
    PROVE  /\ parentDir(path) \in Paths \ {<<>>}
           /\ Len(parentDir(path)) < Len(path)
           /\ Repeats(parentDir(path)) => Repeats(path)
<1> DEFINE dir == parentDir(path)
           from == IF Len(path) >= 2 THEN Len(path) - 1 ELSE Len(path)
           slashes == {i \in 1 .. from : path[i] = "/"}
<1>1. dir \in Paths \ {<<>>}
  BY PathsAssumption
<1>2. path \in Seq(Symbols) /\ Len(path) \in Nat \ {0}
  BY NodeType, EmptySeq
<1>3. from \in Nat /\ slashes \in SUBSET (1 .. from)
  BY <1>2
<1>4. /\ path \notin {<<>>, <<"/">>, <<"/", "/">>} /\ slashes # {}
      /\ dir = IF Max(slashes) = 1 THEN <<"/">>
               ELSE SubSeq(path, 1, Max(slashes) - 1)
  BY DEF parentDir, ParentAt
<1>5. PICK m \in slashes : m = Max(slashes)
  BY <1>3, <1>4, HasLargest
<1>6. Len(path) >= 2
  <2> SUFFICES ASSUME Len(path) = 1 PROVE FALSE
    BY <1>2, AtLeastTwo
  <2>1. from = 1
    OBVIOUS
  <2>2. path[1] = "/"
    BY <1>4, <2>1
  <2>3. path = <<"/">>
    BY <1>2, <2>2
  <2> QED
    BY <1>4, <2>3
<1>7. m \in 1 .. Len(path) - 1 /\ path[m] = "/"
  BY <1>5, <1>6
<1> HIDE DEF slashes, from, dir
<1>8. CASE m = 1
  <2>1. dir = <<"/">>
    BY <1>4, <1>5, <1>8
  <2>2. Len(dir) = 1
    BY <2>1
  <2>3. ~ Repeats(dir)
    BY <2>2 DEF Repeats, EndsInTwo
  <2> QED
    BY <1>1, <1>2, <1>6, <2>2, <2>3 DEF dir
<1>9. CASE m # 1
  <2>1. dir = SubSeq(path, 1, m - 1)
    BY <1>4, <1>5, <1>9
  <2>2. m - 1 \in 1 .. Len(path) /\ m - 1 < Len(path)
    BY <1>2, <1>7, <1>9
  <2>3. Len(dir) = m - 1 /\ \A i \in 1 .. m - 1 : dir[i] = path[i]
    BY <1>2, <2>1, <2>2
  <2>4. ASSUME EndsInTwo(dir)
        PROVE  Repeats(path)
    <3>1. m - 1 > 1 /\ dir[m - 1] = "/" /\ dir[m - 1 - 1] = "/"
      BY <2>3, <2>4 DEF EndsInTwo
    <3>2. m \in 3 .. Len(path)
      BY <1>2, <1>7, <3>1
    <3>3. path[m - 1] = "/" /\ path[m - 2] = "/"
      <4>1. m - 1 \in 1 .. m - 1 /\ m - 1 - 1 \in 1 .. m - 1
            /\ m - 1 - 1 = m - 2
        BY <3>2
      <4> QED
        BY <2>3, <3>1, <4>1
    <3>4. \A j \in m - 2 .. m : j \in {m - 2, m - 1, m}
      BY <3>2
    <3>5. \A j \in m - 2 .. m : path[j] = "/"
      BY <1>7, <3>3, <3>4
    <3> QED
      BY <3>2, <3>5 DEF Repeats
  <2>5. ASSUME NEW i \in 3 .. Len(dir), \A j \in i - 2 .. i : dir[j] = "/"
        PROVE  Repeats(path)
    <3>1. i \in 3 .. Len(path) /\ \A j \in i - 2 .. i : j \in 1 .. m - 1
      BY <1>2, <2>2, <2>3
    <3>2. \A j \in i - 2 .. i : path[j] = "/"
      BY <2>3, <2>5, <3>1
    <3> QED
      BY <3>1, <3>2 DEF Repeats
  <2>6. Repeats(dir) => Repeats(path)
    BY <2>4, <2>5 DEF Repeats
  <2> QED
    BY <1>1, <2>2, <2>3, <2>6 DEF dir
<1> QED
  BY <1>8, <1>9

\* A path that has the first names of another leads to a file above its file.
LEMMA FewerNames ==
    ASSUME NEW path \in Paths \ {<<>>}, NEW q \in Paths \ {<<>>},
           q[1] = "/" <=> path[1] = "/",
           NamesAt(q) \in SUBSET NamesAt(path),
           \A i \in NamesAt(q) : q[i] = path[i],
           \A i \in NamesAt(path) \ NamesAt(q) : \A j \in NamesAt(q) : j < i
    PROVE  Node[q] = SubSeq(Node[path], 1,
                            1 + Cardinality(NamesAt(q)))
<1> DEFINE all == NamesAt(path)
           some == NamesAt(q)
           n == Cardinality(some)
           RankAll(i) == Cardinality(all \cap (1 .. i))
           RankSome(i) == Cardinality(some \cap (1 .. i))
<1>1. /\ path \in Seq(Symbols) /\ q \in Seq(Symbols)
      /\ all \in SUBSET (1 .. Len(path)) /\ Len(path) \in Nat
      /\ some \in SUBSET (1 .. Len(q)) /\ Len(q) \in Nat
  BY NodeType, NamesType
<1>2. /\ IsFiniteSet(all) /\ IsFiniteSet(some) /\ n \in Nat
      /\ Cardinality(all) \in Nat /\ n <= Cardinality(all)
      /\ \A k \in 1 .. n : \E i \in some : RankSome(i) = k
      /\ \A k \in 1 .. Cardinality(all) : \E i \in all : RankAll(i) = k
  BY <1>1, NthExists, FS_Subset
<1>3. ASSUME NEW i \in some
      PROVE  RankAll(i) = RankSome(i)
  <2>1. \A j \in all : j \in 1 .. i => j \in some
    <3> SUFFICES ASSUME NEW j \in all, j \in 1 .. i, j \notin some PROVE FALSE
      OBVIOUS
    <3>1. i < j
      OBVIOUS
    <3> QED
      BY <1>1, <3>1
  <2>2. all \cap (1 .. i) = some \cap (1 .. i)
    BY <2>1
  <2> QED
    BY <2>2
<1>4. ASSUME NEW i \in all \ some
      PROVE  RankAll(i) > n /\ RankAll(i) \in Nat
  <2>1. some \in SUBSET (all \cap (1 .. i)) /\ some # all \cap (1 .. i)
    <3>1. \A j \in some : j \in all /\ j \in 1 .. i
      BY <1>1
    <3>2. i \in all \cap (1 .. i)
      BY <1>1
    <3> QED
      BY <3>1, <3>2
  <2>2. IsFiniteSet(all \cap (1 .. i))
    BY <1>2, FS_Subset
  <2>3. RankAll(i) \in Nat
    BY <2>2, FS_CardinalityType
  <2>4. n <= RankAll(i) /\ n # RankAll(i)
    BY <2>1, <2>2, FS_Subset
  <2> QED
    BY <1>2, <2>3, <2>4
<1>5. ASSUME NEW k \in 1 .. n
      PROVE  Names(q)[k] = Names(path)[k]
  <2>0. k \in 1 .. Cardinality(all)
    BY <1>2
  <2>1. PICK i \in some : /\ i = CHOOSE j \in some : RankSome(j) = k
                          /\ RankSome(i) = k
    BY <1>2
  <2>2. PICK m \in all : /\ m = CHOOSE j \in all : RankAll(j) = k
                         /\ RankAll(m) = k
    BY <1>2, <2>0
  <2>3. m \in some
    <3>1. ~ (k > n)
      BY <1>2
    <3> QED
      BY <1>4, <2>2, <3>1
  <2>4. RankSome(m) = k
    BY <1>3, <2>2, <2>3
  <2>5. i = m
    BY <1>1, <2>1, <2>3, <2>4, NthIsOne
  <2>6. NthName(q, k) = q[i] /\ NthName(path, k) = path[m]
    BY <2>1, <2>2 DEF NthName
  <2>7. q[i] = path[i]
    OBVIOUS
  <2>8. Names(q)[k] = NthName(q, k) /\ Names(path)[k] = NthName(path, k)
    BY <1>1, <2>0, NamesType
  <2> QED
    BY <2>5, <2>6, <2>7, <2>8
<1> HIDE DEF n
<1>6. /\ Len(Names(q)) = n /\ Names(q) \in Seq(Symbols)
      /\ Len(Names(path)) = Cardinality(all) /\ Names(path) \in Seq(Symbols)
  BY <1>1, NamesType DEF n
<1> DEFINE s == Node[path]
           t == Node[q]
<1>7. /\ s \in Seq(Symbols) /\ Len(s) = 1 + Cardinality(all)
      /\ t \in Seq(Symbols) /\ Len(t) = 1 + n
      /\ s[1] = t[1]
      /\ \A k \in 1 .. n : t[k + 1] = Names(q)[k]
      /\ \A k \in 1 .. Cardinality(all) : s[k + 1] = Names(path)[k]
  BY <1>6, NodeType
<1> HIDE DEF s, t, all, some
<1>8. ASSUME NEW i \in 1 .. 1 + n
      PROVE  t[i] = s[i]
  <2>1. CASE i = 1
    BY <1>7, <2>1
  <2>2. CASE i # 1
    <3>1. i - 1 \in 1 .. n /\ i - 1 \in 1 .. Cardinality(all) /\ i - 1 + 1 = i
      BY <1>2, <2>2
    <3>2. t[i - 1 + 1] = Names(q)[i - 1]
          /\ s[i - 1 + 1] = Names(path)[i - 1]
          /\ Names(q)[i - 1] = Names(path)[i - 1]
      BY <1>5, <1>7, <3>1
    <3> QED
      BY <3>1, <3>2
  <2> QED
    BY <2>1, <2>2
<1> DEFINE u == SubSeq(s, 1, 1 + n)
<1>9. 1 + n \in 1 .. Len(s)
  BY <1>2, <1>7
<1>10. /\ u \in Seq(Symbols) /\ Len(u) = 1 + n
       /\ \A i \in 1 .. 1 + n : u[i] = s[i]
  BY <1>7, <1>9, UptoType DEF Upto
<1> HIDE DEF u
<1>11. \A i \in 1 .. Len(t) : t[i] = u[i]
  BY <1>7, <1>8, <1>10
<1>12. t = u
  BY <1>7, <1>10, <1>11, SeqEqual
<1> QED
  BY <1>12 DEF u, s, t, n, some

\* parentDir() names the directory that the file is in, for every path,
\* with the exceptions that ParentIsRight has.
THEOREM ParentDirIsRight == PathsAreRight
<1> SUFFICES ASSUME NEW path \in Paths \ {<<>>} PROVE ParentIsRight(path)
  BY DEF PathsAreRight
<1> DEFINE dir == parentDir(path)
           node == Node[path]
           all == NamesAt(path)
           len == Len(path)
           from == IF len >= 2 THEN len - 1 ELSE len
           slashes == {i \in 1 .. from : path[i] = "/"}
<1>1. /\ path \in Seq(Symbols) /\ len \in Nat \ {0}
      /\ \A i \in 1 .. len - 1 : path[i] = "/" \/ path[i + 1] = "/"
  BY PathsAssumption, NodeType, EmptySeq
<1>2. /\ node \in Seq(Symbols) /\ Len(node) = 1 + Cardinality(all)
      /\ node[1] = IF path[1] = "/" THEN "/" ELSE "."
      /\ IsFiniteSet(all) /\ Cardinality(all) \in Nat
  BY NodeType, NamesType, NthExists
<1>3. all = {i \in 1 .. len : path[i] # "/"}
  BY DEF NamesAt
<1>4. dir = IF path \in {<<>>, <<"/">>, <<"/", "/">>} \/ slashes = {} THEN <<>>
            ELSE IF Max(slashes) = 1 THEN <<"/">>
            ELSE SubSeq(path, 1, Max(slashes) - 1)
  BY DEF parentDir, ParentAt
<1>5. from \in Nat /\ slashes \in SUBSET (1 .. from)
  BY <1>1
<1>6. CASE path \in {<<"/">>, <<"/", "/">>}
  <2>1. all = {} /\ dir = <<>>
    BY <1>3, <1>4, <1>6
  <2>2. Len(node) = 1
    BY <1>2, <2>1, FS_EmptySet
  <2> QED
    BY <2>1, <2>2 DEF ParentIsRight
<1>7. CASE path \notin {<<"/">>, <<"/", "/">>} /\ slashes = {}
  <2>1. dir = <<>>
    BY <1>4, <1>7
  <2>2. \A i \in 1 .. from : path[i] # "/"
    BY <1>7
  <2>3. path[1] # "/"
    BY <1>1, <2>2
  <2>4. len = 1 \/ len = 2
    <3>0. \A n \in Nat \ {0} : n > 2 \/ n = 1 \/ n = 2
      OBVIOUS
    <3> SUFFICES ASSUME len > 2 PROVE FALSE
      BY <1>1, <3>0
    <3>1. 1 \in 1 .. from /\ 1 + 1 \in 1 .. from /\ 1 \in 1 .. len - 1
      BY <1>1
    <3> QED
      BY <1>1, <2>2, <3>1
  <2>5. len = 2 => path[2] = "/"
    BY <1>1, <2>3
  <2> HIDE DEF len, from, slashes
  <2>6. all = {1}
    BY <1>3, <2>3, <2>4, <2>5
  <2>7. Cardinality(all) = 1
    BY <2>6, FS_Singleton
  <2>8. Len(node) = 2 /\ node[1] = "."
    BY <1>2, <2>3, <2>7
  <2> QED
    BY <2>1, <2>8 DEF ParentIsRight
<1>8. CASE path \notin {<<"/">>, <<"/", "/">>} /\ slashes # {}
  <2>1. PICK m \in slashes : m = Max(slashes) /\ \A i \in slashes : i <= m
    BY <1>5, <1>8, HasLargest
  <2>2. dir = IF m = 1 THEN <<"/">> ELSE SubSeq(path, 1, m - 1)
    BY <1>4, <1>8, <2>1
  <2>3. len >= 2
    <3> SUFFICES ASSUME len = 1 PROVE FALSE
      BY <1>1, AtLeastTwo
    <3>1. path[1] = "/"
      BY <1>8
    <3>2. path = <<"/">>
      BY <1>1, <3>1
    <3> QED
      BY <1>8, <3>2
  <2>4. /\ m \in 1 .. len - 1 /\ path[m] = "/"
        /\ \A i \in m + 1 .. len - 1 : path[i] # "/"
    <3>1. from = len - 1
      BY <2>3
    <3>2. m \in 1 .. len - 1 /\ path[m] = "/"
      BY <2>1, <3>1
    <3>3. ASSUME NEW i \in m + 1 .. len - 1, path[i] = "/"
          PROVE  FALSE
      <4>1. i \in slashes /\ ~ (i <= m)
        BY <1>1, <3>1, <3>2, <3>3
      <4> QED
        BY <2>1, <4>1
    <3> QED
      BY <3>2, <3>3
  <2> HIDE DEF len, from, slashes, dir
  <2>5. /\ dir \in Seq(Symbols) /\ dir # <<>> /\ (dir[1] = "/" <=> path[1] = "/")
        /\ NamesAt(dir) = all \cap (1 .. m - 1)
        /\ \A i \in NamesAt(dir) : dir[i] = path[i]
    <3>1. CASE m = 1
      <4>1. dir = <<"/">>
        BY <2>2, <3>1
      <4>2. dir \in Seq(Symbols) /\ Len(dir) = 1 /\ dir[1] = "/"
        BY <4>1 DEF Symbols
      <4>3. NamesAt(dir) = {}
        BY <4>2 DEF NamesAt
      <4>4. all \cap (1 .. m - 1) = {}
        BY <3>1
      <4>5. dir # <<>> /\ path[1] = "/"
        BY <2>4, <3>1, <4>1
      <4>6. NamesAt(dir) = all \cap (1 .. m - 1)
            /\ \A i \in NamesAt(dir) : dir[i] = path[i]
        BY <4>3, <4>4
      <4> QED
        BY <4>2, <4>5, <4>6
    <3>2. CASE m # 1
      <4>1. m - 1 \in 1 .. len /\ 1 \in 1 .. m - 1
        BY <1>1, <2>4, <3>2
      <4>2. dir = Upto(path, m - 1)
        BY <2>2, <3>2 DEF Upto
      <4>3. /\ dir \in Seq(Symbols) /\ Len(dir) = m - 1
            /\ \A i \in 1 .. m - 1 : dir[i] = path[i]
        BY <1>1, <4>1, <4>2, UptoType DEF len
      <4>4. NamesAt(dir) = all \cap (1 .. m - 1)
        BY <1>1, <1>3, <4>1, <4>3 DEF NamesAt
      <4>5. dir # <<>>
        BY <4>1, <4>3
      <4> QED
        BY <4>1, <4>3, <4>4, <4>5
    <3> QED
      BY <3>1, <3>2
  <2>6. dir \in Paths \ {<<>>}
    BY <2>5, PathsAssumption DEF dir
  <2>7. Node[dir] = SubSeq(node, 1, 1 + Cardinality(NamesAt(dir)))
    <3>1. \A i \in all \ NamesAt(dir) : \A j \in NamesAt(dir) : j < i
      BY <1>1, <1>3, <2>4, <2>5
    <3> QED
      BY <2>5, <2>6, <3>1, FewerNames
  <2>8. CASE EndsInTwo(path)
    <3>1. path[len] = "/" /\ path[len - 1] = "/"
      BY <2>8 DEF EndsInTwo, len
    <3>2. len - 1 = m
      BY <1>1, <2>3, <2>4, <3>1
    <3>3. all \cap (1 .. m - 1) = all
      BY <1>1, <1>3, <2>4, <3>1, <3>2
    <3>4. Node[dir] = SubSeq(node, 1, Len(node))
      BY <1>2, <2>5, <2>7, <3>3
    <3>5. Node[dir] = node
      BY <1>2, <3>4, SubSeqFull
    <3> QED
      BY <2>5, <2>8, <3>5 DEF ParentIsRight, dir
  <2>9. CASE ~ EndsInTwo(path)
    <3>1. \E k \in all : NamesAt(dir) = all \ {k}
      <4>1. CASE len = m + 1
        <5>1. path[len] # "/"
          BY <1>1, <2>3, <2>4, <2>9, <4>1 DEF EndsInTwo, len
        <5>2. len \in all /\ \A i \in all : i = len \/ i \in 1 .. m - 1
          BY <1>1, <1>3, <2>4, <4>1, <5>1
        <5>3. len \notin 1 .. m - 1
          BY <2>4, <4>1
        <5>4. all \cap (1 .. m - 1) = all \ {len}
          BY <5>2, <5>3
        <5> QED
          BY <2>5, <5>2, <5>4
      <4>2. CASE len # m + 1
        <5>1. m + 1 \in m + 1 .. len - 1 /\ path[m + 1] # "/"
          BY <1>1, <2>4, <4>2
        <5>2. m + 1 \in 1 .. len - 1 /\ m + 1 + 1 = m + 2
          BY <1>1, <2>4, <5>1
        <5>3. path[m + 2] = "/"
          BY <1>1, <5>1, <5>2
        <5>4. len = m + 2
          <6>1. m + 2 \notin m + 1 .. len - 1
            BY <2>4, <5>3
          <6> QED
            BY <1>1, <2>4, <5>1, <6>1
        <5>5. m + 1 \in all /\ \A i \in all : i = m + 1 \/ i \in 1 .. m - 1
          BY <1>1, <1>3, <2>4, <5>1, <5>3, <5>4
        <5>6. m + 1 \notin 1 .. m - 1
          BY <2>4
        <5>7. all \cap (1 .. m - 1) = all \ {m + 1}
          BY <5>5, <5>6
        <5> QED
          BY <2>5, <5>5, <5>7
      <4> QED
        BY <4>1, <4>2
    <3>2. PICK k \in all : NamesAt(dir) = all \ {k}
      BY <3>1
    <3>3. Cardinality(NamesAt(dir)) = Cardinality(all) - 1
      BY <1>2, <3>2, FS_RemoveElement
    <3> HIDE DEF node, all
    <3>4. 1 + Cardinality(NamesAt(dir)) = Len(node) - 1
      BY <1>2, <3>3
    <3>5. Node[dir] = Front(node)
      BY <2>7, <3>4 DEF Front
    <3> QED
      BY <2>5, <2>9, <3>5 DEF ParentIsRight, dir, node
  <2> QED
    BY <2>8, <2>9
<1> QED
  BY <1>6, <1>7, <1>8

\* Where slashes are not repeated, parentDir() finds the next directory up.
LEMMA ParentDirIsAbove ==
    ASSUME NEW path \in Paths \ {<<>>}, ~ Repeats(path)
    PROVE  /\ parentDir(path) = <<>> => Len(Node[path]) <= 2
           /\ parentDir(path) # <<>> =>
                /\ parentDir(path) \in Paths \ {<<>>}
                /\ ~ Repeats(parentDir(path))
                /\ Len(Node[path]) >= 2
                /\ Node[parentDir(path)] = Upto(Node[path], Len(Node[path]) - 1)
<1>1. ParentIsRight(path) /\ ~ EndsInTwo(path)
  BY ParentDirIsRight DEF PathsAreRight, Repeats
<1>2. Node[path] \in Seq(Symbols) /\ Len(Node[path]) \in Nat \ {0}
  BY NodeType
<1>3. parentDir(path) = <<>> => Len(Node[path]) <= 2
  <2> SUFFICES ASSUME parentDir(path) = <<>> PROVE Len(Node[path]) <= 2
    OBVIOUS
  <2>1. Len(Node[path]) = 1 \/ Len(Node[path]) = 2
    BY <1>1 DEF ParentIsRight
  <2>2. 1 <= 2 /\ 2 <= 2
    OBVIOUS
  <2> QED
    BY <2>1, <2>2, Zenon
<1>4. ASSUME parentDir(path) # <<>>
      PROVE  /\ parentDir(path) \in Paths \ {<<>>}
             /\ ~ Repeats(parentDir(path))
             /\ Len(Node[path]) >= 2
             /\ Node[parentDir(path)] = Upto(Node[path], Len(Node[path]) - 1)
  <2>1. parentDir(path) \in Paths \ {<<>>} /\ ~ Repeats(parentDir(path))
    BY <1>4, ParentDirIsShorter
  <2>2. Node[parentDir(path)] = Front(Node[path])
    BY <1>1, <1>4 DEF ParentIsRight
  <2>3. Front(Node[path]) = Upto(Node[path], Len(Node[path]) - 1)
    BY DEF Front, Upto
  <2>4. Len(Node[path]) >= 2
    <3> SUFFICES ASSUME Len(Node[path]) = 1 PROVE FALSE
      BY <1>2, AtLeastTwo
    <3>1. Len(Front(Node[path])) = 0
      BY <1>2 DEF Front
    <3>2. Len(Node[parentDir(path)]) \in Nat \ {0}
      BY <2>1, NodeType
    <3> QED
      BY <2>2, <3>1, <3>2
  <2> QED
    BY <2>1, <2>2, <2>3, <2>4
<1> QED
  BY <1>3, <1>4

\* What stat() makes of a file that is there, or of one that can be made.
LEMMA StatFacts ==
    ASSUME TypeOK, IsTree(files), NEW path \in Paths \ {<<>>}
    PROVE  /\ getPathType(path) = StatType(path)
           /\ files[Node[path]][1] = "directory" => StatType(path) = "directory"
           /\ StatType(path) = "directory" => files[Node[path]] \in {Dir, Locked}
           /\ \A mode \in Modes :
                files[Node[path]] = <<"namedPipe", mode>> /\ Last(path) # "/"
                  => StatType(path) = "namedPipe"
           /\ StatType(path) \notin {"invalid", "nonexistent"} =>
                /\ files[Node[path]] # None
                /\ Last(path) = "/" => files[Node[path]][1] = "directory"
           /\ \A m \in 1 .. Len(Node[path]) - 1 :
                ClearFrom(files, Node[path], m) => StatType(path) = "nonexistent"
<1> DEFINE node == Node[path]
           kind == files[node]
           blocked == \E a \in Above(node) : files[a][1] \in {"file", "namedPipe"}
<1>1. /\ files \in [Nodes -> Kinds] /\ node \in Nodes
      /\ node \in Seq(Symbols) /\ Len(node) \in Nat \ {0}
  BY NodeType DEF TypeOK
<1>2. kind \in Kinds
  BY <1>1
<1>3. StatType(path) = IF blocked THEN "invalid"
                       ELSE IF kind \in {None, Link} THEN "nonexistent"
                       ELSE IF Last(path) = "/" /\ kind[1] # "directory"
                       THEN "invalid" ELSE kind[1]
  BY DEF StatType
<1>4. \A a \in Above(node) : \E k \in 1 .. Len(node) - 1 : a = Upto(node, k)
  BY DEF Above, Upto
<1>5. ASSUME NEW k \in 1 .. Len(node), files[Upto(node, k)] # None
      PROVE  \A j \in 1 .. k - 1 : files[Upto(node, j)][1] = "directory"
  BY <1>1, <1>5, AboveAreDirectories
<1>6. ASSUME kind # None
      PROVE  ~ blocked
  <2>1. Upto(node, Len(node)) = node /\ Len(node) \in 1 .. Len(node)
    BY <1>1, UptoType
  <2>2. \A j \in 1 .. Len(node) - 1 : files[Upto(node, j)][1] = "directory"
    BY <1>5, <1>6, <2>1
  <2> HIDE DEF node
  <2> QED
    BY <1>4, <2>2
<1>7. ASSUME NEW m \in 1 .. Len(node) - 1, ClearFrom(files, node, m)
      PROVE  ~ blocked /\ kind = None
  <2>1. files[Upto(node, m)] = Dir
        /\ \A k \in m + 1 .. Len(node) : files[Upto(node, k)] = None
    BY <1>7 DEF ClearFrom
  <2>2. m \in 1 .. Len(node)
    BY <1>1
  <2>3. \A j \in 1 .. m - 1 : files[Upto(node, j)][1] = "directory"
    BY <1>5, <2>1, <2>2, KindFacts
  <2>4. ASSUME NEW j \in 1 .. Len(node) - 1
        PROVE  files[Upto(node, j)][1] \notin {"file", "namedPipe"}
    <3>1. CASE j < m
      <4>1. j \in 1 .. m - 1
        BY <3>1
      <4> QED
        BY <2>3, <4>1
    <3>2. CASE j = m
      BY <2>1, <3>2, KindFacts
    <3>3. CASE j > m
      <4>1. j \in m + 1 .. Len(node)
        BY <1>1, <3>3
      <4> QED
        BY <2>1, <4>1, KindFacts
    <3> QED
      BY <1>1, <3>1, <3>2, <3>3
  <2>5. Upto(node, Len(node)) = node /\ Len(node) \in m + 1 .. Len(node)
    BY <1>1, UptoType
  <2>6. kind = None
    BY <2>1, <2>5
  <2> HIDE DEF node, kind
  <2> QED
    BY <1>4, <2>4, <2>6
<1> HIDE DEF node, kind, blocked
<1>8. getPathType(path) = StatType(path)
  BY DEF getPathType
<1>9. kind[1] = "directory" => StatType(path) = "directory"
  BY <1>2, <1>3, <1>6, KindFacts
<1>10. StatType(path) = "directory" => kind \in {Dir, Locked}
  BY <1>2, <1>3, KindFacts
<1>11. \A mode \in Modes : kind = <<"namedPipe", mode>> /\ Last(path) # "/"
                             => StatType(path) = "namedPipe"
  BY <1>3, <1>6, KindFacts
<1>12. StatType(path) \notin {"invalid", "nonexistent"} =>
         kind # None /\ (Last(path) = "/" => kind[1] = "directory")
  BY <1>3
<1>13. \A m \in 1 .. Len(node) - 1 :
         ClearFrom(files, node, m) => StatType(path) = "nonexistent"
  BY <1>3, <1>7
<1> QED
  BY <1>8, <1>9, <1>10, <1>11, <1>12, <1>13 DEF node, kind

-----------------------------------------------------------------------------
(***************************************************************************)
(* The directories that a call goes through.                               *)
(***************************************************************************)
\* The path of a call.
LEMMA CallType ==
    ASSUME NEW c \in Calls
    PROVE  /\ c.op \in {"createDir", "createPipe"} /\ c.mode \in Modes
           /\ c.path \in Paths \ {<<>>}
           /\ Node[c.path] \in Nodes /\ Node[c.path] \in Seq(Symbols)
           /\ Len(Node[c.path]) \in Nat \ {0}
           /\ LastAt(c) \in Nat /\ LastAt(c) <= Len(Node[c.path])
<1>1. /\ c.op \in {"createDir", "createPipe"} /\ c.mode \in Modes
      /\ c.path \in Paths \ {<<>>}
  BY FilesAssumption
<1>2. /\ Node[c.path] \in Nodes /\ Node[c.path] \in Seq(Symbols)
      /\ Len(Node[c.path]) \in Nat \ {0}
  BY <1>1, NodeType
<1>3. \A n \in Nat \ {0} : n \in Nat /\ n <= n /\ n - 1 \in Nat /\ n - 1 <= n
  OBVIOUS
<1> QED
  BY <1>1, <1>2, <1>3, Zenon DEF LastAt

\* When a directory is there, the call goes on to the next one.
LEMMA TailPlaced ==
    ASSUME NEW c \in Calls, NEW dirs \in Seq(Paths \ {<<>>}), dirs # <<>>
    PROVE  /\ Tail(dirs) \in Seq(Paths \ {<<>>})
           /\ HeadAt(c, Tail(dirs)) = HeadAt(c, dirs) + 1
           /\ Placed(c, dirs) => Placed(c, Tail(dirs))
           /\ IsChain(c, dirs) => IsChain(c, Tail(dirs))
<1> DEFINE rest == Tail(dirs)
<1>1. /\ rest \in Seq(Paths \ {<<>>}) /\ Len(rest) = Len(dirs) - 1
      /\ \A i \in 1 .. Len(rest) : rest[i] = dirs[i + 1]
      /\ Len(dirs) \in Nat \ {0}
  OBVIOUS
<1>2. LastAt(c) \in Nat
  BY CallType
<1> HIDE DEF rest
<1>3. HeadAt(c, rest) = HeadAt(c, dirs) + 1
  BY <1>1, <1>2 DEF HeadAt
<1>4. ASSUME Placed(c, dirs)
      PROVE  Placed(c, rest)
  <2>1. HeadAt(c, dirs) \in Nat /\ HeadAt(c, rest) >= 1
    BY <1>1, <1>2, <1>3, <1>4 DEF Placed, HeadAt
  <2>2. ASSUME NEW j \in 1 .. Len(rest)
        PROVE  /\ ~ Repeats(rest[j])
               /\ Node[rest[j]] = Upto(Node[c.path], HeadAt(c, rest) + j - 1)
    <3>1. j + 1 \in 1 .. Len(dirs) /\ rest[j] = dirs[j + 1]
      BY <1>1
    <3>2. HeadAt(c, dirs) + (j + 1) - 1 = HeadAt(c, rest) + j - 1
      BY <1>3, <2>1
    <3> QED
      BY <1>4, <3>1, <3>2 DEF Placed
  <2> QED
    BY <1>4, <2>1, <2>2 DEF Placed
<1>5. ASSUME IsChain(c, dirs)
      PROVE  IsChain(c, rest)
  <2>1. ASSUME NEW i \in 1 .. Len(rest) - 1
        PROVE  rest[i] = parentDir(rest[i + 1])
    <3>1. i \in 1 .. Len(rest) /\ i + 1 \in 1 .. Len(rest)
          /\ i + 1 \in 1 .. Len(dirs) - 1
      BY <1>1
    <3>2. rest[i] = dirs[i + 1] /\ rest[i + 1] = dirs[i + 1 + 1]
      BY <1>1, <3>1
    <3> QED
      BY <1>5, <3>1, <3>2 DEF IsChain
  <2>2. ASSUME rest # <<>>
        PROVE  rest[Len(rest)] = dirs[Len(dirs)]
    <3>1. Len(rest) \in 1 .. Len(rest) /\ Len(rest) + 1 = Len(dirs)
      BY <1>1, <2>2
    <3> QED
      BY <1>1, <3>1
  <2> QED
    BY <1>5, <2>1, <2>2 DEF IsChain
<1> QED
  BY <1>1, <1>3, <1>4, <1>5 DEF rest

\* The first directory of a call is on its path.
LEMMA HeadPlaced ==
    ASSUME NEW c \in Calls, NEW dirs \in Seq(Paths \ {<<>>}), dirs # <<>>,
           Placed(c, dirs)
    PROVE  /\ Head(dirs) = dirs[1] /\ Head(dirs) \in Paths \ {<<>>}
           /\ HeadAt(c, dirs) \in 1 .. LastAt(c)
           /\ HeadAt(c, dirs) \in 1 .. Len(Node[c.path])
           /\ ~ Repeats(dirs[1])
           /\ Node[dirs[1]] = Upto(Node[c.path], HeadAt(c, dirs))
           /\ Len(Node[dirs[1]]) = HeadAt(c, dirs)
<1>1. /\ Head(dirs) = dirs[1] /\ Head(dirs) \in Paths \ {<<>>}
      /\ Len(dirs) \in Nat /\ 1 \in 1 .. Len(dirs)
  OBVIOUS
<1>2. /\ LastAt(c) \in Nat /\ LastAt(c) <= Len(Node[c.path])
      /\ Len(Node[c.path]) \in Nat /\ Node[c.path] \in Seq(Symbols)
  BY CallType
<1>3. HeadAt(c, dirs) \in 1 .. LastAt(c)
      /\ HeadAt(c, dirs) + 1 - 1 = HeadAt(c, dirs)
  BY <1>1, <1>2 DEF Placed, HeadAt
<1>4. HeadAt(c, dirs) \in 1 .. Len(Node[c.path])
  BY <1>2, <1>3
<1>5. /\ ~ Repeats(dirs[1])
      /\ Node[dirs[1]] = Upto(Node[c.path], HeadAt(c, dirs) + 1 - 1)
  BY <1>1 DEF Placed
<1>6. Len(Upto(Node[c.path], HeadAt(c, dirs))) = HeadAt(c, dirs)
  BY <1>2, <1>4, UptoType
<1> QED
  BY <1>1, <1>3, <1>4, <1>5, <1>6

\* The call goes up to the directory that is missing.
LEMMA PushPlaced ==
    ASSUME NEW c \in Calls, NEW dirs \in Seq(Paths \ {<<>>}),
           dirs # <<>>, parentDir(dirs[1]) # <<>>,
           NEW longer, longer = <<parentDir(dirs[1])>> \o dirs
    PROVE  /\ longer \in Seq(Paths \ {<<>>}) /\ longer # <<>>
           /\ HeadAt(c, longer) = HeadAt(c, dirs) - 1
           /\ Placed(c, dirs) => Placed(c, longer)
           /\ IsChain(c, dirs) => IsChain(c, longer)
<1> DEFINE dir == parentDir(dirs[1])
           one == <<dir>>
<1>1. Len(dirs) \in Nat \ {0} /\ dirs[1] \in Paths \ {<<>>}
  OBVIOUS
<1>2. dir \in Paths \ {<<>>}
  BY <1>1, ParentDirIsShorter
<1>3. one \in Seq(Paths \ {<<>>}) /\ Len(one) = 1 /\ one[1] = dir
  <2> HIDE DEF dir
  <2> QED
    BY <1>2
<1> HIDE DEF one
<1>4. /\ longer \in Seq(Paths \ {<<>>}) /\ Len(longer) = Len(dirs) + 1
      /\ longer[1] = dir /\ \A i \in 1 .. Len(dirs) : longer[i + 1] = dirs[i]
  <2>1. longer = one \o dirs
    BY DEF one
  <2>2. /\ longer \in Seq(Paths \ {<<>>})
        /\ Len(longer) = Len(one) + Len(dirs)
        /\ \A i \in 1 .. Len(longer) :
             longer[i] = IF i <= Len(one) THEN one[i] ELSE dirs[i - Len(one)]
    BY <1>3, <2>1, ConcatProperties
  <2>3. Len(longer) = Len(dirs) + 1
    BY <1>1, <1>3, <2>2
  <2>4. longer[1] = dir
    BY <1>1, <1>3, <2>2
  <2>5. ASSUME NEW i \in 1 .. Len(dirs)
        PROVE  longer[i + 1] = dirs[i]
    <3>1. i + 1 \in 1 .. Len(longer) /\ ~ (i + 1 <= 1) /\ i + 1 - 1 = i
      BY <1>1, <2>3
    <3> QED
      BY <1>3, <2>2, <3>1
  <2> QED
    BY <2>2, <2>3, <2>4, <2>5
<1>5. LastAt(c) \in Nat
  BY CallType
<1> HIDE DEF dir
<1>6. HeadAt(c, longer) = HeadAt(c, dirs) - 1
  BY <1>1, <1>4, <1>5 DEF HeadAt
<1>7. longer # <<>>
  BY <1>1, <1>4
<1>8. ASSUME Placed(c, dirs)
      PROVE  Placed(c, longer)
  <2> DEFINE h == HeadAt(c, dirs)
             node == Node[c.path]
  <2>1. /\ h \in 1 .. Len(node) /\ ~ Repeats(dirs[1])
        /\ Node[dirs[1]] = Upto(node, h) /\ Len(Node[dirs[1]]) = h
    BY <1>8, HeadPlaced
  <2>2. ~ Repeats(dir) /\ h >= 2 /\ Node[dir] = Upto(Upto(node, h), h - 1)
    BY <1>1, <2>1, ParentDirIsAbove DEF dir
  <2>3. node \in Seq(Symbols) /\ Len(node) \in Nat
    BY CallType
  <2> HIDE DEF h
  <2>4. h - 1 \in 1 .. h
    BY <2>1, <2>2, <2>3
  <2>5. Node[dir] = Upto(node, h - 1)
    BY <2>1, <2>2, <2>3, <2>4, UptoType
  <2>6. HeadAt(c, longer) = h - 1 /\ HeadAt(c, longer) >= 1
    BY <1>6, <2>1, <2>2 DEF h
  <2>7. ASSUME NEW j \in 1 .. Len(longer)
        PROVE  /\ ~ Repeats(longer[j])
               /\ Node[longer[j]] = Upto(node, HeadAt(c, longer) + j - 1)
    <3>1. CASE j = 1
      <4>1. HeadAt(c, longer) + j - 1 = h - 1
        BY <2>1, <2>6, <3>1
      <4> QED
        BY <1>4, <2>2, <2>5, <3>1, <4>1
    <3>2. CASE j # 1
      <4>1. j - 1 \in 1 .. Len(dirs) /\ j - 1 + 1 = j
        BY <1>1, <1>4, <3>2
      <4>2. longer[j] = dirs[j - 1]
        BY <1>4, <4>1
      <4>3. HeadAt(c, longer) + j - 1 = h + (j - 1) - 1
        BY <2>1, <2>6, <4>1
      <4>4. /\ ~ Repeats(dirs[j - 1])
            /\ Node[dirs[j - 1]] = Upto(node, h + (j - 1) - 1)
        BY <1>8, <4>1 DEF Placed, h
      <4> QED
        BY <4>2, <4>3, <4>4
    <3> QED
      BY <3>1, <3>2
  <2> QED
    BY <1>8, <2>6, <2>7 DEF Placed
<1>9. ASSUME IsChain(c, dirs)
      PROVE  IsChain(c, longer)
  <2>1. ASSUME NEW i \in 1 .. Len(longer) - 1
        PROVE  longer[i] = parentDir(longer[i + 1])
    <3>0. i \in 1 .. Len(dirs)
      BY <1>1, <1>4
    <3>1. longer[i + 1] = dirs[i]
      BY <1>4, <3>0
    <3>2. CASE i = 1
      BY <1>4, <3>1, <3>2 DEF dir
    <3>3. CASE i # 1
      <4>1. i - 1 \in 1 .. Len(dirs) - 1 /\ i - 1 \in 1 .. Len(dirs)
            /\ i - 1 + 1 = i
        BY <1>1, <3>0, <3>3
      <4>2. longer[i] = dirs[i - 1]
        BY <1>4, <4>1
      <4>3. dirs[i - 1] = parentDir(dirs[i])
        BY <1>9, <4>1 DEF IsChain
      <4> QED
        BY <3>1, <4>2, <4>3
    <3> QED
      BY <3>2, <3>3
  <2>2. longer[Len(longer)] = dirs[Len(dirs)]
    <3>1. Len(dirs) \in 1 .. Len(dirs)
      BY <1>1
    <3> QED
      BY <1>4, <3>1
  <2> QED
    BY <1>1, <1>9, <2>1, <2>2 DEF IsChain
<1> QED
  BY <1>4, <1>6, <1>7, <1>8, <1>9

\* createDir() is called for the path, or for the directory of a pipe.
LEMMA FirstPlaced ==
    ASSUME NEW c \in Calls,
           NEW path, path = IF c.op = "createDir" THEN c.path
                            ELSE parentDir(c.path),
           path # <<>>
    PROVE  /\ <<path>> \in Seq(Paths \ {<<>>}) /\ <<path>> # <<>>
           /\ HeadAt(c, <<path>>) = LastAt(c)
           /\ IsChain(c, <<path>>)
           /\ Placed(c, <<>>) => Placed(c, <<path>>)
<1> DEFINE one == <<path>>
           node == Node[c.path]
<1>1. /\ c.path \in Paths \ {<<>>} /\ c.op \in {"createDir", "createPipe"}
      /\ LastAt(c) \in Nat /\ Len(node) \in Nat \ {0} /\ node \in Seq(Symbols)
  BY CallType
<1>2. path \in Paths \ {<<>>}
  BY <1>1, ParentDirIsShorter
<1>3. /\ one \in Seq(Paths \ {<<>>}) /\ Len(one) = 1 /\ one[1] = path
      /\ one # <<>>
  BY <1>2
<1> HIDE DEF one
<1>4. HeadAt(c, one) = LastAt(c)
  BY <1>1, <1>3 DEF HeadAt
<1>5. IsChain(c, one)
  BY <1>1, <1>3 DEF IsChain
<1>6. ASSUME Placed(c, <<>>)
      PROVE  Placed(c, one)
  <2>1. ~ Repeats(c.path) /\ (c.op = "createPipe" => Last(c.path) # "/")
    BY <1>6 DEF Placed
  <2>2. ~ Repeats(path) /\ LastAt(c) >= 1 /\ Node[path] = Upto(node, LastAt(c))
    <3>1. CASE c.op = "createDir"
      BY <1>1, <2>1, <3>1, UptoType DEF LastAt
    <3>2. CASE c.op = "createPipe"
      <4>1. ~ Repeats(path) /\ Len(node) >= 2
            /\ Node[path] = Upto(node, Len(node) - 1)
        BY <1>1, <2>1, <3>2, ParentDirIsAbove
      <4> HIDE DEF node
      <4>2. Len(node) - 1 >= 1
        BY <1>1, <4>1
      <4> QED
        BY <3>2, <4>1, <4>2 DEF LastAt, node
    <3> QED
      BY <1>1, <3>1, <3>2
  <2>3. ASSUME NEW j \in 1 .. Len(one)
        PROVE  /\ ~ Repeats(one[j])
               /\ Node[one[j]] = Upto(node, HeadAt(c, one) + j - 1)
    <3>1. j = 1 /\ HeadAt(c, one) + j - 1 = LastAt(c)
      BY <1>1, <1>3, <1>4
    <3> QED
      BY <1>3, <2>2, <3>1
  <2> QED
    BY <1>4, <2>1, <2>2, <2>3 DEF Placed
<1> QED
  BY <1>3, <1>4, <1>5, <1>6 DEF one

-----------------------------------------------------------------------------
(***************************************************************************)
(* Nothing in the way.                                                     *)
(***************************************************************************)
\* Where a call can make its file, the lowest directory there is takes new
\* files, and nothing is under it.
LEMMA MakableIsClear ==
    ASSUME TypeOK, IsTree(files), NEW c \in Calls, Makable(c)
    PROVE  \E m \in 1 .. Len(Node[c.path]) - 1 :
               ClearFrom(files, Node[c.path], m)
<1> DEFINE node == Node[c.path]
           There1 == {k \in 1 .. Len(node) - 1 : files[Upto(node, k)] # None}
<1>1. /\ files \in [Nodes -> Kinds] /\ node \in Nodes
      /\ node \in Seq(Symbols) /\ Len(node) \in Nat \ {0}
  BY CallType DEF TypeOK
<1>2. \A k \in 1 .. Len(node) : Upto(node, k) \in Nodes
                                /\ Len(Upto(node, k)) = k
  BY <1>1, NodesType, UptoType
<1>3. files[node] = None
  BY DEF Makable
<1>4. Len(node) >= 2
  <2> SUFFICES ASSUME Len(node) = 1 PROVE FALSE
    BY <1>1, AtLeastTwo
  <2> QED
    BY <1>1, <1>3, KindFacts DEF IsTree
<1>5. 1 \in There1
  <2> HIDE DEF node
  <2>1. 1 \in 1 .. Len(node) - 1 /\ 1 \in 1 .. Len(node)
    BY <1>1, <1>4
  <2>2. files[Upto(node, 1)] = Dir
    BY <1>2, <2>1 DEF IsTree
  <2> QED
    BY <2>1, <2>2, KindFacts
<1>6. Len(node) - 1 \in Nat /\ There1 \in SUBSET (1 .. Len(node) - 1)
  <2> HIDE DEF node
  <2> QED
    BY <1>1
<1>7. PICK m \in There1 : \A k \in There1 : k <= m
  BY <1>5, <1>6, HasLargest
<1>8. m \in 1 .. Len(node) - 1 /\ files[Upto(node, m)] # None
  BY <1>7
<1>9. \A k \in 1 .. Len(node) - 1 : files[Upto(node, k)] # None => k <= m
  BY <1>7
<1> HIDE DEF There1
<1>10. ASSUME NEW k \in m + 1 .. Len(node)
       PROVE  files[Upto(node, k)] = None
  <2>1. CASE k = Len(node)
    BY <1>1, <1>3, <2>1, UptoType
  <2>2. CASE k # Len(node)
    <3> HIDE DEF node
    <3>1. k \in 1 .. Len(node) - 1 /\ ~ (k <= m)
      BY <1>1, <1>8, <2>2
    <3> QED
      BY <1>9, <3>1
  <2> QED
    BY <2>1, <2>2
<1>11. files[Upto(node, m)] = Dir
  <2> DEFINE a == Upto(node, m)
  <2>1. a \in Above(node)
    BY <1>8 DEF Above, Upto
  <2>2. \/ files[a] \in {None, Dir}
        \/ files[a] = Locked /\ \E b \in Above(node) :
                                  Len(b) > Len(a) /\ files[b] # None
    BY <2>1 DEF Makable
  <2> SUFFICES ASSUME NEW b \in Above(node), Len(b) > Len(a), files[b] # None
               PROVE  FALSE
    BY <1>8, <2>2
  <2>3. PICK k \in 1 .. Len(node) - 1 : b = Upto(node, k)
    BY DEF Above, Upto
  <2> HIDE DEF node
  <2>4. Len(b) = k /\ Len(a) = m
    BY <1>1, <1>2, <1>8, <2>3
  <2>5. k <= m
    BY <1>9, <2>3
  <2> QED
    BY <1>8, <2>4, <2>5
<1> QED
  BY <1>8, <1>10, <1>11 DEF ClearFrom

\* Nothing is under a directory that has just been made.
LEMMA MadeIsClear ==
    ASSUME NEW f \in [Nodes -> Kinds], IsTree(f), NEW node \in Nodes,
           NEW k \in 1 .. Len(node), f[Upto(node, k)] = None,
           NEW g, g = [f EXCEPT ![Upto(node, k)] = Dir]
    PROVE  ClearFrom(g, node, k)
<1>1. /\ node \in Seq(Symbols) /\ Len(node) \in Nat
      /\ \A i \in 1 .. Len(node) : Upto(node, i) \in Nodes
                                   /\ Len(Upto(node, i)) = i
  BY NodesType, UptoType
<1>2. g[Upto(node, k)] = Dir
  BY <1>1
<1>3. ASSUME NEW i \in k + 1 .. Len(node)
      PROVE  g[Upto(node, i)] = None
  <2>1. i \in 1 .. Len(node) /\ k \in 1 .. i - 1 /\ i # k
    BY <1>1
  <2>2. f[Upto(node, i)] = None
    <3> SUFFICES ASSUME f[Upto(node, i)] # None PROVE FALSE
      OBVIOUS
    <3>1. f[Upto(node, k)][1] = "directory"
      BY <2>1, AboveAreDirectories
    <3> QED
      BY <3>1, KindFacts
  <2>3. Upto(node, i) # Upto(node, k)
    BY <1>1, <2>1
  <2> QED
    BY <1>1, <2>1, <2>2, <2>3
<1> QED
  BY <1>2, <1>3 DEF ClearFrom

\* A file that is not on the path makes no difference to it.
LEMMA ElsewhereIsClear ==
    ASSUME NEW f \in [Nodes -> Kinds], NEW n \in Nodes, NEW node \in Nodes,
           ~ IsPrefix(n, node), NEW v, NEW g, g = [f EXCEPT ![n] = v],
           NEW m \in 1 .. Len(node), ClearFrom(f, node, m)
    PROVE  ClearFrom(g, node, m)
<1>1. /\ node \in Seq(Symbols) /\ Len(node) \in Nat
      /\ \A i \in 1 .. Len(node) : Upto(node, i) \in Nodes
  BY NodesType
<1>2. ASSUME NEW i \in 1 .. Len(node)
      PROVE  g[Upto(node, i)] = f[Upto(node, i)]
  <2> SUFFICES ASSUME Upto(node, i) = n PROVE FALSE
    BY <1>1
  <2>1. /\ Len(n) = i /\ i <= Len(node) /\ Upto(n, i) = Upto(node, i)
        /\ i \in 1 .. i
    BY <1>1, UptoType
  <2> QED
    BY <2>1 DEF IsPrefix, Upto
<1>3. m \in 1 .. Len(node) /\ \A i \in m + 1 .. Len(node) : i \in 1 .. Len(node)
  BY <1>1
<1> QED
  BY <1>2, <1>3 DEF ClearFrom

\* What one process makes leaves the others as they are, except that those
\* with the file on their path may have lost a race.
LEMMA OthersFit ==
    ASSUME TypeOK, IsTree(files), NEW n \in Nodes, files[n] = None,
           NEW v \in Kinds, files' = [files EXCEPT ![n] = v],
           NEW q \in Processes, raced[q] => raced'[q],
           pc[q] # "idle" /\ IsPrefix(n, Node[call[q].path]) => raced'[q],
           Fits(files, call[q], pc[q], pending[q], result[q], could[q],
                raced[q])
    PROVE  Fits(files', call[q], pc[q], pending[q], result[q], could[q],
                raced'[q])
<1> DEFINE node == Node[call[q].path]
<1>1. /\ call[q] \in Calls /\ files \in [Nodes -> Kinds]
      /\ node \in Nodes /\ Len(node) \in Nat
  BY CallType DEF TypeOK
<1>2. IsThere(files, call[q]) => IsThere(files', call[q])
  <2> SUFFICES ASSUME files[node] \in Wanted(call[q])
               PROVE  files'[node] = files[node]
    BY DEF IsThere
  <2>1. files[node] # None
    BY KindFacts, CallType DEF Wanted, None, Dir, Locked
  <2> QED
    BY <1>1, <2>1
<1>3. pc[q] = "stat" =>
        /\ files'[node] # None
        /\ Last(call[q].path) = "/" => files'[node][1] = "directory"
  <2> SUFFICES ASSUME pc[q] = "stat" PROVE files'[node] = files[node]
    BY DEF Fits
  <2>1. files[node] # None
    BY DEF Fits
  <2> QED
    BY <1>1, <2>1
<1>4. ASSUME pc[q] # "idle", ~ raced'[q],
             OnTheWay(files, call[q], pc[q], pending[q])
      PROVE  OnTheWay(files', call[q], pc[q], pending[q])
  <2>1. ~ IsPrefix(n, node)
    BY <1>4
  <2>2. \A m \in 1 .. Len(node) - 1 :
          ClearFrom(files, node, m) => ClearFrom(files', node, m)
    <3> SUFFICES ASSUME NEW m \in 1 .. Len(node) - 1, ClearFrom(files, node, m)
                 PROVE  ClearFrom(files', node, m)
      OBVIOUS
    <3> HIDE DEF node
    <3>1. m \in 1 .. Len(node)
      BY <1>1
    <3> QED
      BY <1>1, <2>1, <3>1, ElsewhereIsClear
  <2> QED
    BY <1>4, <2>2 DEF OnTheWay
<1>5. IsFound(files, call[q], pc[q], pending[q])
        => IsFound(files', call[q], pc[q], pending[q])
  BY <1>2 DEF IsFound
<1>6. raced[q] => raced'[q]
  OBVIOUS
<1>7. could[q] /\ pc[q] # "idle" =>
        \/ IsFound(files', call[q], pc[q], pending[q])
        \/ /\ Placed(call[q], pending[q])
           /\ ~ raced'[q] => OnTheWay(files', call[q], pc[q], pending[q])
  <2> SUFFICES ASSUME could[q], pc[q] # "idle"
               PROVE  \/ IsFound(files', call[q], pc[q], pending[q])
                      \/ /\ Placed(call[q], pending[q])
                         /\ ~ raced'[q] =>
                              OnTheWay(files', call[q], pc[q], pending[q])
    OBVIOUS
  <2>1. \/ IsFound(files, call[q], pc[q], pending[q])
        \/ /\ Placed(call[q], pending[q])
           /\ ~ raced[q] => OnTheWay(files, call[q], pc[q], pending[q])
    BY DEF Fits
  <2> QED
    BY <1>4, <1>5, <1>6, <2>1
<1> HIDE DEF node
<1>8. /\ result[q] = "true" => IsThere(files', call[q])
      /\ result[q] = "false" => ~ could[q] \/ raced'[q]
  BY <1>2, <1>6 DEF Fits
<1> QED
  BY <1>3, <1>7, <1>8 DEF Fits, node

-----------------------------------------------------------------------------
(***************************************************************************)
(* The steps of a call.                                                    *)
(***************************************************************************)
\* Where a createDir() returns true to.
GoesOn(c, dirs, place, rest, value) ==
    IF Len(dirs) > 1
    THEN place = "mkdir" /\ rest = Tail(dirs) /\ value = "none"
    ELSE /\ rest = <<>>
         /\ IF c.op = "createPipe" THEN place = "mkfifo" /\ value = "none"
            ELSE place = "idle" /\ value = "true"

\* Nothing is under the directory that the call has come to.
ClearBelow(f, c, dirs) ==
    HeadAt(c, dirs) < Len(Node[c.path]) =>
        ClearFrom(f, Node[c.path], HeadAt(c, dirs))

\* The call goes on to make what is below a directory that is there.
LEMMA LeavingFits ==
    ASSUME NEW f \in [Nodes -> Kinds], NEW c \in Calls,
           NEW dirs \in Seq(Paths \ {<<>>}), dirs # <<>>, IsChain(c, dirs),
           f[Node[dirs[1]]] \in {Dir, Locked},
           NEW able, NEW lost,
           able => \/ c.op = "createDir" /\ Len(dirs) = 1
                   \/ Placed(c, dirs) /\ (~ lost => ClearBelow(f, c, dirs)),
           NEW place, NEW rest, NEW value, GoesOn(c, dirs, place, rest, value)
    PROVE  /\ place \in {"mkdir", "mkfifo", "idle"} /\ value \in {"none", "true"}
           /\ rest \in Seq(Paths \ {<<>>})
           /\ Fits(f, c, place, rest, value, able, lost)
           /\ Placed(c, dirs) /\ ClearBelow(f, c, dirs) =>
                Wins(f, c, place, rest, value, able, lost)
<1>1. /\ c.op \in {"createDir", "createPipe"} /\ LastAt(c) \in Nat
      /\ Node[c.path] \in Seq(Symbols) /\ Len(Node[c.path]) \in Nat
  BY CallType
<1>2. /\ Len(dirs) \in Nat \ {0} /\ (Len(dirs) > 1 \/ Len(dirs) = 1)
      /\ <<>> \in Seq(Paths \ {<<>>}) /\ Len(<<>>) = 0
  <2>1. Len(dirs) \in Nat \ {0} /\ \A n \in Nat \ {0} : n > 1 \/ n = 1
    OBVIOUS
  <2>2. <<>> \in Seq(Paths \ {<<>>}) /\ Len(<<>>) = 0
    OBVIOUS
  <2> QED
    BY <2>1, <2>2
<1>3. CASE Len(dirs) > 1
  <2>1. place = "mkdir" /\ rest = Tail(dirs) /\ value = "none"
    BY <1>3 DEF GoesOn
  <2>2. rest \in Seq(Paths \ {<<>>}) /\ rest # <<>>
    <3>1. Tail(dirs) \in Seq(Paths \ {<<>>}) /\ Len(Tail(dirs)) = Len(dirs) - 1
      OBVIOUS
    <3>2. Len(Tail(dirs)) # 0
      BY <1>2, <1>3, <3>1
    <3> QED
      BY <1>2, <2>1, <3>1, <3>2
  <2>3. /\ HeadAt(c, rest) = HeadAt(c, dirs) + 1
        /\ IsChain(c, rest) /\ (Placed(c, dirs) => Placed(c, rest))
    BY <2>1, TailPlaced
  <2>4. ASSUME Placed(c, dirs), ClearBelow(f, c, dirs)
        PROVE  OnTheWay(f, c, place, rest)
    <3>1. HeadAt(c, rest) \in 1 .. Len(Node[c.path])
          /\ HeadAt(c, dirs) \in 1 .. Len(Node[c.path])
      BY <2>2, <2>3, <2>4, HeadPlaced
    <3>2. HeadAt(c, dirs) \in 1 .. Len(Node[c.path]) - 1
          /\ HeadAt(c, dirs) < Len(Node[c.path])
      BY <1>1, <2>3, <3>1
    <3>3. ClearFrom(f, Node[c.path], HeadAt(c, dirs))
      BY <2>4, <3>2 DEF ClearBelow
    <3> QED
      BY <2>1, <2>3, <3>2, <3>3 DEF OnTheWay
  <2>5. Fits(f, c, place, rest, value, able, lost)
    <3>1. able => Placed(c, rest) /\ (~ lost => OnTheWay(f, c, place, rest))
      <4>1. Len(dirs) # 1
        <5>1. \A n : n > 1 => n # 1
          BY SMT
        <5> QED
          BY <1>3, <5>1, Zenon
      <4> QED
        BY <2>3, <2>4, <4>1, Zenon
    <3> QED
      BY <2>1, <2>2, <2>3, <3>1 DEF Fits
  <2>6. Placed(c, dirs) /\ ClearBelow(f, c, dirs) =>
          Wins(f, c, place, rest, value, able, lost)
    BY <2>1, <2>3, <2>4 DEF Wins
  <2> QED
    BY <2>1, <2>2, <2>5, <2>6
<1>4. CASE ~ (Len(dirs) > 1) /\ c.op = "createPipe"
  <2>1. place = "mkfifo" /\ rest = <<>> /\ value = "none"
    BY <1>4 DEF GoesOn
  <2>2. rest \in Seq(Paths \ {<<>>}) /\ Len(rest) = 0
    BY <1>2, <2>1
  <2>3. Len(dirs) = 1
    BY <1>2, <1>4, Zenon
  <2>4. Tail(dirs) = rest
    <3>1. Tail(dirs) \in Seq(Paths \ {<<>>}) /\ Len(Tail(dirs)) = Len(dirs) - 1
      OBVIOUS
    <3>2. Len(Tail(dirs)) = 0
      BY <2>3, <3>1
    <3> QED
      BY <2>1, <3>1, <3>2, EmptySeq
  <2>5. /\ HeadAt(c, rest) = HeadAt(c, dirs) + 1
        /\ IsChain(c, rest) /\ (Placed(c, dirs) => Placed(c, rest))
    BY <2>4, TailPlaced
  <2>6. ASSUME Placed(c, dirs), ClearBelow(f, c, dirs)
        PROVE  OnTheWay(f, c, place, rest)
    <3>1. HeadAt(c, dirs) \in 1 .. Len(Node[c.path])
      BY <2>6, HeadPlaced
    <3>2. HeadAt(c, dirs) = Len(Node[c.path]) - 1
      BY <1>1, <1>4, <2>3 DEF HeadAt, LastAt
    <3>3. /\ HeadAt(c, dirs) \in 1 .. Len(Node[c.path]) - 1
          /\ HeadAt(c, dirs) < Len(Node[c.path])
          /\ HeadAt(c, dirs) + 1 = Len(Node[c.path])
      BY <1>1, <3>1, <3>2
    <3>4. ClearFrom(f, Node[c.path], HeadAt(c, dirs))
      BY <2>6, <3>3 DEF ClearBelow
    <3> QED
      BY <2>1, <3>3, <3>4 DEF OnTheWay
  <2>7. Fits(f, c, place, rest, value, able, lost)
    <3>1. able => Placed(c, rest) /\ (~ lost => OnTheWay(f, c, place, rest))
      BY <1>4, <2>5, <2>6
    <3> QED
      BY <1>4, <2>1, <2>5, <3>1 DEF Fits
  <2>8. Placed(c, dirs) /\ ClearBelow(f, c, dirs) =>
          Wins(f, c, place, rest, value, able, lost)
    BY <2>1, <2>5, <2>6 DEF Wins
  <2> QED
    BY <2>1, <2>2, <2>7, <2>8
<1>5. CASE ~ (Len(dirs) > 1) /\ c.op = "createDir"
  <2>1. place = "idle" /\ rest = <<>> /\ value = "true"
    BY <1>5 DEF GoesOn
  <2>2. Len(dirs) = 1
    BY <1>2, <1>5, Zenon
  <2>3. dirs[1] = c.path
    BY <1>5, <2>2 DEF IsChain
  <2>4. IsThere(f, c)
    BY <1>5, <2>3 DEF IsThere, Wanted
  <2>5. rest \in Seq(Paths \ {<<>>}) /\ Len(rest) = 0
    BY <1>2, <2>1
  <2>6. IsChain(c, rest)
    BY <2>1, <2>5 DEF IsChain
  <2>7. Fits(f, c, place, rest, value, able, lost)
    BY <2>1, <2>4, <2>6 DEF Fits
  <2> QED
    BY <2>1, <2>5, <2>7 DEF Wins
<1> QED
  BY <1>1, <1>3, <1>4, <1>5

\* LeaveCreateDir() does.
LEMMA LeavingGoesOn ==
    ASSUME TypeOK, NEW p \in Processes, pending[p] # <<>>, result[p] = "none",
           LeaveCreateDir(p)
    PROVE  \E place, rest, value :
               /\ GoesOn(call[p], pending[p], place, rest, value)
               /\ pc' = [pc EXCEPT ![p] = place]
               /\ pending' = [pending EXCEPT ![p] = rest]
               /\ result' = [result EXCEPT ![p] = value]
<1>1. result = [result EXCEPT ![p] = "none"]
  BY DEF TypeOK
<1>2. CASE Len(pending[p]) > 1
  BY <1>1, <1>2 DEF LeaveCreateDir, GoTo, GoesOn
<1>3. CASE ~ (Len(pending[p]) > 1) /\ call[p].op = "createPipe"
  BY <1>1, <1>3 DEF LeaveCreateDir, GoTo, GoesOn
<1>4. CASE ~ (Len(pending[p]) > 1) /\ call[p].op # "createPipe"
  <2>1. GoesOn(call[p], pending[p], "idle", <<>>, "true")
    BY <1>4 DEF GoesOn
  <2>2. Return(p, "true")
    BY <1>4 DEF LeaveCreateDir
  <2> QED
    BY <2>1, <2>2, Zenon DEF Return
<1> QED
  BY <1>2, <1>3, <1>4

\* What a step of one process does to it.
Becomes(p, place, rest, value) ==
    /\ place \in {"idle", "access", "stat", "type", "mkdir", "mkfifo"}
    /\ rest \in Seq(Paths \ {<<>>}) /\ value \in {"none", "true", "false"}
    /\ pc' = [pc EXCEPT ![p] = place]
    /\ pending' = [pending EXCEPT ![p] = rest]
    /\ result' = [result EXCEPT ![p] = value]
    /\ CallFrame

\* A step that makes nothing keeps what holds of its process, and the process
\* goes on winning.
Looks(p, place, rest, value) ==
    /\ Becomes(p, place, rest, value)
    /\ UNCHANGED <<files, raced>>
    /\ Fits(files, call[p], place, rest, value, could[p], raced[p])
    /\ Wins(files, call[p], pc[p], pending[p], result[p], could[p], raced[p])
         => Wins(files, call[p], place, rest, value, could[p], raced[p])

\* A step that makes a file keeps what holds of its process, and the process
\* wins.
Makes(p, place, rest, value, n, v) ==
    /\ Becomes(p, place, rest, value)
    /\ v \in Kinds /\ v # None
    /\ files[n] = None /\ files[Front(n)] = Dir
    /\ files' = [files EXCEPT ![n] = v]
    /\ Race(p, n)
    /\ Fits(files', call[p], place, rest, value, could[p], raced[p])
    /\ Wins(files', call[p], place, rest, value, could[p], raced[p])

\* The first keeps the invariant.
LEMMA LookingKeeps ==
    ASSUME FilesInv, NEW p \in Processes, NEW place, NEW rest, NEW value,
           Looks(p, place, rest, value)
    PROVE  FilesInv'
<1> USE DEF Looks, Becomes
<1>1. TypeOK'
  BY DEF FilesInv, TypeOK, CallFrame
<1>2. IsTree(files')
  BY DEF FilesInv
<1>3. /\ pc'[p] = place /\ pending'[p] = rest /\ result'[p] = value
      /\ \A q \in Processes \ {p} : /\ pc'[q] = pc[q] /\ result'[q] = result[q]
                                    /\ pending'[q] = pending[q]
      /\ call' = call /\ could' = could /\ raced' = raced /\ files' = files
  BY DEF FilesInv, TypeOK, CallFrame
<1>4. ASSUME NEW q \in Processes
      PROVE  Fits(files', call'[q], pc'[q], pending'[q], result'[q],
                  could'[q], raced'[q])
  <2>1. CASE q = p
    BY <1>3, <2>1, Zenon
  <2>2. CASE q # p
    BY <1>3, <2>2, Zenon DEF FilesInv
  <2> QED
    BY <2>1, <2>2
<1>5. PICK q \in Processes : Wins(files, call[q], pc[q], pending[q], result[q],
                                  could[q], raced[q])
  BY DEF FilesInv
<1>6. Wins(files', call'[q], pc'[q], pending'[q], result'[q], could'[q],
           raced'[q])
  <2>1. CASE q = p
    BY <1>3, <1>5, <2>1, Zenon
  <2>2. CASE q # p
    BY <1>3, <1>5, <2>2, Zenon
  <2> QED
    BY <2>1, <2>2
<1> QED
  BY <1>1, <1>2, <1>4, <1>6, Zenon DEF FilesInv

\* And so does the second: the other processes are as they were, or have lost
\* a race.
LEMMA MakingKeeps ==
    ASSUME FilesInv, NEW p \in Processes, NEW place, NEW rest, NEW value,
           NEW n \in Nodes, NEW v, Makes(p, place, rest, value, n, v)
    PROVE  FilesInv'
<1> USE DEF Makes, Becomes
<1>1. TypeOK /\ IsTree(files) /\ files \in [Nodes -> Kinds]
  BY DEF FilesInv, TypeOK
<1>2. files' \in [Nodes -> Kinds] /\ IsTree(files')
  BY <1>1, MakingKeepsTree
<1>3. /\ pc'[p] = place /\ pending'[p] = rest /\ result'[p] = value
      /\ \A q \in Processes \ {p} : /\ pc'[q] = pc[q] /\ result'[q] = result[q]
                                    /\ pending'[q] = pending[q]
      /\ call' = call /\ could' = could
  BY <1>1 DEF TypeOK, CallFrame
<1>4. /\ raced' \in [Processes -> BOOLEAN] /\ (raced'[p] <=> raced[p])
      /\ \A q \in Processes \ {p} :
           raced'[q] <=> raced[q] \/ (pc[q] # "idle"
                                      /\ IsPrefix(n, Node[call[q].path]))
  <2>1. raced' = [q \in Processes |->
                    raced[q] \/ (q # p /\ pc[q] # "idle"
                                 /\ IsPrefix(n, Node[call[q].path]))]
    BY DEF Race
  <2>2. \A q \in Processes :
          raced'[q] <=> raced[q] \/ (q # p /\ pc[q] # "idle"
                                     /\ IsPrefix(n, Node[call[q].path]))
    BY <2>1
  <2>3. raced' \in [Processes -> BOOLEAN]
    BY <1>1, <2>1 DEF TypeOK
  <2> QED
    BY <2>2, <2>3
<1>5. TypeOK'
  BY <1>1, <1>2, <1>4 DEF TypeOK, CallFrame
<1>6. raced'[p] = raced[p]
  BY <1>1, <1>4 DEF TypeOK
<1>7. ASSUME NEW q \in Processes
      PROVE  Fits(files', call'[q], pc'[q], pending'[q], result'[q],
                  could'[q], raced'[q])
  <2>1. CASE q = p
    BY <1>3, <1>6, <2>1, Zenon
  <2>2. CASE q # p
    <3>1. Fits(files, call[q], pc[q], pending[q], result[q], could[q], raced[q])
      BY DEF FilesInv
    <3>2. /\ call[q] \in Calls /\ could[q] \in BOOLEAN /\ raced[q] \in BOOLEAN
          /\ raced'[q] \in BOOLEAN
      BY <1>1, <1>4 DEF TypeOK
    <3>3. /\ raced[q] => raced'[q]
          /\ pc[q] # "idle" /\ IsPrefix(n, Node[call[q].path]) => raced'[q]
      BY <1>4, <2>2
    <3>4. Fits(files', call[q], pc[q], pending[q], result[q], could[q],
               raced'[q])
      BY <1>1, <3>1, <3>2, <3>3, OthersFit
    <3> QED
      BY <1>3, <2>2, <3>4, Zenon
  <2> QED
    BY <2>1, <2>2
<1>8. Wins(files', call'[p], pc'[p], pending'[p], result'[p], could'[p],
           raced'[p])
  BY <1>3, <1>6, Zenon
<1> QED
  BY <1>2, <1>5, <1>7, <1>8, Zenon DEF FilesInv

-----------------------------------------------------------------------------
(***************************************************************************)
(* The actions.                                                            *)
(***************************************************************************)
\* A call goes on to another place, and keeps what it had.
Moves(p, place, rest) ==
    /\ pc[p] # "idle" /\ place \in {"access", "stat", "type", "mkdir", "mkfifo"}
    /\ rest \in Seq(Paths \ {<<>>}) /\ GoTo(p, place, rest)
    /\ CallFrame /\ UNCHANGED <<files, raced>>
    /\ place \in {"type", "mkdir"} <=> rest # <<>>
    /\ place \in {"access", "stat", "mkfifo"} => call[p].op = "createPipe"
    /\ IsChain(call[p], rest)
    /\ place = "stat" =>
         /\ files[Node[call[p].path]] # None
         /\ Last(call[p].path) = "/" =>
              files[Node[call[p].path]][1] = "directory"
    /\ IsFound(files, call[p], pc[p], pending[p])
         => IsFound(files, call[p], place, rest)
    /\ Placed(call[p], pending[p]) =>
         /\ Placed(call[p], rest)
         /\ OnTheWay(files, call[p], pc[p], pending[p])
              => OnTheWay(files, call[p], place, rest)

\* A call returns: what it says is so.
Returns(p, value) ==
    /\ pc[p] # "idle" /\ value \in {"true", "false"} /\ Return(p, value)
    /\ CallFrame /\ UNCHANGED <<files, raced>>
    /\ value = "true" => IsThere(files, call[p])
    /\ value = "false" =>
         /\ ~ IsFound(files, call[p], pc[p], pending[p])
         /\ ~ (/\ Placed(call[p], pending[p])
               /\ OnTheWay(files, call[p], pc[p], pending[p]))

\* The first is a step that makes nothing.
LEMMA MovingKeeps ==
    ASSUME FilesInv, NEW p \in Processes, NEW place, NEW rest,
           Moves(p, place, rest)
    PROVE  FilesInv'
<1> USE DEF Moves
<1>1. Fits(files, call[p], pc[p], pending[p], result[p], could[p], raced[p])
  BY DEF FilesInv
<1>2. result[p] = "none" /\ result' = [result EXCEPT ![p] = "none"]
  BY <1>1 DEF Fits, FilesInv, TypeOK, GoTo
<1>3. /\ pc' = [pc EXCEPT ![p] = place]
      /\ pending' = [pending EXCEPT ![p] = rest]
  BY DEF GoTo
<1>4. Fits(files, call[p], place, rest, "none", could[p], raced[p])
  <2>1. could[p] => \/ IsFound(files, call[p], place, rest)
                    \/ /\ Placed(call[p], rest)
                       /\ ~ raced[p] => OnTheWay(files, call[p], place, rest)
    BY <1>1 DEF Fits
  <2>2. place # "idle"
    OBVIOUS
  <2> QED
    BY <2>1, <2>2 DEF Fits
<1>5. Wins(files, call[p], pc[p], pending[p], result[p], could[p], raced[p])
        => Wins(files, call[p], place, rest, "none", could[p], raced[p])
  <2>1. place # "idle" /\ result[p] # "true"
    BY <1>2
  <2> QED
    BY <2>1 DEF Wins
<1>6. place \in {"idle", "access", "stat", "type", "mkdir", "mkfifo"}
      /\ "none" \in {"none", "true", "false"}
  OBVIOUS
<1>7. Looks(p, place, rest, "none")
  BY <1>2, <1>3, <1>4, <1>5, <1>6 DEF Looks, Becomes
<1> QED
  BY <1>7, LookingKeeps

\* And so is the second.
LEMMA ReturningKeeps ==
    ASSUME FilesInv, NEW p \in Processes, NEW value, Returns(p, value)
    PROVE  FilesInv'
<1> USE DEF Returns
<1>1. Fits(files, call[p], pc[p], pending[p], result[p], could[p], raced[p])
  BY DEF FilesInv
<1>2. /\ pc' = [pc EXCEPT ![p] = "idle"]
      /\ pending' = [pending EXCEPT ![p] = <<>>]
      /\ result' = [result EXCEPT ![p] = value]
  BY DEF Return
<1>3. result[p] = "none"
  BY <1>1 DEF Fits
<1>4. value = "false" => ~ could[p] \/ raced[p]
  BY <1>1 DEF Fits
<1>5. <<>> \in Seq(Paths \ {<<>>}) /\ IsChain(call[p], <<>>)
  BY DEF IsChain
<1>6. Fits(files, call[p], "idle", <<>>, value, could[p], raced[p])
  BY <1>4, <1>5 DEF Fits
<1>7. Wins(files, call[p], pc[p], pending[p], result[p], could[p], raced[p])
        => Wins(files, call[p], "idle", <<>>, value, could[p], raced[p])
  BY <1>3 DEF Wins
<1>8. "idle" \in {"idle", "access", "stat", "type", "mkdir", "mkfifo"}
      /\ value \in {"none", "true", "false"}
  OBVIOUS
<1>9. Looks(p, "idle", <<>>, value)
  BY <1>2, <1>5, <1>6, <1>7, <1>8 DEF Looks, Becomes
<1> QED
  BY <1>9, LookingKeeps

\* createPipe() looks at its path.
LEMMA AccessKeeps ==
    ASSUME FilesInv, NEW p \in Processes, Access(p)
    PROVE  FilesInv'
<1> DEFINE c == call[p]
           node == Node[c.path]
           type == StatType(c.path)
           dir == parentDir(c.path)
<1>1. TypeOK /\ IsTree(files) /\ c \in Calls
  BY DEF FilesInv, TypeOK
<1>2. /\ c.op = "createPipe" /\ c.path \in Paths \ {<<>>} /\ c.mode \in Modes
      /\ node \in Seq(Symbols) /\ Len(node) \in Nat \ {0}
      /\ pc[p] = "access" /\ pending[p] = <<>> /\ IsChain(c, <<>>)
  <2>1. Fits(files, c, pc[p], pending[p], result[p], could[p], raced[p])
    BY DEF FilesInv
  <2>2. pc[p] = "access"
    BY DEF Access
  <2> QED
    BY <1>1, <2>1, <2>2, CallType DEF Fits
<1>3. IsFound(files, c, "access", <<>>) => type = "namedPipe"
  BY <1>1, <1>2, StatFacts DEF IsFound, IsThere, Wanted
<1>4. OnTheWay(files, c, "access", <<>>) =>
        /\ type = "nonexistent"
        /\ \E m \in 1 .. Len(node) - 1 : ClearFrom(files, node, m)
  BY <1>1, <1>2, StatFacts DEF OnTheWay
<1>5. CallFrame /\ UNCHANGED <<files, raced>>
  BY DEF Access
<1>6. CASE type = "invalid"
  <2>1. Return(p, "false")
    BY <1>6 DEF Access
  <2>2. Returns(p, "false")
    BY <1>2, <1>3, <1>4, <1>5, <1>6, <2>1 DEF Returns
  <2> QED
    BY <2>2, ReturningKeeps
<1>7. CASE type = "nonexistent" /\ dir = <<>>
  <2>1. GoTo(p, "mkfifo", <<>>)
    BY <1>7 DEF Access
  <2>2. ASSUME Placed(c, <<>>), OnTheWay(files, c, "access", <<>>)
        PROVE  OnTheWay(files, c, "mkfifo", <<>>)
    <3>1. Len(node) <= 2
      BY <1>2, <1>7, <2>2, ParentDirIsAbove DEF Placed
    <3>2. PICK m \in 1 .. Len(node) - 1 : ClearFrom(files, node, m)
      BY <1>4, <2>2
    <3> HIDE DEF node
    <3>3. m + 1 = Len(node)
      BY <1>2, <3>1
    <3> QED
      BY <3>2, <3>3 DEF OnTheWay, node
  <2>3. <<>> \in Seq(Paths \ {<<>>})
    OBVIOUS
  <2>4. Moves(p, "mkfifo", <<>>)
    BY <1>2, <1>3, <1>5, <1>7, <2>1, <2>2, <2>3 DEF Moves
  <2> QED
    BY <2>4, MovingKeeps
<1>8. CASE type = "nonexistent" /\ dir # <<>>
  <2>1. GoTo(p, "type", <<dir>>)
    BY <1>8 DEF Access
  <2>2. /\ <<dir>> \in Seq(Paths \ {<<>>}) /\ <<dir>> # <<>>
        /\ HeadAt(c, <<dir>>) = LastAt(c) /\ IsChain(c, <<dir>>)
        /\ Placed(c, <<>>) => Placed(c, <<dir>>)
    BY <1>1, <1>2, <1>8, FirstPlaced
  <2>3. ASSUME OnTheWay(files, c, "access", <<>>)
        PROVE  OnTheWay(files, c, "type", <<dir>>)
    <3>1. PICK m \in 1 .. Len(node) - 1 : ClearFrom(files, node, m)
      BY <1>4, <2>3
    <3>2. m <= HeadAt(c, <<dir>>)
      BY <1>2, <2>2 DEF LastAt
    <3> QED
      BY <3>1, <3>2 DEF OnTheWay
  <2> HIDE DEF dir
  <2>4. Moves(p, "type", <<dir>>)
    BY <1>2, <1>3, <1>5, <1>8, <2>1, <2>2, <2>3 DEF Moves
  <2> QED
    BY <2>4, MovingKeeps
<1>9. CASE type \notin {"invalid", "nonexistent"}
  <2>1. GoTo(p, "stat", <<>>)
    BY <1>9 DEF Access
  <2>2. /\ files[node] # None
        /\ Last(c.path) = "/" => files[node][1] = "directory"
    BY <1>1, <1>2, <1>9, StatFacts
  <2>3. IsFound(files, c, "access", <<>>) => IsFound(files, c, "stat", <<>>)
    BY DEF IsFound
  <2>4. <<>> \in Seq(Paths \ {<<>>})
    OBVIOUS
  <2>5. Moves(p, "stat", <<>>)
    BY <1>2, <1>4, <1>5, <1>9, <2>1, <2>2, <2>3, <2>4 DEF Moves
  <2> QED
    BY <2>5, MovingKeeps
<1> QED
  BY <1>6, <1>7, <1>8, <1>9

\* createPipe() looks at the file that is there.
LEMMA StatKeeps ==
    ASSUME FilesInv, NEW p \in Processes, Stat(p)
    PROVE  FilesInv'
<1> DEFINE c == call[p]
           node == Node[c.path]
<1>1. c \in Calls
  BY DEF FilesInv, TypeOK
<1>2. Fits(files, c, "stat", pending[p], result[p], could[p], raced[p])
      /\ pc[p] = "stat"
  BY DEF FilesInv, Stat
<1>3. /\ c.op = "createPipe"
      /\ Last(c.path) = "/" => files[node][1] = "directory"
  BY <1>2 DEF Fits
<1>4. CallFrame /\ UNCHANGED <<files, raced>>
  BY DEF Stat
<1>5. CASE files[node] \in Wanted(c)
  <2>1. Return(p, "true")
    BY <1>5 DEF Stat
  <2>2. Last(c.path) # "/"
    BY <1>3, <1>5 DEF Wanted
  <2>3. IsThere(files, c)
    BY <1>5, <2>2 DEF IsThere
  <2>4. Returns(p, "true")
    BY <1>2, <1>4, <2>1, <2>3 DEF Returns
  <2> QED
    BY <2>4, ReturningKeeps
<1>6. CASE files[node] \notin Wanted(c)
  <2>1. Return(p, "false")
    BY <1>6 DEF Stat
  <2>2. ~ IsFound(files, c, pc[p], pending[p])
    BY <1>6 DEF IsFound, IsThere
  <2>3. ~ OnTheWay(files, c, pc[p], pending[p])
    BY <1>2 DEF OnTheWay
  <2>4. Returns(p, "false")
    BY <1>2, <1>4, <2>1, <2>2, <2>3 DEF Returns
  <2> QED
    BY <2>4, ReturningKeeps
<1> QED
  BY <1>5, <1>6

\* What createDir() finds of the first of its directories.
LEMMA HeadIsThere ==
    ASSUME TypeOK, IsTree(files), NEW c \in Calls,
           NEW dirs \in Seq(Paths \ {<<>>}), dirs # <<>>, Placed(c, dirs),
           NEW m \in 1 .. Len(Node[c.path]) - 1,
           ClearFrom(files, Node[c.path], m), m <= HeadAt(c, dirs)
    PROVE  IF m = HeadAt(c, dirs) THEN StatType(dirs[1]) = "directory"
           ELSE StatType(dirs[1]) = "nonexistent"
<1> DEFINE node == Node[c.path]
           h == HeadAt(c, dirs)
           path == dirs[1]
<1>1. /\ path \in Paths \ {<<>>} /\ h \in 1 .. Len(node)
      /\ Node[path] = Upto(node, h) /\ Len(Node[path]) = h
  BY HeadPlaced
<1>2. node \in Seq(Symbols) /\ Len(node) \in Nat
  BY CallType
<1>3. files[Upto(node, m)] = Dir
      /\ \A k \in m + 1 .. Len(node) : files[Upto(node, k)] = None
  BY DEF ClearFrom
<1> HIDE DEF path
<1>4. CASE m = h
  <2>1. files[Node[path]][1] = "directory"
    BY <1>1, <1>3, <1>4, KindFacts
  <2> QED
    BY <1>1, <1>4, <2>1, StatFacts DEF path
<1>5. CASE m # h
  <2> HIDE DEF h, node
  <2>1. /\ m \in 1 .. h - 1 /\ m \in 1 .. h /\ m \in Nat /\ h \in Nat
        /\ \A k \in m + 1 .. h : k \in m + 1 .. Len(node) /\ k \in 1 .. h
    BY <1>1, <1>2, <1>5 DEF h, node
  <2>2. \A k \in 1 .. h : Upto(Node[path], k) = Upto(node, k)
    BY <1>1, <1>2, UptoType
  <2>3. ClearFrom(files, Node[path], m)
    <3>1. files[Upto(Node[path], m)] = Dir
      BY <1>3, <2>1, <2>2
    <3>2. \A k \in m + 1 .. h : files[Upto(Node[path], k)] = None
      BY <1>3, <2>1, <2>2
    <3> QED
      BY <1>1, <3>1, <3>2 DEF ClearFrom
  <2>4. m \in 1 .. Len(Node[path]) - 1
    BY <1>1, <2>1
  <2>5. StatType(path) = "nonexistent"
    BY <1>1, <2>3, <2>4, StatFacts
  <2> QED
    BY <1>5, <2>5 DEF path, h
<1> QED
  BY <1>4, <1>5

\* createDir() looks at its directory.
LEMMA CheckTypeKeeps ==
    ASSUME FilesInv, NEW p \in Processes, CheckType(p)
    PROVE  FilesInv'
<1> DEFINE c == call[p]
           dirs == pending[p]
           path == dirs[1]
           type == StatType(path)
           node == Node[c.path]
           h == HeadAt(c, dirs)
<1>1. /\ TypeOK /\ IsTree(files) /\ c \in Calls /\ dirs \in Seq(Paths \ {<<>>})
      /\ Fits(files, c, pc[p], dirs, result[p], could[p], raced[p])
      /\ pc[p] = "type"
  BY DEF FilesInv, TypeOK, CheckType
<1>2. dirs # <<>> /\ IsChain(c, dirs) /\ result[p] = "none"
  BY <1>1 DEF Fits
<1>3. path \in Paths \ {<<>>} /\ Head(dirs) = path /\ getPathType(path) = type
  BY <1>1, <1>2, StatFacts
<1>4. CallFrame /\ UNCHANGED <<files, raced>>
  BY DEF CheckType
<1>5. IsFound(files, c, "type", dirs) =>
        type = "directory" /\ c.op = "createDir" /\ Len(dirs) = 1
  <2> SUFFICES ASSUME IsFound(files, c, "type", dirs)
               PROVE  type = "directory" /\ c.op = "createDir" /\ Len(dirs) = 1
    OBVIOUS
  <2>1. /\ c.op = "createDir" /\ dirs = <<c.path>>
        /\ files[Node[c.path]] \in Wanted(c)
    BY DEF IsFound, IsThere
  <2>2. files[Node[path]] \in {Dir, Locked} /\ Len(dirs) = 1
    BY <2>1 DEF Wanted
  <2>3. files[Node[path]][1] = "directory"
    BY <2>2 DEF Dir, Locked
  <2> QED
    BY <1>1, <1>3, <2>1, <2>2, <2>3, StatFacts
<1>6. ASSUME Placed(c, dirs), OnTheWay(files, c, "type", dirs)
      PROVE  /\ h \in 1 .. Len(node)
             /\ \E m \in 1 .. Len(node) - 1 :
                  /\ ClearFrom(files, node, m) /\ m <= h
                  /\ IF m = h THEN type = "directory" ELSE type = "nonexistent"
  <2>1. PICK m \in 1 .. Len(node) - 1 : ClearFrom(files, node, m) /\ m <= h
    BY <1>6 DEF OnTheWay
  <2>2. IF m = h THEN type = "directory" ELSE type = "nonexistent"
    BY <1>1, <1>2, <1>6, <2>1, HeadIsThere
  <2>3. h \in 1 .. Len(node)
    BY <1>1, <1>2, <1>6, HeadPlaced
  <2> QED
    BY <2>1, <2>2, <2>3
<1>7. Len(node) \in Nat
  BY <1>1, CallType
<1> HIDE DEF h, node, c, type, path
<1>8. CASE type = "directory"
  <2>1. LeaveCreateDir(p)
    BY <1>3, <1>8 DEF CheckType
  <2>2. PICK place, rest, value :
          /\ GoesOn(c, dirs, place, rest, value)
          /\ pc' = [pc EXCEPT ![p] = place]
          /\ pending' = [pending EXCEPT ![p] = rest]
          /\ result' = [result EXCEPT ![p] = value]
    BY <1>1, <1>2, <2>1, LeavingGoesOn DEF c
  <2>3. files \in [Nodes -> Kinds] /\ files[Node[dirs[1]]] \in {Dir, Locked}
    BY <1>1, <1>3, <1>8, StatFacts DEF TypeOK, path, type
  <2>4. Placed(c, dirs) /\ OnTheWay(files, c, "type", dirs)
          => ClearBelow(files, c, dirs)
    <3> SUFFICES ASSUME Placed(c, dirs), OnTheWay(files, c, "type", dirs)
                 PROVE  ClearBelow(files, c, dirs)
      OBVIOUS
    <3>1. PICK m \in 1 .. Len(node) - 1 : ClearFrom(files, node, m) /\ m = h
      BY <1>6, <1>8
    <3> QED
      BY <3>1 DEF ClearBelow, h, node
  <2>5. could[p] =>
          \/ c.op = "createDir" /\ Len(dirs) = 1
          \/ Placed(c, dirs) /\ (~ raced[p] => ClearBelow(files, c, dirs))
    <3>1. could[p] => \/ IsFound(files, c, "type", dirs)
                      \/ /\ Placed(c, dirs)
                         /\ ~ raced[p] => OnTheWay(files, c, "type", dirs)
      BY <1>1 DEF Fits
    <3> QED
      BY <1>5, <2>4, <3>1
  <2>6. /\ place \in {"mkdir", "mkfifo", "idle"} /\ value \in {"none", "true"}
        /\ rest \in Seq(Paths \ {<<>>})
        /\ Fits(files, c, place, rest, value, could[p], raced[p])
        /\ Placed(c, dirs) /\ ClearBelow(files, c, dirs) =>
             Wins(files, c, place, rest, value, could[p], raced[p])
    BY <1>1, <1>2, <2>2, <2>3, <2>5, LeavingFits
  <2>7. Wins(files, c, pc[p], dirs, result[p], could[p], raced[p])
          => Wins(files, c, place, rest, value, could[p], raced[p])
    BY <1>1, <1>2, <2>4, <2>6 DEF Wins
  <2>8. Looks(p, place, rest, value)
    BY <1>4, <2>2, <2>6, <2>7 DEF Looks, Becomes, c
  <2> QED
    BY <2>8, LookingKeeps
<1>9. CASE type \notin {"directory", "nonexistent"}
  <2>1. Return(p, "false")
    BY <1>3, <1>9 DEF CheckType
  <2>2. ~ (Placed(c, dirs) /\ OnTheWay(files, c, "type", dirs))
    BY <1>6, <1>9
  <2>3. Returns(p, "false")
    BY <1>1, <1>4, <1>5, <1>9, <2>1, <2>2 DEF Returns, c
  <2> QED
    BY <2>3, ReturningKeeps
<1>10. CASE type = "nonexistent" /\ parentDir(path) = <<>>
  <2>1. GoTo(p, "mkdir", dirs)
    BY <1>3, <1>10 DEF CheckType
  <2>2. ASSUME Placed(c, dirs), OnTheWay(files, c, "type", dirs)
        PROVE  OnTheWay(files, c, "mkdir", dirs)
    <3>1. PICK m \in 1 .. Len(node) - 1 :
            ClearFrom(files, node, m) /\ m <= h /\ m # h
      BY <1>6, <1>10, <2>2
    <3>2. ~ Repeats(path) /\ Len(Node[path]) = h
      BY <1>1, <1>2, <2>2, HeadPlaced DEF path, h
    <3>3. h <= 2 /\ h \in 1 .. Len(node)
      BY <1>3, <1>6, <1>10, <2>2, <3>2, ParentDirIsAbove
    <3>4. m + 1 = h
      BY <1>7, <3>1, <3>3
    <3> QED
      BY <3>1, <3>4 DEF OnTheWay, h, node
  <2>3. Moves(p, "mkdir", dirs)
    BY <1>1, <1>2, <1>4, <1>5, <1>10, <2>1, <2>2 DEF Moves, c
  <2> QED
    BY <2>3, MovingKeeps
<1>11. CASE type = "nonexistent" /\ parentDir(path) # <<>>
  <2> DEFINE longer == <<parentDir(path)>> \o dirs
  <2>1. GoTo(p, "type", longer)
    BY <1>3, <1>11 DEF CheckType
  <2>2. /\ longer \in Seq(Paths \ {<<>>}) /\ longer # <<>>
        /\ HeadAt(c, longer) = h - 1
        /\ Placed(c, dirs) => Placed(c, longer)
        /\ IsChain(c, longer)
    BY <1>1, <1>2, <1>11, PushPlaced DEF path, h
  <2> HIDE DEF longer
  <2>3. ASSUME Placed(c, dirs), OnTheWay(files, c, "type", dirs)
        PROVE  OnTheWay(files, c, "type", longer)
    <3>1. PICK m \in 1 .. Len(node) - 1 :
            ClearFrom(files, node, m) /\ m <= h /\ m # h
      BY <1>6, <1>11, <2>3
    <3>2. m <= h - 1
      BY <1>6, <1>7, <2>3, <3>1
    <3> QED
      BY <2>2, <3>1, <3>2 DEF OnTheWay, node
  <2>4. Moves(p, "type", longer)
    BY <1>1, <1>2, <1>4, <1>5, <1>11, <2>1, <2>2, <2>3 DEF Moves, c
  <2> QED
    BY <2>4, MovingKeeps
<1> QED
  BY <1>8, <1>9, <1>10, <1>11

\* createDir() makes its directory.
LEMMA MkdirKeeps ==
    ASSUME FilesInv, NEW p \in Processes, Mkdir(p)
    PROVE  FilesInv'
<1> DEFINE c == call[p]
           dirs == pending[p]
           path == dirs[1]
           node == Node[c.path]
           h == HeadAt(c, dirs)
<1>1. /\ TypeOK /\ IsTree(files) /\ c \in Calls /\ dirs \in Seq(Paths \ {<<>>})
      /\ files \in [Nodes -> Kinds]
      /\ Fits(files, c, pc[p], dirs, result[p], could[p], raced[p])
      /\ pc[p] = "mkdir"
  BY DEF FilesInv, TypeOK, Mkdir
<1>2. dirs # <<>> /\ IsChain(c, dirs) /\ result[p] = "none"
  BY <1>1 DEF Fits
<1>3. path \in Paths \ {<<>>} /\ Head(dirs) = path
  BY <1>1, <1>2
<1>4. Node[path] \in Nodes
  BY <1>3, NodeType
<1>5. CallFrame
  BY DEF Mkdir
<1>6. /\ node \in Nodes /\ node \in Seq(Symbols) /\ Len(node) \in Nat
  BY <1>1, CallType
<1>7. Placed(c, dirs) => h \in 1 .. Len(node) /\ Node[path] = Upto(node, h)
  BY <1>1, <1>2, HeadPlaced
<1>8. ~ IsFound(files, c, "mkdir", dirs)
  BY DEF IsFound
<1> HIDE DEF h, node, c, path
<1>9. CASE Free(path)
  <2>1. /\ files' = [files EXCEPT ![Node[path]] = Dir]
        /\ LeaveCreateDir(p) /\ Race(p, Node[path])
    BY <1>3, <1>9 DEF Mkdir
  <2>2. files[Node[path]] = None /\ files[Front(Node[path])] = Dir
    BY <1>9 DEF Free
  <2>3. files' \in [Nodes -> Kinds] /\ files'[Node[path]] = Dir
    BY <1>1, <1>4, <2>1, KindFacts
  <2>4. PICK place, rest, value :
          /\ GoesOn(c, dirs, place, rest, value)
          /\ pc' = [pc EXCEPT ![p] = place]
          /\ pending' = [pending EXCEPT ![p] = rest]
          /\ result' = [result EXCEPT ![p] = value]
    BY <1>1, <1>2, <2>1, LeavingGoesOn DEF c
  <2>5. Placed(c, dirs) => ClearBelow(files', c, dirs)
    <3> SUFFICES ASSUME Placed(c, dirs) PROVE ClearFrom(files', node, h)
      BY DEF ClearBelow, node, h
    <3>1. h \in 1 .. Len(node) /\ Node[path] = Upto(node, h)
      BY <1>7
    <3> QED
      BY <1>1, <1>6, <2>1, <2>2, <3>1, MadeIsClear
  <2>6. could[p] => Placed(c, dirs)
    BY <1>1, <1>8 DEF Fits
  <2>7. could[p] => \/ c.op = "createDir" /\ Len(dirs) = 1
                    \/ /\ Placed(c, dirs)
                       /\ ~ raced[p] => ClearBelow(files', c, dirs)
    BY <2>5, <2>6
  <2>8. /\ place \in {"mkdir", "mkfifo", "idle"} /\ value \in {"none", "true"}
        /\ rest \in Seq(Paths \ {<<>>})
        /\ Fits(files', c, place, rest, value, could[p], raced[p])
        /\ Placed(c, dirs) /\ ClearBelow(files', c, dirs) =>
             Wins(files', c, place, rest, value, could[p], raced[p])
    <3>1. files'[Node[dirs[1]]] \in {Dir, Locked}
      BY <2>3 DEF path
    <3> QED
      BY <1>1, <1>2, <2>3, <2>4, <2>7, <3>1, LeavingFits
  <2>9. Wins(files', c, place, rest, value, could[p], raced[p])
    BY <2>5, <2>6, <2>8 DEF Wins
  <2>10. Makes(p, place, rest, value, Node[path], Dir)
    BY <1>5, <2>1, <2>2, <2>4, <2>8, <2>9, KindFacts DEF Makes, Becomes, c
  <2> QED
    BY <1>4, <2>10, MakingKeeps
<1>10. CASE ~ Free(path)
  <2>1. Return(p, "false") /\ UNCHANGED <<files, raced>>
    BY <1>3, <1>10 DEF Mkdir
  <2>2. ~ (Placed(c, dirs) /\ OnTheWay(files, c, "mkdir", dirs))
    <3> SUFFICES ASSUME Placed(c, dirs), OnTheWay(files, c, "mkdir", dirs)
                 PROVE  Free(path)
      BY <1>10
    <3>1. PICK m \in 1 .. Len(node) - 1 : ClearFrom(files, node, m) /\ m + 1 = h
      BY DEF OnTheWay, node, h
    <3>2. /\ h \in m + 1 .. Len(node) /\ h > 1 /\ h - 1 = m
          /\ h \in 1 .. Len(node)
      BY <1>6, <1>7, <3>1
    <3>3. files[Upto(node, h)] = None /\ files[Upto(node, m)] = Dir
      BY <3>1, <3>2 DEF ClearFrom
    <3>4. Front(Upto(node, h)) = Upto(node, h - 1)
      BY <1>6, <3>2, UptoType
    <3> QED
      BY <1>7, <3>2, <3>3, <3>4 DEF Free
  <2>3. Returns(p, "false")
    BY <1>1, <1>5, <1>8, <2>1, <2>2 DEF Returns, c
  <2> QED
    BY <2>3, ReturningKeeps
<1> QED
  BY <1>9, <1>10

\* createPipe() makes its pipe.
LEMMA MkfifoKeeps ==
    ASSUME FilesInv, NEW p \in Processes, Mkfifo(p)
    PROVE  FilesInv'
<1> DEFINE c == call[p]
           node == Node[c.path]
           pipe == <<"namedPipe", c.mode>>
<1>1. /\ TypeOK /\ IsTree(files) /\ c \in Calls /\ files \in [Nodes -> Kinds]
      /\ Fits(files, c, pc[p], pending[p], result[p], could[p], raced[p])
      /\ pc[p] = "mkfifo"
  BY DEF FilesInv, TypeOK, Mkfifo
<1>2. c.op = "createPipe" /\ pending[p] = <<>> /\ IsChain(c, <<>>)
  BY <1>1 DEF Fits
<1>3. /\ node \in Nodes /\ node \in Seq(Symbols) /\ Len(node) \in Nat
      /\ pipe \in Kinds /\ pipe # None
  BY <1>1, CallType, KindFacts
<1>4. CallFrame
  BY DEF Mkfifo
<1>5. <<>> \in Seq(Paths \ {<<>>})
  OBVIOUS
<1>6. CASE Free(c.path) /\ Last(c.path) # "/"
  <2>1. /\ files' = [files EXCEPT ![node] = pipe] /\ Return(p, "true")
        /\ Race(p, node)
    BY <1>6 DEF Mkfifo
  <2>2. files[node] = None /\ files[Front(node)] = Dir
    BY <1>6 DEF Free
  <2>3. IsThere(files', c)
    <3>1. files'[node] = pipe
      BY <1>1, <1>3, <2>1
    <3> QED
      BY <1>2, <1>6, <3>1 DEF IsThere, Wanted
  <2> HIDE DEF pipe, node
  <2>4. Fits(files', c, "idle", <<>>, "true", could[p], raced[p])
    BY <1>2, <2>3 DEF Fits
  <2>5. Wins(files', c, "idle", <<>>, "true", could[p], raced[p])
    BY DEF Wins
  <2>6. Makes(p, "idle", <<>>, "true", node, pipe)
    BY <1>3, <1>4, <1>5, <2>1, <2>2, <2>4, <2>5 DEF Makes, Becomes, Return
  <2> QED
    BY <1>3, <2>6, MakingKeeps
<1>7. CASE ~ (Free(c.path) /\ Last(c.path) # "/")
  <2>1. Return(p, "false") /\ UNCHANGED <<files, raced>>
    BY <1>7 DEF Mkfifo
  <2>2. ~ IsFound(files, c, "mkfifo", <<>>)
    BY DEF IsFound
  <2>3. ~ (Placed(c, <<>>) /\ OnTheWay(files, c, "mkfifo", <<>>))
    <3> SUFFICES ASSUME Placed(c, <<>>), OnTheWay(files, c, "mkfifo", <<>>)
                 PROVE  Free(c.path) /\ Last(c.path) # "/"
      BY <1>7
    <3>1. PICK m \in 1 .. Len(node) - 1 :
            ClearFrom(files, node, m) /\ m + 1 = Len(node)
      BY DEF OnTheWay
    <3>2. Upto(node, Len(node)) = node /\ Front(node) = Upto(node, Len(node) - 1)
      BY <1>3, SubSeqFull DEF Front, Upto
    <3> HIDE DEF node
    <3>3. Len(node) \in m + 1 .. Len(node) /\ Len(node) - 1 = m
      BY <1>3, <3>1
    <3>4. files[node] = None /\ files[Front(node)] = Dir
      BY <3>1, <3>2, <3>3 DEF ClearFrom
    <3> QED
      BY <1>2, <3>4 DEF Free, Placed, node
  <2>4. Returns(p, "false")
    BY <1>1, <1>2, <1>4, <2>1, <2>2, <2>3 DEF Returns
  <2> QED
    BY <2>4, ReturningKeeps
<1> QED
  BY <1>6, <1>7

\* A new call can succeed where its file is there or nothing is in its way.
LEMMA BeginFits ==
    ASSUME TypeOK, IsTree(files), NEW c \in Calls
    PROVE  /\ c.op = "createPipe" =>
                Fits(files, c, "access", <<>>, "none", There(c) \/ Makable(c),
                     FALSE)
           /\ c.op # "createPipe" =>
                /\ <<c.path>> \in Seq(Paths \ {<<>>})
                /\ Fits(files, c, "type", <<c.path>>, "none",
                        There(c) \/ Makable(c), FALSE)
<1> DEFINE node == Node[c.path]
<1>1. /\ c.op \in {"createDir", "createPipe"} /\ c.path \in Paths \ {<<>>}
      /\ Len(node) \in Nat \ {0} /\ LastAt(c) \in Nat
  BY CallType
<1>2. There(c) => IsThere(files, c)
  BY DEF There, IsThere
<1>3. Makable(c) => Placed(c, <<>>)
  <2>1. HeadAt(c, <<>>) >= 1
    BY <1>1 DEF HeadAt
  <2> QED
    BY <2>1 DEF Makable, Placed
<1>4. Makable(c) => \E m \in 1 .. Len(node) - 1 : ClearFrom(files, node, m)
  BY MakableIsClear
<1>5. CASE c.op = "createPipe"
  <2>1. There(c) => IsFound(files, c, "access", <<>>)
    BY <1>2 DEF IsFound
  <2>2. Makable(c) => OnTheWay(files, c, "access", <<>>)
    BY <1>4 DEF OnTheWay
  <2>3. IsChain(c, <<>>)
    BY DEF IsChain
  <2> QED
    BY <1>3, <1>5, <2>1, <2>2, <2>3 DEF Fits
<1>6. CASE c.op = "createDir"
  <2> DEFINE one == <<c.path>>
  <2>1. /\ one \in Seq(Paths \ {<<>>}) /\ one # <<>>
        /\ HeadAt(c, one) = LastAt(c) /\ IsChain(c, one)
        /\ Placed(c, <<>>) => Placed(c, one)
    BY <1>1, <1>6, FirstPlaced
  <2>2. There(c) => IsFound(files, c, "type", one)
    BY <1>2, <1>6 DEF IsFound
  <2>3. Makable(c) => OnTheWay(files, c, "type", one)
    <3> SUFFICES ASSUME Makable(c) PROVE OnTheWay(files, c, "type", one)
      OBVIOUS
    <3>1. PICK m \in 1 .. Len(node) - 1 : ClearFrom(files, node, m)
      BY <1>4
    <3>2. HeadAt(c, one) = Len(node)
      BY <1>6, <2>1 DEF LastAt
    <3>3. m <= HeadAt(c, one)
      BY <1>1, <3>2
    <3> QED
      BY <3>1, <3>3 DEF OnTheWay
  <2> HIDE DEF one
  <2>4. Fits(files, c, "type", one, "none", There(c) \/ Makable(c), FALSE)
    BY <1>3, <2>1, <2>2, <2>3 DEF Fits
  <2> QED
    BY <1>6, <2>1, <2>4 DEF one
<1> QED
  BY <1>1, <1>5, <1>6

\* A process begins another call.
LEMMA BeginKeeps ==
    ASSUME FilesInv, NEW p \in Processes, Begin(p)
    PROVE  FilesInv'
<1>1. PICK c \in Calls :
        /\ call' = [call EXCEPT ![p] = c]
        /\ found' = [found EXCEPT ![p] = There(c)]
        /\ could' = [could EXCEPT ![p] = There(c) \/ Makable(c)]
        /\ IF c.op = "createPipe"
           THEN pc' = [pc EXCEPT ![p] = "access"] /\ UNCHANGED pending
           ELSE /\ pc' = [pc EXCEPT ![p] = "type"]
                /\ pending' = [pending EXCEPT ![p] = <<c.path>>]
  BY DEF Begin
<1>2. /\ raced' = [raced EXCEPT ![p] = FALSE]
      /\ result' = [result EXCEPT ![p] = "none"]
      /\ files' = files /\ calls' = [calls EXCEPT ![p] = @ + 1]
      /\ pc[p] = "idle" /\ calls[p] < MaxCalls
  BY DEF Begin
<1>3. TypeOK /\ IsTree(files)
  BY DEF FilesInv
<1>4. Fits(files, call[p], pc[p], pending[p], result[p], could[p], raced[p])
  BY DEF FilesInv
<1>5. pending[p] = <<>>
  BY <1>2, <1>4 DEF Fits
<1>6. /\ c.op = "createPipe" =>
           Fits(files, c, "access", <<>>, "none", There(c) \/ Makable(c), FALSE)
      /\ c.op # "createPipe" =>
           /\ <<c.path>> \in Seq(Paths \ {<<>>})
           /\ Fits(files, c, "type", <<c.path>>, "none",
                   There(c) \/ Makable(c), FALSE)
  BY <1>3, BeginFits
<1>7. TypeOK'
  <2>1. files' \in [Nodes -> Kinds] /\ call' \in [Processes -> Calls]
        /\ result' \in [Processes -> {"none", "true", "false"}]
    BY <1>1, <1>2, <1>3 DEF TypeOK
  <2>2. could' \in [Processes -> BOOLEAN] /\ raced' \in [Processes -> BOOLEAN]
    BY <1>1, <1>2, <1>3 DEF TypeOK
  <2>5. found' \in [Processes -> BOOLEAN]
    BY <1>1, <1>3 DEF TypeOK, There
  <2>3. calls' \in [Processes -> 0 .. MaxCalls]
    BY <1>2, <1>3, FilesAssumption DEF TypeOK
  <2>4. /\ pc' \in [Processes -> {"idle", "access", "stat", "type", "mkdir",
                                  "mkfifo"}]
        /\ pending' \in [Processes -> Seq(Paths \ {<<>>})]
    BY <1>1, <1>3, <1>6 DEF TypeOK
  <2> QED
    BY <2>1, <2>2, <2>3, <2>4, <2>5 DEF TypeOK
<1>8. /\ call'[p] = c /\ could'[p] = (There(c) \/ Makable(c))
      /\ raced'[p] = FALSE /\ result'[p] = "none"
      /\ c.op = "createPipe" => pc'[p] = "access" /\ pending'[p] = <<>>
      /\ c.op # "createPipe" => pc'[p] = "type" /\ pending'[p] = <<c.path>>
  BY <1>1, <1>2, <1>3, <1>5 DEF TypeOK
<1>9. \A q \in Processes \ {p} :
        /\ call'[q] = call[q] /\ could'[q] = could[q] /\ raced'[q] = raced[q]
        /\ result'[q] = result[q] /\ pc'[q] = pc[q] /\ pending'[q] = pending[q]
  BY <1>1, <1>2, <1>3 DEF TypeOK
<1>10. ASSUME NEW q \in Processes
       PROVE  Fits(files', call'[q], pc'[q], pending'[q], result'[q],
                   could'[q], raced'[q])
  <2>1. CASE q = p /\ c.op = "createPipe"
    BY <1>2, <1>6, <1>8, <2>1, Zenon
  <2>2. CASE q = p /\ c.op # "createPipe"
    BY <1>2, <1>6, <1>8, <2>2, Zenon
  <2>3. CASE q # p
    BY <1>2, <1>9, <2>3, Zenon DEF FilesInv
  <2> QED
    BY <2>1, <2>2, <2>3
<1>11. Wins(files', call'[p], pc'[p], pending'[p], result'[p], could'[p],
            raced'[p])
  BY <1>8 DEF Wins
<1>12. IsTree(files')
  BY <1>2, <1>3
<1> QED
  BY <1>7, <1>10, <1>11, <1>12, Zenon DEF FilesInv

-----------------------------------------------------------------------------
(***************************************************************************)
(* The theorems.                                                           *)
(***************************************************************************)
\* The invariant holds when the program starts.
LEMMA InitFiles == Init => FilesInv
<1> SUFFICES ASSUME Init PROVE FilesInv
  OBVIOUS
<1> DEFINE first == CHOOSE c \in Calls : TRUE
<1>1. first \in Calls /\ Processes # {}
  BY FilesAssumption
<1> HIDE DEF first
<1>2. files \in [Nodes -> Kinds] /\ IsTree(files)
  BY FilesAssumption DEF Init, IsTree
<1>3. TypeOK
  <2>1. /\ pc \in [Processes -> {"idle", "access", "stat", "type", "mkdir",
                                 "mkfifo"}]
        /\ call \in [Processes -> Calls]
        /\ pending \in [Processes -> Seq(Paths \ {<<>>})]
        /\ result \in [Processes -> {"none", "true", "false"}]
    BY <1>1 DEF Init, first
  <2>2. /\ could \in [Processes -> BOOLEAN] /\ raced \in [Processes -> BOOLEAN]
        /\ calls \in [Processes -> 0 .. MaxCalls]
        /\ found \in [Processes -> BOOLEAN]
    BY FilesAssumption DEF Init
  <2> QED
    BY <1>2, <2>1, <2>2 DEF TypeOK
<1>4. \A p \in Processes :
        /\ pc[p] = "idle" /\ pending[p] = <<>> /\ result[p] = "none"
        /\ could[p] = FALSE /\ raced[p] = FALSE
  BY DEF Init
<1>5. ASSUME NEW p \in Processes
      PROVE  /\ Fits(files, call[p], pc[p], pending[p], result[p], could[p],
                     raced[p])
             /\ Wins(files, call[p], pc[p], pending[p], result[p], could[p],
                     raced[p])
  <2>1. IsChain(call[p], pending[p])
    BY <1>4 DEF IsChain
  <2> QED
    BY <1>4, <2>1 DEF Fits, Wins
<1> QED
  BY <1>1, <1>2, <1>3, <1>5 DEF FilesInv

\* Every step keeps the invariant.
LEMMA NextFiles == FilesInv /\ [Next]_vars => FilesInv'
<1> SUFFICES ASSUME FilesInv, [Next]_vars PROVE FilesInv'
  OBVIOUS
<1>1. ASSUME NEW p \in Processes, Begin(p) PROVE FilesInv'
  BY <1>1, BeginKeeps
<1>2. ASSUME NEW p \in Processes, Access(p) PROVE FilesInv'
  BY <1>2, AccessKeeps
<1>3. ASSUME NEW p \in Processes, Stat(p) PROVE FilesInv'
  BY <1>3, StatKeeps
<1>4. ASSUME NEW p \in Processes, CheckType(p) PROVE FilesInv'
  BY <1>4, CheckTypeKeeps
<1>5. ASSUME NEW p \in Processes, Mkdir(p) PROVE FilesInv'
  BY <1>5, MkdirKeeps
<1>6. ASSUME NEW p \in Processes, Mkfifo(p) PROVE FilesInv'
  BY <1>6, MkfifoKeeps
<1>7. ASSUME UNCHANGED vars PROVE FilesInv'
  BY <1>7 DEF vars, FilesInv, TypeOK
<1> QED
  BY <1>1, <1>2, <1>3, <1>4, <1>5, <1>6, <1>7 DEF Next, Step

\* The invariant holds always.
THEOREM FilesInvariant == Spec => []FilesInv
<1> QED
  BY InitFiles, NextFiles, PTL DEF Spec

\* The state has its type, and every pending directory is a path in use.
THEOREM FilesTypeCorrect == Spec => []TypeOK
<1>1. FilesInv => TypeOK
  BY DEF FilesInv
<1> QED
  BY <1>1, FilesInvariant, PTL

\* parentDir() is right, and the directories that a createDir() has been called
\* for are on its path, each shorter than the next.
THEOREM ParentCorrect == Spec => []ParentIsAbove
<1>1. FilesInv => ParentIsAbove
  <2> SUFFICES ASSUME FilesInv, NEW p \in Processes,
                      NEW i \in 1 .. Len(pending[p])
               PROVE  LET dirs == Append(pending[p], call[p].path)
                      IN  /\ IsPrefix(Node[dirs[i]], Node[dirs[i + 1]])
                          /\ \/ Len(dirs[i]) < Len(dirs[i + 1])
                             \/ dirs[i] = call[p].path
    BY ParentDirIsRight DEF ParentIsAbove
  <2> DEFINE above == pending[p]
             path == call[p].path
             dirs == Append(above, path)
  <2>1. /\ above \in Seq(Paths \ {<<>>}) /\ call[p] \in Calls
        /\ IsChain(call[p], above)
    BY DEF FilesInv, TypeOK, Fits
  <2>2. path \in Paths \ {<<>>} /\ call[p].op \in {"createDir", "createPipe"}
    BY <2>1, CallType
  <2>3. /\ Len(above) \in Nat /\ Len(dirs) = Len(above) + 1
        /\ \A k \in 1 .. Len(above) : dirs[k] = above[k]
        /\ dirs[Len(above) + 1] = path
    BY <2>1, <2>2
  <2> HIDE DEF dirs, above, path
  <2>4. dirs[i] \in Paths \ {<<>>} /\ dirs[i + 1] \in Paths \ {<<>>}
    <3>1. dirs[i] \in Paths \ {<<>>}
      BY <2>1, <2>3 DEF above
    <3>2. CASE i = Len(above)
      BY <2>2, <2>3, <3>1, <3>2
    <3>3. CASE i # Len(above)
      <4>1. i + 1 \in 1 .. Len(above)
        BY <2>3, <3>3 DEF above
      <4> QED
        BY <2>1, <2>3, <3>1, <4>1
    <3> QED
      BY <3>2, <3>3
  <2>5. \/ dirs[i] = path /\ dirs[i + 1] = path
        \/ dirs[i] = parentDir(dirs[i + 1])
    <3>1. CASE i = Len(above)
      <4>1. dirs[i] = above[Len(above)] /\ dirs[i + 1] = path /\ above # <<>>
        BY <2>3, <3>1 DEF above
      <4> QED
        BY <2>1, <4>1 DEF IsChain, path
    <3>2. CASE i # Len(above)
      <4>1. i \in 1 .. Len(above) - 1 /\ i + 1 \in 1 .. Len(above)
            /\ i \in 1 .. Len(above)
        BY <2>3, <3>2 DEF above
      <4>2. above[i] = parentDir(above[i + 1])
        BY <2>1, <4>1 DEF IsChain
      <4> QED
        BY <2>3, <4>1, <4>2
    <3> QED
      BY <3>1, <3>2
  <2>6. \A o \in Paths \ {<<>>} : IsPrefix(Node[o], Node[o])
    BY NodeType DEF IsPrefix
  <2>7. CASE dirs[i] = path /\ dirs[i + 1] = path
    BY <2>2, <2>6, <2>7 DEF dirs, above, path
  <2>8. CASE dirs[i] = parentDir(dirs[i + 1])
    <3> DEFINE o == dirs[i + 1]
    <3>1. Len(dirs[i]) < Len(o)
      BY <2>4, <2>8, ParentDirIsShorter
    <3>2. Node[dirs[i]] = Node[o] \/ Node[dirs[i]] = Front(Node[o])
      BY <2>4, <2>8, ParentDirIsRight DEF PathsAreRight, ParentIsRight
    <3>3. Node[o] \in Seq(Symbols) /\ Len(Node[o]) \in Nat \ {0}
      BY <2>4, NodeType
    <3>4. IsPrefix(Front(Node[o]), Node[o])
      <4> DEFINE s == Node[o]
                 t == SubSeq(s, 1, Len(s) - 1)
      <4>1. s \in Seq(Symbols) /\ Len(s) \in Nat \ {0}
        BY <3>3
      <4> HIDE DEF s
      <4>2. t \in Seq(Symbols) /\ Len(t) = Len(s) - 1
        <5>1. CASE Len(s) = 1
          <6>1. Len(s) - 1 = 0
            BY <5>1
          <6>2. SubSeq(s, 1, 0) = <<>>
            BY <4>1, SubSeqEmpty
          <6>3. t = <<>>
            BY <6>1, <6>2
          <6> QED
            BY <6>1, <6>3, EmptySeq
        <5>2. CASE Len(s) # 1
          <6>1. \A n \in Nat \ {0} : n # 1 => n - 1 \in 1 .. n
            OBVIOUS
          <6>2. Len(s) - 1 \in 1 .. Len(s)
            BY <4>1, <5>2, <6>1
          <6> QED
            BY <4>1, <6>2, UptoType DEF Upto
        <5> QED
          BY <5>1, <5>2
      <4>3. SubSeq(t, 1, Len(t)) = t
        BY <4>2, SubSeqFull
      <4>4. Len(t) <= Len(s) /\ SubSeq(s, 1, Len(t)) = t
        BY <4>1, <4>2
      <4>5. IsPrefix(t, s)
        BY <4>3, <4>4 DEF IsPrefix
      <4> QED
        BY <4>5 DEF Front, s
    <3>5. IsPrefix(Node[dirs[i]], Node[o])
      BY <2>4, <2>6, <3>2, <3>4
    <3> QED
      BY <3>1, <3>5 DEF dirs, above, path
  <2> QED
    BY <2>5, <2>7, <2>8
<1> QED
  BY <1>1, FilesInvariant, PTL

\* A file that is there stays there: only what is not there is made.
LEMMA ThereStays ==
    ASSUME FilesInv, NEW p \in Processes, Step(p), NEW c \in Calls,
           IsThere(files, c)
    PROVE  IsThere(files', c)
<1>1. files[Node[c.path]] # None
  BY CallType, KindFacts DEF IsThere, Wanted, Locked, None
<1>2. files \in [Nodes -> Kinds] /\ Node[c.path] \in Nodes
  BY CallType DEF FilesInv, TypeOK
<1>3. \/ files' = files
      \/ \E n, v : files[n] = None /\ files' = [files EXCEPT ![n] = v]
  BY DEF Step, Access, Stat, CheckType, Mkdir, Mkfifo, Free
<1>4. files'[Node[c.path]] = files[Node[c.path]]
  BY <1>1, <1>2, <1>3
<1> QED
  BY <1>4 DEF IsThere

\* What another process does changes neither where a call is nor its history.
LEMMA OthersStay ==
    ASSUME FilesInv, NEW p \in Processes, Step(p) \/ Begin(p),
           NEW q \in Processes, q # p
    PROVE  /\ pc'[q] = pc[q] /\ call'[q] = call[q] /\ found'[q] = found[q]
           /\ pending'[q] = pending[q] /\ result'[q] = result[q]
<1> USE DEF FilesInv, TypeOK, GoTo, Return, LeaveCreateDir, CallFrame
<1>1. CASE Begin(p)
  BY <1>1 DEF Begin
<1>2. CASE Access(p)
  BY <1>2 DEF Access
<1>3. CASE Stat(p)
  BY <1>3 DEF Stat
<1>4. CASE CheckType(p)
  BY <1>4 DEF CheckType
<1>5. CASE Mkdir(p)
  BY <1>5 DEF Mkdir
<1>6. CASE Mkfifo(p)
  BY <1>6 DEF Mkfifo
<1> QED
  BY <1>1, <1>2, <1>3, <1>4, <1>5, <1>6 DEF Step

\* A call that begins with its file there is where it will be found.
LEMMA BeginFinds ==
    ASSUME FilesInv, NEW p \in Processes, Begin(p), found'[p]
    PROVE  pc'[p] # "idle" /\ IsFound(files', call'[p], pc'[p], pending'[p])
<1>1. PICK c \in Calls :
        /\ call' = [call EXCEPT ![p] = c]
        /\ found' = [found EXCEPT ![p] = There(c)]
        /\ IF c.op = "createPipe"
           THEN pc' = [pc EXCEPT ![p] = "access"] /\ UNCHANGED pending
           ELSE /\ pc' = [pc EXCEPT ![p] = "type"]
                /\ pending' = [pending EXCEPT ![p] = <<c.path>>]
  BY DEF Begin
<1>2. TypeOK /\ files' = files
  BY DEF Begin, FilesInv
<1>3. /\ call'[p] = c /\ There(c)
      /\ \/ pc'[p] = "access"
         \/ pc'[p] = "type" /\ pending'[p] = <<c.path>> /\ c.op # "createPipe"
  BY <1>1, <1>2 DEF TypeOK
<1>4. IsThere(files', c) /\ c.op \in {"createDir", "createPipe"}
  BY <1>2, <1>3, CallType DEF There, IsThere
<1> QED
  BY <1>3, <1>4 DEF IsFound

\* The call goes on to the file, and returns true.
LEMMA StepFinds ==
    ASSUME FilesInv, NEW p \in Processes, Step(p),
           IsFound(files, call[p], pc[p], pending[p])
    PROVE  IF pc'[p] = "idle" THEN result'[p] = "true"
           ELSE IsFound(files', call'[p], pc'[p], pending'[p])
<1> DEFINE c == call[p]
<1>1. TypeOK /\ IsTree(files) /\ c \in Calls
  BY DEF FilesInv, TypeOK
<1>2. IsThere(files, c) /\ pc[p] \in {"access", "stat", "type"}
  BY DEF IsFound
<1>3. Fits(files, c, pc[p], pending[p], result[p], could[p], raced[p])
  BY DEF FilesInv
<1>4. c.path \in Paths \ {<<>>} /\ c.mode \in Modes
  BY <1>1, CallType
<1>5. CASE Access(p)
  <2>1. pc[p] = "access" /\ c.op = "createPipe"
    BY <1>3, <1>5 DEF Access, Fits
  <2>2. StatType(c.path) = "namedPipe"
    BY <1>1, <1>2, <1>4, <2>1, StatFacts DEF IsThere, Wanted
  <2>3. GoTo(p, "stat", <<>>) /\ files' = files /\ call' = call
    BY <1>5, <2>2 DEF Access, CallFrame
  <2>4. pc'[p] = "stat"
    BY <1>1, <2>3 DEF TypeOK, GoTo
  <2> QED
    BY <1>2, <2>3, <2>4 DEF IsFound
<1>6. CASE Stat(p)
  <2>1. Return(p, "true")
    BY <1>2, <1>6 DEF Stat, IsThere
  <2> QED
    BY <1>1, <2>1 DEF Return, TypeOK
<1>7. CASE CheckType(p)
  <2>1. pc[p] = "type" /\ c.op = "createDir" /\ pending[p] = <<c.path>>
    BY <1>7 DEF CheckType, IsFound
  <2>2. files[Node[c.path]][1] = "directory"
    BY <1>2, <2>1 DEF IsThere, Wanted, Dir, Locked
  <2>3. getPathType(Head(pending[p])) = "directory"
    BY <1>1, <1>4, <2>1, <2>2, StatFacts
  <2>4. LeaveCreateDir(p)
    BY <1>7, <2>3 DEF CheckType
  <2>5. Return(p, "true")
    BY <2>1, <2>4 DEF LeaveCreateDir
  <2> QED
    BY <1>1, <2>5 DEF Return, TypeOK
<1>8. ~ Mkdir(p) /\ ~ Mkfifo(p)
  BY <1>2 DEF Mkdir, Mkfifo
<1> QED
  BY <1>5, <1>6, <1>7, <1>8 DEF Step

\* Every call that began with its file there returns true.
LEMMA NextFound == FilesInv /\ FoundInv /\ [Next]_vars => FoundInv'
<1> SUFFICES ASSUME FilesInv, FoundInv, [Next]_vars, NEW q \in Processes,
                    found'[q]
             PROVE  IF pc'[q] = "idle" THEN result'[q] = "true"
                    ELSE IsFound(files', call'[q], pc'[q], pending'[q])
  BY DEF FoundInv
<1>1. call[q] \in Calls
  BY DEF FilesInv, TypeOK
<1>2. CASE UNCHANGED vars
  BY <1>2 DEF vars, FoundInv
<1>3. ASSUME NEW p \in Processes, Begin(p) \/ Step(p), q # p
      PROVE  IF pc'[q] = "idle" THEN result'[q] = "true"
             ELSE IsFound(files', call'[q], pc'[q], pending'[q])
  <2>1. /\ pc'[q] = pc[q] /\ call'[q] = call[q] /\ found'[q] = found[q]
        /\ pending'[q] = pending[q] /\ result'[q] = result[q]
    BY <1>3, OthersStay
  <2>2. CASE pc[q] = "idle"
    BY <2>1, <2>2 DEF FoundInv
  <2>3. CASE pc[q] # "idle"
    <3>1. IsFound(files, call[q], pc[q], pending[q])
      BY <2>1, <2>3 DEF FoundInv
    <3>2. IsThere(files, call[q])
      BY <3>1 DEF IsFound
    <3>3. IsThere(files', call[q])
      <4>1. CASE Begin(p)
        BY <3>2, <4>1 DEF Begin
      <4>2. CASE Step(p)
        BY <1>1, <3>2, <4>2, ThereStays
      <4> QED
        BY <1>3, <4>1, <4>2
    <3>4. IsFound(files', call[q], pc[q], pending[q])
      BY <3>1, <3>3 DEF IsFound
    <3> QED
      BY <2>1, <2>3, <3>4, Zenon
  <2> QED
    BY <2>2, <2>3
<1>4. CASE Begin(q)
  BY <1>4, BeginFinds
<1>5. CASE Step(q)
  <2>1. found[q] /\ pc[q] # "idle"
    BY <1>5 DEF Step, Access, Stat, CheckType, Mkdir, Mkfifo, CallFrame
  <2>2. IsFound(files, call[q], pc[q], pending[q])
    BY <2>1 DEF FoundInv
  <2> QED
    BY <1>5, <2>2, StepFinds
<1> QED
  BY <1>2, <1>3, <1>4, <1>5 DEF Next

\* Whatever the others do, a call that began with its file there has not
\* returned false.  One that returned true has its file there, and one that
\* returned false could not make it or has lost a race.
THEOREM AnswerCorrect == Spec => []AnswerHasReason
<1>1. FilesInv /\ FoundInv => AnswerHasReason
  <2> SUFFICES ASSUME FilesInv, FoundInv, NEW p \in Processes
               PROVE  /\ result[p] = "true" => There(call[p])
                      /\ result[p] = "false" =>
                           ~ found[p] /\ (~ could[p] \/ raced[p])
    BY DEF AnswerHasReason
  <2>1. Fits(files, call[p], pc[p], pending[p], result[p], could[p], raced[p])
    BY DEF FilesInv
  <2>2. result[p] = "false" => ~ found[p]
    BY <2>1 DEF Fits, FoundInv
  <2> QED
    BY <2>1, <2>2 DEF Fits, IsThere, There
<1>2. Init => FoundInv
  BY DEF Init, FoundInv
<1>3. Spec => []FoundInv
  BY <1>2, NextFound, FilesInvariant, PTL DEF Spec
<1> QED
  BY <1>1, <1>3, FilesInvariant, PTL

\* However many processes there are, they do not all lose the race.
THEOREM SomeoneCorrect == Spec => []SomeoneSucceeds
<1>1. FilesInv => SomeoneSucceeds
  <2> SUFFICES ASSUME FilesInv, \A p \in Processes : pc[p] = "idle" /\ could[p]
               PROVE  \E p \in Processes : result[p] = "true"
    BY DEF SomeoneSucceeds
  <2>1. PICK p \in Processes :
          Wins(files, call[p], pc[p], pending[p], result[p], could[p], raced[p])
    BY DEF FilesInv
  <2>2. Fits(files, call[p], pc[p], pending[p], result[p], could[p], raced[p])
    BY DEF FilesInv
  <2>3. ~ raced[p] \/ result[p] = "true"
    BY <2>1 DEF Wins
  <2>4. result[p] # "none" /\ (result[p] = "false" => raced[p])
    BY <2>2 DEF Fits
  <2>5. result[p] \in {"none", "true", "false"}
    BY DEF FilesInv, TypeOK
  <2> QED
    BY <2>3, <2>4, <2>5
<1> QED
  BY <1>1, FilesInvariant, PTL
=============================================================================
