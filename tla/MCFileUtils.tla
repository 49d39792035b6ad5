---------------------------- MODULE MCFileUtils ----------------------------
EXTENDS FileUtils

\* Paths of up to five symbols, a name being one symbol.
ShortPaths == {path \in UNION {[1 .. n -> {"a", "/"}] : n \in 0 .. 5} :
                 \A i \in 1 .. Len(path) - 1 : path[i] = "a" => path[i + 1] = "/"}

CreateDir(path) == [op |-> "createDir", path |-> path, mode |-> "w"]
CreatePipe(path, mode) == [op |-> "createPipe", path |-> path, mode |-> mode]

\* Absolute and relative paths, slashes repeated inside and at the end, a
\* directory and a pipe of the same name.
SomeCalls ==
    {CreateDir(<<"/", "a", "/", "a">>), CreateDir(<<"a", "/", "/">>),
     CreateDir(<<"a", "/", "a", "/">>),
     CreatePipe(<<"/", "a", "/", "a">>, "w"),
     CreatePipe(<<"/", "a", "/", "/", "a">>, "r"),
     CreatePipe(<<"a", "/", "a", "/", "a">>, "w"), CreatePipe(<<"a", "/">>, "w")}

\* The pipe of one daemon, made by whoever needs it.
SamePipe == {CreatePipe(<<"/", "a">>, "w")}

\* Anything may be there under the root; in the working directory there are
\* directories or nothing.
SomeFiles ==
    {f \in [Nodes -> Kinds] :
       \A n \in Nodes :
         /\ IF Len(n) = 1 THEN f[n] = Dir
            ELSE f[n] # None => f[Front(n)][1] = "directory"
         /\ n[1] = "." => f[n] \in {None, Dir}}
=============================================================================
