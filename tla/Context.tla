------------------------------ MODULE Context ------------------------------
(***************************************************************************)
(* Context (src/base/Context.hpp): a directory the program keeps files in, *)
(* the default one, one of the custom ones, or a random temporary one that *)
(* a Context removes when it is destroyed.  A Context is a value: whoever  *)
(* takes one (ContextImplementation, Server) keeps a copy, and each copy   *)
(* runs the same destructor.                                               *)
(***************************************************************************)
EXTENDS FiniteSets, Functions, TLC

CONSTANTS
    Objects,            \* the places a Context object can live in
    TempDirs,           \* the directories random() may come up with
    CustomDirs          \* the directories custom() is asked for

DefaultDir == "default"
PersistentDirs == CustomDirs \cup {DefaultDir}
NoContext == [env |-> "none", path |-> "none"]

ASSUME ContextAssumption ==
    /\ IsFiniteSet(Objects)
    /\ TempDirs \cap PersistentDirs = {}
    /\ NoContext.path \notin TempDirs \cup PersistentDirs

VARIABLES
    dirs,               \* the directories that exist
    files,              \* the files: <<directory, name>> -> content
    live,               \* the Context object in each place, or NoContext
    abandoned           \* history: directories the program died using

contextVars == <<dirs, files, live, abandoned>>

ContextInit ==
    /\ dirs = {}
    /\ files = << >>
    /\ live = [o \in Objects |-> NoContext]
    /\ abandoned = {}

\* create_directories() takes a directory that is there already for created.
Construct(o, env, path) ==
    /\ live[o] = NoContext
    /\ live' = [live EXCEPT ![o] = [env |-> env, path |-> path]]
    /\ dirs' = dirs \cup {path}
    /\ UNCHANGED <<files, abandoned>>

normal(o) == Construct(o, "DEFAULT", DefaultDir)

custom(o) == \E path \in CustomDirs : Construct(o, "CUSTOM", path)

\* Nothing tells a number that was drawn before from a new one.
random(o) == \E path \in TempDirs : Construct(o, "RANDOM", path)

\* The copy that Server keeps in _appContext.
Copy(o, of) ==
    /\ live[o] = NoContext /\ live[of] # NoContext
    /\ live' = [live EXCEPT ![o] = live[of]]
    /\ UNCHANGED <<dirs, files, abandoned>>

\* A copy too, but one that creates its subfolders, and with them the
\* directory in case it is gone.
ContextImplementation(o, of) ==
    /\ live[o] = NoContext /\ live[of] # NoContext
    /\ live' = [live EXCEPT ![o] = live[of]]
    /\ dirs' = dirs \cup {live[of].path}
    /\ UNCHANGED <<files, abandoned>>

\* What the file system holds once remove_all() is through with a directory.
RemoveAll(path) ==
    /\ dirs' = dirs \ {path}
    /\ files' = Restrict(files, {f \in DOMAIN files : f[1] # path})
    /\ abandoned' = abandoned \ {path}

\* Mutant of Destroy: a temporary directory is left behind.
DestroyKeeps(o) ==
    /\ live[o] # NoContext
    /\ live' = [live EXCEPT ![o] = NoContext]
    /\ UNCHANGED <<dirs, files, abandoned>>

\* ~Context(), of whichever copy.
Destroy(o) ==
    /\ live[o] # NoContext
    /\ live' = [live EXCEPT ![o] = NoContext]
    /\ IF live[o].env = "RANDOM" THEN RemoveAll(live[o].path)
       ELSE UNCHANGED <<dirs, files, abandoned>>

\* The program is killed: no destructor runs.
Crash ==
    /\ \E o \in Objects : live[o] # NoContext
    /\ live' = [o \in Objects |-> NoContext]
    /\ abandoned' = abandoned \cup
                    (dirs \cap {live[o].path : o \in Objects} \cap TempDirs)
    /\ UNCHANGED <<dirs, files>>

(***************************************************************************)
(* Properties                                                              *)
(***************************************************************************)
Holders(path) == {o \in Objects : live[o].path = path}

\* Once the last copy of a random Context is destroyed its directory is gone,
\* whatever the copies did in the meantime: also one that was removed under a
\* surviving copy and created again (~Context, Context.hpp:47).  Only a killed
\* program leaves one behind.
NoTemporaryLeft ==
    \A path \in dirs \cap TempDirs : path \in abandoned \/ Holders(path) # {}
=============================================================================
