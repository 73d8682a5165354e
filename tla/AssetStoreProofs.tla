-------------------------- MODULE AssetStoreProofs --------------------------
(***************************************************************************)
(* Proofs about Context and AssetStore, for any number of objects, of      *)
(* directories and of files, and for every hash: what the destructors of   *)
(* Contexts leave behind, and what a killed program leaves in a folder.    *)
(***************************************************************************)
EXTENDS AssetStore, TLAPS

Paths == TempDirs \cup PersistentDirs

Contexts ==
    [env : {"RANDOM"}, path : TempDirs]
        \cup [env : {"DEFAULT", "CUSTOM"}, path : PersistentDirs]

\* A Context object removes its directory if and only if that is temporary.
LiveTypeOK == live \in [Objects -> Contexts \cup {NoContext}]

\* A persistent directory stays, once an object has it.
PersistentKept ==
    \A o \in Objects : live[o].path \in PersistentDirs => live[o].path \in dirs

ContextInv ==
    /\ LiveTypeOK
    /\ PersistentKept
    /\ NoTemporaryLeft

\* Files are in directories.
FilesInDirs == \A f \in DOMAIN files : f[1] \in dirs

\* The database is never written in the format it is read in.
DatabasesNotBinary ==
    \A path \in Paths :
        <<path, DbFile>> \in DOMAIN files => files[<<path, DbFile>>].format # "binary"

StoresLive ==
    /\ DOMAIN database = Objects
    /\ \A o \in Objects : database[o] # NoStore => live[o] \in Contexts

\* integrateAsset() works for a store, on an asset it was given.
StepOK ==
    /\ integrated \in Seq(Assets)
    /\ step = Idle \/ /\ step.at \in {"write", "save", "saved"}
                      /\ step.store \in Objects
                      /\ database[step.store] # NoStore
                      /\ step.asset \in Range(integrated)
                      /\ step = [at |-> step.at, store |-> step.store, asset |-> step.asset]

\* What a store has a record of was given to integrateAsset().
RecordsIntegrated ==
    \A o \in Objects : database[o] # NoStore =>
        \A key \in DOMAIN database[o] :
            \E asset \in Range(integrated) :
                asset.key = key /\ database[o][key] = Record(asset)

FileOf(o, key) == assetFilePath(live[o].path, database[o][key])

\* In a persistent folder it has its file, too.
MemoryHasFiles ==
    \A o \in Objects : database[o] # NoStore /\ live[o].path \in PersistentDirs =>
        \A key \in DOMAIN database[o] : FileOf(o, key) \in DOMAIN files

StoreInv ==
    /\ FilesInDirs
    /\ DatabasesNotBinary
    /\ StoresLive
    /\ StepOK
    /\ RecordsIntegrated
    /\ MemoryHasFiles
    /\ RecordsHaveFiles

StepFile == assetFilePath(live[step.store].path, step.asset)

\* The file of a record holds the whole content that belongs to its key, but
\* while integrateAsset() is writing it.
FilesWhole ==
    \A o \in Objects : database[o] # NoStore =>
        \A key \in DOMAIN database[o] :
            \/ FileOf(o, key) \notin DOMAIN files
            \/ step.at = "write" /\ FileOf(o, key) = StepFile
            \/ \A asset \in Assets : asset.key = key => files[FileOf(o, key)] = asset.content

FetchInv == FilesWhole /\ FetchedIsIntegrated

-----------------------------------------------------------------------------
(* Contexts.                                                               *)

\* Where an object lives that is not NoContext, and what its kind says of it.
LEMMA LiveFields ==
    ASSUME LiveTypeOK, NEW o \in Objects
    PROVE  /\ live[o] \in Contexts \/ live[o] = NoContext
           /\ live[o] = NoContext => live[o].path \notin Paths
           /\ live[o] # NoContext => live[o].path \in Paths
           /\ live[o].env = "RANDOM" <=> live[o].path \in TempDirs
           /\ live[o].path \in PersistentDirs => live[o].path \notin TempDirs
<1>1. live[o] \in Contexts \/ live[o] = NoContext
  BY DEF LiveTypeOK
<1>2. CASE live[o] = NoContext
  BY <1>2, ContextAssumption DEF NoContext, Paths
<1>3. CASE live[o] \in Contexts
  <2>1. \/ live[o].env = "RANDOM" /\ live[o].path \in TempDirs
        \/ live[o].env \in {"DEFAULT", "CUSTOM"} /\ live[o].path \in PersistentDirs
    BY <1>3 DEF Contexts
  <2> QED
    BY <1>1, <2>1, ContextAssumption DEF NoContext, Paths
<1> QED
  BY <1>1, <1>2, <1>3

\* A step gives one object a Context whose directory exists then.
LEMMA TakeContextInv ==
    ASSUME ContextInv, NEW o \in Objects, NEW c \in Contexts, NEW D,
           live[o] = NoContext,
           live' = [live EXCEPT ![o] = c],
           dirs' = dirs \cup D, D \subseteq {c.path},
           c.path \in PersistentDirs => c.path \in dirs',
           abandoned' = abandoned
    PROVE  ContextInv'
<1> USE DEF ContextInv
<1>1. LiveTypeOK' /\ live'[o] = c /\ \A p \in Objects : p # o => live'[p] = live[p]
  BY DEF LiveTypeOK
<1>2. PersistentKept'
  BY <1>1 DEF PersistentKept
<1>3. NoTemporaryLeft'
  <2> SUFFICES ASSUME NEW path \in dirs' \cap TempDirs, path \notin abandoned
               PROVE  \E p \in Objects : live'[p].path = path
    BY DEF NoTemporaryLeft, Holders
  <2>1. CASE path \in D
    BY <2>1, <1>1
  <2>2. CASE path \in dirs
    <3>1. PICK p \in Objects : live[p].path = path
      BY <2>2 DEF NoTemporaryLeft, Holders
    <3>2. p # o
      BY <3>1, LiveFields DEF Paths
    <3> QED
      BY <3>1, <3>2, <1>1
  <2> QED
    BY <2>1, <2>2
<1> QED
  BY <1>1, <1>2, <1>3

\* The constructors, the copies and the implementations of a Context.
LEMMA MakeContextInv ==
    ASSUME ContextInv, NEW o \in Objects,
           normal(o) \/ custom(o) \/ random(o)
               \/ \E of \in Objects : Copy(o, of) \/ ContextImplementation(o, of)
    PROVE  ContextInv'
<1>1. ASSUME NEW env, NEW path, Construct(o, env, path),
             \/ env = "RANDOM" /\ path \in TempDirs
             \/ env \in {"DEFAULT", "CUSTOM"} /\ path \in PersistentDirs
      PROVE  ContextInv'
  <2> DEFINE c == [env |-> env, path |-> path]
             D == {path}
  <2>1. c \in Contexts /\ c.path = path
    BY <1>1 DEF Contexts
  <2>2. /\ live[o] = NoContext /\ live' = [live EXCEPT ![o] = c]
        /\ dirs' = dirs \cup D /\ D \subseteq {c.path} /\ c.path \in dirs'
        /\ abandoned' = abandoned
    BY <1>1, <2>1 DEF Construct
  <2> HIDE DEF c, D
  <2> QED
    BY <2>1, <2>2, TakeContextInv
<1>2. ASSUME NEW of \in Objects, Copy(o, of) PROVE ContextInv'
  <2>1. live[of] \in Contexts
    BY <1>2, LiveFields DEF Copy, ContextInv
  <2>2. dirs' = dirs \cup {} /\ (live[of].path \in PersistentDirs => live[of].path \in dirs')
    BY <1>2 DEF Copy, ContextInv, PersistentKept
  <2> QED
    BY <1>2, <2>1, <2>2, TakeContextInv DEF Copy
<1>3. ASSUME NEW of \in Objects, ContextImplementation(o, of) PROVE ContextInv'
  <2>1. live[of] \in Contexts
    BY <1>3, LiveFields DEF ContextImplementation, ContextInv
  <2> DEFINE D == {live[of].path}
  <2>2. dirs' = dirs \cup D /\ D \subseteq {live[of].path} /\ live[of].path \in dirs'
    BY <1>3 DEF ContextImplementation
  <2> HIDE DEF D
  <2> QED
    BY <1>3, <2>1, <2>2, TakeContextInv DEF ContextImplementation
<1>4. DefaultDir \in PersistentDirs /\ CustomDirs \subseteq PersistentDirs
  BY DEF PersistentDirs
<1> QED
  BY <1>1, <1>2, <1>3, <1>4 DEF normal, custom, random

\* ~Context(): a directory is removed only if it is temporary, and while it is
\* there somebody holds it.
LEMMA DestroyContextInv ==
    ASSUME ContextInv, NEW o \in Objects, Destroy(o)
    PROVE  ContextInv'
<1> USE DEF ContextInv
<1>1. /\ LiveTypeOK'
      /\ live'[o] = NoContext
      /\ \A p \in Objects : p # o => live'[p] = live[p]
  BY DEF LiveTypeOK, Destroy
<1>2. /\ NoContext.path \notin PersistentDirs
      /\ NoContext.path \notin TempDirs
  BY ContextAssumption
<1>3. CASE live[o].path \in TempDirs
  <2>1. dirs' = dirs \ {live[o].path} /\ abandoned' = abandoned \ {live[o].path}
    BY <1>3, LiveFields DEF Destroy, RemoveAll
  <2>2. PersistentKept'
    BY <1>1, <1>2, <1>3, <2>1, ContextAssumption DEF PersistentKept
  <2>3. NoTemporaryLeft'
    BY <1>1, <2>1 DEF NoTemporaryLeft, Holders
  <2> QED
    BY <1>1, <2>2, <2>3
<1>4. CASE live[o].path \notin TempDirs
  <2>1. UNCHANGED <<dirs, abandoned>>
    BY <1>4, LiveFields DEF Destroy
  <2>2. PersistentKept' /\ NoTemporaryLeft'
    BY <1>1, <1>2, <1>4, <2>1 DEF PersistentKept, NoTemporaryLeft, Holders
  <2> QED
    BY <1>1, <2>2
<1> QED
  BY <1>3, <1>4

\* A killed program leaves what its objects held.
LEMMA CrashContextInv == ContextInv /\ Crash => ContextInv'
<1> SUFFICES ASSUME ContextInv, Crash PROVE ContextInv'
  OBVIOUS
<1> USE DEF ContextInv, Crash
<1>1. LiveTypeOK' /\ \A o \in Objects : live'[o] = NoContext
  BY DEF LiveTypeOK
<1>2. PersistentKept'
  BY <1>1, ContextAssumption DEF PersistentKept
<1>3. NoTemporaryLeft'
  BY DEF NoTemporaryLeft, Holders
<1> QED
  BY <1>1, <1>2, <1>3

\* Every step of the program keeps what is known of Contexts.
LEMMA StepContextInv == ContextInv /\ [Next]_vars => ContextInv'
<1> SUFFICES ASSUME ContextInv, [Next]_vars PROVE ContextInv'
  OBVIOUS
<1>1. ASSUME UNCHANGED <<dirs, live, abandoned>> PROVE ContextInv'
  BY <1>1 DEF ContextInv, LiveTypeOK, PersistentKept, NoTemporaryLeft, Holders
<1>2. ASSUME NEW o \in Objects, MakeContext(o) PROVE ContextInv'
  BY <1>2, MakeContextInv DEF MakeContext
<1>3. ASSUME NEW o \in Objects, DestroyObject(o) PROVE ContextInv'
  BY <1>3, DestroyContextInv DEF DestroyObject
<1>4. ASSUME NEW o \in Objects, NEW of \in Objects, AssetContext(o, of) PROVE ContextInv'
  BY <1>4, MakeContextInv DEF AssetContext
<1>5. ASSUME NEW o \in Objects, NEW asset \in Assets,
             OpenAsset(o, asset) \/ fetchAsset(o, asset.key)
      PROVE  ContextInv'
  BY <1>5, <1>1 DEF OpenAsset, Write, fetchAsset, contextVars
<1>6. CASE WriteAsset \/ OpenDatabase \/ WriteDatabase
  BY <1>6, <1>1 DEF WriteAsset, OpenDatabase, WriteDatabase, Write
<1>7. CASE Killed
  BY <1>7, CrashContextInv DEF Killed
<1>8. CASE UNCHANGED vars
  BY <1>8, <1>1 DEF vars, contextVars
<1> QED
  BY <1>2, <1>3, <1>4, <1>5, <1>6, <1>7, <1>8 DEF Next

\* No object, no directory.
LEMMA InitContextInv == Init => ContextInv
BY ContextAssumption DEF Init, ContextInit, ContextInv, LiveTypeOK, PersistentKept,
                         NoTemporaryLeft

\* The invariant of the Contexts holds in every behaviour of the program.
THEOREM ContextInvariance == Spec => []ContextInv
BY InitContextInv, StepContextInv, PTL DEF Spec

\* When the last copy of a random Context is destroyed, its directory is gone;
\* only a killed program leaves one.
THEOREM TemporariesRemoved == Spec => []NoTemporaryLeft
BY ContextInvariance, PTL DEF ContextInv

-----------------------------------------------------------------------------
(* Files, assets and records.                                              *)

\* What createAsset() puts into an asset.
LEMMA AssetFields ==
    ASSUME NEW asset \in Assets
    PROVE  /\ asset.key \in Nat
           /\ \E source \in Sources : /\ asset.key = Hash(source.content)
                                      /\ asset.content = source.content
           /\ asset = [key |-> asset.key, extension |-> asset.extension,
                       content |-> asset.content, dimensions |-> asset.dimensions]
<1>1. PICK source \in Sources : asset \in createAsset(source)
  BY DEF Assets
<1>2. /\ asset.key = Hash(source.content)
      /\ asset.content = source.content
      /\ asset = [key |-> asset.key, extension |-> asset.extension,
                  content |-> asset.content, dimensions |-> asset.dimensions]
  BY <1>1 DEF createAsset
<1>3. Hash(source.content) \in Nat
  BY AssetAssumption
<1> QED
  BY <1>2, <1>3

\* A record has the key and the extension of its asset, so it names its file.
LEMMA RecordNamesFile ==
    ASSUME NEW asset \in Assets, NEW path
    PROVE  /\ assetFilePath(path, Record(asset)) = assetFilePath(path, asset)
           /\ Record(asset).key = asset.key
<1>1. Record(asset).key = asset.key /\ Record(asset).extension = asset.extension
  BY AssetFields DEF Record
<1> QED
  BY <1>1 DEF assetFilePath

\* The file of an asset is not the database, and its name tells the key.
LEMMA FileNames ==
    /\ \A path, asset : assetFilePath(path, asset)[1] = path
    /\ \A path, other : <<path, other>>[1] = path
    /\ \A path, other, asset :
          asset.key \in Nat => assetFilePath(path, asset) # <<other, DbFile>>
    /\ \A p, q, a, b : assetFilePath(p, a) = assetFilePath(q, b) => p = q /\ a.key = b.key
    /\ \A p, q : <<p, DbFile>> = <<q, DbFile>> => p = q
<1>1. \A path, other, asset :
          asset.key \in Nat => assetFilePath(path, asset) # <<other, DbFile>>
  <2> SUFFICES ASSUME NEW path, NEW other, NEW asset, asset.key \in Nat,
                      assetFilePath(path, asset) = <<other, DbFile>>
               PROVE  FALSE
    OBVIOUS
  <2>1. <<asset.key, asset.extension>> = <<-1, "resources.json">>
    BY DEF assetFilePath, DbFile
  <2>2. asset.key = -1
    BY <2>1
  <2> QED
    BY <2>2
<1>2. \A p, q, a, b : assetFilePath(p, a) = assetFilePath(q, b) => p = q /\ a.key = b.key
  <2> SUFFICES ASSUME NEW p, NEW q, NEW a, NEW b, assetFilePath(p, a) = assetFilePath(q, b)
               PROVE  p = q /\ a.key = b.key
    OBVIOUS
  <2>1. p = q /\ <<a.key, a.extension>> = <<b.key, b.extension>>
    BY DEF assetFilePath
  <2> QED
    BY <2>1
<1>3. \A path, asset : assetFilePath(path, asset)[1] = path
  BY DEF assetFilePath
<1> QED
  BY <1>1, <1>2, <1>3

\* A write touches one file, and only in a directory that exists.
LEMMA Written ==
    ASSUME NEW file, NEW content, Write(file, content)
    PROVE  /\ UNCHANGED <<dirs, live, abandoned>>
           /\ \A f \in DOMAIN files : f \in DOMAIN files'
           /\ \A f \in DOMAIN files : f # file => files'[f] = files[f]
           /\ \A f \in DOMAIN files' : f # file => f \in DOMAIN files
           /\ file[1] \in dirs => file \in DOMAIN files' /\ files'[file] = content
           /\ file[1] \notin dirs => files' = files
<1>1. CASE file[1] \in dirs
  <2>1. files' = [k \in DOMAIN files \cup {file} |-> IF k = file THEN content ELSE files[k]]
    BY <1>1 DEF Write, Assigned
  <2>2. /\ DOMAIN files' = DOMAIN files \cup {file}
        /\ files'[file] = content
        /\ \A f \in DOMAIN files : f # file => files'[f] = files[f]
    BY <2>1
  <2> QED
    BY <1>1, <2>2 DEF Write
<1>2. CASE file[1] \notin dirs
  BY <1>2 DEF Write
<1> QED
  BY <1>1, <1>2

\* integrated only grows.
LEMMA IntegratedGrows ==
    ASSUME integrated \in Seq(Assets), NEW asset \in Assets,
           integrated' = Append(integrated, asset)
    PROVE  /\ integrated' \in Seq(Assets)
           /\ Range(integrated') = Range(integrated) \cup {asset}
<1>1. integrated' \in Seq(Assets)
  OBVIOUS
<1>2. /\ DOMAIN integrated = 1..Len(integrated)
      /\ DOMAIN integrated' = 1..(Len(integrated) + 1)
      /\ Len(integrated) \in Nat
      /\ \A i \in DOMAIN integrated : integrated'[i] = integrated[i]
      /\ integrated'[Len(integrated) + 1] = asset
  OBVIOUS
<1>3. DOMAIN integrated' = DOMAIN integrated \cup {Len(integrated) + 1}
  BY <1>2
<1> QED
  BY <1>1, <1>2, <1>3 DEF Range

\* What was integrated are assets.
LEMMA IntegratedAreAssets ==
    StepOK => Range(integrated) \subseteq Assets
BY DEF StepOK, Range

-----------------------------------------------------------------------------
(* The stores.                                                             *)

\* A step that leaves the files and the stores alone, and makes no object of
\* a store anything else: constructors, copies, fetchAsset().
LEMMA StoresStay ==
    ASSUME ContextInv, StoreInv,
           UNCHANGED <<files, database, step, integrated>>,
           dirs \subseteq dirs',
           \A o \in Objects : live[o] # NoContext => live'[o] = live[o]
    PROVE  StoreInv'
<1> USE DEF StoreInv
<1>0. \A o \in Objects : database[o] # NoStore => live'[o] = live[o]
  <2> SUFFICES ASSUME NEW o \in Objects, database[o] # NoStore PROVE live[o] # NoContext
    OBVIOUS
  <2>1. live[o] \in Contexts
    BY DEF StoresLive
  <2> QED
    BY <2>1, ContextAssumption DEF Contexts, NoContext
<1>1. FilesInDirs' /\ DatabasesNotBinary'
  BY DEF FilesInDirs, DatabasesNotBinary
<1>2. StoresLive'
  BY <1>0 DEF StoresLive
<1>3. StepOK' /\ RecordsIntegrated'
  BY DEF StepOK, RecordsIntegrated
<1>4. MemoryHasFiles'
  BY <1>0 DEF MemoryHasFiles, FileOf
<1>5. RecordsHaveFiles'
  <2> SUFFICES ASSUME NEW path \in PersistentDirs, <<path, DbFile>> \in DOMAIN files,
                      NEW key \in DOMAIN files[<<path, DbFile>>].db
               PROVE  assetFilePath(path, files[<<path, DbFile>>].db[key]) \in DOMAIN files
    BY DEF RecordsHaveFiles
  <2>1. <<path, DbFile>>[1] \in dirs
    BY DEF FilesInDirs
  <2>2. path \in dirs
    BY <2>1, FileNames
  <2> QED
    BY <2>2 DEF RecordsHaveFiles
<1> QED
  BY <1>1, <1>2, <1>3, <1>4, <1>5

\* The constructor of an AssetContext: it makes an empty database of whatever
\* is in the file, which is never in the format it reads.
LEMMA AssetContextStoreInv ==
    ASSUME ContextInv, StoreInv, NEW o \in Objects, NEW of \in Objects, AssetContext(o, of)
    PROVE  /\ database' = [database EXCEPT ![o] = << >>]
           /\ StoreInv'
<1> USE DEF StoreInv
<1>1. /\ live[o] = NoContext /\ live[of] # NoContext
      /\ live' = [live EXCEPT ![o] = live[of]]
      /\ dirs' = dirs \cup {live[of].path}
      /\ UNCHANGED <<files, abandoned, step, integrated>>
      /\ step = Idle
  BY DEF AssetContext, ContextImplementation
<1>2. /\ live[of] \in Contexts
      /\ live[of].path \in Paths
      /\ live'[o] = live[of]
      /\ \A p \in Objects : p # o => live'[p] = live[p]
  BY <1>1, LiveFields DEF ContextInv, LiveTypeOK
<1>3. database' = [database EXCEPT ![o] = << >>]
  <2>1. LET file == <<live[of].path, DbFile>>
        IN  file \in DOMAIN files => ParseFromIstream(files[file]) = << >>
    BY <1>2 DEF DatabasesNotBinary, ParseFromIstream
  <2> QED
    BY <2>1 DEF AssetContext
<1>4. /\ database'[o] = << >>
      /\ \A p \in Objects : p # o => database'[p] = database[p]
      /\ DOMAIN database' = Objects
  BY <1>3 DEF StoresLive
<1>5. FilesInDirs' /\ DatabasesNotBinary'
  BY <1>1 DEF FilesInDirs, DatabasesNotBinary
<1>6. StoresLive'
  BY <1>2, <1>4 DEF StoresLive
<1>7. StepOK'
  BY <1>1 DEF StepOK
<1>8. RecordsIntegrated' /\ MemoryHasFiles'
  BY <1>1, <1>2, <1>4 DEF RecordsIntegrated, MemoryHasFiles, FileOf
<1>9. RecordsHaveFiles'
  <2> SUFFICES ASSUME NEW path \in PersistentDirs, <<path, DbFile>> \in DOMAIN files,
                      NEW key \in DOMAIN files[<<path, DbFile>>].db
               PROVE  assetFilePath(path, files[<<path, DbFile>>].db[key]) \in DOMAIN files
    BY <1>1 DEF RecordsHaveFiles
  <2>1. <<path, DbFile>>[1] \in dirs
    BY DEF FilesInDirs
  <2>2. path \in dirs
    BY <2>1, FileNames
  <2> QED
    BY <2>2 DEF RecordsHaveFiles
<1> QED
  BY <1>3, <1>5, <1>6, <1>7, <1>8, <1>9

\* A destroyed object takes at most a temporary directory with it.
LEMMA DestroyStoreInv ==
    ASSUME ContextInv, StoreInv, NEW o \in Objects, DestroyObject(o)
    PROVE  StoreInv'
<1> USE DEF StoreInv
<1>1. /\ live' = [live EXCEPT ![o] = NoContext]
      /\ database' = [database EXCEPT ![o] = NoStore]
      /\ UNCHANGED <<step, integrated>>
      /\ step = Idle
  BY DEF DestroyObject, Destroy
<1>2. /\ database'[o] = NoStore
      /\ \A p \in Objects : p # o => database'[p] = database[p] /\ live'[p] = live[p]
      /\ DOMAIN database' = Objects
  BY <1>1 DEF StoresLive, ContextInv, LiveTypeOK
<1>3. \E gone \in Paths :
         \/ /\ gone \in TempDirs
            /\ dirs' = dirs \ {gone}
            /\ files' = [f \in {g \in DOMAIN files : g[1] # gone} |-> files[f]]
         \/ UNCHANGED <<dirs, files>>
  <2>1. CASE live[o].env = "RANDOM"
    BY <2>1, LiveFields DEF ContextInv, DestroyObject, Destroy, RemoveAll, Restrict, Paths
  <2>2. CASE live[o].env # "RANDOM"
    BY <2>2 DEF DestroyObject, Destroy, Paths, PersistentDirs
  <2> QED
    BY <2>1, <2>2
<1>4. /\ dirs' \subseteq dirs
      /\ \A f \in DOMAIN files' : f \in DOMAIN files /\ files'[f] = files[f] /\ f[1] \in dirs'
      /\ \A f \in DOMAIN files : f[1] \notin TempDirs => f \in DOMAIN files'
  BY <1>3 DEF FilesInDirs
<1>5. FilesInDirs' /\ DatabasesNotBinary'
  BY <1>4 DEF FilesInDirs, DatabasesNotBinary
<1>6. StoresLive'
  BY <1>2 DEF StoresLive
<1>7. StepOK' /\ RecordsIntegrated'
  BY <1>1, <1>2 DEF StepOK, RecordsIntegrated
<1>8. \A path \in PersistentDirs : path \notin TempDirs
  BY ContextAssumption
<1>9. MemoryHasFiles'
  <2> SUFFICES ASSUME NEW p \in Objects, database'[p] # NoStore,
                      live'[p].path \in PersistentDirs, NEW key \in DOMAIN database'[p]
               PROVE  assetFilePath(live'[p].path, database'[p][key]) \in DOMAIN files'
    BY DEF MemoryHasFiles, FileOf
  <2>1. p # o /\ database'[p] = database[p] /\ live'[p] = live[p]
    BY <1>2
  <2>2. assetFilePath(live[p].path, database[p][key]) \in DOMAIN files
    BY <2>1 DEF MemoryHasFiles, FileOf
  <2> QED
    BY <2>1, <2>2, <1>4, <1>8, FileNames
<1>10. RecordsHaveFiles'
  BY <1>4, <1>8, FileNames DEF RecordsHaveFiles
<1> QED
  BY <1>5, <1>6, <1>7, <1>9, <1>10

\* What every write keeps: files stay in directories, and no store or database
\* loses the file of a record.
LEMMA WriteKeepsFiles ==
    ASSUME StoreInv, NEW file, NEW content, Write(file, content)
    PROVE  /\ FilesInDirs'
           /\ \A o \in Objects : database[o] # NoStore /\ live[o].path \in PersistentDirs =>
                 \A key \in DOMAIN database[o] : FileOf(o, key) \in DOMAIN files'
           /\ \A path \in PersistentDirs :
                 LET db == <<path, DbFile>>
                 IN  db \in DOMAIN files =>
                        \A key \in DOMAIN files[db].db :
                            assetFilePath(path, files[db].db[key]) \in DOMAIN files'
<1>1. FilesInDirs'
  <2> SUFFICES ASSUME NEW f \in DOMAIN files' PROVE f[1] \in dirs
    BY Written DEF FilesInDirs
  <2>1. CASE f \in DOMAIN files
    BY <2>1 DEF StoreInv, FilesInDirs
  <2>2. CASE f \notin DOMAIN files
    <3>1. f = file
      BY <2>2, Written
    <3>2. files' # files
      BY <2>2
    <3> QED
      BY <3>1, <3>2, Written
  <2> QED
    BY <2>1, <2>2
<1>2. ASSUME NEW path \in PersistentDirs, <<path, DbFile>> \in DOMAIN files,
             NEW key \in DOMAIN files[<<path, DbFile>>].db
      PROVE  assetFilePath(path, files[<<path, DbFile>>].db[key]) \in DOMAIN files'
  <2>1. <<path, DbFile>>[1] \in dirs
    BY <1>2 DEF StoreInv, FilesInDirs
  <2>2. path \in dirs
    BY <2>1, FileNames
  <2>3. assetFilePath(path, files[<<path, DbFile>>].db[key]) \in DOMAIN files
    BY <1>2, <2>2 DEF StoreInv, RecordsHaveFiles
  <2> QED
    BY <2>3, Written
<1>3. ASSUME NEW o \in Objects, database[o] # NoStore, live[o].path \in PersistentDirs,
             NEW key \in DOMAIN database[o]
      PROVE  FileOf(o, key) \in DOMAIN files'
  BY <1>3, Written DEF StoreInv, MemoryHasFiles
<1> QED
  BY <1>1, <1>2, <1>3

\* A write to the file of an asset leaves the databases as they are.
LEMMA AssetFileWritten ==
    ASSUME StoreInv, NEW path, NEW asset \in Assets, NEW content,
           Write(assetFilePath(path, asset), content)
    PROVE  DatabasesNotBinary' /\ RecordsHaveFiles'
<1>1. \A p : <<p, DbFile>> # assetFilePath(path, asset)
  BY AssetFields, FileNames
<1>2. \A p : <<p, DbFile>> \in DOMAIN files' =>
         <<p, DbFile>> \in DOMAIN files /\ files'[<<p, DbFile>>] = files[<<p, DbFile>>]
  BY <1>1, Written
<1>3. DatabasesNotBinary'
  BY <1>2 DEF StoreInv, DatabasesNotBinary
<1>4. RecordsHaveFiles'
  BY <1>2, WriteKeepsFiles, Written DEF RecordsHaveFiles
<1> QED
  BY <1>3, <1>4

\* integrateAsset() opens the asset's file.
LEMMA OpenAssetStoreInv ==
    ASSUME ContextInv, StoreInv, NEW o \in Objects, NEW asset \in Assets, OpenAsset(o, asset)
    PROVE  StoreInv'
<1> DEFINE file == assetFilePath(live[o].path, asset)
<1>1. /\ Write(file, << >>)
      /\ step' = [at |-> "write", store |-> o, asset |-> asset]
      /\ integrated' = Append(integrated, asset)
      /\ UNCHANGED database
      /\ database[o] # NoStore
  BY DEF OpenAsset, Stores
<1>2. UNCHANGED live
  BY <1>1, Written
<1>3. FilesInDirs' /\ DatabasesNotBinary' /\ RecordsHaveFiles'
  BY <1>1, WriteKeepsFiles, AssetFileWritten
<1>4. StoresLive'
  BY <1>1, <1>2 DEF StoreInv, StoresLive
<1>5. /\ integrated' \in Seq(Assets)
      /\ Range(integrated') = Range(integrated) \cup {asset}
  BY <1>1, IntegratedGrows DEF StoreInv, StepOK
<1>6. StepOK'
  BY <1>1, <1>5 DEF StepOK
<1>7. RecordsIntegrated'
  BY <1>1, <1>5 DEF StoreInv, RecordsIntegrated
<1>8. MemoryHasFiles'
  BY <1>1, <1>2, WriteKeepsFiles DEF MemoryHasFiles, FileOf
<1> QED
  BY <1>3, <1>4, <1>6, <1>7, <1>8 DEF StoreInv

\* What the step of integrateAsset() is about.
LEMMA StepFields ==
    ASSUME ContextInv, StoreInv, step.at \in {"write", "save", "saved"}
    PROVE  /\ step.store \in Objects
           /\ database[step.store] # NoStore
           /\ step.asset \in Range(integrated)
           /\ step.asset \in Assets
           /\ live[step.store] \in Contexts
           /\ live[step.store].path \in Paths
           /\ step = [at |-> step.at, store |-> step.store, asset |-> step.asset]
<1>1. step # Idle
  BY DEF Idle
<1>2. /\ step.store \in Objects
      /\ database[step.store] # NoStore
      /\ step.asset \in Range(integrated)
      /\ step = [at |-> step.at, store |-> step.store, asset |-> step.asset]
  BY <1>1 DEF StoreInv, StepOK
<1>3. live[step.store] \in Contexts
  BY <1>2 DEF StoreInv, StoresLive
<1>4. live[step.store] # NoContext
  BY <1>3, ContextAssumption DEF Contexts, NoContext
<1> QED
  BY <1>2, <1>3, <1>4, LiveFields, IntegratedAreAssets DEF StoreInv, ContextInv

\* The database of a store after insert().
IsInsertion(db, key, record, after) ==
    /\ DOMAIN after = DOMAIN db \cup {key}
    /\ \A k \in DOMAIN db : after[k] = db[k]
    /\ key \notin DOMAIN db => after[key] = record

\* insert() adds a key or nothing, and changes no record.
LEMMA AfterInsert ==
    ASSUME NEW db, NEW key, NEW record
    PROVE  IsInsertion(db, key, record, Inserted(db, key, record))
<1>1. CASE key \in DOMAIN db
  BY <1>1 DEF Inserted, IsInsertion
<1>2. CASE key \notin DOMAIN db
  <2>1. Inserted(db, key, record)
          = [k \in DOMAIN db \cup {key} |-> IF k = key THEN record ELSE db[k]]
    BY <1>2 DEF Inserted, Assigned
  <2> QED
    BY <1>2, <2>1 DEF IsInsertion
<1> QED
  BY <1>1, <1>2

\* The bytes are written, then the record is inserted.
LEMMA WriteAssetStoreInv == ContextInv /\ StoreInv /\ WriteAsset => StoreInv'
<1> SUFFICES ASSUME ContextInv, StoreInv, WriteAsset PROVE StoreInv'
  OBVIOUS
<1> DEFINE o == step.store
           asset == step.asset
           file == assetFilePath(live[o].path, asset)
           key == asset.key
<1>1. /\ step.at = "write"
      /\ Write(file, asset.content)
      /\ database' = [database EXCEPT ![o] = Inserted(@, key, Record(asset))]
      /\ step' = [step EXCEPT !.at = "save"]
      /\ UNCHANGED integrated
  BY DEF WriteAsset
<1>2. /\ o \in Objects
      /\ database[o] # NoStore
      /\ asset \in Range(integrated)
      /\ asset \in Assets
      /\ live[o] \in Contexts
      /\ step = [at |-> step.at, store |-> o, asset |-> asset]
  BY <1>1, StepFields
<1>3. /\ UNCHANGED live
      /\ DOMAIN database' = Objects
      /\ database'[o] = Inserted(database[o], key, Record(asset))
      /\ \A p \in Objects : p # o => database'[p] = database[p]
  BY <1>1, <1>2, Written DEF StoreInv, StoresLive
<1>4. /\ DOMAIN database'[o] = DOMAIN database[o] \cup {key}
      /\ \A k \in DOMAIN database[o] : database'[o][k] = database[o][k]
      /\ key \notin DOMAIN database[o] => database'[o][key] = Record(asset)
  <2>1. IsInsertion(database[o], key, Record(asset),
                   Inserted(database[o], key, Record(asset)))
    BY ONLY AfterInsert, Zenon
  <2>2. database'[o] = Inserted(database[o], key, Record(asset))
    BY <1>3
  <2>3. IsInsertion(database[o], key, Record(asset), database'[o])
    BY ONLY <2>1, <2>2
  <2> QED
    BY ONLY <2>3 DEF IsInsertion
<1>5. \A k \in DOMAIN database'[o] :
         \E a \in Range(integrated) : a.key = k /\ database'[o][k] = Record(a)
  <2> SUFFICES ASSUME NEW k \in DOMAIN database'[o]
               PROVE  \E a \in Range(integrated) : a.key = k /\ database'[o][k] = Record(a)
    OBVIOUS
  <2>1. CASE k \in DOMAIN database[o]
    BY <2>1, <1>2, <1>4 DEF StoreInv, RecordsIntegrated
  <2>2. CASE k \notin DOMAIN database[o]
    BY <2>2, <1>2, <1>4
  <2> QED
    BY <2>1, <2>2
<1>6. database'[o] # NoStore
  <2>1. -1 \notin DOMAIN database'[o]
    <3>1. \A a \in Range(integrated) : a.key \in Nat
      BY IntegratedAreAssets, AssetFields DEF StoreInv
    <3>2. \A k \in DOMAIN database'[o] : k \in Nat
      BY <1>5, <3>1
    <3> QED
      BY <3>2
  <2>2. -1 \in DOMAIN NoStore
    BY DEF NoStore, NoAsset
  <2> QED
    BY <2>1, <2>2
<1>7. FilesInDirs' /\ DatabasesNotBinary' /\ RecordsHaveFiles'
  BY <1>1, <1>2, WriteKeepsFiles, AssetFileWritten
<1>8. StoresLive'
  BY <1>2, <1>3 DEF StoreInv, StoresLive
<1>9. /\ step'.at = "save" /\ step'.store = o /\ step'.asset = asset
      /\ step' = [at |-> "save", store |-> o, asset |-> asset]
  BY <1>1, <1>2
<1>10. StepOK'
  BY <1>1, <1>2, <1>6, <1>9 DEF StoreInv, StepOK
<1>11. RecordsIntegrated'
  BY <1>1, <1>3, <1>5 DEF StoreInv, RecordsIntegrated
<1>12. MemoryHasFiles'
  <2> SUFFICES ASSUME NEW p \in Objects, database'[p] # NoStore,
                      live[p].path \in PersistentDirs, NEW k \in DOMAIN database'[p]
               PROVE  assetFilePath(live[p].path, database'[p][k]) \in DOMAIN files'
    BY <1>3 DEF MemoryHasFiles, FileOf
  <2>1. CASE p # o
    BY <2>1, <1>1, <1>3, WriteKeepsFiles DEF FileOf
  <2>2. CASE p = o /\ k \in DOMAIN database[o]
    BY <2>2, <1>1, <1>2, <1>4, WriteKeepsFiles DEF FileOf
  <2>3. CASE p = o /\ k \notin DOMAIN database[o]
    <3>1. database'[p][k] = Record(asset)
      BY <2>3, <1>4
    <3>2. assetFilePath(live[p].path, database'[p][k]) = file
      BY <2>3, <3>1, <1>2, RecordNamesFile
    <3>3. file[1] \in dirs
      BY <2>3, FileNames DEF ContextInv, PersistentKept
    <3> QED
      BY <3>2, <3>3, <1>1, Written
  <2> QED
    BY <2>1, <2>2, <2>3
<1> QED
  BY <1>7, <1>8, <1>10, <1>11, <1>12 DEF StoreInv

\* _saveState() opens and then writes the database's file: the records it
\* writes are those of a store.
LEMMA DatabaseStoreInv ==
    ContextInv /\ StoreInv /\ (OpenDatabase \/ WriteDatabase) => StoreInv'
<1> SUFFICES ASSUME ContextInv, StoreInv, OpenDatabase \/ WriteDatabase PROVE StoreInv'
  OBVIOUS
<1> DEFINE o == step.store
           path == live[o].path
           file == <<path, DbFile>>
<1>1. step.at \in {"save", "saved"} /\ UNCHANGED <<database, integrated>>
  BY DEF OpenDatabase, WriteDatabase
<1>2. PICK content :
         /\ Write(file, content)
         /\ content.format # "binary"
         /\ DOMAIN content.db = {} \/ content.db = database[o]
  BY DEF OpenDatabase, WriteDatabase, Json
<1>3. /\ o \in Objects
      /\ database[o] # NoStore
      /\ step.asset \in Range(integrated)
      /\ step = [at |-> step.at, store |-> o, asset |-> step.asset]
  BY <1>1, StepFields
<1>4. UNCHANGED <<live, dirs>>
  BY <1>2, Written
<1>5. \A p : <<p, DbFile>> \in DOMAIN files' =>
         \/ /\ <<p, DbFile>> \in DOMAIN files
            /\ files'[<<p, DbFile>>] = files[<<p, DbFile>>]
         \/ p = path /\ files'[<<p, DbFile>>] = content
  <2> SUFFICES ASSUME NEW p, <<p, DbFile>> \in DOMAIN files'
               PROVE  \/ /\ <<p, DbFile>> \in DOMAIN files
                         /\ files'[<<p, DbFile>>] = files[<<p, DbFile>>]
                      \/ p = path /\ files'[<<p, DbFile>>] = content
    OBVIOUS
  <2>1. CASE <<p, DbFile>> # file
    BY <2>1, <1>2, Written
  <2>2. CASE <<p, DbFile>> = file
    BY <2>2, <1>2, Written, FileNames
  <2> QED
    BY <2>1, <2>2
<1>6. FilesInDirs' /\ MemoryHasFiles'
  BY <1>1, <1>2, <1>4, WriteKeepsFiles DEF MemoryHasFiles, FileOf
<1>7. DatabasesNotBinary'
  BY <1>2, <1>5 DEF StoreInv, DatabasesNotBinary
<1>8. StoresLive' /\ RecordsIntegrated'
  BY <1>1, <1>4 DEF StoreInv, StoresLive, RecordsIntegrated
<1>9. StepOK'
  <2>1. CASE OpenDatabase
    <3>1. /\ step'.at = "saved" /\ step'.store = o /\ step'.asset = step.asset
          /\ step' = [at |-> "saved", store |-> o, asset |-> step.asset]
      BY <2>1, <1>3 DEF OpenDatabase
    <3> QED
      BY <3>1, <1>1, <1>3 DEF StoreInv, StepOK
  <2>2. CASE WriteDatabase
    BY <2>2, <1>1 DEF WriteDatabase, StoreInv, StepOK, Idle
  <2> QED
    BY <2>1, <2>2
<1>10. RecordsHaveFiles'
  <2> SUFFICES ASSUME NEW p \in PersistentDirs, <<p, DbFile>> \in DOMAIN files',
                      NEW key \in DOMAIN files'[<<p, DbFile>>].db
               PROVE  assetFilePath(p, files'[<<p, DbFile>>].db[key]) \in DOMAIN files'
    BY DEF RecordsHaveFiles
  <2>1. CASE <<p, DbFile>> \in DOMAIN files /\ files'[<<p, DbFile>>] = files[<<p, DbFile>>]
    BY <2>1, <1>2, WriteKeepsFiles
  <2>2. CASE p = path /\ files'[<<p, DbFile>>] = content
    <3>1. key \in DOMAIN database[o] /\ content.db = database[o]
      BY <2>2, <1>2
    <3>2. FileOf(o, key) \in DOMAIN files'
      BY <3>1, <2>2, <1>2, <1>3, WriteKeepsFiles
    <3> QED
      BY <3>1, <3>2, <2>2 DEF FileOf
  <2> QED
    BY <2>1, <2>2, <1>5
<1> QED
  BY <1>6, <1>7, <1>8, <1>9, <1>10 DEF StoreInv

\* The program is killed: nothing is left but the files.
LEMMA KilledStoreInv == StoreInv /\ Killed => StoreInv'
<1> SUFFICES ASSUME StoreInv, Killed PROVE StoreInv'
  OBVIOUS
<1>1. /\ UNCHANGED <<dirs, files, integrated>>
      /\ DOMAIN database' = Objects
      /\ \A o \in Objects : database'[o] = NoStore
      /\ step' = Idle
  BY DEF Killed, Crash
<1>2. FilesInDirs' /\ DatabasesNotBinary' /\ RecordsHaveFiles'
  BY <1>1 DEF StoreInv, FilesInDirs, DatabasesNotBinary, RecordsHaveFiles
<1>3. StoresLive' /\ RecordsIntegrated' /\ MemoryHasFiles'
  BY <1>1 DEF StoresLive, RecordsIntegrated, MemoryHasFiles
<1>4. StepOK'
  BY <1>1 DEF StoreInv, StepOK
<1> QED
  BY <1>2, <1>3, <1>4 DEF StoreInv

\* Before the program starts there is nothing.
LEMMA InitStoreInv == Init => StoreInv
<1> SUFFICES ASSUME Init PROVE StoreInv
  OBVIOUS
<1>1. /\ DOMAIN files = {}
      /\ DOMAIN database = Objects
      /\ \A o \in Objects : database[o] = NoStore
      /\ step = Idle
      /\ integrated = << >>
      /\ dirs = {}
  BY DEF Init, ContextInit
<1>2. FilesInDirs /\ DatabasesNotBinary /\ RecordsHaveFiles
  BY <1>1 DEF FilesInDirs, DatabasesNotBinary, RecordsHaveFiles
<1>3. StoresLive /\ RecordsIntegrated /\ MemoryHasFiles
  BY <1>1 DEF StoresLive, RecordsIntegrated, MemoryHasFiles
<1>4. StepOK
  BY <1>1 DEF StepOK
<1> QED
  BY <1>2, <1>3, <1>4 DEF StoreInv

\* Every step of the program, and being killed between any two of them, keeps
\* the stores and their files in order.
LEMMA StepStoreInv == ContextInv /\ StoreInv /\ [Next]_vars => StoreInv'
<1> SUFFICES ASSUME ContextInv, StoreInv, [Next]_vars PROVE StoreInv'
  OBVIOUS
<1>1. ASSUME NEW o \in Objects, MakeContext(o) PROVE StoreInv'
  <2>1. /\ UNCHANGED <<files, database, step, integrated>>
        /\ dirs \subseteq dirs'
        /\ live[o] = NoContext
        /\ \E c : live' = [live EXCEPT ![o] = c]
    BY <1>1 DEF MakeContext, normal, custom, random, Construct, Copy, assetVars
  <2>2. \A p \in Objects : live[p] # NoContext => live'[p] = live[p]
    BY <2>1 DEF ContextInv, LiveTypeOK
  <2> QED
    BY <2>1, <2>2, StoresStay
<1>2. ASSUME NEW o \in Objects, NEW asset \in Assets, fetchAsset(o, asset.key)
      PROVE  StoreInv'
  BY <1>2, StoresStay DEF fetchAsset, contextVars
<1>3. CASE UNCHANGED vars
  BY <1>3, StoresStay DEF vars, contextVars, assetVars
<1> QED
  BY <1>1, <1>2, <1>3, DestroyStoreInv, AssetContextStoreInv, OpenAssetStoreInv,
     WriteAssetStoreInv, DatabaseStoreInv, KilledStoreInv DEF Next

\* The invariant of the stores holds in every behaviour of the program.
THEOREM StoreInvariance == Spec => [](ContextInv /\ StoreInv)
<1>1. Init => ContextInv /\ StoreInv
  BY InitContextInv, InitStoreInv
<1>2. (ContextInv /\ StoreInv) /\ [Next]_vars => (ContextInv /\ StoreInv)'
  BY StepContextInv, StepStoreInv
<1> QED
  BY <1>1, <1>2, PTL DEF Spec

\* Whenever the program is killed, and whichever stores share a folder, the
\* database on disk describes only assets whose files are there.
THEOREM SavedRecordsHaveFiles == Spec => []RecordsHaveFiles
BY StoreInvariance, PTL DEF StoreInv

-----------------------------------------------------------------------------
(* What is fetched.                                                        *)

\* The content of an asset is known by its key.
LEMMA KeyTellsContent ==
    ASSUME NoCollision, NEW a \in Assets, NEW b \in Assets, a.key = b.key
    PROVE  a.content = b.content
BY AssetFields DEF NoCollision

\* A record has the key it is stored under, and names the file of every asset
\* it was made of.
LEMMA RecordKey ==
    ASSUME StoreInv, NEW o \in Objects, database[o] # NoStore, NEW key \in DOMAIN database[o]
    PROVE  database[o][key].key = key /\ key \in Nat
<1>1. PICK asset \in Range(integrated) : asset.key = key /\ database[o][key] = Record(asset)
  BY DEF StoreInv, RecordsIntegrated
<1>2. asset \in Assets
  BY IntegratedAreAssets DEF StoreInv
<1> QED
  BY <1>1, <1>2, RecordNamesFile, AssetFields

\* A step that writes no file and adds no record: what it leaves of the files
\* is unchanged, and an object that is a store afterwards was the same store.
LEMMA WholeStays ==
    ASSUME FilesWhole, step.at # "write",
           \A f \in DOMAIN files' : f \in DOMAIN files /\ files'[f] = files[f],
           \A o \in Objects : database'[o] # NoStore =>
               \/ DOMAIN database'[o] = {}
               \/ database[o] # NoStore /\ database'[o] = database[o] /\ live'[o] = live[o]
    PROVE  FilesWhole'
<1> SUFFICES ASSUME NEW o \in Objects, database'[o] # NoStore, NEW key \in DOMAIN database'[o],
                    assetFilePath(live'[o].path, database'[o][key]) \in DOMAIN files'
             PROVE  \A asset \in Assets : asset.key = key =>
                        files'[assetFilePath(live'[o].path, database'[o][key])] = asset.content
  BY DEF FilesWhole, FileOf
<1>1. database[o] # NoStore /\ database'[o] = database[o] /\ live'[o] = live[o]
  OBVIOUS
<1> QED
  BY <1>1 DEF FilesWhole, FileOf

\* fetchAsset() returns a record with the content of the record's file.
LEMMA FetchedWhole ==
    ASSUME ContextInv, StoreInv, FetchInv, NEW o \in Objects, NEW key, fetchAsset(o, key)
    PROVE  FetchedIsIntegrated'
<1> DEFINE file == FileOf(o, key)
<1>1. /\ step = Idle /\ database[o] # NoStore /\ UNCHANGED integrated
      /\ \/ fetched' = NoAsset
         \/ /\ key \in DOMAIN database[o]
            /\ file \in DOMAIN files
            /\ fetched' = [database[o][key] EXCEPT !.content = FirstWord(files[file])]
  BY DEF fetchAsset, Stores, FileOf
<1>2. CASE fetched' = NoAsset
  BY <1>2 DEF FetchedIsIntegrated
<1>3. CASE /\ key \in DOMAIN database[o]
           /\ file \in DOMAIN files
           /\ fetched' = [database[o][key] EXCEPT !.content = FirstWord(files[file])]
  <2>1. PICK asset \in Range(integrated) : asset.key = key /\ database[o][key] = Record(asset)
    BY <1>1, <1>3 DEF StoreInv, RecordsIntegrated
  <2>2. asset \in Assets
    BY IntegratedAreAssets DEF StoreInv
  <2>3. files[file] = asset.content
    <3>1. step.at # "write"
      BY <1>1 DEF Idle
    <3> QED
      BY <3>1, <2>1, <2>2, <1>1, <1>3 DEF FetchInv, FilesWhole
  <2>4. fetched' = [Record(asset) EXCEPT !.content = FirstWord(asset.content)]
    BY <2>1, <2>3, <1>3
  <2>5. fetched' = [asset EXCEPT !.content = FirstWord(asset.content)]
    <3>1. PICK word : word = FirstWord(asset.content)
      OBVIOUS
    <3>2. [Record(asset) EXCEPT !.content = word] = [asset EXCEPT !.content = word]
      BY <2>2, AssetFields DEF Record
    <3> QED
      BY <3>1, <3>2, <2>4
  <2> QED
    BY <2>1, <2>5, <1>1 DEF FetchedIsIntegrated
<1> QED
  BY <1>1, <1>2, <1>3

\* integrateAsset() empties a file: from here on it is the step's.
LEMMA OpenAssetWhole ==
    ASSUME StoreInv, FetchInv, NEW o \in Objects, NEW asset \in Assets, OpenAsset(o, asset)
    PROVE  FetchInv'
<1> DEFINE file == assetFilePath(live[o].path, asset)
<1>1. /\ Write(file, << >>)
      /\ step = Idle
      /\ step' = [at |-> "write", store |-> o, asset |-> asset]
      /\ integrated' = Append(integrated, asset)
      /\ UNCHANGED <<database, fetched>>
  BY DEF OpenAsset
<1>2. UNCHANGED live /\ Range(integrated') = Range(integrated) \cup {asset}
  BY <1>1, Written, IntegratedGrows DEF StoreInv, StepOK
<1>3. FetchedIsIntegrated'
  BY <1>1, <1>2 DEF FetchInv, FetchedIsIntegrated
<1>4. StepFile' = file /\ step'.at = "write" /\ step.at # "write"
  BY <1>1, <1>2 DEF StepFile, Idle
<1>5. FilesWhole'
  <2> SUFFICES ASSUME NEW p \in Objects, database[p] # NoStore, NEW key \in DOMAIN database[p],
                      FileOf(p, key) \in DOMAIN files', FileOf(p, key) # file
               PROVE  \A a \in Assets : a.key = key => files'[FileOf(p, key)] = a.content
    BY <1>1, <1>2, <1>4 DEF FilesWhole, FileOf
  <2>1. FileOf(p, key) \in DOMAIN files /\ files'[FileOf(p, key)] = files[FileOf(p, key)]
    BY <1>1, Written
  <2> QED
    BY <2>1, <1>4 DEF FetchInv, FilesWhole
<1> QED
  BY <1>3, <1>5 DEF FetchInv

\* The bytes are in the file again before anything else can happen.
LEMMA WriteAssetWhole ==
    ASSUME NoCollision, ContextInv, StoreInv, FetchInv, WriteAsset
    PROVE  FetchInv'
<1> DEFINE o == step.store
           asset == step.asset
           file == assetFilePath(live[o].path, asset)
<1>1. /\ step.at = "write"
      /\ Write(file, asset.content)
      /\ database' = [database EXCEPT ![o] = Inserted(@, asset.key, Record(asset))]
      /\ step' = [step EXCEPT !.at = "save"]
      /\ UNCHANGED <<integrated, fetched>>
  BY DEF WriteAsset
<1>2. /\ o \in Objects
      /\ asset \in Assets
      /\ database[o] # NoStore
      /\ StepFile = file
  BY <1>1, StepFields DEF StepFile
<1>3. /\ UNCHANGED live
      /\ database'[o] = Inserted(database[o], asset.key, Record(asset))
      /\ \A p \in Objects : p # o => database'[p] = database[p]
  BY <1>1, <1>2, Written DEF StoreInv, StoresLive
<1>4. FetchedIsIntegrated'
  BY <1>1 DEF FetchInv, FetchedIsIntegrated
<1>5. StoreInv'
  BY WriteAssetStoreInv
<1>6. \A p \in Objects : \A key \in DOMAIN database'[p] :
         \/ /\ key \in DOMAIN database[p]
            /\ database'[p][key] = database[p][key]
            /\ database'[p] # NoStore => database[p] # NoStore
         \/ p = o /\ database'[p][key] = Record(asset)
  <2>1. /\ DOMAIN database'[o] = DOMAIN database[o] \cup {asset.key}
        /\ \A k \in DOMAIN database[o] : database'[o][k] = database[o][k]
        /\ asset.key \notin DOMAIN database[o] => database'[o][asset.key] = Record(asset)
    <3>1. IsInsertion(database[o], asset.key, Record(asset),
                     Inserted(database[o], asset.key, Record(asset)))
      BY ONLY AfterInsert, Zenon
    <3>2. database'[o] = Inserted(database[o], asset.key, Record(asset))
      BY <1>3
    <3>3. IsInsertion(database[o], asset.key, Record(asset), database'[o])
      BY ONLY <3>1, <3>2
    <3> QED
      BY ONLY <3>3 DEF IsInsertion
  <2>2. \A key \in DOMAIN database'[o] :
           \/ key \in DOMAIN database[o] /\ database'[o][key] = database[o][key]
           \/ database'[o][key] = Record(asset)
    BY <2>1
  <2> QED
    BY <2>2, <1>2, <1>3
<1>7. FilesWhole'
  <2> SUFFICES ASSUME NEW p \in Objects, database'[p] # NoStore, NEW key \in DOMAIN database'[p],
                      assetFilePath(live[p].path, database'[p][key]) \in DOMAIN files',
                      NEW a \in Assets, a.key = key
               PROVE  files'[assetFilePath(live[p].path, database'[p][key])] = a.content
    BY <1>3 DEF FilesWhole, FileOf
  <2> DEFINE f == assetFilePath(live[p].path, database'[p][key])
  <2>1. database'[p][key].key = key
    <3>1. PICK made \in Range(integrated) :
             made.key = key /\ database'[p][key] = Record(made)
      BY <1>1, <1>5 DEF StoreInv, RecordsIntegrated
    <3>2. made \in Assets
      BY IntegratedAreAssets DEF StoreInv
    <3> QED
      BY <3>1, <3>2, RecordNamesFile
  <2>2. CASE f = file
    <3>1. asset.key = key
      BY <2>1, <2>2, FileNames
    <3>2. asset.content = a.content
      BY <3>1, <1>2, KeyTellsContent
    <3>3. file[1] \in dirs
      <4>1. f[1] \in dirs'
        BY <1>5 DEF StoreInv, FilesInDirs
      <4> QED
        BY <4>1, <2>2, <1>1, Written
    <3> QED
      BY <2>2, <3>2, <3>3, <1>1, Written
  <2>3. CASE f # file
    <3>1. f \in DOMAIN files /\ files'[f] = files[f]
      BY <2>3, <1>1, Written
    <3>2. ~(p = o /\ database'[p][key] = Record(asset))
      BY <2>3, <1>2, RecordNamesFile
    <3>3. /\ key \in DOMAIN database[p]
          /\ database[p] # NoStore
          /\ f = FileOf(p, key)
      BY <3>2, <1>6 DEF FileOf
    <3> HIDE DEF f, file
    <3> QED
      BY <2>3, <3>1, <3>3, <1>2 DEF FetchInv, FilesWhole, f
  <2> QED
    BY <2>2, <2>3
<1> QED
  BY <1>4, <1>7 DEF FetchInv

\* Saving the database writes no file of an asset.
LEMMA DatabaseWhole ==
    ASSUME ContextInv, StoreInv, FetchInv, OpenDatabase \/ WriteDatabase
    PROVE  FetchInv'
<1> DEFINE file == <<live[step.store].path, DbFile>>
<1>1. /\ step.at \in {"save", "saved"}
      /\ \E content : Write(file, content)
      /\ UNCHANGED <<database, integrated, fetched>>
  BY DEF OpenDatabase, WriteDatabase
<1>2. UNCHANGED live
  BY <1>1, Written
<1>3. FetchedIsIntegrated'
  BY <1>1 DEF FetchInv, FetchedIsIntegrated
<1>4. FilesWhole'
  <2> SUFFICES ASSUME NEW p \in Objects, database[p] # NoStore, NEW key \in DOMAIN database[p],
                      FileOf(p, key) \in DOMAIN files'
               PROVE  \A a \in Assets : a.key = key => files'[FileOf(p, key)] = a.content
    BY <1>1, <1>2 DEF FilesWhole, FileOf
  <2>1. FileOf(p, key) # file
    BY RecordKey, FileNames DEF FileOf
  <2>2. FileOf(p, key) \in DOMAIN files /\ files'[FileOf(p, key)] = files[FileOf(p, key)]
    BY <2>1, <1>1, Written
  <2> QED
    BY <2>2, <1>1 DEF FetchInv, FilesWhole
<1> QED
  BY <1>3, <1>4 DEF FetchInv

\* Every step of the program keeps what is known of the assets' files.
LEMMA StepFetchInv ==
    ASSUME NoCollision, ContextInv, StoreInv, FetchInv, [Next]_vars
    PROVE  FetchInv'
<1>1. ASSUME step = Idle, UNCHANGED <<integrated, fetched>>,
             \A f \in DOMAIN files' : f \in DOMAIN files /\ files'[f] = files[f],
             \A o \in Objects : database'[o] # NoStore =>
                \/ DOMAIN database'[o] = {}
                \/ database[o] # NoStore /\ database'[o] = database[o] /\ live'[o] = live[o]
      PROVE  FetchInv'
  <2>1. FilesWhole'
    BY <1>1, WholeStays DEF FetchInv, Idle
  <2> QED
    BY <2>1, <1>1 DEF FetchInv, FetchedIsIntegrated
<1>2. \A o \in Objects : database[o] # NoStore => live[o] # NoContext
  <2> SUFFICES ASSUME NEW o \in Objects, database[o] # NoStore PROVE live[o] # NoContext
    OBVIOUS
  <2>1. live[o] \in Contexts
    BY DEF StoreInv, StoresLive
  <2> QED
    BY <2>1, ContextAssumption DEF Contexts, NoContext
<1>3. ASSUME NEW o \in Objects, MakeContext(o) PROVE FetchInv'
  <2>1. /\ UNCHANGED <<files, database, integrated, fetched>>
        /\ step = Idle
        /\ live[o] = NoContext
        /\ \E c : live' = [live EXCEPT ![o] = c]
    BY <1>3 DEF MakeContext, normal, custom, random, Construct, Copy, assetVars
  <2>2. \A p \in Objects : database[p] # NoStore => live'[p] = live[p]
    BY <2>1, <1>2 DEF ContextInv, LiveTypeOK
  <2> QED
    BY <2>1, <2>2, <1>1
<1>4. ASSUME NEW o \in Objects, DestroyObject(o) PROVE FetchInv'
  <2>1. /\ step = Idle /\ UNCHANGED <<integrated, fetched>>
        /\ database'[o] = NoStore
        /\ \A p \in Objects : p # o => database'[p] = database[p] /\ live'[p] = live[p]
    BY <1>4 DEF DestroyObject, Destroy, StoreInv, StoresLive, ContextInv, LiveTypeOK
  <2>2. \A f \in DOMAIN files' : f \in DOMAIN files /\ files'[f] = files[f]
    BY <1>4 DEF DestroyObject, Destroy, RemoveAll, Restrict
  <2> QED
    BY <2>1, <2>2, <1>1
<1>5. ASSUME NEW o \in Objects, NEW of \in Objects, AssetContext(o, of) PROVE FetchInv'
  <2>1. /\ step = Idle /\ UNCHANGED <<integrated, fetched, files>>
        /\ live' = [live EXCEPT ![o] = live[of]]
        /\ database' = [database EXCEPT ![o] = << >>]
    BY <1>5, AssetContextStoreInv DEF AssetContext, ContextImplementation
  <2>2. /\ DOMAIN database'[o] = {}
        /\ \A p \in Objects : p # o => database'[p] = database[p] /\ live'[p] = live[p]
    BY <2>1 DEF StoreInv, StoresLive, ContextInv, LiveTypeOK
  <2> QED
    BY <2>1, <2>2, <1>1
<1>6. ASSUME NEW o \in Objects, NEW key, fetchAsset(o, key) PROVE FetchInv'
  <2>1. step = Idle /\ UNCHANGED <<files, live, database>>
    BY <1>6 DEF fetchAsset, contextVars
  <2>2. FilesWhole'
    BY <2>1, WholeStays DEF FetchInv, Idle
  <2> QED
    BY <2>2, <1>6, FetchedWhole DEF FetchInv
<1>7. CASE Killed
  <2>1. (\A o \in Objects : database'[o] = NoStore) /\ UNCHANGED <<integrated, fetched>>
    BY <1>7 DEF Killed
  <2> QED
    BY <2>1 DEF FetchInv, FilesWhole, FetchedIsIntegrated
<1>8. CASE UNCHANGED vars
  BY <1>8 DEF vars, contextVars, assetVars, FetchInv, FilesWhole, FileOf, StepFile,
              FetchedIsIntegrated
<1> QED
  BY <1>3, <1>4, <1>5, <1>6, <1>7, <1>8, OpenAssetWhole, WriteAssetWhole, DatabaseWhole
     DEF Next

\* What is fetched under a key is a whole asset that was integrated under it,
\* up to its first blank, or nothing, if the hash has no collision.
THEOREM FetchesWhatWasIntegrated ==
    ASSUME NoCollision
    PROVE  Spec => []FetchedIsIntegrated
<1>1. Init => FetchInv
  BY DEF Init, FetchInv, FilesWhole, FetchedIsIntegrated
<1>2. (ContextInv /\ StoreInv) /\ FetchInv /\ [Next]_vars => FetchInv'
  BY NoCollision, StepFetchInv
<1>3. FetchInv => FetchedIsIntegrated
  BY DEF FetchInv
<1> QED
  BY <1>1, <1>2, <1>3, StoreInvariance, PTL DEF Spec
=============================================================================
