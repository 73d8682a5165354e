----------------------------- MODULE AssetStore -----------------------------
(***************************************************************************)
(* AssetContext, AssetIntegrator and FileIntegrator (src/core): assets are *)
(* files of a Context's "resources" folder, and a database of their        *)
(* descriptions, keyed by the hash of their content, is kept in memory and *)
(* saved to "resources.json" after each integration.                       *)
(*                                                                         *)
(* The program may be killed between any two writes.  A content is a       *)
(* sequence of bytes; Space stands for the bytes operator>> stops at.      *)
(***************************************************************************)
EXTENDS Context, Integers, Sequences, SequencesExt

CONSTANTS
    Sources,            \* the files assets are made of: [content, extension]
    Unreadable,         \* the contents stbi_load() cannot decode
    Hash(_),            \* the hash of a content: hash_64_fnv1a, in Fnv1a
    MaxIntegrations     \* bound: how often integrateAsset() is called

Space == 32
NoAsset == [key |-> -1, extension |-> "", content |-> << >>, dimensions |-> 0]
NoStore == [key \in {NoAsset.key} |-> NoAsset]
DbFile == <<-1, "resources.json">>

ASSUME AssetAssumption ==
    /\ MaxIntegrations \in Nat
    /\ \A s \in Sources : s.content \in Seq(0..255) /\ Hash(s.content) \in Nat

VARIABLES
    database,           \* the _database of the AssetContext in each place
    step,               \* where integrateAsset() is at, and for whom
    fetched,            \* history: the key last fetched, and what came back
    integrated          \* history: the assets given to integrateAsset(), in turn

assetVars == <<database, step, fetched, integrated>>
vars == <<contextVars, assetVars>>

\* A map in which a key was assigned a value, and one after insert(), which
\* keeps what it finds.
Assigned(map, key, value) ==
    [k \in DOMAIN map \cup {key} |-> IF k = key THEN value ELSE map[k]]

Inserted(map, key, value) ==
    IF key \in DOMAIN map THEN map ELSE Assigned(map, key, value)

(***************************************************************************)
(* Conversions                                                             *)
(***************************************************************************)
\* What a formatted extraction leaves in a string: leading blanks are skipped,
\* and it stops at the next one.
FirstWord(content) ==
    LET from == SelectInSeq(content, LAMBDA b : b # Space)
        rest == SubSeq(content, from, Len(content))
        end == SelectInSeq(rest, LAMBDA b : b = Space)
    IN  IF from = 0 THEN << >>
        ELSE IF end = 0 THEN rest ELSE SubSeq(rest, 1, end - 1)

\* MessageToJsonString() and the binary wire format of the same message.
Json(db) == [format |-> "json", db |-> db]

\* ParseFromIstream() reads the binary format; of anything else it makes an
\* empty message, and the result that says so is not looked at.
ParseFromIstream(stream) == IF stream.format = "binary" THEN stream.db ELSE << >>

\* The size of a picture that cannot be decoded is never assigned.
getWidthAndHeight(content) == IF content \in Unreadable THEN {1, 2} ELSE {1}

\* The assets AssetIntegrator::createAsset() makes of a file.
createAsset(source) ==
    [key : {Hash(source.content)}, extension : {source.extension},
     content : {source.content}, dimensions : getWidthAndHeight(source.content)]

Assets == UNION {createAsset(source) : source \in Sources}

assetFilePath(path, asset) == <<path, <<asset.key, asset.extension>> >>

(***************************************************************************)
(* State                                                                   *)
(***************************************************************************)
Stores == {o \in Objects : database[o] # NoStore}
Idle == [at |-> "idle", store |-> "none", asset |-> NoAsset]

\* A record of the database: the asset without its bytes.
Record(asset) == [asset EXCEPT !.content = << >>]

Init ==
    /\ ContextInit
    /\ database = [o \in Objects |-> NoStore]
    /\ step = Idle
    /\ fetched = NoAsset
    /\ integrated = << >>

\* A file can be written only while its directory exists; a stream that could
\* not be opened swallows what is written to it.
Write(file, content) ==
    /\ files' = IF file[1] \in dirs THEN Assigned(files, file, content) ELSE files
    /\ UNCHANGED <<dirs, live, abandoned>>

(***************************************************************************)
(* AssetContext                                                            *)
(***************************************************************************)
AssetContext(o, of) ==
    /\ step = Idle
    /\ ContextImplementation(o, of)
    /\ LET file == <<live[of].path, DbFile>>
       IN  database' = [database EXCEPT ![o] =
               IF file \in DOMAIN files THEN ParseFromIstream(files[file])
               ELSE << >>]
    /\ UNCHANGED <<step, fetched, integrated>>

fetchAsset(o, key) ==
    /\ step = Idle /\ o \in Stores
    /\ LET db == database[o]
           file == assetFilePath(live[o].path, db[key])
       IN  fetched' = IF key \notin DOMAIN db THEN NoAsset
                      ELSE IF file \notin DOMAIN files THEN NoAsset
                      ELSE [db[key] EXCEPT !.content = FirstWord(files[file])]
    /\ UNCHANGED <<contextVars, database, step, integrated>>

\* Mutant of OpenAsset: the record is saved before the file is written.
OpenAssetRecordsFirst(o, asset) ==
    /\ step = Idle /\ o \in Stores
    /\ Len(integrated) < MaxIntegrations
    /\ database' = [database EXCEPT ![o] = Inserted(@, asset.key, Record(asset))]
    /\ step' = [at |-> "save", store |-> o, asset |-> asset]
    /\ integrated' = Append(integrated, asset)
    /\ UNCHANGED <<contextVars, fetched>>

\* integrateAsset() opens the asset's file: from here on it is empty.
OpenAsset(o, asset) ==
    /\ step = Idle /\ o \in Stores
    /\ Len(integrated) < MaxIntegrations
    /\ Write(assetFilePath(live[o].path, asset), << >>)
    /\ step' = [at |-> "write", store |-> o, asset |-> asset]
    /\ integrated' = Append(integrated, asset)
    /\ UNCHANGED <<database, fetched>>

\* Mutant of WriteAsset: the name of the file forgets the hash.
WriteAssetElsewhere ==
    /\ step.at = "write"
    /\ Write(assetFilePath(live[step.store].path, [step.asset EXCEPT !.key = 0]),
             step.asset.content)
    /\ database' = [database EXCEPT ![step.store] =
                        Inserted(@, step.asset.key, Record(step.asset))]
    /\ step' = [step EXCEPT !.at = "save"]
    /\ UNCHANGED <<fetched, integrated>>

\* The bytes are written, and the record is inserted unless its key is taken:
\* insert() keeps the record it finds.
WriteAsset ==
    /\ step.at = "write"
    /\ Write(assetFilePath(live[step.store].path, step.asset), step.asset.content)
    /\ database' = [database EXCEPT ![step.store] =
                        Inserted(@, step.asset.key, Record(step.asset))]
    /\ step' = [step EXCEPT !.at = "save"]
    /\ UNCHANGED <<fetched, integrated>>

\* _saveState() opens the database's file, and empties it.
OpenDatabase ==
    /\ step.at = "save"
    /\ Write(<<live[step.store].path, DbFile>>, [format |-> "empty", db |-> << >>])
    /\ step' = [step EXCEPT !.at = "saved"]
    /\ UNCHANGED <<database, fetched, integrated>>

WriteDatabase ==
    /\ step.at = "saved"
    /\ Write(<<live[step.store].path, DbFile>>, Json(database[step.store]))
    /\ step' = Idle
    /\ UNCHANGED <<database, fetched, integrated>>

(***************************************************************************)
(* The program around it                                                   *)
(***************************************************************************)
MakeContext(o) ==
    /\ step = Idle
    /\ normal(o) \/ custom(o) \/ random(o) \/ (\E of \in Objects : Copy(o, of))
    /\ UNCHANGED assetVars

DestroyObject(o) ==
    /\ step = Idle
    /\ Destroy(o)
    /\ database' = [database EXCEPT ![o] = NoStore]
    /\ UNCHANGED <<step, fetched, integrated>>

Killed ==
    /\ Crash
    /\ database' = [o \in Objects |-> NoStore]
    /\ step' = Idle
    /\ UNCHANGED <<fetched, integrated>>

Next ==
    \/ \E o \in Objects :
        \/ MakeContext(o)
        \/ DestroyObject(o)
        \/ \E of \in Objects : AssetContext(o, of)
        \/ \E asset \in Assets : OpenAsset(o, asset) \/ fetchAsset(o, asset.key)
    \/ WriteAsset
    \/ OpenDatabase
    \/ WriteDatabase
    \/ Killed

Spec == Init /\ [][Next]_vars

(***************************************************************************)
(* Properties                                                              *)
(***************************************************************************)
\* The database on disk never describes an asset whose file is missing,
\* whenever the program was killed and however many stores share a folder:
\* integrateAsset() writes the file before it saves the record
\* (AssetIntegrator.hpp:80-101).  (A temporary folder can be removed under a
\* store that still remembers what was in it.)
RecordsHaveFiles ==
    \A path \in dirs \cap PersistentDirs :
        LET file == <<path, DbFile>>
        IN  file \in DOMAIN files =>
            \A key \in DOMAIN files[file].db :
                assetFilePath(path, files[file].db[key]) \in DOMAIN files

\* Different contents have different keys.  (The code takes it for granted:
\* insert() keeps the record of an earlier content, and ofstream overwrites its
\* file.)
NoCollision ==
    \A s, t \in Sources : Hash(s.content) = Hash(t.content) => s.content = t.content

\* What fetchAsset() returns under a key is a whole asset integrated under
\* that key, up to its first blank, or nothing: never another asset's bytes
\* and never a half-written file (AssetIntegrator.hpp:45-74).
FetchedIsIntegrated ==
    fetched # NoAsset =>
        \E asset \in Range(integrated) :
            fetched = [asset EXCEPT !.content = FirstWord(asset.content)]

\* A store starts with the database as it was saved last ("read state",
\* AssetIntegrator.hpp:39; "save", AssetIntegrator.hpp:100).
ReadsSavedState ==
    [][\A o \in Objects \ Stores : database'[o] # NoStore =>
            LET file == <<live'[o].path, DbFile>>
            IN  file \in DOMAIN files /\ files[file].format # "empty"
                    => database'[o] = files[file].db]_vars
=============================================================================
