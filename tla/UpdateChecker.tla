--------------------------- MODULE UpdateChecker ---------------------------
(***************************************************************************)
(* The update check: UpdateChecker::_isNewerVersionAvailable               *)
(* (src/core/UpdateChecker.hpp) run as an asynchronous task, the download  *)
(* it makes (src/network/helpers/HTTPDownloader.cpp), and the application  *)
(* polling the task's future in every frame                                *)
(* (src/app/utility/UpdateChecker.hpp).                                    *)
(*                                                                         *)
(* A manifest is the sequence of its Name and Version tags; everything     *)
(* between them is skipped by the code's regular expression.  A missing    *)
(* file and one without tags are the empty sequence: both end the check.   *)
(* A component's name is a number, 0 being the empty name; a version is    *)
(* the sequence of its numbers, 0.5.10 being <<0, 5, 10>>.                 *)
(***************************************************************************)
EXTENDS Naturals, Sequences, SequencesExt

CONSTANTS
    Manifests,      \* the manifests there may be, locally and on the server
    Endpoints       \* how many endpoints the server's name resolves to

ASSUME EndpointsAssumption == Endpoints \in Nat \ {0}

VARIABLES
    app,                \* is the application still running?
    future,             \* _future
    resolved,           \* _resolved
    launches,           \* how often the updater was launched
    task,               \* where the task is
    tried,              \* endpoints DownloadHTTPFile has tried
    published,          \* history: the manifest on the server
    remoteRaw,          \* the manifest the task has downloaded
    localComponents,
    todo,               \* local components the loop has still to look at
    remoteVersions      \* what is left of the remote components

pollVars == <<app, resolved, launches>>
dataVars == <<published, remoteRaw, localComponents, todo, remoteVersions>>
vars == <<pollVars, future, task, tried, dataVars>>

-----------------------------------------------------------------------------
(* Versions and manifests.                                                 *)

\* The characters of a version: digits are themselves plus 1, '.' is 0, so
\* that they are ordered as in ASCII.  Numbers below 100 are enough.
Digits(n) == IF n < 10 THEN <<n + 1>> ELSE <<(n \div 10) + 1, (n % 10) + 1>>

Text(version) ==
    FlattenSeq([i \in DOMAIN version |->
                    (IF i = 1 THEN <<>> ELSE <<0>>) \o Digits(version[i])])

\* The lexicographic order of two sequences of numbers.
Before(s, t) ==
    \/ s # t /\ IsPrefix(s, t)
    \/ \E i \in DOMAIN s \intersect DOMAIN t :
          /\ s[i] < t[i]
          /\ \A j \in 1..(i - 1) : s[j] = t[j]

\* localVersion < remoteVersion, on std::string.
IsRemoteVersionNewerThanLocal(localVersion, remoteVersion) ==
    Before(Text(localVersion), Text(remoteVersion))

NoComponents == [c \in {} |-> <<>>]

NoName == 0

\* The matches of the expression, as the places of their Name and Version: a
\* match goes from the first Name since the last match to the next Version,
\* over any Names in between.
Matches(manifest) ==
    {p \in (DOMAIN manifest) \X (DOMAIN manifest) :
        /\ p[1] < p[2]
        /\ manifest[p[2]][1] = "Version"
        /\ \A k \in p[1]..(p[2] - 1) : manifest[k][1] = "Name"
        /\ p[1] > 1 => manifest[p[1] - 1][1] = "Version"}

\* A later match replaces an earlier one of the same name, and an empty name
\* is not inserted.
ExtractVersionsFromManifest(manifest) ==
    LET nameOf(p) == manifest[p[1]][2]
        matches == Matches(manifest)
    IN  [c \in {nameOf(p) : p \in matches} \ {NoName} |->
            manifest[Max({p[2] : p \in {q \in matches : nameOf(q) = c}})][2]]

-----------------------------------------------------------------------------
Init ==
    /\ app = "running"
    /\ future = "invalid"
    /\ resolved = FALSE
    /\ launches = 0
    /\ task = "none"
    /\ tried = 0
    /\ published = <<>>
    /\ remoteRaw = <<>>
    /\ localComponents = NoComponents
    /\ todo = {}
    /\ remoteVersions = NoComponents

\* start(): std::async may run the task on a thread, or defer it to the first
\* wait without a timeout, when no thread can be had.
Start ==
    /\ task = "none" /\ future = "invalid" /\ ~resolved
    /\ \/ future' = "pending" /\ task' = "readLocal"
       \/ future' = "deferred" /\ UNCHANGED task
    /\ UNCHANGED <<pollVars, tried, dataVars>>

-----------------------------------------------------------------------------
(* The task.                                                               *)

\* return b;
Return(b) == task' = "returned" /\ future' = IF b THEN "true" ELSE "false"

Throw == task' = "thrown" /\ future' = "exception"

Goto(next) == task' = next /\ UNCHANGED future

\* _getLocalManifestContent(): empty when there is no file.
GetLocalManifestContent == Manifests \union {<<>>}

\* The local manifest is read; the check ends if it has no components.
ReadLocal ==
    /\ task = "readLocal"
    /\ \E localRaw \in GetLocalManifestContent :
          localComponents' = ExtractVersionsFromManifest(localRaw)
    /\ IF localComponents' = NoComponents THEN Return(FALSE) ELSE Goto("resolve")
    /\ UNCHANGED <<pollVars, tried, published, remoteRaw, todo, remoteVersions>>

\* The server's name is resolved, or resolve() throws.
Resolve ==
    /\ task = "resolve"
    /\ Goto("connect") \/ Throw
    /\ UNCHANGED <<pollVars, tried, dataVars>>

\* The do-while loop over the endpoints.  When the last one fails as well, the
\* write on the closed socket throws.
Connect ==
    /\ task = "connect"
    /\ tried' = tried + 1
    /\ \/ Goto("response")
       \/ IF tried' < Endpoints THEN UNCHANGED <<task, future>> ELSE Throw
    /\ UNCHANGED <<pollVars, dataVars>>

\* The request, the status line (whatever the status) and the headers.
\* asio::write and asio::read_until throw when the connection is lost, and a
\* response without Content-Length is thrown out.
ReadResponse ==
    /\ task = "response"
    /\ \/ Throw /\ UNCHANGED published
       \/ Goto("body") /\ published' \in Manifests
    /\ UNCHANGED <<pollVars, tried, remoteRaw, localComponents, todo, remoteVersions>>

\* A plausible slip: every component is left in the remote map.
NothingErased(component) == remoteVersions

\* remoteVersions.erase(component)
Erased(component) ==
    [c \in DOMAIN remoteVersions \ {component} |-> remoteVersions[c]]

\* The read loop ends with the first error, of which the end of the file is
\* one; what was read until then is the manifest.
ReadBody ==
    /\ task = "body"
    /\ \E k \in 0..Len(published) : remoteRaw' = SubSeq(published, 1, k)
    /\ remoteVersions' = ExtractVersionsFromManifest(remoteRaw')
    /\ todo' = DOMAIN localComponents
    /\ IF remoteVersions' = NoComponents THEN Return(FALSE) ELSE Goto("compare")
    /\ UNCHANGED <<pollVars, tried, published, localComponents>>

\* One round of the loop, in the order of the names.
CompareNext(component) ==
    /\ task = "compare"
    /\ component \in todo
    /\ \A c \in todo : component <= c
    /\ todo' = todo \ {component}
    /\ IF \/ component \notin DOMAIN remoteVersions
          \/ IsRemoteVersionNewerThanLocal(localComponents[component],
                                           remoteVersions[component])
       THEN Return(TRUE) /\ UNCHANGED remoteVersions
       ELSE remoteVersions' = Erased(component) /\ UNCHANGED <<task, future>>
    /\ UNCHANGED <<pollVars, tried, published, remoteRaw, localComponents>>

\* After the loop: components that only the server has are an update, too.
CompareRest ==
    /\ task = "compare"
    /\ todo = {}
    /\ Return(remoteVersions # NoComponents)
    /\ UNCHANGED <<pollVars, tried, dataVars>>

-----------------------------------------------------------------------------
(* The application: poll(), called by every drawEvent().  A poll that finds *)
(* nothing to do changes nothing.                                          *)

\* tryToLaunchUpdater(): the maintenance tool is started if it is there.
TryToLaunchUpdater(updaterExists) ==
    launches' = IF updaterExists THEN launches + 1 ELSE launches

\* A plausible slip: the answer is looked at but not taken out of the future,
\* and only a launch that fails is remembered.
PollPeeking(updaterExists) ==
    /\ app = "running"
    /\ ~resolved
    /\ future \in {"true", "false"}
    /\ IF future = "true" THEN TryToLaunchUpdater(updaterExists) ELSE UNCHANGED launches
    /\ resolved' = ~updaterExists
    /\ UNCHANGED <<app, future, task, tried, dataVars>>

\* A plausible slip: the flag is read the wrong way round, nothing is polled.
PollNever(updaterExists) ==
    /\ app = "running"
    /\ resolved
    /\ future \in {"true", "false"}
    /\ IF future = "true" THEN TryToLaunchUpdater(updaterExists) ELSE UNCHANGED launches
    /\ future' = "invalid"
    /\ UNCHANGED <<app, resolved, task, tried, dataVars>>

\* The future has an answer: get() takes it out, and an update is acted on.
PollAnswer(updaterExists) ==
    /\ app = "running"
    /\ ~resolved
    /\ future \in {"true", "false"}
    /\ IF future = "true" THEN TryToLaunchUpdater(updaterExists) ELSE UNCHANGED launches
    /\ resolved' = TRUE
    /\ future' = "invalid"
    /\ UNCHANGED <<app, task, tried, dataVars>>

\* get() throws what the task has thrown, and nothing up to main() catches it.
PollException ==
    /\ app = "running"
    /\ ~resolved
    /\ future = "exception"
    /\ future' = "invalid"
    /\ app' = "terminated"
    /\ UNCHANGED <<resolved, launches, task, tried, dataVars>>

-----------------------------------------------------------------------------
Poll == PollException \/ \E updaterExists \in BOOLEAN : PollAnswer(updaterExists)

Next ==
    \/ Start
    \/ ReadLocal
    \/ Resolve
    \/ Connect
    \/ ReadResponse
    \/ ReadBody
    \/ \E component \in todo : CompareNext(component)
    \/ CompareRest
    \/ Poll

Spec == Init /\ [][Next]_vars

\* Frames keep being drawn, and a task that has its two manifests goes on to
\* compare them.  Nothing is assumed of the download: its reads have no
\* timeout.
Fairness ==
    /\ WF_vars(Poll)
    /\ WF_vars(\E component \in todo : CompareNext(component))
    /\ WF_vars(CompareRest)

FairSpec == Spec /\ Fairness

-----------------------------------------------------------------------------
\* What an update is: a component that only one side has, or one whose remote
\* version is newer, number by number.
UpdateExists(local, remote) ==
    \/ DOMAIN local # DOMAIN remote
    \/ \E c \in DOMAIN local : Before(local[c], remote[c])

\* What the task can read: a whole manifest, or what came of one before the
\* connection was lost.
ReadManifests ==
    GetLocalManifestContent
        \union UNION {{SubSeq(m, 1, k) : k \in 0..Len(m)} : m \in Manifests}

Extracted == {ExtractVersionsFromManifest(m) : m \in ReadManifests}

\* The order of the texts of all versions there are is the order of their
\* numbers: so it is as long as the numbers have one digit.
TextOrderIsNumberOrder ==
    LET Versions == UNION {{e[c] : c \in DOMAIN e} : e \in Extracted}
    IN  \A v, w \in Versions : IsRemoteVersionNewerThanLocal(v, w) <=> Before(v, w)

\* The task's answer, which its loop finds by erasing the remote components
\* one by one and returning early, is whether the two manifests it has read
\* differ by an update; without a usable manifest it is "no".  (It compares
\* the versions as text: TextOrderIsNumberOrder.)
AnswerIsRight ==
    LET local == localComponents
        remote == ExtractVersionsFromManifest(remoteRaw)
        usable == local # NoComponents /\ remote # NoComponents
    IN  task = "returned" /\ future # "invalid" =>
            (future = "true" <=> usable /\ UpdateExists(local, remote))

\* The updater is launched at most once however many frames are drawn, and
\* never without the task having returned.
LaunchedOnce == launches <= 1 /\ (launches = 1 => task = "returned")

\* Once both manifests are there, the check ends: the loop is left, and some
\* frame takes the answer out of the future.
CheckEnds == task = "compare" ~> resolved
=============================================================================
