------------------------ MODULE UpdateCheckerProofs ------------------------
(***************************************************************************)
(* Proofs about UpdateChecker, for every set of manifests and every number *)
(* of endpoints: the answer of the task, and what the application does     *)
(* with it.                                                                *)
(***************************************************************************)
EXTENDS UpdateChecker, TLAPS

\* What the task has downloaded, as the loop starts with it.
Remote == ExtractVersionsFromManifest(remoteRaw)

\* An update as the code decides it, comparing the versions as text.
UpdateInText(local, remote) ==
    \/ DOMAIN local # DOMAIN remote
    \/ \E c \in DOMAIN local : IsRemoteVersionNewerThanLocal(local[c], remote[c])

\* Both sides have components.
Usable == localComponents # NoComponents /\ Remote # NoComponents

\* The future's state follows the task's.
FutureFollowsTask ==
    /\ task \in {"none", "readLocal", "resolve", "connect", "response", "body",
                 "compare", "returned", "thrown"}
    /\ future \in {"invalid", "pending", "deferred", "true", "false", "exception"}
    /\ task = "none" => future \in {"invalid", "deferred"}
    /\ task = "returned" => future \in {"true", "false", "invalid"}
    /\ task = "thrown" => future \in {"exception", "invalid"}
    /\ task \notin {"none", "returned", "thrown"} => future = "pending"

\* The task goes past the local manifest only if that has components.
LocalUsable ==
    task \in {"resolve", "connect", "response", "body", "compare"} =>
        localComponents # NoComponents

\* The loop: a local component that is done with is one that the server has
\* and that is not newer there, and exactly those are erased.
LoopInv ==
    task = "compare" =>
        /\ Usable
        /\ todo \subseteq DOMAIN localComponents
        /\ \A c \in DOMAIN localComponents \ todo :
              /\ c \in DOMAIN Remote
              /\ ~IsRemoteVersionNewerThanLocal(localComponents[c], Remote[c])
        /\ remoteVersions
               = [c \in DOMAIN Remote \ (DOMAIN localComponents \ todo) |-> Remote[c]]

\* The answer, as long as it is in the future.
AnswerInText ==
    task = "returned" /\ future # "invalid" =>
        (future = "true" <=> Usable /\ UpdateInText(localComponents, Remote))

\* A launch is remembered by _resolved, and nothing is launched before the
\* task has returned.
LaunchesRemembered ==
    /\ launches \in {0, 1}
    /\ resolved \in BOOLEAN
    /\ launches = 1 => resolved /\ task = "returned"

\* What the task holds was read from a manifest, whole or cut short.
ReadFromManifests ==
    /\ localComponents = NoComponents \/ localComponents \in Extracted
    /\ task = "body" => published \in Manifests
    /\ remoteRaw \in ReadManifests

IInv ==
    /\ FutureFollowsTask
    /\ LocalUsable
    /\ LoopInv
    /\ AnswerInText
    /\ LaunchesRemembered
    /\ ReadFromManifests

-----------------------------------------------------------------------------
\* Whether the loop of the task, which erases what it has compared, ends with
\* the answer UpdateInText gives.
LEMMA LoopReturnsTrue ==
    ASSUME NEW local, NEW remote, NEW c \in DOMAIN local,
           \/ c \notin DOMAIN remote
           \/ IsRemoteVersionNewerThanLocal(local[c], remote[c])
    PROVE  UpdateInText(local, remote)
BY DEF UpdateInText

\* After the loop every local component was found and is not newer.
LEMMA LoopEnds ==
    ASSUME NEW local, NEW remote,
           \A c \in DOMAIN local :
              c \in DOMAIN remote /\ ~IsRemoteVersionNewerThanLocal(local[c], remote[c])
    PROVE  UpdateInText(local, remote) <=> DOMAIN remote \ DOMAIN local # {}
BY DEF UpdateInText

\* A map without keys is the empty map.
LEMMA EmptyMap ==
    ASSUME NEW m, NEW K, m = [c \in K |-> m[c]]
    PROVE  m = NoComponents <=> K = {}
<1>1. DOMAIN m = K
  OBVIOUS
<1>2. K = {} => m = NoComponents
  <2> SUFFICES ASSUME K = {} PROVE m = [c \in {} |-> <<>>]
    BY DEF NoComponents
  <2>1. m = [c \in {} |-> m[c]]
    BY Zenon
  <2>2. [c \in {} |-> m[c]] = [c \in {} |-> <<>>]
    BY Zenon
  <2> QED
    BY <2>1, <2>2, Zenon
<1>3. m = NoComponents => DOMAIN m = {}
  BY DEF NoComponents
<1> QED
  BY <1>1, <1>2, <1>3

-----------------------------------------------------------------------------
\* Before start() there is no future, and nothing was launched.
LEMMA InitIInv == Init => IInv
<1> SUFFICES ASSUME Init PROVE IInv
  OBVIOUS
<1> USE DEF Init
<1>1. FutureFollowsTask /\ LocalUsable
  BY Zenon DEF FutureFollowsTask, LocalUsable
<1>4. LaunchesRemembered
  <2>1. launches \in {0, 1} /\ launches # 1
    OBVIOUS
  <2>2. resolved \in BOOLEAN
    BY Zenon
  <2> QED
    BY <2>1, <2>2, Zenon DEF LaunchesRemembered
<1>2. LoopInv /\ AnswerInText
  <2>1. task = "none"
    OBVIOUS
  <2> QED
    BY ONLY <2>1 DEF LoopInv, AnswerInText
<1>3. ReadFromManifests
  BY DEF ReadFromManifests, ReadManifests, GetLocalManifestContent
<1> QED
  BY <1>1, <1>2, <1>3, <1>4 DEF IInv

\* start(), and the steps of the task that only move it on or make it throw.
LEMMA StartIInv == IInv /\ Start => IInv'
<1> SUFFICES ASSUME IInv, Start PROVE IInv'
  OBVIOUS
<1> USE DEF IInv, Start, pollVars, dataVars
<1>1. FutureFollowsTask' /\ LocalUsable' /\ LoopInv' /\ AnswerInText'
  BY DEF FutureFollowsTask, LocalUsable, LoopInv, AnswerInText
<1>2. LaunchesRemembered' /\ ReadFromManifests'
  BY DEF LaunchesRemembered, ReadFromManifests
<1> QED
  BY <1>1, <1>2

\* The local manifest is read: without components the answer is "no".
LEMMA ReadLocalIInv == IInv /\ ReadLocal => IInv'
<1> SUFFICES ASSUME IInv, ReadLocal PROVE IInv'
  OBVIOUS
<1> USE DEF IInv, ReadLocal, pollVars, Return, Goto
<1>1. FutureFollowsTask' /\ LocalUsable'
  BY DEF FutureFollowsTask, LocalUsable
<1>2. LoopInv' /\ LaunchesRemembered'
  BY DEF LoopInv, LaunchesRemembered
<1>3. AnswerInText'
  BY DEF AnswerInText, Usable
<1>4. ReadFromManifests'
  BY DEF ReadFromManifests, Extracted, ReadManifests, GetLocalManifestContent
<1> QED
  BY <1>1, <1>2, <1>3, <1>4

\* The download up to the headers.
LEMMA DownloadIInv == IInv /\ (Resolve \/ Connect \/ ReadResponse) => IInv'
<1> SUFFICES ASSUME IInv, Resolve \/ Connect \/ ReadResponse PROVE IInv'
  OBVIOUS
<1>1. /\ task \in {"resolve", "connect", "response"}
      /\ \/ task' \in {"resolve", "connect", "response", "body"} /\ future' = future
         \/ task' = "thrown" /\ future' = "exception"
      /\ task' = "body" => published' \in Manifests
      /\ UNCHANGED <<pollVars, remoteRaw, localComponents, todo, remoteVersions>>
  BY DEF Resolve, Connect, ReadResponse, Goto, Throw, dataVars
<1> USE <1>1 DEF IInv, pollVars
<1>2. FutureFollowsTask' /\ LocalUsable'
  BY DEF FutureFollowsTask, LocalUsable
<1>3. LoopInv' /\ LaunchesRemembered' /\ AnswerInText'
  BY DEF LoopInv, LaunchesRemembered, AnswerInText
<1>4. ReadFromManifests'
  BY DEF ReadFromManifests
<1> QED
  BY <1>2, <1>3, <1>4

\* The body is read, and the loop begins with all components.
LEMMA ReadBodyIInv == IInv /\ ReadBody => IInv'
<1> SUFFICES ASSUME IInv, ReadBody PROVE IInv'
  OBVIOUS
<1> USE DEF IInv, ReadBody, pollVars, Return, Goto
<1>1. FutureFollowsTask' /\ LocalUsable'
  BY DEF FutureFollowsTask, LocalUsable
<1>2. remoteVersions' = Remote' /\ todo' = DOMAIN localComponents'
  BY DEF Remote
<1>3. LoopInv'
  <2>1. Remote' = [c \in DOMAIN Remote' |-> Remote'[c]]
    BY DEF Remote, ExtractVersionsFromManifest
  <2> QED
    BY <1>2, <2>1 DEF LoopInv, LocalUsable, Usable
<1>4. LaunchesRemembered'
  BY DEF LaunchesRemembered
<1>5. AnswerInText'
  BY <1>2 DEF AnswerInText, Usable
<1>6. ReadFromManifests'
  BY DEF ReadFromManifests, ReadManifests
<1> QED
  BY <1>1, <1>3, <1>4, <1>5, <1>6

\* One round of the loop: it returns with a reason, or erases a component that
\* gives none.
LEMMA CompareNextIInv ==
    ASSUME IInv, NEW component \in todo, CompareNext(component)
    PROVE  IInv'
<1> USE DEF IInv, CompareNext, pollVars
<1>1. /\ UNCHANGED <<localComponents, remoteRaw, published, app, resolved, launches>>
      /\ task = "compare"
      /\ todo' = todo \ {component}
      /\ Remote' = Remote
      /\ Usable' = Usable
  BY DEF Remote, Usable
<1>2. /\ component \in DOMAIN localComponents
      /\ Usable
      /\ component \in DOMAIN remoteVersions <=> component \in DOMAIN Remote
      /\ component \in DOMAIN remoteVersions => remoteVersions[component] = Remote[component]
  BY <1>1 DEF LoopInv
<1>3. \/ /\ \/ component \notin DOMAIN Remote
            \/ IsRemoteVersionNewerThanLocal(localComponents[component], Remote[component])
         /\ task' = "returned" /\ future' = "true"
      \/ /\ component \in DOMAIN Remote
         /\ ~IsRemoteVersionNewerThanLocal(localComponents[component], Remote[component])
         /\ remoteVersions' = Erased(component)
         /\ UNCHANGED <<task, future>>
  BY <1>2 DEF Return
<1>4. FutureFollowsTask' /\ LocalUsable' /\ LaunchesRemembered' /\ ReadFromManifests'
  BY <1>1, <1>3 DEF FutureFollowsTask, LocalUsable, LaunchesRemembered, ReadFromManifests
<1>5. AnswerInText'
  BY <1>1, <1>2, <1>3, LoopReturnsTrue DEF AnswerInText
<1>6. LoopInv'
  <2>1. CASE task' = "returned"
    BY <2>1 DEF LoopInv
  <2>2. CASE task' = "compare"
    BY <2>2, <1>1, <1>2, <1>3 DEF LoopInv, Erased
  <2> QED
    BY <2>1, <2>2, <1>1, <1>3
<1> QED
  BY <1>4, <1>5, <1>6

\* The loop is over: what is left over there is new.
LEMMA CompareRestIInv == IInv /\ CompareRest => IInv'
<1> SUFFICES ASSUME IInv, CompareRest PROVE IInv'
  OBVIOUS
<1> USE DEF IInv, CompareRest, pollVars, dataVars, Return
<1>1. FutureFollowsTask' /\ LocalUsable' /\ LaunchesRemembered' /\ ReadFromManifests'
  BY DEF FutureFollowsTask, LocalUsable, LaunchesRemembered, ReadFromManifests
<1>2. LoopInv'
  BY DEF LoopInv
<1>3. AnswerInText'
  <2>1. UpdateInText(localComponents, Remote) <=> DOMAIN Remote \ DOMAIN localComponents # {}
    BY LoopEnds DEF LoopInv
  <2>2. /\ remoteVersions = [c \in DOMAIN Remote \ DOMAIN localComponents |-> Remote[c]]
        /\ Usable
    BY DEF LoopInv
  <2>3. remoteVersions = NoComponents <=> DOMAIN Remote \ DOMAIN localComponents = {}
    <3> DEFINE K == DOMAIN Remote \ DOMAIN localComponents
    <3>1. remoteVersions = [c \in K |-> remoteVersions[c]]
      BY <2>2
    <3> HIDE DEF K
    <3>2. remoteVersions = NoComponents <=> K = {}
      BY <3>1, EmptyMap, Zenon
    <3> QED
      BY <3>2 DEF K
  <2> QED
    BY <2>1, <2>2, <2>3 DEF AnswerInText, Usable, Remote
<1> QED
  BY <1>1, <1>2, <1>3

\* A frame takes the answer, or the exception, out of the future.
LEMMA PollIInv == IInv /\ Poll => IInv'
<1> SUFFICES ASSUME IInv, Poll PROVE IInv'
  OBVIOUS
<1>1. /\ future \in {"true", "false", "exception"} /\ future' = "invalid"
      /\ ~resolved
      /\ UNCHANGED <<task, dataVars>>
      /\ \/ UNCHANGED <<resolved, launches>>
         \/ /\ future \in {"true", "false"}
            /\ resolved' = TRUE
            /\ launches' \in {launches, launches + 1}
  BY DEF Poll, PollException, PollAnswer, TryToLaunchUpdater
<1> USE <1>1 DEF IInv, dataVars
<1>2. FutureFollowsTask' /\ LocalUsable' /\ LoopInv' /\ AnswerInText'
  BY DEF FutureFollowsTask, LocalUsable, LoopInv, AnswerInText
<1>3. LaunchesRemembered'
  <2>1. launches = 0
    BY Zenon DEF LaunchesRemembered
  <2>2. future \in {"true", "false"} => task = "returned"
    BY DEF FutureFollowsTask
  <2>3. CASE UNCHANGED <<resolved, launches>>
    BY <2>3 DEF LaunchesRemembered
  <2>4. CASE /\ future \in {"true", "false"}
             /\ resolved' = TRUE
             /\ launches' \in {launches, launches + 1}
    BY <2>1, <2>2, <2>4 DEF LaunchesRemembered
  <2> QED
    BY <2>3, <2>4
<1>4. ReadFromManifests'
  BY DEF ReadFromManifests
<1> QED
  BY <1>2, <1>3, <1>4

\* Every step of the task and of the application keeps the invariant.
LEMMA StepIInv == IInv /\ [Next]_vars => IInv'
<1>1. IInv /\ UNCHANGED vars => IInv'
  BY DEF vars, pollVars, dataVars, IInv, FutureFollowsTask, LocalUsable, LoopInv,
         AnswerInText, LaunchesRemembered, ReadFromManifests, Usable, Remote
<1> QED
  BY <1>1, StartIInv, ReadLocalIInv, DownloadIInv, ReadBodyIInv, CompareNextIInv,
     CompareRestIInv, PollIInv DEF Next

\* The inductive invariant holds in every behaviour of the update check.
THEOREM Invariance == Spec => []IInv
BY InitIInv, StepIInv, PTL DEF Spec

\* The updater is launched at most once, by the frame that takes the answer
\* out of the future, and only after the task has returned.
THEOREM UpdaterLaunchedOnce == Spec => []LaunchedOnce
<1>1. IInv => LaunchedOnce
  BY DEF IInv, LaunchesRemembered, LaunchedOnce
<1> QED
  BY <1>1, Invariance, PTL

\* The loop that erases and returns early answers what it should, up to the
\* order in which it compares versions: there is a component on one side only,
\* or one whose remote version is newer as text.
THEOREM AnswerIsRightInText == Spec => []AnswerInText
BY Invariance, PTL DEF IInv

\* The answer is right in the order of the version numbers where the texts are
\* ordered like the numbers.
THEOREM AnswerIsRightInNumbers ==
    ASSUME TextOrderIsNumberOrder
    PROVE  Spec => []AnswerIsRight
<1>1. ASSUME IInv PROVE AnswerIsRight
  <2> USE <1>1 DEF IInv
  <2>1. Remote \in Extracted
    BY DEF Remote, ReadFromManifests, Extracted
  <2>2. Usable => localComponents \in Extracted
    BY DEF Usable, ReadFromManifests
  <2>3. ASSUME Usable, NEW c \in DOMAIN localComponents, DOMAIN localComponents = DOMAIN Remote
        PROVE  IsRemoteVersionNewerThanLocal(localComponents[c], Remote[c])
                 <=> Before(localComponents[c], Remote[c])
    BY <2>1, <2>2, <2>3, TextOrderIsNumberOrder DEF TextOrderIsNumberOrder
  <2>4. Usable => (UpdateInText(localComponents, Remote)
                     <=> UpdateExists(localComponents, Remote))
    BY <2>3 DEF UpdateInText, UpdateExists
  <2> QED
    BY <2>4 DEF AnswerInText, AnswerIsRight, Usable, Remote
<1> QED
  BY <1>1, Invariance, PTL
=============================================================================
