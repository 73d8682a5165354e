------------------------------- MODULE Server -------------------------------
(***************************************************************************)
(* Server (src/network/Server.cpp) and its SpawnedSockets                  *)
(* (src/network/SpawnedSocket.cpp): the accept loop, the receivers of all  *)
(* clients pushing into one _incomingQueue, and the thread that processes  *)
(* that queue (PayloadProcessor).                                          *)
(*                                                                         *)
(* What a receiver does inside is in PayloadReceiver; here a payload it    *)
(* has read to the end is one step.  All of the server's handlers run on   *)
(* the one thread of its io_context, the processing on another one.        *)
(***************************************************************************)
EXTENDS Integers, FiniteSets, PayloadProcessor

CONSTANTS
    Clients,            \* the clients that may connect, each once
    MaxPerClient,       \* bound: how many payloads each client sends
    MaxAcceptErrors     \* bound: how often accepting fails

\* The thread of the io_context.
Io == "io"

ASSUME ServerAssumption ==
    /\ IsFiniteSet(Clients)
    /\ MaxPerClient \in Nat
    /\ MaxAcceptErrors \in Nat
    /\ MaxPayloads = MaxPerClient * Cardinality(Clients)
    /\ Producers = {Io}

VARIABLES
    clients,            \* what each client's connection is at
    accepting,          \* an async_accept is outstanding
    acceptErrors,       \* how often accepting failed
    spawnCount,         \* _spawnCount
    spawnedSockets,     \* _spawnedSockets: spawnId and client of each
    received,           \* how many payloads of each client were pushed
    origins             \* history: where the n-th payload pushed comes from

acceptVars == <<accepting, acceptErrors, spawnCount, spawnedSockets>>
socketVars == <<clients, acceptVars, received, origins>>
serverVars == <<socketVars, vars>>

\* The constructor has started the first async_accept.
ServerInit ==
    /\ clients = [c \in Clients |-> "away"]
    /\ accepting = TRUE
    /\ acceptErrors = 0
    /\ spawnCount = 0
    /\ spawnedSockets = <<>>
    /\ received = [c \in Clients |-> 0]
    /\ origins = <<>>
    /\ Init

\* The io_context's thread is not in the middle of a push.
IoFree == pushing = {}

-----------------------------------------------------------------------------
\* A client connects: it waits in the backlog of the acceptor.
Connect(c) ==
    /\ clients[c] = "away"
    /\ clients' = [clients EXCEPT ![c] = "pending"]
    /\ UNCHANGED <<acceptVars, received, origins, vars>>

\* A plausible slip: the sockets are not counted.
OnAcceptUncounted(c) ==
    /\ IoFree
    /\ accepting
    /\ clients[c] = "pending"
    /\ clients' = [clients EXCEPT ![c] = "connected"]
    /\ spawnedSockets' = Append(spawnedSockets, [spawnId |-> spawnCount, client |-> c])
    /\ accepting' = TRUE
    /\ UNCHANGED <<spawnCount, acceptErrors, received, origins, vars>>

\* The accept handler: number the socket, keep it, start it, accept again.
OnAccept(c) ==
    /\ IoFree
    /\ accepting
    /\ clients[c] = "pending"
    /\ clients' = [clients EXCEPT ![c] = "connected"]
    /\ spawnCount' = spawnCount + 1
    /\ spawnedSockets' = Append(spawnedSockets, [spawnId |-> spawnCount', client |-> c])
    /\ accepting' = TRUE
    /\ UNCHANGED <<acceptErrors, received, origins, vars>>

\* A plausible slip: an error returns before the next async_accept.
OnAcceptErrorReturning ==
    /\ IoFree
    /\ accepting
    /\ acceptErrors < MaxAcceptErrors
    /\ acceptErrors' = acceptErrors + 1
    /\ spawnCount' = spawnCount + 1
    /\ accepting' = FALSE
    /\ UNCHANGED <<clients, spawnedSockets, received, origins, vars>>

\* The accept handler with an error: a number is used up all the same.
OnAcceptError ==
    /\ IoFree
    /\ accepting
    /\ acceptErrors < MaxAcceptErrors
    /\ acceptErrors' = acceptErrors + 1
    /\ spawnCount' = spawnCount + 1
    /\ accepting' = TRUE
    /\ UNCHANGED <<clients, spawnedSockets, received, origins, vars>>

\* The receiver of a SpawnedSocket has read a payload: it pushes its _buf,
\* whose spawnId was set once by the constructor.
OnPayloadReceived(socket) ==
    /\ IoFree
    /\ clients[socket.client] = "connected"
    /\ received[socket.client] < MaxPerClient
    /\ received' = [received EXCEPT ![socket.client] = @ + 1]
    /\ origins' = Append(origins, [spawnId |-> socket.spawnId,
                                   number |-> received'[socket.client]])
    /\ PushLocked(Io)
    /\ UNCHANGED <<clients, acceptVars>>

\* push() goes on to notify the processing thread.
OnPushed ==
    /\ NotifyAll(Io)
    /\ UNCHANGED socketVars

\* The receiver of a SpawnedSocket fails: it stops, the socket stays listed.
OnReceiveError(socket) ==
    /\ IoFree
    /\ clients[socket.client] = "connected"
    /\ clients' = [clients EXCEPT ![socket.client] = "gone"]
    /\ UNCHANGED <<acceptVars, received, origins, vars>>

\* The thread in processPayloadQueue().
ProcessingStep ==
    /\ \/ Call
       \/ WaitToBeFilled
       \/ SpuriousWakeup
       \/ Drain
       \/ Process
       \/ ProcessAndBreak
    /\ UNCHANGED socketVars

-----------------------------------------------------------------------------
Sockets == {spawnedSockets[i] : i \in DOMAIN spawnedSockets}

ServerNext ==
    \/ \E c \in Clients : Connect(c) \/ OnAccept(c)
    \/ OnAcceptError
    \/ \E socket \in Sockets : OnPayloadReceived(socket) \/ OnReceiveError(socket)
    \/ OnPushed
    \/ ProcessingStep

ServerSpec == ServerInit /\ [][ServerNext]_serverVars

\* The io_context runs its handlers, and the processing thread is scheduled.
\* Nothing is assumed of the clients, of spurious wake-ups or of the callback.
ServerFairness ==
    /\ \A c \in Clients : WF_serverVars(OnAccept(c))
    /\ WF_serverVars(OnPushed)
    /\ WF_serverVars(WaitToBeFilled /\ UNCHANGED socketVars)
    /\ WF_serverVars(Drain /\ UNCHANGED socketVars)
    /\ WF_serverVars((Process \/ ProcessAndBreak) /\ UNCHANGED socketVars)

FairServerSpec == ServerSpec /\ ServerFairness

-----------------------------------------------------------------------------
\* All payloads pushed, in the order in which the application sees them.
Shown == handled \o payloads \o queue.items

\* The places at which payloads with a spawnId are shown, and the number that
\* the client gave the payload at a place.
PlacesUnder(spawnId) == {k \in DOMAIN Shown : origins[Shown[k]].spawnId = spawnId}

NumberAt(k) == origins[Shown[k]].number

\* The clients share one queue, and still what an application sees under a
\* spawnId is what one client sent, complete and in its order: however the
\* receivers' handlers, the processing thread and the callback's breaks
\* interleave, and also when accepting failed between two clients.
ClientOrderKept ==
    \A socket \in Sockets :
        LET places == PlacesUnder(socket.spawnId)
        IN  /\ {NumberAt(k) : k \in places} = 1..received[socket.client]
            /\ \A j, k \in places : j < k => NumberAt(j) < NumberAt(k)

\* A client that waits is accepted: neither an accept error nor the payloads
\* of other clients stop the accept loop.
WaitingClientAccepted ==
    \A c \in Clients : clients[c] = "pending" ~> clients[c] # "pending"
=============================================================================
