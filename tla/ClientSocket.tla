---------------------------- MODULE ClientSocket ----------------------------
(***************************************************************************)
(* ClientSocket (src/network/ClientSocket.cpp) with its IClientImpl: the   *)
(* connection attempt made by the constructor, the heartbeat timer, and    *)
(* the payloads both and the application post to the io_context, on top of *)
(* the PayloadSender that writes them.                                     *)
(*                                                                         *)
(* initiateHandshake() is called by the application's thread; everything   *)
(* else is a handler on the thread of the io_context.                      *)
(***************************************************************************)
EXTENDS PayloadSender

CONSTANTS
    HandshakeSize,      \* the size of a serialised Handshake
    HeartbeatSize,      \* the size of a serialised Heartbeat
    MaxHandshakes       \* bound: how often the application calls initiateHandshake()

ASSUME ClientAssumption ==
    /\ HandshakeSize \in Nat
    /\ HeartbeatSize \in Nat
    /\ HandshakeSize # HeartbeatSize
    /\ Sizes = {HandshakeSize, HeartbeatSize}
    /\ MaxHandshakes \in Nat

VARIABLES
    connecting,         \* where the async_connect is
    receiving,          \* _startReceiving() was called
    hbTimer,            \* is _hbTimer waiting?
    posts,              \* payloads posted to the io_context, as their sizes
    handshakes,         \* history: calls of initiateHandshake()
    posted              \* history: payloads posted

clientVars == <<connecting, receiving, hbTimer, posts, handshakes, posted>>
allVars == <<clientVars, vars>>

\* The constructor has started async_connect.
ClientInit ==
    /\ connecting = "pending"
    /\ receiving = FALSE
    /\ hbTimer = "off"
    /\ posts = <<>>
    /\ handshakes = 0
    /\ posted = 0
    /\ Init

-----------------------------------------------------------------------------
\* _asyncSendPayload(): the payload is copied into a handler.
AsyncSendPayload(size) ==
    /\ posted < MaxPayloads
    /\ posted' = posted + 1
    /\ posts' = Append(posts, size)

\* initiateHandshake(), called at any time, connected or not.
InitiateHandshake ==
    /\ handshakes < MaxHandshakes
    /\ handshakes' = handshakes + 1
    /\ AsyncSendPayload(HandshakeSize)
    /\ UNCHANGED <<connecting, receiving, hbTimer, vars>>

\* The posted handler runs _sendPayload().  With Overlap = FALSE, a payload is
\* written before the next one is taken up.
RunPost ==
    /\ posts # <<>>
    /\ SendPayload(Head(posts))
    /\ posts' = Tail(posts)
    /\ UNCHANGED <<connecting, receiving, hbTimer, handshakes, posted>>

\* The socket connects; its handler has not run yet.
SocketConnects ==
    /\ connecting = "pending"
    /\ connecting' = "connected"
    /\ Connected
    /\ UNCHANGED <<receiving, hbTimer, posts, handshakes, posted>>

\* The attempt fails, or the connection is lost later on.
SocketFails ==
    /\ Disconnected
    /\ connecting' = IF connecting = "pending" THEN "failed" ELSE connecting
    /\ UNCHANGED <<receiving, hbTimer, posts, handshakes, posted>>

\* A plausible slip: the heartbeat is not started.
OnConnectedSilent ==
    /\ connecting = "connected"
    /\ connecting' = "done"
    /\ receiving' = TRUE
    /\ UNCHANGED <<hbTimer, posts, handshakes, posted, vars>>

\* The connect handler: start receiving and heartbeating.
OnConnected ==
    /\ connecting = "connected"
    /\ connecting' = "done"
    /\ receiving' = TRUE
    /\ hbTimer' = "waiting"
    /\ UNCHANGED <<posts, handshakes, posted, vars>>

\* The connect handler with an error: _onError() logs it, and that is all.
OnConnectError ==
    /\ connecting = "failed"
    /\ connecting' = "done"
    /\ UNCHANGED <<receiving, hbTimer, posts, handshakes, posted, vars>>

SendHeartbeat == AsyncSendPayload(HeartbeatSize)

\* _hbTimer expires: sendHeartbeat(), and wait again.  Nothing stops it.
OnHeartbeatTimer ==
    /\ hbTimer = "waiting"
    /\ SendHeartbeat
    /\ UNCHANGED <<connecting, receiving, hbTimer, handshakes, vars>>

SenderRuns ==
    /\ Handlers \/ Transmit \/ FailWrite
    /\ UNCHANGED clientVars

-----------------------------------------------------------------------------
ClientNext ==
    \/ InitiateHandshake
    \/ RunPost
    \/ SocketConnects
    \/ SocketFails
    \/ OnConnected
    \/ OnConnectError
    \/ OnHeartbeatTimer
    \/ SenderRuns

ClientSpec == ClientInit /\ [][ClientNext]_allVars

\* The io_context runs what is posted to it, the timer expires, the connection
\* attempt ends one way or the other, and an open connection takes bytes.
ClientFairness ==
    /\ WF_allVars(RunPost)
    /\ WF_allVars(OnConnected \/ OnConnectError)
    /\ WF_allVars(OnHeartbeatTimer)
    /\ WF_allVars(SocketConnects \/ (connecting = "pending" /\ SocketFails))
    /\ WF_allVars(Handlers /\ UNCHANGED clientVars)
    /\ WF_allVars(Transmit /\ UNCHANGED clientVars)
    /\ WF_allVars(FailWrite /\ UNCHANGED clientVars)

FairClientSpec == ClientSpec /\ ClientFairness

-----------------------------------------------------------------------------
\* A handshake posted before the connection is made can fail, and nothing in
\* IPayloadSender sends it again.  It reaches the server all the same: it
\* stays at the head of the queue, and the first heartbeat sends what is at
\* the head.  So every handshake is sent unless the connection is not made or
\* is lost.
HandshakesReachTheWire ==
    \A h \in 1..MaxHandshakes :
        handshakes >= h ~>
            \/ link = "broken"
            \/ \E n \in 1..popCount : sizes[n] = HandshakeSize
                  /\ h = Len(SelectSeq(SubSeq(sizes, 1, n),
                                       LAMBDA size : size = HandshakeSize))

\* What the comment in _sendPayload() says: a payload submitted while another
\* one is written is left to the handlers, so frames do not mix.
FramesDoNotMix == WireHoldsFrames
=============================================================================
