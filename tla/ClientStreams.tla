----------------------------- MODULE ClientStreams -----------------------------
(***************************************************************************)
(* Clients that listen to events, over WebSocket (core/websocket.go) and   *)
(* SSE (api/sse.go), and the server that stops meanwhile (Stop of          *)
(* api/server.go).  Every client subscribes to the event bus before it is  *)
(* known to anybody, and must have given the subscription back in the end, *)
(* whichever of its goroutines, the server, or its peer ends it.           *)
(***************************************************************************)
EXTENDS Naturals, FiniteSets

CONSTANTS
    WebSocket, Sse      \* clients of either kind; each connects once

ASSUME StreamsAssumption == WebSocket \cap Sse = {}

VARIABLES
    stage,      \* of Server.Stop: "serving", "shutdown" (connections are drained),
                \* "quit", "closing" (clients one by one), "waiting", "stopped"
    handler,    \* of the request: "none", "upgrading", "registering", "refused",
                \* "streaming", "stalled" (in a write to a peer that does not
                \* read), "ended"
    clients,    \* the registry of the WebSocket server
    pumps,      \* goroutines of a client that run
    once,       \* closeOnce: "open", then what is already done, then "closed"
    sockets,    \* hijacked connections not yet closed
    subs,       \* subscriptions of the event bus
    leaving     \* Stop's copy of the registry

streamVars == <<stage, handler, clients, pumps, once, sockets, subs, leaving>>
wsVars == <<clients, pumps, once, sockets>>
stopVars == <<stage, leaving>>

StreamClient == WebSocket \cup Sse

StreamsInit ==
    /\ stage = "serving" /\ leaving = {}
    /\ handler = [c \in StreamClient |-> "none"]
    /\ clients = {} /\ sockets = {} /\ subs = {}
    /\ pumps = [c \in WebSocket |-> {}] /\ once = [c \in WebSocket |-> "open"]

\* Requests are accepted, and those already accepted may still begin, until
\* Shutdown returns.
Accepting == stage \in {"serving", "shutdown"}

InHandler(c) == handler[c] \notin {"none", "ended"}

\* net/http knows of it: a hijacked connection is not waited for, nor closed.
Drainable(c) == handler[c] \in {"upgrading", "streaming", "stalled"}
-----------------------------------------------------------------------------
\* Handle: first the subscription, then the upgrade.
Connect(c) ==
    /\ Accepting /\ handler[c] = "none"
    /\ handler' = [handler EXCEPT ![c] = IF c \in Sse THEN "streaming" ELSE "upgrading"]
    /\ subs' = subs \cup {c}
    /\ UNCHANGED <<wsVars, stopVars>>

Upgraded(c) ==
    /\ handler[c] = "upgrading"
    /\ handler' = [handler EXCEPT ![c] = "registering"] /\ sockets' = sockets \cup {c}
    /\ UNCHANGED <<clients, pumps, once, subs, stopVars>>

\* Mutant of UpgradeFails: the subscription is forgotten.
UpgradeFailsSubscribed(c) ==
    /\ handler[c] = "upgrading"
    /\ handler' = [handler EXCEPT ![c] = "ended"]
    /\ UNCHANGED <<wsVars, subs, stopVars>>

UpgradeFails(c) ==
    /\ handler[c] = "upgrading"
    /\ handler' = [handler EXCEPT ![c] = "ended"] /\ subs' = subs \ {c}
    /\ UNCHANGED <<wsVars, stopVars>>

\* Mutant of Refuses: the registry is open for ever.
RefusesNever == FALSE

\* quit is closed.
Refuses == stage \notin {"serving", "shutdown"}

\* register, under the lock of the registry, and the two pumps.
RegisterClient(c) ==
    /\ handler[c] = "registering"
    /\ \/ /\ Refuses
          /\ handler' = [handler EXCEPT ![c] = "refused"]
          /\ UNCHANGED <<clients, pumps>>
       \/ /\ ~Refuses
          /\ handler' = [handler EXCEPT ![c] = "ended"]
          /\ clients' = clients \cup {c} /\ pumps' = [pumps EXCEPT ![c] = {"read", "write"}]
    /\ UNCHANGED <<once, sockets, subs, stopVars>>

\* Who finds closeOnce open goes through close(); everybody else waits for it.
StartClose(c) == /\ once[c] = "open" /\ once' = [once EXCEPT ![c] = "done"]
                 /\ UNCHANGED <<handler, clients, pumps, sockets, subs, stopVars>>

RefusedCloses(c) == handler[c] = "refused" /\ StartClose(c)

\* ReadMessage fails: the peer has gone, or sends nonsense, or the socket is closed;
\* a write fails, or the write pump sees done.
PumpCloses(c) == pumps[c] # {} /\ StartClose(c)

\* close(): done is closed; then Unsubscribe ...
CloseUnsubscribes(c) ==
    /\ once[c] = "done" /\ once' = [once EXCEPT ![c] = "unsubscribed"]
    /\ subs' = subs \ {c}
    /\ UNCHANGED <<handler, clients, pumps, sockets, stopVars>>

\* ... Conn.Close, which ends whatever read or write is under way ...
CloseSocket(c) ==
    /\ once[c] = "unsubscribed" /\ once' = [once EXCEPT ![c] = "hungup"]
    /\ sockets' = sockets \ {c}
    /\ UNCHANGED <<handler, clients, pumps, subs, stopVars>>

\* ... and unregister.
Unregister(c) ==
    /\ once[c] = "hungup" /\ once' = [once EXCEPT ![c] = "closed"]
    /\ clients' = clients \ {c}
    /\ UNCHANGED <<handler, pumps, sockets, subs, stopVars>>

CloseSteps(c) == CloseUnsubscribes(c) \/ CloseSocket(c) \/ Unregister(c)

\* A pump returns: its own close() has come back.  The write pump sees done; the
\* read pump comes out of its read only when the connection is closed.
PumpEnds(c, p) ==
    /\ p \in pumps[c] /\ once[c] = "closed"
    /\ p = "read" => c \notin sockets
    /\ pumps' = [pumps EXCEPT ![c] = @ \ {p}]
    /\ UNCHANGED <<handler, clients, once, sockets, subs, stopVars>>

RefusedEnds(c) ==
    /\ handler[c] = "refused" /\ once[c] = "closed"
    /\ handler' = [handler EXCEPT ![c] = "ended"]
    /\ UNCHANGED <<wsVars, subs, stopVars>>
-----------------------------------------------------------------------------
\* The peer of an SSE stream stops reading, and the handler is in a write.
Stall(c) ==
    /\ handler[c] = "streaming" /\ handler' = [handler EXCEPT ![c] = "stalled"]
    /\ UNCHANGED <<wsVars, subs, stopVars>>

\* baseCancel: the context of every request is done.
Cancelled == stage # "serving"

\* handleSSE returns: the peer has gone, the write fails since the server has
\* closed the connection, or the context is done and no write is under way.
StreamLeaves(c) ==
    /\ handler[c] \in {"streaming", "stalled"}
    /\ handler' = [handler EXCEPT ![c] = "ended"] /\ subs' = subs \ {c}
    /\ UNCHANGED <<wsVars, stopVars>>

StreamEnds(c) ==
    /\ \/ handler[c] = "streaming" /\ Cancelled
       \/ handler[c] = "stalled" /\ stage = "stopped"
    /\ StreamLeaves(c)
-----------------------------------------------------------------------------
\* Server.Stop: baseCancel and Shutdown ...
BeginShutdown ==
    /\ stage = "serving" /\ stage' = "shutdown"
    /\ UNCHANGED <<handler, wsVars, subs, leaving>>

\* ... which returns when nothing is left, or when its time is over ...
Drained ==
    /\ stage = "shutdown" /\ ~\E c \in StreamClient : Drainable(c)
    /\ stage' = "quit" /\ UNCHANGED <<handler, wsVars, subs, leaving>>

TimeOver ==
    /\ stage = "shutdown" /\ \E c \in StreamClient : Drainable(c)
    /\ stage' = "quit"
    /\ UNCHANGED <<handler, wsVars, subs, leaving>>

\* ... WSServer.Stop: quit is closed, then the registry is copied ...
CopyClients ==
    /\ stage = "quit" /\ stage' = "closing" /\ leaving' = clients
    /\ UNCHANGED <<handler, wsVars, subs>>

\* ... each client closed, by whoever came first ...
StopCloses == stage = "closing" /\ \E c \in leaving : StartClose(c)

StopMovesOn ==
    /\ stage = "closing"
    /\ \E c \in leaving : once[c] = "closed" /\ leaving' = leaving \ {c}
    /\ UNCHANGED <<stage, handler, wsVars, subs>>

\* ... the pumps waited for, and what Shutdown has left is closed by force.
WaitForPumps ==
    /\ stage = "closing" /\ leaving = {} /\ \A c \in WebSocket : pumps[c] = {}
    /\ stage' = "stopped" /\ UNCHANGED <<handler, wsVars, subs, leaving>>

Stopping ==
    BeginShutdown \/ Drained \/ TimeOver \/ CopyClients \/ StopCloses \/ StopMovesOn
    \/ WaitForPumps

StreamsNext ==
    \/ Stopping
    \/ \E c \in StreamClient : Connect(c)
    \/ \E c \in Sse : Stall(c) \/ StreamLeaves(c)
    \/ \E c \in WebSocket :
        \/ Upgraded(c) \/ UpgradeFails(c) \/ RegisterClient(c)
        \/ RefusedCloses(c) \/ PumpCloses(c) \/ CloseSteps(c) \/ RefusedEnds(c)
        \/ \E p \in {"read", "write"} : PumpEnds(c, p)

\* Goroutines run; writes have deadlines, but for those to an SSE client, and
\* Shutdown has one; nothing is assumed of a peer.
StreamsFairness ==
    /\ WF_streamVars(Stopping /\ stage # "serving")
    /\ \A c \in WebSocket :
        /\ WF_streamVars(Upgraded(c) \/ UpgradeFails(c))
        /\ WF_streamVars(RegisterClient(c))
        /\ WF_streamVars(RefusedCloses(c)) /\ WF_streamVars(RefusedEnds(c))
        /\ WF_streamVars(CloseSteps(c))
        /\ \A p \in {"read", "write"} : WF_streamVars(PumpEnds(c, p))
    /\ \A s \in Sse : WF_streamVars(StreamEnds(s))

StreamsSpec == StreamsInit /\ [][StreamsNext]_streamVars /\ StreamsFairness
-----------------------------------------------------------------------------
\* "关停时必须退订，否则 EventBus 订阅表随连接数无界增长" - every subscription has a
\* goroutine left that will give it back: the handler, or a pump of a client that
\* nobody has begun to close, or whoever closes it and has not unsubscribed yet;
\* however the upgrade, the registration and the stop of the server ran into each
\* other.
SubscriptionsAreOwned ==
    \A c \in subs :
        \/ c \in Sse /\ InHandler(c)
        \/ c \in WebSocket /\ once[c] = "done"
        \/ c \in WebSocket /\ once[c] = "open" /\ (InHandler(c) \/ pumps[c] # {})

\* Stop "通知长连接退出、停止监听，最后关闭全部 WebSocket 客户端" - it returns, whatever
\* the peers do, and in the end nothing of any client is left: no subscription,
\* no goroutine, no connection, no entry in the registry.
StopReleasesAll ==
    stage = "shutdown" ~>
        /\ stage = "stopped" /\ subs = {} /\ clients = {} /\ sockets = {}
        /\ \A c \in WebSocket : pumps[c] = {}
=============================================================================
