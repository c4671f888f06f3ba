------------------------------- MODULE ConnMan -------------------------------
(***************************************************************************)
(* The nodes of CConnman (net.cpp) and the threads that hold pointers to   *)
(* them: the socket handler, which takes a disconnected node off vNodes    *)
(* and deletes it when nobody refers to it any more, the message handler,  *)
(* and Stop.  A step is one critical section of cs_vNodes, or a call of    *)
(* m_msgproc.                                                              *)
(*                                                                         *)
(* Connections, sockets and buffers are left out: a node appears, and may  *)
(* be marked for disconnection by whoever holds it.                        *)
(***************************************************************************)
EXTENDS Integers, FiniteSets

CONSTANTS Peers,        \* NodeIds, which are never used again
          None

ASSUME PeersAssumption == IsFiniteSet(Peers) /\ None \notin Peers

VARIABLES
    vNodes, vNodesDisconnected,
    deleted,            \* the nodes DeleteNode was called for
    nRefCount,
    fDisconnect,        \* the nodes marked for disconnection
    handlerCopy,        \* vNodesCopy in ThreadMessageHandler
    handlerTodo,        \* the nodes of it that the loop has not come to
    serving,            \* the node m_msgproc is called with, or None
    socketPhase,        \* where ThreadSocketHandler is
    socketCopy,         \* its vNodesCopy
    running             \* FALSE once Stop has joined the threads

handlerVars == <<handlerCopy, handlerTodo, serving>>
socketVars == <<socketPhase, socketCopy>>
connVars == <<vNodes, vNodesDisconnected, deleted, nRefCount, fDisconnect, handlerVars,
              socketVars, running>>

ConnInit ==
    /\ vNodes = {} /\ vNodesDisconnected = {} /\ deleted = {} /\ fDisconnect = {}
    /\ nRefCount = [p \in Peers |-> 0]
    /\ handlerCopy = {} /\ handlerTodo = {} /\ serving = None
    /\ socketPhase = "disconnect" /\ socketCopy = {}
    /\ running = TRUE

Nodes == vNodes \cup vNodesDisconnected

AddRefs(refs, S) == [p \in Peers |-> IF p \in S THEN refs[p] + 1 ELSE refs[p]]
Releases(refs, S) == [p \in Peers |-> IF p \in S THEN refs[p] - 1 ELSE refs[p]]

\* AcceptConnection and OpenNetworkConnection: no other thread knows the node
\* before it is in vNodes.
AddNode(p) ==
    /\ running /\ p \notin Nodes \cup deleted
    /\ nRefCount' = AddRefs(nRefCount, {p})
    /\ vNodes' = vNodes \cup {p}
    /\ UNCHANGED <<vNodesDisconnected, deleted, fDisconnect, handlerVars, socketVars, running>>

-----------------------------------------------------------------------------
(* ThreadSocketHandler.                                                    *)

\* Slip: the reference of vNodes is not given back.
DisconnectOnly ==
    /\ running /\ socketPhase = "disconnect" /\ socketPhase' = "delete"
    /\ vNodes' = vNodes \ fDisconnect
    /\ vNodesDisconnected' = vNodesDisconnected \cup (vNodes \cap fDisconnect)
    /\ UNCHANGED <<nRefCount, deleted, fDisconnect, handlerVars, socketCopy, running>>

DisconnectNodes ==
    /\ running /\ socketPhase = "disconnect" /\ socketPhase' = "delete"
    /\ vNodes' = vNodes \ fDisconnect
    /\ vNodesDisconnected' = vNodesDisconnected \cup (vNodes \cap fDisconnect)
    /\ nRefCount' = Releases(nRefCount, vNodes \cap fDisconnect)
    /\ UNCHANGED <<deleted, fDisconnect, handlerVars, socketCopy, running>>

\* Slip: nobody waits for the threads that still use the node.
Disconnected(p) == p \in vNodesDisconnected

\* GetRefCount() <= 0: "wait until threads are done using it".
Unused(p) == p \in vNodesDisconnected /\ nRefCount[p] <= 0

\* Those whose locks cannot be had at once are left for the next round.
DeleteDisconnected(p) ==
    /\ running /\ socketPhase = "delete" /\ Unused(p)
    /\ vNodesDisconnected' = vNodesDisconnected \ {p} /\ deleted' = deleted \cup {p}
    /\ UNCHANGED <<vNodes, nRefCount, fDisconnect, handlerVars, socketVars, running>>

CopyNodes ==
    /\ running /\ socketPhase = "delete" /\ socketPhase' = "service"
    /\ socketCopy' = vNodes
    /\ nRefCount' = AddRefs(nRefCount, vNodes)
    /\ UNCHANGED <<vNodes, vNodesDisconnected, deleted, fDisconnect, handlerVars, running>>

ReleaseNodes ==
    /\ running /\ socketPhase = "service" /\ socketPhase' = "disconnect"
    /\ nRefCount' = Releases(nRefCount, socketCopy)
    /\ socketCopy' = {}
    /\ UNCHANGED <<vNodes, vNodesDisconnected, deleted, fDisconnect, handlerVars, running>>

-----------------------------------------------------------------------------
(* ThreadMessageHandler.                                                   *)

\* A round over no node is not told apart from waiting.
HandlerCopies ==
    /\ running /\ handlerCopy = {} /\ vNodes # {}
    /\ handlerCopy' = vNodes /\ handlerTodo' = vNodes
    /\ nRefCount' = AddRefs(nRefCount, vNodes)
    /\ UNCHANGED <<vNodes, vNodesDisconnected, deleted, fDisconnect, serving, socketVars, running>>

\* The nodes the loop does not skip.
Unmarked == handlerTodo \ fDisconnect

\* The loop comes to p.  The vector is in some order.
HandlerServes(p) ==
    /\ running /\ serving = None /\ p \in Unmarked
    /\ serving' = p /\ handlerTodo' = handlerTodo \ {p}
    /\ UNCHANGED <<vNodes, vNodesDisconnected, deleted, nRefCount, fDisconnect, handlerCopy,
                   socketVars, running>>

HandlerReturns ==
    /\ serving # None /\ serving' = None
    /\ UNCHANGED <<vNodes, vNodesDisconnected, deleted, nRefCount, fDisconnect, handlerCopy,
                   handlerTodo, socketVars, running>>

HandlerReleases ==
    /\ running /\ serving = None /\ handlerCopy # {} /\ Unmarked = {}
    /\ nRefCount' = Releases(nRefCount, handlerCopy)
    /\ handlerCopy' = {} /\ handlerTodo' = {}
    /\ UNCHANGED <<vNodes, vNodesDisconnected, deleted, fDisconnect, serving, socketVars, running>>

-----------------------------------------------------------------------------
(* Marking, and Stop.                                                      *)

\* The socket thread finds the socket closed, broken or silent, the message
\* handler has had enough of the node, or it is found in vNodes by disconnectnode,
\* setban, setnetworkactive or an eviction.
MarkNode(p) ==
    /\ running /\ p \notin fDisconnect /\ (p \in vNodes \cup socketCopy \/ p = serving)
    /\ fDisconnect' = fDisconnect \cup {p}
    /\ UNCHANGED <<vNodes, vNodesDisconnected, deleted, nRefCount, handlerVars, socketVars, running>>

\* Interrupt, and Stop up to the last join.  The threads leave where they find
\* the flag, in the middle of a round, and keep their references.
JoinThreads ==
    /\ running /\ serving = None /\ running' = FALSE
    /\ fDisconnect' = fDisconnect \cup vNodes
    /\ UNCHANGED <<vNodes, vNodesDisconnected, deleted, nRefCount, handlerVars, socketVars>>

\* The rest of Stop.
DeleteAtStop(p) ==
    /\ ~running /\ p \in Nodes
    /\ vNodes' = vNodes \ {p} /\ vNodesDisconnected' = vNodesDisconnected \ {p}
    /\ deleted' = deleted \cup {p}
    /\ UNCHANGED <<nRefCount, fDisconnect, handlerVars, socketVars, running>>

DeleteNode(p) == DeleteDisconnected(p) \/ DeleteAtStop(p)

\* The steps that m_msgproc takes no part in.
OwnStep ==
    \/ DisconnectNodes \/ CopyNodes \/ ReleaseNodes
    \/ HandlerCopies \/ HandlerReleases
    \/ \E p \in Peers : AddNode(p) \/ HandlerServes(p) \/ MarkNode(p)
    \/ JoinThreads

ConnNext == OwnStep \/ HandlerReturns \/ \E p \in Peers : DeleteNode(p)

ConnSpec == ConnInit /\ [][ConnNext]_connVars

-----------------------------------------------------------------------------
(* Properties.                                                             *)

Holds(S, p) == IF p \in S THEN 1 ELSE 0

\* A node's count is the number of those that refer to it, and nobody refers to
\* a deleted node: DeleteNode frees what no thread can reach.
RefsExact ==
    running =>
        /\ \A p \in Peers :
              nRefCount[p] = Holds(vNodes, p) + Holds(handlerCopy, p) + Holds(socketCopy, p)
        /\ (handlerCopy \cup socketCopy \cup vNodes) \cap deleted = {}

Life == INSTANCE NodeLife WITH
    alive <- Nodes, finished <- deleted, marked <- fDisconnect \cap Nodes, serving <- serving

\* CConnman keeps what m_msgproc relies on: InitializeNode and FinalizeNode are
\* called once for a node, the second when it is marked and not being served, and
\* no marked or deleted node is served.
KeepsNodeLife == Life!LifeSpec

=============================================================================
