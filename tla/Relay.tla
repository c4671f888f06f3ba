-------------------------------- MODULE Relay --------------------------------
(***************************************************************************)
(* CConnman with the orphan transactions of net_processing: InitializeNode *)
(* and FinalizeNode are called by the threads that own the nodes, and the  *)
(* handler of TX runs while the message handler serves a node that may be  *)
(* marked, or off vNodes, by then.                                         *)
(***************************************************************************)
EXTENDS ConnMan, OrphanTx

CONSTANT Companies      \* the transactions that each of the peers that connect sends, and
                        \* with NoPeer those of the node itself, which then has blocks, too

ASSUME CompaniesAssumption ==
    Companies \subseteq UNION {[S -> SUBSET Txs] : S \in SUBSET (Peers \cup {NoPeer})}

VARIABLE sends          \* the member of Companies at hand

vars == <<connVars, orphanVars, sends>>

Init == ConnInit /\ OrphanInit /\ sends \in Companies

\* ProcessMessages and SendMessages, with at most one message.
MessageStep ==
    /\ HandlerReturns
    /\ \/ UNCHANGED orphanVars
       \/ \E t \in sends[serving] : Tx(serving, t)

\* FinalizeNode, of which EraseOrphansFor is the part that is modelled here.
Finalize(p) ==
    /\ DeleteNode(p) /\ EraseOrphansFor(p)
    /\ UNCHANGED <<recentRejects, hashRecentRejectsChainTip, mempool, chainActive, pendingConnected>>

Next ==
    /\ \/ OwnStep /\ vNodes' \subseteq DOMAIN sends /\ UNCHANGED orphanVars
       \/ MessageStep
       \/ \E p \in Peers : Finalize(p)
       \/ /\ NoPeer \in DOMAIN sends
          /\ ChainStep \/ \E t \in sends[NoPeer] : AcceptLocal(t)
          /\ UNCHANGED connVars
    /\ UNCHANGED sends

Spec == Init /\ [][Next]_vars

SocketRound == DisconnectNodes \/ CopyNodes \/ ReleaseNodes
HandlerRound == HandlerCopies \/ HandlerReleases \/ \E p \in Peers : HandlerServes(p)

\* Both threads go on with their rounds, and m_msgproc returns.  A node that is
\* not used is deleted as soon as its locks are free when the thread looks.
FairSpec ==
    /\ Spec
    /\ WF_vars(SocketRound /\ UNCHANGED <<orphanVars, sends>>)
    /\ WF_vars(HandlerRound /\ UNCHANGED <<orphanVars, sends>>)
    /\ WF_vars(MessageStep /\ UNCHANGED sends)
    /\ \A p \in Peers : SF_vars(Finalize(p) /\ UNCHANGED sends)

-----------------------------------------------------------------------------
(* Properties.                                                             *)

\* Every orphan is of a node that is still there, so that FinalizeNode will
\* erase it: no transaction handler stores one for a node that is gone.
OrphansOwned == \A t \in Stored(Map) : fromPeer[t] \in Nodes

\* A node that is marked is deleted in the end, with its orphans: the threads
\* let go of it, and nobody takes a new reference.
MarkedNodesGo == \A p \in Peers : p \in fDisconnect ~> p \in deleted

=============================================================================
