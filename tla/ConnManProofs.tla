---------------------------- MODULE ConnManProofs ----------------------------
(***************************************************************************)
(* For any set of peers: CConnman counts the references to its nodes       *)
(* exactly, deletes only what nobody refers to, and keeps what             *)
(* net_processing relies on (NodeLife).                                    *)
(***************************************************************************)
EXTENDS ConnMan, TLAPS

TypesOK ==
    /\ vNodes \subseteq Peers /\ vNodesDisconnected \subseteq Peers /\ deleted \subseteq Peers
    /\ fDisconnect \subseteq Peers /\ handlerCopy \subseteq Peers /\ socketCopy \subseteq Peers
    /\ handlerTodo \subseteq handlerCopy
    /\ nRefCount \in [Peers -> Int]
    /\ serving \in Peers \cup {None} /\ running \in BOOLEAN

\* A node is in one place, and what threads hold is somewhere.
Places ==
    /\ vNodes \cap vNodesDisconnected = {} /\ Nodes \cap deleted = {}
    /\ vNodesDisconnected \subseteq fDisconnect /\ fDisconnect \subseteq Nodes \cup deleted
    /\ running => handlerCopy \cup socketCopy \subseteq Nodes
    /\ ~running => vNodes \subseteq fDisconnect
    /\ socketPhase # "service" => socketCopy = {}

\* What is served is held by the handler, and nothing is served after Stop's joins.
ServedIsHeld == serving # None => running /\ serving \in handlerCopy

ConnInv == TypesOK /\ Places /\ ServedIsHeld /\ RefsExact

\* The state CConnman starts in.
LEMMA InitEstablishesInv == ConnInit => ConnInv
  BY DEF ConnInit, ConnInv, TypesOK, Places, ServedIsHeld, RefsExact, Nodes, Holds

\* Every critical section of cs_vNodes, every step of the two threads' rounds, marking
\* and Stop keep the counts exact and the nodes in their places.
LEMMA StepKeepsInv == ConnInv /\ [ConnNext]_connVars => ConnInv'
<1>. SUFFICES ASSUME ConnInv, [ConnNext]_connVars PROVE ConnInv'
  OBVIOUS
<1>. USE PeersAssumption DEF ConnInv
<1>. DEFINE Inv == TypesOK /\ Places /\ ServedIsHeld /\ RefsExact
<1>1. ASSUME NEW p \in Peers, AddNode(p) PROVE Inv'
  <2>1. TypesOK'
    BY <1>1 DEF TypesOK, AddNode, AddRefs, handlerVars, socketVars
  <2>2. Places'
    BY <1>1 DEF Places, AddNode, AddRefs, handlerVars, socketVars, TypesOK, Nodes, RefsExact, Holds, ServedIsHeld
  <2>3. ServedIsHeld'
    BY <1>1 DEF ServedIsHeld, AddNode, AddRefs, handlerVars, socketVars, TypesOK
  <2>4. RefsExact'
    BY <1>1 DEF RefsExact, AddNode, AddRefs, handlerVars, socketVars, TypesOK, Places, Nodes, Holds, ServedIsHeld
  <2>. QED  BY <2>1, <2>2, <2>3, <2>4
<1>2. CASE DisconnectNodes
  <2>1. TypesOK'
    BY <1>2 DEF TypesOK, DisconnectNodes, Releases, handlerVars, socketVars
  <2>2. Places'
    BY <1>2 DEF Places, DisconnectNodes, Releases, handlerVars, socketVars, TypesOK, Nodes, RefsExact, Holds, ServedIsHeld
  <2>3. ServedIsHeld'
    BY <1>2 DEF ServedIsHeld, DisconnectNodes, Releases, handlerVars, socketVars, TypesOK
  <2>4. RefsExact'
    BY <1>2 DEF RefsExact, DisconnectNodes, Releases, handlerVars, socketVars, TypesOK, Places, Nodes, Holds, ServedIsHeld
  <2>. QED  BY <2>1, <2>2, <2>3, <2>4
<1>3. ASSUME NEW p \in Peers, DeleteDisconnected(p) PROVE Inv'
  <2>1. TypesOK'
    BY <1>3 DEF TypesOK, DeleteDisconnected, Unused, handlerVars, socketVars
  <2>2. Places'
    BY <1>3 DEF Places, DeleteDisconnected, Unused, handlerVars, socketVars, TypesOK, Nodes, RefsExact, Holds, ServedIsHeld
  <2>3. ServedIsHeld'
    BY <1>3 DEF ServedIsHeld, DeleteDisconnected, Unused, handlerVars, socketVars, TypesOK
  <2>4. RefsExact'
    BY <1>3 DEF RefsExact, DeleteDisconnected, Unused, handlerVars, socketVars, TypesOK, Places, Nodes, Holds, ServedIsHeld
  <2>. QED  BY <2>1, <2>2, <2>3, <2>4
<1>4. CASE CopyNodes
  <2>1. TypesOK'
    BY <1>4 DEF TypesOK, CopyNodes, AddRefs, handlerVars, socketVars
  <2>2. Places'
    BY <1>4 DEF Places, CopyNodes, AddRefs, handlerVars, socketVars, TypesOK, Nodes, RefsExact, Holds, ServedIsHeld
  <2>3. ServedIsHeld'
    BY <1>4 DEF ServedIsHeld, CopyNodes, AddRefs, handlerVars, socketVars, TypesOK
  <2>4. RefsExact'
    BY <1>4 DEF RefsExact, CopyNodes, AddRefs, handlerVars, socketVars, TypesOK, Places, Nodes, Holds, ServedIsHeld
  <2>. QED  BY <2>1, <2>2, <2>3, <2>4
<1>5. CASE ReleaseNodes
  <2>1. TypesOK'
    BY <1>5 DEF TypesOK, ReleaseNodes, Releases, handlerVars, socketVars
  <2>2. Places'
    BY <1>5 DEF Places, ReleaseNodes, Releases, handlerVars, socketVars, TypesOK, Nodes, RefsExact, Holds, ServedIsHeld
  <2>3. ServedIsHeld'
    BY <1>5 DEF ServedIsHeld, ReleaseNodes, Releases, handlerVars, socketVars, TypesOK
  <2>4. RefsExact'
    BY <1>5 DEF RefsExact, ReleaseNodes, Releases, handlerVars, socketVars, TypesOK, Places, Nodes, Holds, ServedIsHeld
  <2>. QED  BY <2>1, <2>2, <2>3, <2>4
<1>6. CASE HandlerCopies
  <2>1. TypesOK'
    BY <1>6 DEF TypesOK, HandlerCopies, AddRefs, handlerVars, socketVars
  <2>2. Places'
    BY <1>6 DEF Places, HandlerCopies, AddRefs, handlerVars, socketVars, TypesOK, Nodes, RefsExact, Holds, ServedIsHeld
  <2>3. ServedIsHeld'
    BY <1>6 DEF ServedIsHeld, HandlerCopies, AddRefs, handlerVars, socketVars, TypesOK
  <2>4. RefsExact'
    BY <1>6 DEF RefsExact, HandlerCopies, AddRefs, handlerVars, socketVars, TypesOK, Places, Nodes, Holds, ServedIsHeld
  <2>. QED  BY <2>1, <2>2, <2>3, <2>4
<1>7. ASSUME NEW p \in Peers, HandlerServes(p) PROVE Inv'
  <2>1. TypesOK'
    BY <1>7 DEF TypesOK, HandlerServes, Unmarked, handlerVars, socketVars
  <2>2. Places'
    BY <1>7 DEF Places, HandlerServes, Unmarked, handlerVars, socketVars, TypesOK, Nodes, RefsExact, Holds, ServedIsHeld
  <2>3. ServedIsHeld'
    BY <1>7 DEF ServedIsHeld, HandlerServes, Unmarked, handlerVars, socketVars, TypesOK
  <2>4. RefsExact'
    BY <1>7 DEF RefsExact, HandlerServes, Unmarked, handlerVars, socketVars, TypesOK, Places, Nodes, Holds, ServedIsHeld
  <2>. QED  BY <2>1, <2>2, <2>3, <2>4
<1>8. CASE HandlerReturns
  <2>1. TypesOK'
    BY <1>8 DEF TypesOK, HandlerReturns, handlerVars, socketVars
  <2>2. Places'
    BY <1>8 DEF Places, HandlerReturns, handlerVars, socketVars, TypesOK, Nodes, RefsExact, Holds, ServedIsHeld
  <2>3. ServedIsHeld'
    BY <1>8 DEF ServedIsHeld, HandlerReturns, handlerVars, socketVars, TypesOK
  <2>4. RefsExact'
    BY <1>8 DEF RefsExact, HandlerReturns, handlerVars, socketVars, TypesOK, Places, Nodes, Holds, ServedIsHeld
  <2>. QED  BY <2>1, <2>2, <2>3, <2>4
<1>9. CASE HandlerReleases
  <2>1. TypesOK'
    BY <1>9 DEF TypesOK, HandlerReleases, Releases, Unmarked, handlerVars, socketVars
  <2>2. Places'
    BY <1>9 DEF Places, HandlerReleases, Releases, Unmarked, handlerVars, socketVars, TypesOK, Nodes, RefsExact, Holds, ServedIsHeld
  <2>3. ServedIsHeld'
    BY <1>9 DEF ServedIsHeld, HandlerReleases, Releases, Unmarked, handlerVars, socketVars, TypesOK
  <2>4. RefsExact'
    BY <1>9 DEF RefsExact, HandlerReleases, Releases, Unmarked, handlerVars, socketVars, TypesOK, Places, Nodes, Holds, ServedIsHeld
  <2>. QED  BY <2>1, <2>2, <2>3, <2>4
<1>10. ASSUME NEW p \in Peers, MarkNode(p) PROVE Inv'
  <2>1. TypesOK'
    BY <1>10 DEF TypesOK, MarkNode, handlerVars, socketVars
  <2>2. Places'
    BY <1>10 DEF Places, MarkNode, handlerVars, socketVars, TypesOK, Nodes, RefsExact, Holds, ServedIsHeld
  <2>3. ServedIsHeld'
    BY <1>10 DEF ServedIsHeld, MarkNode, handlerVars, socketVars, TypesOK
  <2>4. RefsExact'
    BY <1>10 DEF RefsExact, MarkNode, handlerVars, socketVars, TypesOK, Places, Nodes, Holds, ServedIsHeld
  <2>. QED  BY <2>1, <2>2, <2>3, <2>4
<1>11. CASE JoinThreads
  <2>1. TypesOK'
    BY <1>11 DEF TypesOK, JoinThreads, handlerVars, socketVars
  <2>2. Places'
    BY <1>11 DEF Places, JoinThreads, handlerVars, socketVars, TypesOK, Nodes, RefsExact, Holds, ServedIsHeld
  <2>3. ServedIsHeld'
    BY <1>11 DEF ServedIsHeld, JoinThreads, handlerVars, socketVars, TypesOK
  <2>4. RefsExact'
    BY <1>11 DEF RefsExact, JoinThreads, handlerVars, socketVars, TypesOK, Places, Nodes, Holds, ServedIsHeld
  <2>. QED  BY <2>1, <2>2, <2>3, <2>4
<1>12. ASSUME NEW p \in Peers, DeleteAtStop(p) PROVE Inv'
  <2>1. TypesOK'
    BY <1>12 DEF TypesOK, DeleteAtStop, handlerVars, socketVars
  <2>2. Places'
    BY <1>12 DEF Places, DeleteAtStop, handlerVars, socketVars, TypesOK, Nodes, RefsExact, Holds, ServedIsHeld
  <2>3. ServedIsHeld'
    BY <1>12 DEF ServedIsHeld, DeleteAtStop, handlerVars, socketVars, TypesOK
  <2>4. RefsExact'
    BY <1>12 DEF RefsExact, DeleteAtStop, handlerVars, socketVars, TypesOK, Places, Nodes, Holds, ServedIsHeld
  <2>. QED  BY <2>1, <2>2, <2>3, <2>4
<1>13. CASE UNCHANGED connVars
  BY <1>13 DEF connVars, handlerVars, socketVars, TypesOK, Places, ServedIsHeld, RefsExact, Nodes, Holds
<1>. QED  BY <1>1, <1>2, <1>3, <1>4, <1>5, <1>6, <1>7, <1>8, <1>9, <1>10, <1>11, <1>12, <1>13 DEF ConnNext, OwnStep, DeleteNode

\* The invariant holds throughout.
LEMMA AlwaysInv == ConnSpec => []ConnInv
<1>1. ConnInv /\ [ConnNext]_connVars => ConnInv'
  BY StepKeepsInv
<1>. QED  BY <1>1, InitEstablishesInv, PTL DEF ConnSpec

\* GetRefCount() is the number of those who refer to a node, and DeleteNode frees
\* only nodes that neither vNodes nor a thread's copy of it refers to.
THEOREM RefsAlwaysExact == ConnSpec => []RefsExact
<1>1. ConnInv => RefsExact
  BY DEF ConnInv
<1>. QED  BY <1>1, AlwaysInv, PTL

\* A step of CConnman is, for net_processing, InitializeNode of a new node, marks,
\* a call or the return of one, FinalizeNode of a marked node that is not served, or
\* nothing.
LEMMA StepIsLifeStep ==
    ASSUME ConnInv, [ConnNext]_connVars
    PROVE  [Life!LifeNext]_(Life!lifeVars)
<1>. USE PeersAssumption DEF ConnInv
<1>. DEFINE LifeStep == [Life!LifeNext]_(Life!lifeVars)
<1>1. ASSUME NEW p \in Peers, AddNode(p) PROVE LifeStep
  <2>1. Life!InitializeNode(p)
    BY <1>1 DEF AddNode, Life!InitializeNode, Nodes, Places, handlerVars, socketVars
  <2>. QED  BY <2>1 DEF Life!LifeNext
<1>2. CASE DisconnectNodes \/ CopyNodes \/ ReleaseNodes \/ HandlerCopies \/ HandlerReleases
  BY <1>2 DEF DisconnectNodes, CopyNodes, ReleaseNodes, HandlerCopies, HandlerReleases,
              Nodes, Life!lifeVars, handlerVars, socketVars
<1>3. ASSUME NEW p \in Peers, HandlerServes(p) PROVE LifeStep
  <2>1. Life!Serve(p)
    BY <1>3 DEF HandlerServes, Unmarked, Life!Serve, Nodes, Places, TypesOK, socketVars
  <2>. QED  BY <2>1 DEF Life!LifeNext
<1>4. CASE HandlerReturns
  <2>1. Life!Return
    BY <1>4 DEF HandlerReturns, Life!Return, Nodes, socketVars
  <2>. QED  BY <2>1 DEF Life!LifeNext
<1>5. ASSUME NEW p \in Peers, MarkNode(p) PROVE LifeStep
  <2>1. Life!Mark({p})
    BY <1>5 DEF MarkNode, Life!Mark, Nodes, Places, ServedIsHeld, TypesOK, handlerVars, socketVars
  <2>. QED  BY <2>1 DEF Life!LifeNext
<1>6. CASE JoinThreads
  <2>1. Life!Mark(vNodes) /\ vNodes \in SUBSET Peers
    BY <1>6 DEF JoinThreads, Life!Mark, Nodes, TypesOK, handlerVars, socketVars
  <2>. QED  BY <2>1 DEF Life!LifeNext
<1>7. ASSUME NEW p \in Peers, DeleteDisconnected(p) PROVE LifeStep
  <2>1. serving # p
    BY <1>7 DEF DeleteDisconnected, Unused, RefsExact, ServedIsHeld, Holds, Places, TypesOK
  <2>2. Life!FinalizeNode(p)
    BY <1>7, <2>1 DEF DeleteDisconnected, Unused, Life!FinalizeNode, Nodes, Places, handlerVars, socketVars
  <2>. QED  BY <2>2 DEF Life!LifeNext
<1>8. ASSUME NEW p \in Peers, DeleteAtStop(p) PROVE LifeStep
  <2>1. Life!FinalizeNode(p)
    BY <1>8 DEF DeleteAtStop, Life!FinalizeNode, Nodes, Places, ServedIsHeld, handlerVars, socketVars
  <2>. QED  BY <2>1 DEF Life!LifeNext
<1>9. CASE UNCHANGED connVars
  BY <1>9 DEF connVars, Life!lifeVars, Nodes, handlerVars
<1>. QED
  BY <1>1, <1>2, <1>3, <1>4, <1>5, <1>6, <1>7, <1>8, <1>9 DEF ConnNext, OwnStep, DeleteNode

\* CConnman calls InitializeNode and FinalizeNode once per node, the second only when
\* the node is marked and no call for it is running, and serves no marked node anew.
THEOREM ConnManKeepsNodeLife == ConnSpec => KeepsNodeLife
<1>1. ConnInit => Life!LifeInit
  BY DEF ConnInit, Life!LifeInit, Nodes
<1>2. ConnInv /\ [ConnNext]_connVars => [Life!LifeNext]_(Life!lifeVars)
  BY StepIsLifeStep
<1>. QED  BY <1>1, <1>2, AlwaysInv, PTL DEF ConnSpec, KeepsNodeLife, Life!LifeSpec

=============================================================================
