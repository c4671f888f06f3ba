------------------------- MODULE BlockDownloadLemmas -------------------------
(***************************************************************************)
(* The inductive invariant of BlockDownload, and the operators that keep   *)
(* it: those on a peer's flags and those that take blocks out of flight.   *)
(*                                                                         *)
(* A handler is a composition of operators on the record Now, so there is  *)
(* one lemma for each operator, saying that it keeps StateOK.  All         *)
(* operators change one node and the counters with it; NodeChange is the   *)
(* lemma they share.                                                       *)
(***************************************************************************)
EXTENDS BlockDownload, FiniteSetTheorems, SequenceTheorems, WellFoundedInduction, TLAPS

-----------------------------------------------------------------------------
(* The inductive invariant.                                                *)

Hashes(q) == {q[i].hash : i \in DOMAIN q}

\* A list without duplicates.
QueueOK(q) ==
    /\ q \in Seq(QueuedBlock)
    /\ \A i, j \in DOMAIN q : q[i].hash = q[j].hash => i = j

\* A record with the fields of CNodeState.
HasFields(n) ==
    n \in [stage : {"none", "connected", "version", "ready", "gone"},
           fShouldBan : BOOLEAN,
           pindexBestKnownBlock : Blocks \cup {None}, hashLastUnknownBlock : Blocks \cup {None},
           pindexLastCommonBlock : {n.pindexLastCommonBlock},
           fSyncStarted : BOOLEAN, nHeadersSyncTimeout : {n.nHeadersSyncTimeout},
           fPreferredDownload : BOOLEAN,
           vBlocksInFlight : {n.vBlocksInFlight},
           nBlocksInFlight : Int, nBlocksInFlightValidHeaders : Int,
           nStallingSince : {n.nStallingSince},
           m_protect : BOOLEAN, m_timeout : {n.m_timeout}, m_work_header : {n.m_work_header},
           m_sent_getheaders : {n.m_sent_getheaders}]

\* The counts of a node are those of its queue, and a node that is not there has
\* nothing that a counter counts.
NodeOK(n) ==
    /\ HasFields(n)
    /\ QueueOK(n.vBlocksInFlight)
    /\ n.nBlocksInFlight = Len(n.vBlocksInFlight)
    /\ n.nBlocksInFlightValidHeaders = Len(n.vBlocksInFlight)
    /\ Len(n.vBlocksInFlight) <= MAX_BLOCKS_IN_TRANSIT_PER_PEER
    /\ n.nStallingSince # "off" => n.vBlocksInFlight # <<>>
    /\ n.m_timeout # "off" => n.m_work_header # None
    /\ n.nHeadersSyncTimeout = "running" => n.fSyncStarted
    /\ ~Live(n) => /\ n.vBlocksInFlight = <<>>
                   /\ ~n.fSyncStarted /\ ~n.fPreferredDownload /\ ~n.m_protect

IsState(d) ==
    d = [node |-> d.node, inFlight |-> d.inFlight, sync |-> d.sync, preferred |-> d.preferred,
         validated |-> d.validated, protected |-> d.protected,
         disconnect |-> d.disconnect, aborted |-> d.aborted]

Syncing(node) == {p \in Peers : node[p].fSyncStarted}
Preferring(node) == {p \in Peers : node[p].fPreferredDownload}
Protecting(node) == {p \in Peers : node[p].m_protect}
Delivering(node) == {p \in Peers : node[p].vBlocksInFlight # <<>>}

StateOK(d) ==
    /\ IsState(d)
    /\ d.node = [p \in Peers |-> d.node[p]]
    /\ \A p \in Peers : NodeOK(d.node[p])
    /\ d.inFlight \in [Blocks -> Peers \cup {None}]
    /\ \A p \in Peers, b \in Blocks :
          d.inFlight[b] = p <=> b \in Hashes(d.node[p].vBlocksInFlight)
    /\ d.sync = Cardinality(Syncing(d.node))
    /\ d.preferred = Cardinality(Preferring(d.node))
    /\ d.protected = Cardinality(Protecting(d.node)) /\ d.protected <= MAX_PROTECTED
    /\ d.validated = Cardinality(Delivering(d.node))
    /\ d.aborted = FALSE

DownloadInv ==
    /\ StateOK(Now)
    /\ mapBlockSource \in [Blocks -> [peer : Peers, punish : BOOLEAN] \cup {None}]
    /\ processing = Idle \/ (processing.peer \in Peers /\ processing.hash \in Blocks)
    /\ mapBlockIndex \subseteq Blocks /\ tip \in Blocks

-----------------------------------------------------------------------------
(* Changing one node.                                                      *)

\* A count over the peers when one peer changes sides.
LEMMA CountOne ==
    ASSUME NEW S \in SUBSET Peers, NEW T \in SUBSET Peers, NEW p \in Peers,
           T \ {p} = S \ {p},
           NEW before \in BOOLEAN, before <=> p \in S,
           NEW after \in BOOLEAN, after <=> p \in T
    PROVE  /\ Cardinality(S) \in Nat /\ Cardinality(T) \in Nat
           /\ Cardinality(T) = Cardinality(S) - One(before) + One(after)
<1>1. IsFiniteSet(S) /\ IsFiniteSet(T) /\ IsFiniteSet(S \ {p})
  BY PeersAssumption, FS_Subset, Zenon
<1>2. Cardinality(S) \in Nat /\ Cardinality(T) \in Nat /\ Cardinality(S \ {p}) \in Nat
  BY <1>1, FS_CardinalityType, Zenon
<1>3. Cardinality(S \ {p}) = Cardinality(S) - One(before)
  <2>1. CASE p \in S
    BY <1>1, <2>1, FS_RemoveElement, Zenon DEF One
  <2>2. CASE p \notin S
    <3>1. S \ {p} = S
      BY <2>2, Zenon
    <3>2. One(before) = 0
      BY <2>2, Zenon DEF One
    <3>3. Cardinality(S \ {p}) = Cardinality(S)
      BY <3>1, Zenon
    <3>. QED  BY <1>2, <3>2, <3>3
  <2>. QED  BY <2>1, <2>2, Zenon
<1>4. Cardinality(T \ {p}) = Cardinality(T) - One(after)
  <2>1. CASE p \in T
    BY <1>1, <2>1, FS_RemoveElement, Zenon DEF One
  <2>2. CASE p \notin T
    <3>1. T \ {p} = T
      BY <2>2, Zenon
    <3>2. One(after) = 0
      BY <2>2, Zenon DEF One
    <3>3. Cardinality(T \ {p}) = Cardinality(T)
      BY <3>1, Zenon
    <3>. QED  BY <1>2, <3>2, <3>3
  <2>. QED  BY <2>1, <2>2, Zenon
<1>5. One(before) \in Nat /\ One(after) \in Nat
  BY Zenon DEF One
<1>6. Cardinality(S \ {p}) = Cardinality(T \ {p})
  BY Zenon
<1>7. ASSUME NEW s \in Nat, NEW t \in Nat, NEW x \in Nat, NEW y \in Nat, s - x = t - y
      PROVE  t = s - x + y
  BY <1>7
<1>. QED  BY <1>2, <1>3, <1>4, <1>5, <1>6, <1>7

\* From d to e the node of p becomes m, and the counters follow it.
CountersFollow(d, e, p, m) ==
    /\ IsState(e) /\ NodeOK(m) /\ e.node = [d.node EXCEPT ![p] = m]
    /\ e.sync = d.sync - One(d.node[p].fSyncStarted) + One(m.fSyncStarted)
    /\ e.preferred = d.preferred - One(d.node[p].fPreferredDownload) + One(m.fPreferredDownload)
    /\ e.protected = d.protected - One(d.node[p].m_protect) + One(m.m_protect)
    /\ e.protected <= MAX_PROTECTED
    /\ e.aborted = FALSE

\* So do mapBlocksInFlight and the count of the peers with blocks in flight.
BlocksFollow(d, e, p, m) ==
    /\ e.inFlight \in [Blocks -> Peers \cup {None}]
    /\ \A b \in Blocks : e.inFlight[b] = p <=> b \in Hashes(m.vBlocksInFlight)
    /\ \A b \in Blocks, r \in Peers \ {p} : e.inFlight[b] = r <=> d.inFlight[b] = r
    /\ e.validated = d.validated - One(d.node[p].vBlocksInFlight # <<>>)
                                 + One(m.vBlocksInFlight # <<>>)

\* Then everything stays exact.
LEMMA NodeChange ==
    ASSUME NEW d, StateOK(d), NEW e, NEW p \in Peers, NEW m,
           CountersFollow(d, e, p, m), BlocksFollow(d, e, p, m)
    PROVE  StateOK(e)
<1>. USE DEF CountersFollow, BlocksFollow
<1>1. /\ e.node = [r \in Peers |-> e.node[r]]
      /\ e.node[p] = m /\ \A r \in Peers \ {p} : e.node[r] = d.node[r]
  BY Zenon DEF StateOK
<1>2. \A r \in Peers : NodeOK(e.node[r])
  BY <1>1, Zenon DEF StateOK
<1>3. \A r \in Peers, b \in Blocks : e.inFlight[b] = r <=> b \in Hashes(e.node[r].vBlocksInFlight)
  BY <1>1 DEF StateOK
<1>4. e.sync = Cardinality(Syncing(e.node))
  <2>1. Syncing(e.node) \ {p} = Syncing(d.node) \ {p}
    BY <1>1, Zenon DEF Syncing
  <2>2. (m.fSyncStarted <=> p \in Syncing(e.node)) /\ (d.node[p].fSyncStarted <=> p \in Syncing(d.node))
    BY <1>1, Zenon DEF Syncing, StateOK, NodeOK, HasFields
  <2>3. Cardinality(Syncing(e.node)) = Cardinality(Syncing(d.node)) - One(d.node[p].fSyncStarted) + One(m.fSyncStarted)
    <3>1. Syncing(e.node) \in SUBSET Peers /\ Syncing(d.node) \in SUBSET Peers
      BY Zenon DEF Syncing
    <3>2. (d.node[p].fSyncStarted) \in BOOLEAN /\ (m.fSyncStarted) \in BOOLEAN
      BY Zenon DEF StateOK, NodeOK, HasFields
    <3>. QED  BY <2>1, <2>2, <3>1, <3>2, CountOne
  <2>. QED  BY <2>3, Zenon DEF StateOK
<1>5. e.preferred = Cardinality(Preferring(e.node))
  <2>1. Preferring(e.node) \ {p} = Preferring(d.node) \ {p}
    BY <1>1, Zenon DEF Preferring
  <2>2. /\ m.fPreferredDownload <=> p \in Preferring(e.node)
        /\ d.node[p].fPreferredDownload <=> p \in Preferring(d.node)
    BY <1>1, Zenon DEF Preferring, StateOK, NodeOK, HasFields
  <2>3. Cardinality(Preferring(e.node)) = Cardinality(Preferring(d.node)) - One(d.node[p].fPreferredDownload) + One(m.fPreferredDownload)
    <3>1. Preferring(e.node) \in SUBSET Peers /\ Preferring(d.node) \in SUBSET Peers
      BY Zenon DEF Preferring
    <3>2. (d.node[p].fPreferredDownload) \in BOOLEAN /\ (m.fPreferredDownload) \in BOOLEAN
      BY Zenon DEF StateOK, NodeOK, HasFields
    <3>. QED  BY <2>1, <2>2, <3>1, <3>2, CountOne
  <2>. QED  BY <2>3, Zenon DEF StateOK
<1>6. e.protected = Cardinality(Protecting(e.node))
  <2>1. Protecting(e.node) \ {p} = Protecting(d.node) \ {p}
    BY <1>1, Zenon DEF Protecting
  <2>2. (m.m_protect <=> p \in Protecting(e.node)) /\ (d.node[p].m_protect <=> p \in Protecting(d.node))
    BY <1>1, Zenon DEF Protecting, StateOK, NodeOK, HasFields
  <2>3. Cardinality(Protecting(e.node)) = Cardinality(Protecting(d.node)) - One(d.node[p].m_protect) + One(m.m_protect)
    <3>1. Protecting(e.node) \in SUBSET Peers /\ Protecting(d.node) \in SUBSET Peers
      BY Zenon DEF Protecting
    <3>2. (d.node[p].m_protect) \in BOOLEAN /\ (m.m_protect) \in BOOLEAN
      BY Zenon DEF StateOK, NodeOK, HasFields
    <3>. QED  BY <2>1, <2>2, <3>1, <3>2, CountOne
  <2>. QED  BY <2>3, Zenon DEF StateOK
<1>7. e.validated = Cardinality(Delivering(e.node))
  <2>1. Delivering(e.node) \ {p} = Delivering(d.node) \ {p}
    BY <1>1, Zenon DEF Delivering
  <2>2. /\ (m.vBlocksInFlight # <<>>) <=> p \in Delivering(e.node)
        /\ (d.node[p].vBlocksInFlight # <<>>) <=> p \in Delivering(d.node)
    BY <1>1, Zenon DEF Delivering
  <2>3. Cardinality(Delivering(e.node)) = Cardinality(Delivering(d.node)) - One(d.node[p].vBlocksInFlight # <<>>) + One(m.vBlocksInFlight # <<>>)
    <3>1. Delivering(e.node) \in SUBSET Peers /\ Delivering(d.node) \in SUBSET Peers
      BY Zenon DEF Delivering
    <3>2. (d.node[p].vBlocksInFlight # <<>>) \in BOOLEAN /\ (m.vBlocksInFlight # <<>>) \in BOOLEAN
      BY Zenon DEF StateOK, NodeOK, HasFields
    <3>. QED  BY <2>1, <2>2, <3>1, <3>2, CountOne, Zenon
  <2>. QED  BY <2>3, Zenon DEF StateOK
<1>. QED  BY <1>1, <1>2, <1>3, <1>4, <1>5, <1>6, <1>7, Zenon DEF StateOK

\* As far as counters and mapBlocksInFlight go, m is no different from n.
Alike(m, n) ==
    /\ Hashes(m.vBlocksInFlight) = Hashes(n.vBlocksInFlight)
    /\ (m.vBlocksInFlight = <<>>) <=> (n.vBlocksInFlight = <<>>)
    /\ m.fSyncStarted = n.fSyncStarted /\ m.fPreferredDownload = n.fPreferredDownload
    /\ m.m_protect = n.m_protect /\ m.stage = n.stage

\* The same for what touches neither the blocks in flight nor the flags that are
\* counted.
LEMMA NodeKept ==
    ASSUME NEW d, StateOK(d), NEW e, IsState(e), NEW p \in Peers, NEW m, NodeOK(m),
           Alike(m, d.node[p]), e.node = [d.node EXCEPT ![p] = m],
           e.inFlight = d.inFlight, e.sync = d.sync, e.preferred = d.preferred,
           e.protected = d.protected, e.validated = d.validated, e.aborted = d.aborted
    PROVE  StateOK(e)
<1>1. /\ e.node = [r \in Peers |-> e.node[r]]
      /\ e.node[p] = m /\ \A r \in Peers \ {p} : e.node[r] = d.node[r]
  BY Zenon DEF StateOK
<1>2. /\ \A r \in Peers : NodeOK(e.node[r])
      /\ \A r \in Peers, b \in Blocks :
            e.inFlight[b] = r <=> b \in Hashes(e.node[r].vBlocksInFlight)
  BY <1>1 DEF StateOK, Alike
<1>3. /\ Syncing(e.node) = Syncing(d.node) /\ Preferring(e.node) = Preferring(d.node)
      /\ Protecting(e.node) = Protecting(d.node) /\ Delivering(e.node) = Delivering(d.node)
  BY <1>1, Zenon DEF Syncing, Preferring, Protecting, Delivering, Alike
<1>. QED  BY <1>1, <1>2, <1>3, Zenon DEF StateOK

\* And for what leaves the blocks in flight alone.
LEMMA FlagsChange ==
    ASSUME NEW d, StateOK(d), NEW e, NEW p \in Peers, NEW m, CountersFollow(d, e, p, m),
           m.vBlocksInFlight = d.node[p].vBlocksInFlight,
           e.inFlight = d.inFlight, e.validated = d.validated
    PROVE  StateOK(e)
<1>1. d.validated \in Nat
  <2>1. Delivering(d.node) \subseteq Peers
    BY Zenon DEF Delivering
  <2>. QED  BY <2>1, PeersAssumption, FS_Subset, FS_CardinalityType DEF StateOK
<1>2. e.validated = d.validated - One(d.node[p].vBlocksInFlight # <<>>)
                                + One(m.vBlocksInFlight # <<>>)
  BY <1>1 DEF One
<1>3. /\ e.inFlight \in [Blocks -> Peers \cup {None}]
      /\ \A b \in Blocks : e.inFlight[b] = p <=> b \in Hashes(m.vBlocksInFlight)
      /\ \A b \in Blocks, r \in Peers \ {p} : e.inFlight[b] = r <=> d.inFlight[b] = r
  BY DEF StateOK
<1>4. BlocksFollow(d, e, p, m)
  BY <1>2, <1>3, Zenon DEF BlocksFollow
<1>. QED  BY <1>4, NodeChange, Zenon

-----------------------------------------------------------------------------
(* Disconnecting and banning.                                              *)

\* Marking a node for disconnection touches nothing that is counted.
LEMMA DisconnectOK ==
    ASSUME NEW d, StateOK(d), NEW p \in Peers
    PROVE  StateOK(Disconnect(d, p))
<1>. DEFINE e == Disconnect(d, p)
<1>1. /\ IsState(e) /\ e.node = d.node /\ e.inFlight = d.inFlight /\ e.sync = d.sync
      /\ e.preferred = d.preferred /\ e.protected = d.protected /\ e.validated = d.validated
      /\ e.aborted = d.aborted
  <2>1. IsState(d)
    BY Zenon DEF StateOK
  <2>. QED  BY <2>1 DEF Disconnect, IsState
<1>. HIDE DEF e
<1>2. StateOK(e)
  BY <1>1 DEF StateOK
<1>. QED  BY <1>2, Zenon DEF e

\* Nor does what changes only other fields of a node.
LEMMA ReplaceOK ==
    ASSUME NEW d, StateOK(d), NEW p \in Peers, NEW m, NodeOK(m), Alike(m, d.node[p])
    PROVE  StateOK([d EXCEPT !.node[p] = m])
<1>. DEFINE e == [d EXCEPT !.node[p] = m]
<1>1. IsState(d)
  BY Zenon DEF StateOK
<1>2. /\ IsState(e) /\ e.node = [d.node EXCEPT ![p] = m] /\ e.inFlight = d.inFlight
      /\ e.sync = d.sync /\ e.preferred = d.preferred /\ e.protected = d.protected
      /\ e.validated = d.validated /\ e.aborted = d.aborted
  BY <1>1 DEF IsState
<1>. HIDE DEF e
<1>3. StateOK(e)
  BY <1>2, NodeKept, Zenon
<1>. QED  BY <1>3, Zenon DEF e

\* Misbehaving and the check for a ban change fShouldBan only.
LEMMA ShouldBanOK ==
    ASSUME NEW d, StateOK(d), NEW p \in Peers, NEW v \in BOOLEAN
    PROVE  StateOK([d EXCEPT !.node[p].fShouldBan = v])
<1>. DEFINE m == [d.node[p] EXCEPT !.fShouldBan = v]
<1>1. NodeOK(m) /\ Alike(m, d.node[p])
  BY SMTT(30) DEF StateOK, NodeOK, HasFields, Live, Alike
<1>2. [d EXCEPT !.node[p].fShouldBan = v] = [d EXCEPT !.node[p] = m]
  BY Zenon
<1>. HIDE DEF m
<1>. QED  BY <1>1, <1>2, ReplaceOK, Zenon

\* Misbehaving: a node is at most marked to be banned.
LEMMA MisbehavingOK ==
    ASSUME NEW d, StateOK(d), NEW p \in Peers
    PROVE  StateOK(Misbehaving(d, p))
BY ShouldBanOK, Zenon DEF Misbehaving

\* SendRejectsAndCheckIfBanned: a marked node is disconnected or let off.
LEMMA SendRejectsOK ==
    ASSUME NEW d, StateOK(d), NEW p \in Peers
    PROVE  StateOK(SendRejectsAndCheckIfBanned(d, p))
BY ShouldBanOK, DisconnectOK, Zenon DEF SendRejectsAndCheckIfBanned

-----------------------------------------------------------------------------
(* The fields of a node that nothing counts.                               *)

\* What becomes known of a peer's blocks.
LEMMA AvailabilityOK ==
    ASSUME NEW n, NodeOK(n), NEW index, NEW b \in Blocks
    PROVE  /\ NodeOK(ProcessBlockAvailability(n, index)) /\ Alike(ProcessBlockAvailability(n, index), n)
           /\ NodeOK(UpdateBlockAvailability(n, index, b)) /\ Alike(UpdateBlockAvailability(n, index, b), n)
<1>1. ASSUME NEW x, NodeOK(x), NEW v \in Blocks \cup {None}
      PROVE  /\ NodeOK([x EXCEPT !.hashLastUnknownBlock = v])
             /\ NodeOK([x EXCEPT !.pindexBestKnownBlock = v])
             /\ Alike([x EXCEPT !.hashLastUnknownBlock = v], x)
             /\ Alike([x EXCEPT !.pindexBestKnownBlock = v], x)
  BY <1>1 DEF NodeOK, HasFields, Live, Alike
<1>2. ASSUME NEW x, NEW y, NEW z, Alike(x, y), Alike(y, z)
      PROVE  Alike(x, z)
  BY <1>2, Zenon DEF Alike
<1>. DEFINE m == ProcessBlockAvailability(n, index)
            u == UpdateBlockAvailability(n, index, b)
<1>3. NodeOK(m) /\ Alike(m, n)
  <2>. DEFINE c == n.hashLastUnknownBlock
              w == IF Better(c, n.pindexBestKnownBlock) THEN c ELSE n.pindexBestKnownBlock
              x == [n EXCEPT !.hashLastUnknownBlock = None]
  <2>1. c \in Blocks \cup {None} /\ w \in Blocks \cup {None}
    BY Zenon DEF NodeOK, HasFields
  <2>2. m = n \/ m = [x EXCEPT !.pindexBestKnownBlock = w]
    BY Zenon DEF ProcessBlockAvailability, NodeOK, HasFields
  <2>3. NodeOK(x) /\ Alike(x, n)
    BY <1>1, Zenon
  <2>4. Alike(n, n)
    BY Zenon DEF Alike
  <2>. DEFINE y == [x EXCEPT !.pindexBestKnownBlock = w]
  <2>. HIDE DEF w, x
  <2>5. NodeOK(y) /\ Alike(y, x)
    BY <1>1, <2>1, <2>3, Zenon
  <2>. HIDE DEF m, y
  <2>6. Alike(y, n)
    BY <1>2, <2>3, <2>5, Zenon
  <2>7. m = n \/ m = y
    BY <2>2, Zenon DEF y
  <2>8. NodeOK(m) /\ Alike(m, n)
    BY <2>4, <2>5, <2>6, <2>7, Zenon
  <2>. QED  BY <2>8, Zenon DEF m
<1>4. NodeOK(u) /\ Alike(u, n)
  <2>. DEFINE w == IF Better(b, m.pindexBestKnownBlock) THEN b ELSE m.pindexBestKnownBlock
  <2>1. w \in Blocks \cup {None}
    BY <1>3, Zenon DEF NodeOK, HasFields
  <2>2. u = [m EXCEPT !.hashLastUnknownBlock = b] \/ u = [m EXCEPT !.pindexBestKnownBlock = w]
    BY Zenon DEF UpdateBlockAvailability
  <2>. HIDE DEF m, w
  <2>. DEFINE y == [m EXCEPT !.hashLastUnknownBlock = b]
              z == [m EXCEPT !.pindexBestKnownBlock = w]
  <2>3. NodeOK(y) /\ Alike(y, m) /\ NodeOK(z) /\ Alike(z, m)
    BY <1>1, <1>3, <2>1, Zenon
  <2>. HIDE DEF u, y, z
  <2>4. Alike(y, n) /\ Alike(z, n)
    BY <1>2, <1>3, <2>3, Zenon
  <2>5. u = y \/ u = z
    BY <2>2, Zenon DEF y, z
  <2>6. NodeOK(u) /\ Alike(u, n)
    BY <2>3, <2>4, <2>5, Zenon
  <2>. QED  BY <2>6, Zenon DEF u
<1>. QED  BY <1>3, <1>4, Zenon

\* The counters are numbers.
LEMMA CountersNat ==
    ASSUME NEW d, StateOK(d)
    PROVE  d.sync \in Nat /\ d.preferred \in Nat /\ d.protected \in Nat /\ d.validated \in Nat
<1>1. /\ Syncing(d.node) \subseteq Peers /\ Preferring(d.node) \subseteq Peers
      /\ Protecting(d.node) \subseteq Peers /\ Delivering(d.node) \subseteq Peers
  BY Zenon DEF Syncing, Preferring, Protecting, Delivering
<1>. QED  BY <1>1, PeersAssumption, FS_Subset, FS_CardinalityType DEF StateOK

\* The stages of a connection up to VERACK.
LEMMA StageOK ==
    ASSUME NEW d, StateOK(d), NEW p \in Peers, NEW stage \in {"connected", "version", "ready"}
    PROVE  StateOK([d EXCEPT !.node[p].stage = stage])
<1>. DEFINE m == [d.node[p] EXCEPT !.stage = stage]
            e == [d EXCEPT !.node[p].stage = stage]
<1>1. NodeOK(d.node[p]) /\ IsState(d)
  BY Zenon DEF StateOK
<1>2. /\ NodeOK(m) /\ m.vBlocksInFlight = d.node[p].vBlocksInFlight
      /\ m.fSyncStarted = d.node[p].fSyncStarted /\ m.m_protect = d.node[p].m_protect
      /\ m.fPreferredDownload = d.node[p].fPreferredDownload
  BY <1>1, ZenonT(40) DEF NodeOK, HasFields, Live
<1>3. /\ IsState(e) /\ e.node = [d.node EXCEPT ![p] = m] /\ e.inFlight = d.inFlight
      /\ e.sync = d.sync /\ e.preferred = d.preferred /\ e.protected = d.protected
      /\ e.validated = d.validated /\ e.aborted = d.aborted
  BY <1>1 DEF IsState
<1>. HIDE DEF m, e
<1>4. /\ d.sync = d.sync - One(m.fSyncStarted) + One(m.fSyncStarted)
      /\ d.preferred = d.preferred - One(m.fPreferredDownload) + One(m.fPreferredDownload)
      /\ d.protected = d.protected - One(m.m_protect) + One(m.m_protect)
  BY CountersNat DEF One
<1>5. d.protected <= MAX_PROTECTED /\ d.aborted = FALSE
  BY Zenon DEF StateOK
<1>6. CountersFollow(d, e, p, m)
  BY <1>2, <1>3, <1>4, <1>5, Zenon DEF CountersFollow
<1>7. StateOK(e)
  BY <1>2, <1>3, <1>6, FlagsChange, Zenon
<1>. QED  BY <1>7, Zenon DEF e

\* Where the walk of FindNextBlocksToDownload ended.
LEMMA LastCommonOK ==
    ASSUME NEW d, StateOK(d), NEW p \in Peers, NEW common
    PROVE  StateOK([d EXCEPT !.node[p].pindexLastCommonBlock = common])
<1>. DEFINE m == [d.node[p] EXCEPT !.pindexLastCommonBlock = common]
<1>1. NodeOK(m) /\ Alike(m, d.node[p])
  BY SMTT(30) DEF StateOK, NodeOK, HasFields, Live, Alike
<1>2. [d EXCEPT !.node[p].pindexLastCommonBlock = common] = [d EXCEPT !.node[p] = m]
  BY Zenon
<1>. HIDE DEF m
<1>. QED  BY <1>1, <1>2, ReplaceOK, Zenon

\* Only a peer with blocks in flight is held to be stalling.
LEMMA StallingOK ==
    ASSUME NEW d, StateOK(d), NEW p \in Peers, d.node[p].vBlocksInFlight # <<>>
    PROVE  StateOK([d EXCEPT !.node[p].nStallingSince = "running"])
<1>. DEFINE m == [d.node[p] EXCEPT !.nStallingSince = "running"]
<1>1. NodeOK(m) /\ Alike(m, d.node[p])
  <2>1. NodeOK(d.node[p])
    BY Zenon DEF StateOK
  <2>. QED  BY <2>1, Zenon DEF NodeOK, HasFields, Live, Alike
<1>2. [d EXCEPT !.node[p].nStallingSince = "running"] = [d EXCEPT !.node[p] = m]
  BY Zenon
<1>. HIDE DEF m
<1>. QED  BY <1>1, <1>2, ReplaceOK, Zenon

\* The chain sync timeout of an outbound peer; the assert of ConsiderEviction holds.
LEMMA ConsiderEvictionOK ==
    ASSUME NEW d, StateOK(d), NEW p \in Peers, NEW late, tip \in Blocks
    PROVE  /\ StateOK(ConsiderEviction(d, p, late))
           /\ ConsiderEviction(d, p, late).node[p].stage = d.node[p].stage
<1>. DEFINE n == d.node[p]
            set == [n EXCEPT !.m_timeout = "running", !.m_work_header = tip, !.m_sent_getheaders = FALSE]
            clear == [n EXCEPT !.m_timeout = "off", !.m_work_header = None, !.m_sent_getheaders = FALSE]
            asked == [n EXCEPT !.m_timeout = "running", !.m_sent_getheaders = TRUE]
<1>0. NodeOK(n)
  BY Zenon DEF StateOK
<1>1. NodeOK(set) /\ Alike(set, n) /\ NodeOK(clear) /\ Alike(clear, n)
  BY <1>0, PeersAssumption, ZenonT(40) DEF NodeOK, HasFields, Live, Alike
<1>2. ASSUME n.m_timeout # "off"
      PROVE  /\ NodeOK(asked) /\ Alike(asked, n)
             /\ [d EXCEPT !.node[p] = asked, !.aborted = @ \/ n.m_work_header = None]
                   = [d EXCEPT !.node[p] = asked]
  <2>1. NodeOK(asked) /\ Alike(asked, n)
    BY <1>0, <1>2, Zenon DEF NodeOK, HasFields, Live, Alike
  <2>2. n.m_work_header # None /\ d.aborted = FALSE
    BY <1>2, Zenon DEF StateOK, NodeOK
  <2>3. [d EXCEPT !.node[p] = asked, !.aborted = @ \/ n.m_work_header = None]
                   = [d EXCEPT !.node[p] = asked]
    <3>1. IsState(d)
      BY Zenon DEF StateOK
    <3>. QED  BY <2>2, <3>1, Zenon DEF IsState
  <2>. QED  BY <2>1, <2>3, Zenon
<1>3. StateOK(Disconnect(d, p)) /\ Disconnect(d, p).node = d.node
  <2>1. IsState(d)
    BY Zenon DEF StateOK
  <2>. QED  BY <2>1, DisconnectOK, Zenon DEF Disconnect, IsState
<1>4. ASSUME NEW m, NodeOK(m), Alike(m, n)
      PROVE  StateOK([d EXCEPT !.node[p] = m]) /\ [d EXCEPT !.node[p] = m].node[p].stage = n.stage
  <2>1. IsState(d) /\ d.node = [r \in Peers |-> d.node[r]]
    BY Zenon DEF StateOK
  <2>2. [d EXCEPT !.node[p] = m].node[p] = m
    BY <2>1, Zenon DEF IsState
  <2>. QED  BY <1>4, <2>2, ReplaceOK, Zenon DEF Alike
<1>. DEFINE e == ConsiderEviction(d, p, late)
<1>5. \/ e = d
      \/ e = [d EXCEPT !.node[p] = set]
      \/ e = [d EXCEPT !.node[p] = clear]
      \/ e = Disconnect(d, p)
      \/ /\ e = [d EXCEPT !.node[p] = asked, !.aborted = @ \/ n.m_work_header = None]
         /\ n.m_timeout # "off"
  BY Zenon DEF ConsiderEviction
<1>. HIDE DEF e, set, clear, asked
<1>6. StateOK(e) /\ e.node[p].stage = d.node[p].stage
  <2>1. CASE e = [d EXCEPT !.node[p] = set] \/ e = [d EXCEPT !.node[p] = clear]
    BY <1>1, <1>4, <2>1, Zenon
  <2>2. CASE /\ e = [d EXCEPT !.node[p] = asked, !.aborted = @ \/ n.m_work_header = None]
             /\ n.m_timeout # "off"
    BY <1>2, <1>4, <2>2, Zenon
  <2>. QED  BY <1>3, <1>5, <2>1, <2>2, Zenon
<1>. QED  BY <1>6, Zenon DEF e

-----------------------------------------------------------------------------
(* The fields of a node that are counted.                                  *)

\* VERSION: nPreferredDownload follows the node's flag.
LEMMA PreferredOK ==
    ASSUME NEW d, StateOK(d), NEW p \in Peers, Live(d.node[p])
    PROVE  StateOK(UpdatePreferredDownload(d, p))
<1>. DEFINE v == p \notin Inbound \/ p \in Whitelisted
            m == [d.node[p] EXCEPT !.fPreferredDownload = v]
            e == [d EXCEPT !.preferred = @ - One(d.node[p].fPreferredDownload) + One(v), !.node[p] = m]
<1>0. UpdatePreferredDownload(d, p) = e
  BY Zenon DEF UpdatePreferredDownload
<1>1. NodeOK(d.node[p]) /\ IsState(d)
  BY Zenon DEF StateOK
<1>2. /\ NodeOK(m) /\ m.vBlocksInFlight = d.node[p].vBlocksInFlight
      /\ m.fSyncStarted = d.node[p].fSyncStarted /\ m.m_protect = d.node[p].m_protect
      /\ m.fPreferredDownload = v
  BY <1>1, ZenonT(40) DEF NodeOK, HasFields, Live
<1>. HIDE DEF m, v
<1>3. /\ IsState(e) /\ e.node = [d.node EXCEPT ![p] = m] /\ e.inFlight = d.inFlight
      /\ e.sync = d.sync /\ e.protected = d.protected
      /\ e.preferred = d.preferred - One(d.node[p].fPreferredDownload) + One(v)
      /\ e.validated = d.validated /\ e.aborted = d.aborted
  <2>. DEFINE x == [d.node EXCEPT ![p] = m]
              y == d.preferred - One(d.node[p].fPreferredDownload) + One(v)
  <2>1. e = [d EXCEPT !.node = x, !.preferred = y]
    BY Zenon
  <2>. HIDE DEF x, y, e
  <2>2. e = [node |-> x, inFlight |-> d.inFlight, sync |-> d.sync, preferred |-> y,
             validated |-> d.validated, protected |-> d.protected, disconnect |-> d.disconnect, aborted |-> d.aborted]
    BY <1>1, <2>1, Zenon DEF IsState
  <2>. QED  BY <2>2, Zenon DEF x, y, IsState
<1>. HIDE DEF e
<1>4. /\ d.sync = d.sync - One(m.fSyncStarted) + One(m.fSyncStarted)
      /\ d.protected = d.protected - One(m.m_protect) + One(m.m_protect)
  BY CountersNat DEF One
<1>5. d.protected <= MAX_PROTECTED /\ d.aborted = FALSE
  BY Zenon DEF StateOK
<1>6. CountersFollow(d, e, p, m)
  BY <1>2, <1>3, <1>4, <1>5, Zenon DEF CountersFollow
<1>7. StateOK(e)
  BY <1>2, <1>3, <1>6, FlagsChange, Zenon
<1>. QED  BY <1>0, <1>7, Zenon

\* The protection of outbound peers, of which there are at most MAX_PROTECTED.
LEMMA ProtectOK ==
    ASSUME NEW d, StateOK(d), NEW p \in Peers, Live(d.node[p])
    PROVE  StateOK(Protect(d, p))
<1>. DEFINE m == [d.node[p] EXCEPT !.m_protect = TRUE]
            e == [d EXCEPT !.node[p] = m, !.protected = @ + 1]
<1>1. NodeOK(d.node[p]) /\ IsState(d)
  BY Zenon DEF StateOK
<1>2. /\ NodeOK(m) /\ m.vBlocksInFlight = d.node[p].vBlocksInFlight
      /\ m.fSyncStarted = d.node[p].fSyncStarted /\ m.m_protect = TRUE
      /\ m.fPreferredDownload = d.node[p].fPreferredDownload
  BY <1>1, Zenon DEF NodeOK, HasFields, Live
<1>. HIDE DEF m
<1>3. /\ IsState(e) /\ e.node = [d.node EXCEPT ![p] = m] /\ e.inFlight = d.inFlight
      /\ e.sync = d.sync /\ e.preferred = d.preferred /\ e.protected = d.protected + 1
      /\ e.validated = d.validated /\ e.aborted = d.aborted
  <2>. DEFINE x == [d.node EXCEPT ![p] = m]
              y == d.protected + 1
  <2>1. e = [d EXCEPT !.node = x, !.protected = y]
    BY Zenon
  <2>. HIDE DEF x, y, e
  <2>2. e = [node |-> x, inFlight |-> d.inFlight, sync |-> d.sync, preferred |-> d.preferred,
             validated |-> d.validated, protected |-> y, disconnect |-> d.disconnect, aborted |-> d.aborted]
    BY <1>1, <2>1, Zenon DEF IsState
  <2>. QED  BY <2>2, Zenon DEF x, y, IsState
<1>4. ASSUME ~d.node[p].m_protect, d.protected < MAX_PROTECTED
      PROVE  StateOK(e)
  <2>. HIDE DEF e
  <2>1. /\ d.sync = d.sync - One(m.fSyncStarted) + One(m.fSyncStarted)
        /\ d.preferred = d.preferred - One(m.fPreferredDownload) + One(m.fPreferredDownload)
        /\ d.protected + 1 = d.protected - One(d.node[p].m_protect) + One(TRUE)
        /\ d.protected + 1 <= MAX_PROTECTED
    BY <1>4, CountersNat, BoundsAssumption DEF One
  <2>2. d.aborted = FALSE
    BY Zenon DEF StateOK
  <2>3. CountersFollow(d, e, p, m)
    BY <1>2, <1>3, <2>1, <2>2, Zenon DEF CountersFollow
  <2>4. StateOK(e)
    BY <1>2, <1>3, <2>3, FlagsChange, Zenon
  <2>. QED  BY <2>4, Zenon DEF e
<1>5. Protect(d, p) = d \/ (Protect(d, p) = e /\ ~d.node[p].m_protect /\ d.protected < MAX_PROTECTED)
  BY Zenon DEF Protect, m
<1>. QED  BY <1>4, <1>5, Zenon

\* The start of the headers download from a peer.
LEMMA StartSyncOK ==
    ASSUME NEW d, StateOK(d), NEW p \in Peers, Live(d.node[p]), NEW fFetch
    PROVE  StateOK(StartSync(d, p, fFetch)) /\ Live(StartSync(d, p, fFetch).node[p])
<1>. DEFINE m == [d.node[p] EXCEPT !.fSyncStarted = TRUE, !.nHeadersSyncTimeout = "running"]
            e == [d EXCEPT !.node[p] = m, !.sync = @ + 1]
<1>1. NodeOK(d.node[p]) /\ IsState(d) /\ d.node = [r \in Peers |-> d.node[r]]
  BY Zenon DEF StateOK
<1>2. /\ NodeOK(m) /\ m.vBlocksInFlight = d.node[p].vBlocksInFlight
      /\ m.fSyncStarted = TRUE /\ m.m_protect = d.node[p].m_protect
      /\ m.fPreferredDownload = d.node[p].fPreferredDownload /\ Live(m)
  BY <1>1, Zenon DEF NodeOK, HasFields, Live
<1>. HIDE DEF m
<1>3. /\ IsState(e) /\ e.node = [d.node EXCEPT ![p] = m] /\ e.inFlight = d.inFlight
      /\ e.sync = d.sync + 1 /\ e.preferred = d.preferred /\ e.protected = d.protected
      /\ e.validated = d.validated /\ e.aborted = d.aborted
  <2>. DEFINE x == [d.node EXCEPT ![p] = m]
              y == d.sync + 1
  <2>1. e = [d EXCEPT !.node = x, !.sync = y]
    BY Zenon
  <2>. HIDE DEF x, y, e
  <2>2. e = [node |-> x, inFlight |-> d.inFlight, sync |-> y, preferred |-> d.preferred,
             validated |-> d.validated, protected |-> d.protected, disconnect |-> d.disconnect, aborted |-> d.aborted]
    BY <1>1, <2>1, Zenon DEF IsState
  <2>. QED  BY <2>2, Zenon DEF x, y, IsState
<1>4. ASSUME ~d.node[p].fSyncStarted
      PROVE  StateOK(e) /\ Live(e.node[p])
  <2>. HIDE DEF e
  <2>1. /\ d.sync + 1 = d.sync - One(d.node[p].fSyncStarted) + One(TRUE)
        /\ d.preferred = d.preferred - One(m.fPreferredDownload) + One(m.fPreferredDownload)
        /\ d.protected = d.protected - One(m.m_protect) + One(m.m_protect)
    BY <1>4, CountersNat DEF One
  <2>2. d.protected <= MAX_PROTECTED /\ d.aborted = FALSE
    BY Zenon DEF StateOK
  <2>3. e.node[p] = m
    BY <1>1, <1>3, Zenon
  <2>4. CountersFollow(d, e, p, m)
    BY <1>2, <1>3, <2>1, <2>2, Zenon DEF CountersFollow
  <2>5. StateOK(e)
    BY <1>2, <1>3, <2>4, FlagsChange, Zenon
  <2>. QED  BY <1>2, <2>3, <2>5, Zenon DEF e
<1>5. StartSync(d, p, fFetch) = d \/ (StartSync(d, p, fFetch) = e /\ ~d.node[p].fSyncStarted)
  <2>1. [d EXCEPT !.node[p].fSyncStarted = TRUE, !.node[p].nHeadersSyncTimeout = "running",
                  !.sync = @ + 1] = e
    BY ZenonT(40) DEF m
  <2>. HIDE DEF e
  <2>. QED  BY <2>1, Zenon DEF StartSync
<1>. QED  BY <1>4, <1>5, Zenon

\* The end of it after a timeout or once the best header is recent.
LEMMA CheckHeadersSyncOK ==
    ASSUME NEW d, StateOK(d), NEW p \in Peers, Live(d.node[p]), NEW late
    PROVE  StateOK(CheckHeadersSync(d, p, late)) /\ Live(CheckHeadersSync(d, p, late).node[p])
<1>. DEFINE m == [d.node[p] EXCEPT !.fSyncStarted = FALSE, !.nHeadersSyncTimeout = "off"]
            e == [d EXCEPT !.node[p] = m, !.sync = @ - 1]
            k == [d.node[p] EXCEPT !.nHeadersSyncTimeout = "max"]
<1>1. NodeOK(d.node[p]) /\ IsState(d) /\ d.node = [r \in Peers |-> d.node[r]]
  BY Zenon DEF StateOK
<1>2. /\ NodeOK(m) /\ m.vBlocksInFlight = d.node[p].vBlocksInFlight
      /\ m.fSyncStarted = FALSE /\ m.m_protect = d.node[p].m_protect
      /\ m.fPreferredDownload = d.node[p].fPreferredDownload /\ Live(m)
  BY <1>1, Zenon DEF NodeOK, HasFields, Live
<1>. HIDE DEF m
<1>3. /\ IsState(e) /\ e.node = [d.node EXCEPT ![p] = m] /\ e.inFlight = d.inFlight
      /\ e.sync = d.sync - 1 /\ e.preferred = d.preferred /\ e.protected = d.protected
      /\ e.validated = d.validated /\ e.aborted = d.aborted
  <2>. DEFINE x == [d.node EXCEPT ![p] = m]
              y == d.sync - 1
  <2>1. e = [d EXCEPT !.node = x, !.sync = y]
    BY Zenon
  <2>. HIDE DEF x, y, e
  <2>2. e = [node |-> x, inFlight |-> d.inFlight, sync |-> y, preferred |-> d.preferred,
             validated |-> d.validated, protected |-> d.protected, disconnect |-> d.disconnect, aborted |-> d.aborted]
    BY <1>1, <2>1, Zenon DEF IsState
  <2>. QED  BY <2>2, Zenon DEF x, y, IsState
<1>4. ASSUME HeadersTimedOut(d, p, late)
      PROVE  StateOK(e) /\ Live(e.node[p])
  <2>. HIDE DEF e
  <2>0. d.node[p].fSyncStarted = TRUE
    BY <1>1, <1>4, Zenon DEF HeadersTimedOut, NodeOK, HasFields
  <2>1. /\ d.sync - 1 = d.sync - One(d.node[p].fSyncStarted) + One(FALSE)
        /\ d.preferred = d.preferred - One(m.fPreferredDownload) + One(m.fPreferredDownload)
        /\ d.protected = d.protected - One(m.m_protect) + One(m.m_protect)
    BY <2>0, CountersNat DEF One
  <2>2. d.protected <= MAX_PROTECTED /\ d.aborted = FALSE
    BY Zenon DEF StateOK
  <2>3. e.node[p] = m
    BY <1>1, <1>3, Zenon
  <2>4. CountersFollow(d, e, p, m)
    BY <1>2, <1>3, <2>1, <2>2, Zenon DEF CountersFollow
  <2>5. StateOK(e)
    BY <1>2, <1>3, <2>4, FlagsChange, Zenon
  <2>. QED  BY <1>2, <2>3, <2>5, Zenon DEF e
<1>5. NodeOK(k) /\ Alike(k, d.node[p]) /\ Live(k)
  BY <1>1, Zenon DEF NodeOK, HasFields, Live, Alike
<1>6. StateOK([d EXCEPT !.node[p] = k]) /\ Live([d EXCEPT !.node[p] = k].node[p])
  <2>. HIDE DEF k
  <2>1. [d EXCEPT !.node[p] = k].node[p] = k
    BY <1>1, Zenon DEF IsState
  <2>. QED  BY <1>5, <2>1, ReplaceOK, Zenon
<1>7. \/ CheckHeadersSync(d, p, late) = d
      \/ CheckHeadersSync(d, p, late) = [d EXCEPT !.node[p] = k]
      \/ CheckHeadersSync(d, p, late) = e /\ HeadersTimedOut(d, p, late)
  <2>1. [d EXCEPT !.node[p].fSyncStarted = FALSE, !.node[p].nHeadersSyncTimeout = "off",
                  !.sync = @ - 1] = e
    BY ZenonT(40) DEF m
  <2>2. [d EXCEPT !.node[p].nHeadersSyncTimeout = "max"] = [d EXCEPT !.node[p] = k]
    BY Zenon
  <2>. HIDE DEF e, k
  <2>. QED  BY <2>1, <2>2, Zenon DEF CheckHeadersSync
<1>. QED  BY <1>4, <1>6, <1>7, Zenon

-----------------------------------------------------------------------------
(* The queues.                                                             *)

\* list::erase takes one block away and leaves the others, in their order.
LEMMA EraseOK ==
    ASSUME NEW q, QueueOK(q), NEW i \in DOMAIN q
    PROVE  /\ QueueOK(Erase(q, i)) /\ Len(Erase(q, i)) = Len(q) - 1
           /\ Hashes(Erase(q, i)) = Hashes(q) \ {q[i].hash}
<1>. DEFINE r == Erase(q, i)
<1>1. /\ q \in Seq(QueuedBlock) /\ Len(q) \in Nat \ {0} /\ DOMAIN q = 1..Len(q)
      /\ \A j \in DOMAIN q : q[j] \in QueuedBlock
  BY DEF QueueOK
<1>2. DOMAIN r = 1..(Len(q) - 1) /\ \A j \in 1..(Len(q) - 1) : r[j] = IF j < i THEN q[j] ELSE q[j + 1]
  BY Zenon DEF Erase
<1>3. r \in Seq(QueuedBlock) /\ Len(r) = Len(q) - 1
  <2>1. \A j \in 1..(Len(q) - 1) : r[j] \in QueuedBlock
    BY <1>1, <1>2
  <2>2. Len(q) - 1 \in Nat
    BY <1>1
  <2>3. r \in [1..(Len(q) - 1) -> QueuedBlock]
    BY <2>1, Zenon DEF Erase
  <2>. HIDE DEF r
  <2>. QED  BY <2>2, <2>3
<1>. HIDE DEF r
<1>4. \A j, k \in DOMAIN r : r[j].hash = r[k].hash => j = k
  <2>. DEFINE at(j) == IF j < i THEN j ELSE j + 1
  <2>1. \A j \in DOMAIN r : at(j) \in DOMAIN q /\ r[j] = q[at(j)]
    BY <1>1, <1>2
  <2>2. \A j, k \in DOMAIN r : at(j) = at(k) => j = k
    BY <1>1, <1>2
  <2>. HIDE DEF at
  <2>. QED  BY <2>1, <2>2 DEF QueueOK
<1>5. Hashes(r) \subseteq Hashes(q) \ {q[i].hash}
  <2>1. ASSUME NEW j \in DOMAIN r
        PROVE  r[j].hash \in Hashes(q) \ {q[i].hash}
    <3>1. CASE j < i
      BY <1>1, <1>2, <3>1 DEF QueueOK, Hashes
    <3>2. CASE ~(j < i)
      <4>1. r[j] = q[j + 1] /\ j + 1 \in DOMAIN q /\ j + 1 # i
        BY <1>1, <1>2, <3>2
      <4>. QED  BY <4>1, Zenon DEF QueueOK, Hashes
    <3>. QED  BY <3>1, <3>2, Zenon
  <2>. QED  BY <2>1, Zenon DEF Hashes
<1>6. Hashes(q) \ {q[i].hash} \subseteq Hashes(r)
  <2>1. ASSUME NEW j \in DOMAIN q, j # i
        PROVE  q[j].hash \in Hashes(r)
    <3>1. CASE j < i
      BY <1>1, <1>2, <3>1 DEF Hashes
    <3>2. CASE j > i
      <4>1. j - 1 \in DOMAIN r /\ r[j - 1] = q[j]
        BY <1>1, <1>2, <3>2, SMTT(30)
      <4>. QED  BY <4>1, Zenon DEF Hashes
    <3>. QED  BY <1>1, <2>1, <3>1, <3>2
  <2>. QED  BY <2>1, Zenon DEF Hashes
<1>. QED  BY <1>3, <1>4, <1>5, <1>6, Zenon DEF QueueOK, r

\* A block that mapBlocksInFlight has is in the queue of its peer.
LEMMA EntryOK ==
    ASSUME NEW d, StateOK(d), NEW p \in Peers, NEW b \in Blocks, d.inFlight[b] = p
    PROVE  /\ Entry(d.node[p].vBlocksInFlight, b) \in DOMAIN d.node[p].vBlocksInFlight
           /\ d.node[p].vBlocksInFlight[Entry(d.node[p].vBlocksInFlight, b)].hash = b
           /\ d.node[p].vBlocksInFlight # <<>>
<1>1. b \in Hashes(d.node[p].vBlocksInFlight)
  BY Zenon DEF StateOK
<1>2. PICK i \in DOMAIN d.node[p].vBlocksInFlight : d.node[p].vBlocksInFlight[i].hash = b
  BY <1>1, Zenon DEF Hashes
<1>3. d.node[p].vBlocksInFlight # <<>>
  BY <1>2
<1>. QED  BY <1>2, <1>3, Zenon DEF Entry

\* Receiving a block takes it out of the queue, of mapBlocksInFlight and of the
\* counters; MarkBlockAsReceived's assert holds.
LEMMA MarkReceivedOK ==
    ASSUME NEW d, StateOK(d), NEW b \in Blocks
    PROVE  StateOK(MarkBlockAsReceived(d, b))
<1>. DEFINE p == d.inFlight[b]
            n == d.node[p]
            q == n.vBlocksInFlight
            i == Entry(q, b)
            m == [n EXCEPT !.nBlocksInFlightValidHeaders = @ - 1, !.vBlocksInFlight = Erase(@, i),
                           !.nBlocksInFlight = @ - 1, !.nStallingSince = "off"]
            e == [d EXCEPT !.node[p] = m, !.inFlight[b] = None,
                           !.validated = @ - One(n.nBlocksInFlightValidHeaders = 1),
                           !.aborted = @ \/ ~Live(n)]
<1>1. p \in Peers \cup {None} /\ IsState(d)
  BY Zenon DEF StateOK
<1>2. MarkBlockAsReceived(d, b) = IF p = None THEN d ELSE e
  BY Zenon DEF MarkBlockAsReceived
<1>3. ASSUME p \in Peers
      PROVE  StateOK(e)
  <2>1. NodeOK(n)
    BY <1>3, Zenon DEF StateOK
  <2>2. i \in DOMAIN q /\ q[i].hash = b /\ q # <<>>
    <3>1. p \in Peers /\ d.inFlight[b] = p
      BY <1>3, Zenon
    <3>. HIDE DEF p
    <3>. QED  BY <3>1, EntryOK, ZenonT(40)
  <2>. HIDE DEF p, i
  <2>3. /\ QueueOK(Erase(q, i)) /\ Len(Erase(q, i)) = Len(q) - 1
        /\ Hashes(Erase(q, i)) = Hashes(q) \ {b}
    BY <2>1, <2>2, EraseOK, Zenon DEF NodeOK
  <2>4. /\ Len(q) \in Nat \ {0} /\ Len(q) <= MAX_BLOCKS_IN_TRANSIT_PER_PEER
        /\ n.nBlocksInFlight = Len(q) /\ n.nBlocksInFlightValidHeaders = Len(q)
        /\ q \in Seq(QueuedBlock) /\ Live(n)
    <3>1. /\ q \in Seq(QueuedBlock) /\ q # <<>> /\ Len(q) <= MAX_BLOCKS_IN_TRANSIT_PER_PEER
          /\ n.nBlocksInFlight = Len(q) /\ n.nBlocksInFlightValidHeaders = Len(q) /\ Live(n)
      BY <2>1, <2>2, Zenon DEF NodeOK, QueueOK
    <3>. HIDE DEF q
    <3>2. Len(q) \in Nat \ {0}
      BY <3>1
    <3>. QED  BY <3>1, <3>2, Zenon
  <2>5. /\ m.vBlocksInFlight = Erase(q, i) /\ m.nBlocksInFlight = Len(q) - 1
        /\ m.nBlocksInFlightValidHeaders = Len(q) - 1 /\ HasFields(m) /\ Live(m)
        /\ m.fSyncStarted = n.fSyncStarted /\ m.m_protect = n.m_protect
        /\ m.fPreferredDownload = n.fPreferredDownload /\ m.nStallingSince = "off"
        /\ m.m_timeout = n.m_timeout /\ m.m_work_header = n.m_work_header
        /\ m.nHeadersSyncTimeout = n.nHeadersSyncTimeout
    <3>. DEFINE r == Erase(q, i)
                k == Len(q) - 1
    <3>1. HasFields(n) /\ k \in Int
      BY <2>1, <2>4 DEF NodeOK
    <3>2. m = [n EXCEPT !.nBlocksInFlightValidHeaders = k, !.vBlocksInFlight = r,
                        !.nBlocksInFlight = k, !.nStallingSince = "off"]
      BY <2>4, Zenon
    <3>. HIDE DEF r, k, m
    <3>3. HasFields(m)
      BY <3>1, <3>2, ZenonT(40) DEF HasFields
    <3>4. /\ m.vBlocksInFlight = r /\ m.nBlocksInFlight = k /\ m.nBlocksInFlightValidHeaders = k
          /\ m.fSyncStarted = n.fSyncStarted /\ m.m_protect = n.m_protect /\ m.stage = n.stage
          /\ m.fPreferredDownload = n.fPreferredDownload /\ m.nStallingSince = "off"
          /\ m.m_timeout = n.m_timeout /\ m.m_work_header = n.m_work_header
          /\ m.nHeadersSyncTimeout = n.nHeadersSyncTimeout
      BY <3>1, <3>2, Zenon DEF HasFields
    <3>. QED  BY <2>4, <3>3, <3>4, Zenon DEF r, k, Live
  <2>. HIDE DEF m
  <2>6. /\ IsState(e) /\ e.node = [d.node EXCEPT ![p] = m]
        /\ e.inFlight = [d.inFlight EXCEPT ![b] = None]
        /\ e.sync = d.sync /\ e.preferred = d.preferred /\ e.protected = d.protected
        /\ e.validated = d.validated - One(n.nBlocksInFlightValidHeaders = 1)
        /\ e.aborted = (d.aborted \/ ~Live(n))
    <3>. DEFINE x == [d.node EXCEPT ![p] = m]
                f == [d.inFlight EXCEPT ![b] = None]
                v == d.validated - One(n.nBlocksInFlightValidHeaders = 1)
                a == d.aborted \/ ~Live(n)
    <3>1. e = [d EXCEPT !.node = x, !.inFlight = f, !.validated = v, !.aborted = a]
      BY Zenon
    <3>. HIDE DEF x, f, v, a, e
    <3>2. e = [node |-> x, inFlight |-> f, sync |-> d.sync, preferred |-> d.preferred, validated |-> v,
               protected |-> d.protected, disconnect |-> d.disconnect, aborted |-> a]
      BY <1>1, <3>1, Zenon DEF IsState
    <3>. QED  BY <3>2, Zenon DEF x, f, v, a, IsState
  <2>. HIDE DEF e
  <2>7. NodeOK(m)
    <3>1. /\ QueueOK(m.vBlocksInFlight) /\ m.nBlocksInFlight = Len(m.vBlocksInFlight)
          /\ m.nBlocksInFlightValidHeaders = Len(m.vBlocksInFlight)
          /\ Len(m.vBlocksInFlight) <= MAX_BLOCKS_IN_TRANSIT_PER_PEER
      <4>1. Len(q) - 1 <= MAX_BLOCKS_IN_TRANSIT_PER_PEER
        BY <2>4, BoundsAssumption
      <4>. QED  BY <2>3, <2>5, <4>1, Zenon
    <3>2. /\ m.m_timeout # "off" => m.m_work_header # None
          /\ m.nHeadersSyncTimeout = "running" => m.fSyncStarted
      BY <2>1, <2>5, Zenon DEF NodeOK
    <3>. QED  BY <2>5, <3>1, <3>2, Zenon DEF NodeOK
  <2>8. /\ d.sync = d.sync - One(m.fSyncStarted) + One(m.fSyncStarted)
        /\ d.preferred = d.preferred - One(m.fPreferredDownload) + One(m.fPreferredDownload)
        /\ d.protected = d.protected - One(m.m_protect) + One(m.m_protect)
    BY CountersNat DEF One
  <2>9. e.validated = d.validated - One(q # <<>>) + One(m.vBlocksInFlight # <<>>)
    <3>0. m.vBlocksInFlight \in Seq(QueuedBlock)
      BY <2>3, <2>5, Zenon DEF QueueOK
    <3>1. m.vBlocksInFlight = <<>> <=> Len(m.vBlocksInFlight) = 0
      BY <3>0
    <3>2. n.nBlocksInFlightValidHeaders = 1 <=> m.vBlocksInFlight = <<>>
      <4>1. Len(m.vBlocksInFlight) = Len(q) - 1 /\ n.nBlocksInFlightValidHeaders = Len(q) /\ Len(q) \in Nat
        BY <2>3, <2>4, <2>5, Zenon
      <4>. QED  BY <3>1, <4>1, SMTT(30)
    <3>. QED  BY <2>2, <2>6, <3>2, CountersNat, SMTT(30) DEF One
  <2>10. e.aborted = FALSE /\ d.protected <= MAX_PROTECTED
    BY <2>4, <2>6, Zenon DEF StateOK
  <2>11. /\ e.inFlight \in [Blocks -> Peers \cup {None}]
         /\ \A x \in Blocks : e.inFlight[x] = p <=> x \in Hashes(m.vBlocksInFlight)
         /\ \A x \in Blocks, r \in Peers \ {p} : e.inFlight[x] = r <=> d.inFlight[x] = r
    <3>1. d.inFlight \in [Blocks -> Peers \cup {None}] /\ d.inFlight[b] = p
      BY Zenon DEF StateOK, p
    <3>2. \A x \in Blocks : d.inFlight[x] = p <=> x \in Hashes(q)
      BY <1>3, Zenon DEF StateOK
    <3>3. e.inFlight = [d.inFlight EXCEPT ![b] = None] /\ None \notin Peers
      BY <2>6, PeersAssumption, Zenon
    <3>4. Hashes(m.vBlocksInFlight) = Hashes(q) \ {b}
      BY <2>3, <2>5, Zenon
    <3>5. \A x \in Blocks : e.inFlight[x] = IF x = b THEN None ELSE d.inFlight[x]
      BY <3>1, <3>3, Zenon
    <3>6. e.inFlight \in [Blocks -> Peers \cup {None}]
      BY <3>1, <3>3, Zenon
    <3>7. \A x \in Blocks : e.inFlight[x] = p <=> x \in Hashes(m.vBlocksInFlight)
      BY <1>3, <3>2, <3>3, <3>4, <3>5, Zenon
    <3>8. \A x \in Blocks, r \in Peers \ {p} : e.inFlight[x] = r <=> d.inFlight[x] = r
      BY <3>1, <3>3, <3>5, Zenon
    <3>. QED  BY <3>6, <3>7, <3>8, Zenon
  <2>12. CountersFollow(d, e, p, m)
    BY <2>5, <2>6, <2>7, <2>8, <2>10, Zenon DEF CountersFollow
  <2>13. BlocksFollow(d, e, p, m)
    BY <2>9, <2>11, Zenon DEF BlocksFollow
  <2>14. StateOK(e)
    BY <1>3, <2>12, <2>13, NodeChange, Zenon
  <2>. QED  BY <2>14, Zenon DEF e, m, i, p
<1>. QED  BY <1>1, <1>2, <1>3, PeersAssumption, Zenon

=============================================================================
