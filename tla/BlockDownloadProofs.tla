------------------------- MODULE BlockDownloadProofs -------------------------
(***************************************************************************)
(* The queues of blocks in flight, mapBlocksInFlight and the counters over *)
(* all peers agree, for any peers, blocks and limits.                      *)
(*                                                                         *)
(* BlockDownloadLemmas has the invariant.  Here are the operators that put *)
(* blocks in flight, the handlers, one lemma each, and the theorems.       *)
(***************************************************************************)
EXTENDS BlockDownloadLemmas

-----------------------------------------------------------------------------
(* Blocks put in flight.                                                   *)

\* The entries for the blocks of s.
LEMMA EntriesOK ==
    ASSUME NEW s \in Seq(Blocks), NEW partial \in {"none", "init", "filled"},
           NEW t, t = [i \in DOMAIN s |-> [hash |-> s[i], partialBlock |-> partial]]
    PROVE  t \in Seq(QueuedBlock) /\ Len(t) = Len(s) /\ \A i \in DOMAIN s : t[i].hash = s[i]
<1>1. DOMAIN s = 1..Len(s) /\ Len(s) \in Nat
  OBVIOUS
<1>2. \A i \in DOMAIN s : [hash |-> s[i], partialBlock |-> partial] \in QueuedBlock
  BY DEF QueuedBlock
<1>3. t \in [1..Len(s) -> QueuedBlock] /\ \A i \in DOMAIN s : t[i].hash = s[i]
  BY <1>1, <1>2, Zenon
<1>4. ASSUME NEW u, NEW k \in Nat, u \in [1..k -> QueuedBlock]
      PROVE  u \in Seq(QueuedBlock) /\ Len(u) = k
  BY <1>4
<1>. QED  BY <1>1, <1>3, <1>4, Zenon

\* list::insert at the end, of blocks that are not in the list.
LEMMA AppendOK ==
    ASSUME NEW q, QueueOK(q), NEW s \in Seq(Blocks),
           \A i, j \in DOMAIN s : s[i] = s[j] => i = j,
           \A i \in DOMAIN s : s[i] \notin Hashes(q),
           NEW t \in Seq(QueuedBlock), Len(t) = Len(s), \A i \in DOMAIN s : t[i].hash = s[i],
           NEW c, c = q \o t
    PROVE  /\ QueueOK(c) /\ Len(c) = Len(q) + Len(s)
           /\ \A b : b \in Hashes(c) <=> b \in Hashes(q) \/ \E i \in DOMAIN s : s[i] = b
<1>. DEFINE K == Len(q)
            M == Len(s)
<1>1. /\ q \in Seq(QueuedBlock) /\ K \in Nat /\ DOMAIN q = 1..K
      /\ M \in Nat /\ DOMAIN s = 1..M
  <2>1. q \in Seq(QueuedBlock)
    BY Zenon DEF QueueOK
  <2>. QED  BY <2>1, LenProperties, Zenon
<1>2. \A i \in 1..M : t[i].hash = s[i]
  BY <1>1, Zenon
<1>3. /\ c \in Seq(QueuedBlock) /\ Len(c) = K + M /\ DOMAIN c = 1..(K + M)
      /\ \A i \in 1..(K + M) : c[i] = IF i <= K THEN q[i] ELSE t[i - K]
  <2>1. /\ q \o t \in Seq(QueuedBlock) /\ Len(q \o t) = Len(q) + Len(t)
        /\ \A i \in 1..(Len(q) + Len(t)) : (q \o t)[i] = IF i <= Len(q) THEN q[i] ELSE t[i - Len(q)]
    <3>1. q \in Seq(QueuedBlock) /\ t \in Seq(QueuedBlock)
      BY <1>1, Zenon
    <3>. QED  BY <3>1, ConcatProperties, ZenonT(40)
  <2>2. DOMAIN (q \o t) = 1..Len(q \o t)
    BY <2>1, LenProperties, Zenon
  <2>. QED  BY <2>1, <2>2, Zenon
<1>. HIDE DEF K, M
<1>4. ASSUME NEW i \in DOMAIN c
      PROVE  \/ i \in DOMAIN q /\ c[i] = q[i]
             \/ i - K \in DOMAIN s /\ c[i].hash = s[i - K]
  <2>1. CASE i <= K
    BY <1>1, <1>3, <2>1
  <2>2. CASE i > K
    <3>1. i - K \in 1..M /\ c[i] = t[i - K]
      BY <1>1, <1>3, <2>2
    <3>. QED  BY <1>1, <1>2, <3>1, Zenon
  <2>. QED  BY <1>1, <1>3, <2>1, <2>2
<1>5. \A i \in DOMAIN q : i \in DOMAIN c /\ c[i] = q[i]
  BY <1>1, <1>3
<1>6. \A i \in DOMAIN s : K + i \in DOMAIN c /\ c[K + i].hash = s[i]
  <2>1. ASSUME NEW i \in DOMAIN s
        PROVE  K + i \in DOMAIN c /\ c[K + i].hash = s[i]
    <3>1. K + i \in 1..(K + M) /\ ~(K + i <= K) /\ (K + i) - K = i /\ i \in 1..M
      BY <1>1
    <3>. QED  BY <1>2, <1>3, <3>1, Zenon
  <2>. QED  BY <2>1, Zenon
<1>7. ASSUME NEW i \in DOMAIN c, NEW j \in DOMAIN c, c[i].hash = c[j].hash
      PROVE  i = j
  <2>1. \A k \in DOMAIN q, l \in DOMAIN s : q[k].hash # s[l]
    BY Zenon DEF Hashes
  <2>2. CASE i \in DOMAIN q /\ c[i] = q[i] /\ j \in DOMAIN q /\ c[j] = q[j]
    BY <1>7, <2>2, Zenon DEF QueueOK
  <2>3. CASE i - K \in DOMAIN s /\ c[i].hash = s[i - K] /\ j - K \in DOMAIN s /\ c[j].hash = s[j - K]
    <3>1. i - K = j - K
      BY <1>7, <2>3, Zenon
    <3>. QED  BY <1>1, <1>3, <3>1
  <2>4. CASE i \in DOMAIN q /\ c[i] = q[i] /\ j - K \in DOMAIN s /\ c[j].hash = s[j - K]
    BY <1>7, <2>1, <2>4, Zenon
  <2>5. CASE j \in DOMAIN q /\ c[j] = q[j] /\ i - K \in DOMAIN s /\ c[i].hash = s[i - K]
    BY <1>7, <2>1, <2>5, Zenon
  <2>. QED  BY <1>4, <2>2, <2>3, <2>4, <2>5, Zenon
<1>8. \A b : b \in Hashes(c) <=> b \in Hashes(q) \/ \E i \in DOMAIN s : s[i] = b
  <2>1. ASSUME NEW b, b \in Hashes(c)
        PROVE  b \in Hashes(q) \/ \E i \in DOMAIN s : s[i] = b
    BY <1>4, <2>1 DEF Hashes
  <2>2. ASSUME NEW b, b \in Hashes(q)
        PROVE  b \in Hashes(c)
    BY <1>5, <2>2, Zenon DEF Hashes
  <2>3. ASSUME NEW b, NEW i \in DOMAIN s, s[i] = b
        PROVE  b \in Hashes(c)
    BY <1>6, <2>3, Zenon DEF Hashes
  <2>. QED  BY <2>1, <2>2, <2>3, Zenon
<1>. QED  BY <1>3, <1>7, <1>8, Zenon DEF QueueOK, K, M

\* Asking a peer for blocks that nobody was asked for, as many as it may still
\* be asked for.
LEMMA MarkInFlightOK ==
    ASSUME NEW d, StateOK(d), NEW p \in Peers, Live(d.node[p]),
           NEW s \in Seq(Blocks), NEW partial \in {"none", "init", "filled"},
           \A i, j \in DOMAIN s : s[i] = s[j] => i = j,
           \A i \in DOMAIN s : d.inFlight[s[i]] = None,
           Len(d.node[p].vBlocksInFlight) + Len(s) <= MAX_BLOCKS_IN_TRANSIT_PER_PEER
    PROVE  /\ StateOK(MarkBlocksAsInFlight(d, p, s, partial))
           /\ Live(MarkBlocksAsInFlight(d, p, s, partial).node[p])
<1>. DEFINE n == d.node[p]
            q == n.vBlocksInFlight
            t == [i \in DOMAIN s |-> [hash |-> s[i], partialBlock |-> partial]]
            c == q \o t
            m == [n EXCEPT !.vBlocksInFlight = c,
                           !.nBlocksInFlight = @ + Len(s), !.nBlocksInFlightValidHeaders = @ + Len(s)]
            f == [b \in Blocks |-> IF \E i \in DOMAIN s : s[i] = b THEN p ELSE d.inFlight[b]]
            e == [d EXCEPT !.node[p] = m, !.inFlight = f,
                           !.validated = @ + One(n.nBlocksInFlightValidHeaders = 0 /\ s # <<>>),
                           !.aborted = @ \/ ~Live(n)]
<1>1. NodeOK(n) /\ IsState(d) /\ d.node = [r \in Peers |-> d.node[r]]
  BY Zenon DEF StateOK
<1>2. MarkBlocksAsInFlight(d, p, s, partial) = e
  BY <1>1, Zenon DEF MarkBlocksAsInFlight, IsState
<1>3. /\ q \in Seq(QueuedBlock) /\ Len(q) \in Nat /\ Len(s) \in Nat
      /\ n.nBlocksInFlight = Len(q) /\ n.nBlocksInFlightValidHeaders = Len(q)
  BY <1>1, SMTT(30) DEF NodeOK, QueueOK
<1>4. \A b \in Blocks : d.inFlight[b] = p <=> b \in Hashes(q)
  BY Zenon DEF StateOK
<1>5. /\ QueueOK(c) /\ Len(c) = Len(q) + Len(s)
      /\ \A b : b \in Hashes(c) <=> b \in Hashes(q) \/ \E i \in DOMAIN s : s[i] = b
  <2>1. \A i \in DOMAIN s : s[i] \notin Hashes(q)
    BY <1>4, PeersAssumption
  <2>2. QueueOK(q)
    BY <1>1, Zenon DEF NodeOK
  <2>3. t \in Seq(QueuedBlock) /\ Len(t) = Len(s) /\ \A i \in DOMAIN s : t[i].hash = s[i]
    BY EntriesOK, Zenon
  <2>. HIDE DEF q, t
  <2>. QED  BY <2>1, <2>2, <2>3, AppendOK, Zenon
<1>. HIDE DEF c
<1>6. /\ m.vBlocksInFlight = c /\ m.nBlocksInFlight = Len(q) + Len(s)
      /\ m.nBlocksInFlightValidHeaders = Len(q) + Len(s) /\ HasFields(m) /\ Live(m)
      /\ m.fSyncStarted = n.fSyncStarted /\ m.m_protect = n.m_protect
      /\ m.fPreferredDownload = n.fPreferredDownload /\ m.nStallingSince = n.nStallingSince
      /\ m.m_timeout = n.m_timeout /\ m.m_work_header = n.m_work_header
      /\ m.nHeadersSyncTimeout = n.nHeadersSyncTimeout
  <2>. DEFINE k == Len(q) + Len(s)
  <2>1. HasFields(n) /\ k \in Int
    BY <1>1, <1>3 DEF NodeOK
  <2>2. m = [n EXCEPT !.vBlocksInFlight = c, !.nBlocksInFlight = k, !.nBlocksInFlightValidHeaders = k]
    BY <1>3, Zenon
  <2>. HIDE DEF k, m
  <2>3. HasFields(m)
    BY <2>1, <2>2, ZenonT(40) DEF HasFields
  <2>4. /\ m.vBlocksInFlight = c /\ m.nBlocksInFlight = k /\ m.nBlocksInFlightValidHeaders = k
        /\ m.fSyncStarted = n.fSyncStarted /\ m.m_protect = n.m_protect /\ m.stage = n.stage
        /\ m.fPreferredDownload = n.fPreferredDownload /\ m.nStallingSince = n.nStallingSince
        /\ m.m_timeout = n.m_timeout /\ m.m_work_header = n.m_work_header
        /\ m.nHeadersSyncTimeout = n.nHeadersSyncTimeout
    BY <2>1, <2>2, Zenon DEF HasFields
  <2>. QED  BY <2>3, <2>4, Zenon DEF k, Live
<1>. HIDE DEF m
<1>7. /\ IsState(e) /\ e.node = [d.node EXCEPT ![p] = m] /\ e.inFlight = f
      /\ e.sync = d.sync /\ e.preferred = d.preferred /\ e.protected = d.protected
      /\ e.validated = d.validated + One(n.nBlocksInFlightValidHeaders = 0 /\ s # <<>>)
      /\ e.aborted = (d.aborted \/ ~Live(n))
  <2>. DEFINE x == [d.node EXCEPT ![p] = m]
              v == d.validated + One(n.nBlocksInFlightValidHeaders = 0 /\ s # <<>>)
              a == d.aborted \/ ~Live(n)
  <2>. HIDE DEF f
  <2>1. e = [d EXCEPT !.node = x, !.inFlight = f, !.validated = v, !.aborted = a]
    BY Zenon
  <2>. HIDE DEF x, v, a, e
  <2>2. e = [node |-> x, inFlight |-> f, sync |-> d.sync, preferred |-> d.preferred, validated |-> v,
             protected |-> d.protected, disconnect |-> d.disconnect, aborted |-> a]
    BY <1>1, <2>1, Zenon DEF IsState
  <2>. QED  BY <2>2, Zenon DEF x, v, a, IsState
<1>. HIDE DEF e
<1>8. m.vBlocksInFlight = <<>> <=> q = <<>> /\ s = <<>>
  <2>1. c \in Seq(QueuedBlock)
    BY <1>5, Zenon DEF QueueOK
  <2>2. (c = <<>> <=> Len(c) = 0) /\ (q = <<>> <=> Len(q) = 0) /\ (s = <<>> <=> Len(s) = 0)
    BY <1>3, <2>1
  <2>3. Len(c) = 0 <=> Len(q) = 0 /\ Len(s) = 0
    BY <1>3, <1>5, SMTT(30)
  <2>. QED  BY <1>6, <2>2, <2>3, Zenon
<1>9. NodeOK(m)
  <2>1. /\ QueueOK(m.vBlocksInFlight) /\ m.nBlocksInFlight = Len(m.vBlocksInFlight)
        /\ m.nBlocksInFlightValidHeaders = Len(m.vBlocksInFlight)
        /\ Len(m.vBlocksInFlight) <= MAX_BLOCKS_IN_TRANSIT_PER_PEER
    BY <1>5, <1>6, Zenon
  <2>2. /\ m.m_timeout # "off" => m.m_work_header # None
        /\ m.nHeadersSyncTimeout = "running" => m.fSyncStarted
        /\ m.nStallingSince # "off" => m.vBlocksInFlight # <<>>
    BY <1>1, <1>6, <1>8, Zenon DEF NodeOK
  <2>. QED  BY <1>6, <2>1, <2>2, Zenon DEF NodeOK
<1>10. CountersFollow(d, e, p, m)
  <2>1. /\ d.sync = d.sync - One(m.fSyncStarted) + One(m.fSyncStarted)
        /\ d.preferred = d.preferred - One(m.fPreferredDownload) + One(m.fPreferredDownload)
        /\ d.protected = d.protected - One(m.m_protect) + One(m.m_protect)
    BY CountersNat, SMTT(30) DEF One
  <2>2. e.aborted = FALSE /\ d.protected <= MAX_PROTECTED
    BY <1>7, Zenon DEF StateOK
  <2>. QED  BY <1>6, <1>7, <1>9, <2>1, <2>2, Zenon DEF CountersFollow
<1>11. BlocksFollow(d, e, p, m)
  <2>1. e.validated = d.validated - One(q # <<>>) + One(m.vBlocksInFlight # <<>>)
    <3>1. n.nBlocksInFlightValidHeaders = 0 <=> q = <<>>
      BY <1>3
    <3>. QED  BY <1>7, <1>8, <3>1, CountersNat DEF One
  <2>2. d.inFlight \in [Blocks -> Peers \cup {None}]
    BY Zenon DEF StateOK
  <2>3. \A x \in Blocks : f[x] = IF \E i \in DOMAIN s : s[i] = x THEN p ELSE d.inFlight[x]
    BY Zenon
  <2>4. f \in [Blocks -> Peers \cup {None}]
    BY <2>2, Zenon
  <2>. HIDE DEF f
  <2>5. ASSUME NEW x \in Blocks, NEW r \in Peers \ {p}
        PROVE  f[x] = r <=> d.inFlight[x] = r
    BY <2>3, <2>5, PeersAssumption
  <2>6. \A x \in Blocks : f[x] = p <=> x \in Hashes(c)
    BY <1>4, <1>5, <2>3, Zenon
  <2>. QED  BY <1>6, <1>7, <2>1, <2>4, <2>5, <2>6, SMTT(30) DEF BlocksFollow
<1>12. StateOK(e)
  BY <1>10, <1>11, NodeChange, Zenon
<1>13. e.node[p] = m
  BY <1>1, <1>7, Zenon
<1>. QED  BY <1>2, <1>6, <1>12, <1>13, Zenon

\* What FindNextBlocksToDownload and the direct fetch ask for are at most k
\* blocks, each of them once.
LEMMA EarliestOK ==
    ASSUME NEW S \in SUBSET Blocks, IsFiniteSet(S), NEW k \in Nat, NEW s \in InOrder(Earliest(S, k))
    PROVE  /\ s \in Seq(Blocks) /\ Len(s) <= k
           /\ \A i, j \in DOMAIN s : s[i] = s[j] => i = j
           /\ \A i \in DOMAIN s : s[i] \in S
<1>. DEFINE T == Earliest(S, k)
            N == Cardinality(T)
<1>1. T \subseteq S /\ N \in Nat
  <2>1. T \subseteq S
    BY Zenon DEF Earliest
  <2>. QED  BY <2>1, FS_Subset, FS_CardinalityType, Zenon
<1>2. s \in [1..N -> T] /\ \A i, j \in 1..N : i < j => Height[s[i]] < Height[s[j]]
  BY Zenon DEF InOrder
<1>. HIDE DEF N
<1>3. s \in Seq(Blocks) /\ Len(s) = N /\ DOMAIN s = 1..N /\ \A i \in 1..N : s[i] \in S
  <2>1. s \in [1..N -> Blocks] /\ \A i \in 1..N : s[i] \in S
    BY <1>1, <1>2, Zenon
  <2>. QED  BY <1>1, <2>1
<1>4. \A i \in 1..N : Height[s[i]] \in Nat
  BY <1>3, BlocksAssumption, Zenon
<1>5. \A i, j \in 1..N : s[i] = s[j] => i = j
  <2>1. ASSUME NEW i \in 1..N, NEW j \in 1..N, i < j
        PROVE  s[i] # s[j]
    BY <1>2, <1>4, <2>1
  <2>. QED  BY <1>1, <2>1
<1>6. N <= k
  <2>1. CASE N = 0
    BY <2>1
  <2>2. CASE N # 0
    <3>. DEFINE L == {c \in S : Height[c] < Height[s[N]]}
                g == [i \in 1..(N - 1) |-> s[i]]
    <3>1. N \in 1..N /\ s[N] \in T
      BY <1>1, <1>2, <2>2
    <3>2. Cardinality(L) < k
      BY <3>1, Zenon DEF Earliest
    <3>3. IsFiniteSet(L) /\ Cardinality(L) \in Nat
      BY FS_Subset, FS_CardinalityType, Zenon
    <3>4. \A i \in 1..(N - 1) : i \in 1..N /\ s[i] \in L
      BY <1>1, <1>2, <1>3, <3>1
    <3>. HIDE DEF L
    <3>5. g \in Injection(1..(N - 1), L)
      BY <1>5, <3>4, Zenon DEF Injection, IsInjective
    <3>6. Cardinality(1..(N - 1)) <= Cardinality(L)
      BY <3>3, <3>5, FS_Injection, Zenon
    <3>7. Cardinality(1..(N - 1)) = N - 1
      BY <1>1, <2>2, FS_Interval
    <3>. QED  BY <1>1, <3>2, <3>3, <3>6, <3>7
  <2>. QED  BY <2>1, <2>2, Zenon
<1>. QED  BY <1>3, <1>5, <1>6, Zenon

\* What is known of the transactions of a compact block.
LEMMA SetPartialOK ==
    ASSUME NEW d, StateOK(d), NEW p \in Peers, NEW b \in Blocks, d.inFlight[b] = p,
           NEW value \in {"none", "init", "filled"}
    PROVE  StateOK(SetPartial(d, p, b, value))
<1>. DEFINE n == d.node[p]
            q == n.vBlocksInFlight
            i == Entry(q, b)
            r == [q EXCEPT ![i] = [q[i] EXCEPT !.partialBlock = value]]
            m == [n EXCEPT !.vBlocksInFlight = r]
<1>1. NodeOK(n) /\ i \in DOMAIN q
  BY EntryOK, Zenon DEF StateOK
<1>2. SetPartial(d, p, b, value) = [d EXCEPT !.node[p] = m]
  BY Zenon DEF SetPartial
<1>. HIDE DEF i
<1>3. q \in Seq(QueuedBlock) /\ DOMAIN q = 1..Len(q) /\ \A j \in DOMAIN q : q[j] \in QueuedBlock
  BY <1>1, SMTT(30) DEF NodeOK, QueueOK
<1>4. [q[i] EXCEPT !.partialBlock = value] \in QueuedBlock /\ [q[i] EXCEPT !.partialBlock = value].hash = q[i].hash
  BY <1>1, <1>3, Zenon DEF QueuedBlock
<1>5. /\ r \in Seq(QueuedBlock) /\ Len(r) = Len(q) /\ DOMAIN r = DOMAIN q
      /\ \A j \in DOMAIN q : r[j].hash = q[j].hash
  BY <1>1, <1>3, <1>4, SMTT(30)
<1>. HIDE DEF r
<1>6. QueueOK(r) /\ Hashes(r) = Hashes(q) /\ (r = <<>> <=> q = <<>>)
  <2>1. QueueOK(r)
    BY <1>1, <1>5, SMTT(60) DEF NodeOK, QueueOK
  <2>2. Hashes(r) = Hashes(q)
    BY <1>5, Zenon DEF Hashes
  <2>3. r = <<>> <=> q = <<>>
    BY <1>3, <1>5, SMTT(30)
  <2>. QED  BY <2>1, <2>2, <2>3, Zenon
<1>7. NodeOK(m) /\ Alike(m, n)
  BY <1>1, <1>5, <1>6, SMTT(30) DEF NodeOK, HasFields, Live, Alike
<1>. HIDE DEF m
<1>. QED  BY <1>2, <1>7, ReplaceOK

\* FinalizeNode takes the node out of everything, and none of its asserts fails,
\* those after the last peer included.
LEMMA FinalizeOK ==
    ASSUME NEW d, StateOK(d), NEW p \in Peers, Live(d.node[p])
    PROVE  StateOK(FinalizeNode(d, p))
<1>. DEFINE n == d.node[p]
            q == n.vBlocksInFlight
            m == [NoState EXCEPT !.stage = "gone"]
            f == [b \in Blocks |-> IF \E i \in DOMAIN q : q[i].hash = b THEN None ELSE d.inFlight[b]]
            e == [d EXCEPT !.node[p] = m, !.disconnect = @ \ {p}, !.sync = @ - One(n.fSyncStarted),
                           !.inFlight = f,
                           !.preferred = @ - One(n.fPreferredDownload),
                           !.validated = @ - One(n.nBlocksInFlightValidHeaders # 0),
                           !.protected = @ - One(n.m_protect)]
            fails == \/ e.aborted \/ ~Live(n) \/ e.validated < 0 \/ e.protected < 0
                     \/ /\ \A r \in Peers : ~Live(e.node[r])
                        /\ \/ \E b \in Blocks : e.inFlight[b] # None
                           \/ e.preferred # 0 \/ e.validated # 0 \/ e.protected # 0
<1>1. NodeOK(n) /\ IsState(d) /\ d.node = [r \in Peers |-> d.node[r]]
  BY Zenon DEF StateOK
<1>2. /\ IsState(e) /\ e.node = [d.node EXCEPT ![p] = m] /\ e.inFlight = f
      /\ e.sync = d.sync - One(n.fSyncStarted) /\ e.preferred = d.preferred - One(n.fPreferredDownload)
      /\ e.protected = d.protected - One(n.m_protect)
      /\ e.validated = d.validated - One(n.nBlocksInFlightValidHeaders # 0)
      /\ e.aborted = d.aborted
  <2>. DEFINE x == [d.node EXCEPT ![p] = m]
              c == d.disconnect \ {p}
              k == d.sync - One(n.fSyncStarted)
              r == d.preferred - One(n.fPreferredDownload)
              v == d.validated - One(n.nBlocksInFlightValidHeaders # 0)
              u == d.protected - One(n.m_protect)
  <2>. HIDE DEF f, m
  <2>1. e = [d EXCEPT !.node = x, !.disconnect = c, !.sync = k, !.inFlight = f, !.preferred = r,
                      !.validated = v, !.protected = u]
    BY Zenon
  <2>. HIDE DEF x, c, k, r, v, u, e
  <2>2. e = [node |-> x, inFlight |-> f, sync |-> k, preferred |-> r, validated |-> v,
             protected |-> u, disconnect |-> c, aborted |-> d.aborted]
    BY <1>1, <2>1, Zenon DEF IsState
  <2>. QED  BY <2>2, Zenon DEF x, k, r, v, u, IsState
<1>3. FinalizeNode(d, p) = [e EXCEPT !.aborted = fails]
  BY <1>1, Zenon DEF FinalizeNode, IsState
<1>4. /\ NodeOK(m) /\ m.fSyncStarted = FALSE /\ m.m_protect = FALSE /\ m.fPreferredDownload = FALSE
      /\ m.vBlocksInFlight = <<>>
  <2>1. QueueOK(<<>>) /\ Len(<<>>) = 0
    BY DEF QueueOK
  <2>2. /\ HasFields(m) /\ m.vBlocksInFlight = <<>> /\ m.nBlocksInFlight = 0
        /\ m.nBlocksInFlightValidHeaders = 0 /\ m.nStallingSince = "off" /\ m.m_timeout = "off"
        /\ m.nHeadersSyncTimeout = "off"
        /\ m.fSyncStarted = FALSE /\ m.m_protect = FALSE /\ m.fPreferredDownload = FALSE
    <3>1. HasFields(NoState)
      BY DEF HasFields, NoState
    <3>2. HasFields(m)
      BY <3>1, Zenon DEF HasFields
    <3>. QED  BY <3>2, Zenon DEF NoState
  <2>. HIDE DEF m
  <2>. QED  BY <2>1, <2>2, BoundsAssumption DEF NodeOK
<1>. HIDE DEF m, e
<1>5. StateOK(e)
  <2>1. /\ e.sync = d.sync - One(n.fSyncStarted) + One(m.fSyncStarted)
        /\ e.preferred = d.preferred - One(n.fPreferredDownload) + One(m.fPreferredDownload)
        /\ e.protected = d.protected - One(n.m_protect) + One(m.m_protect)
        /\ e.protected <= MAX_PROTECTED
    <3>1. d.protected <= MAX_PROTECTED
      BY Zenon DEF StateOK
    <3>. QED  BY <1>2, <1>4, <3>1, CountersNat, BoundsAssumption, SMTT(60) DEF One
  <2>2. e.validated = d.validated - One(q # <<>>) + One(m.vBlocksInFlight # <<>>)
    <3>1. n.nBlocksInFlightValidHeaders # 0 <=> q # <<>>
      BY <1>1, SMTT(30) DEF NodeOK, QueueOK
    <3>. QED  BY <1>2, <1>4, <3>1, CountersNat, SMTT(30) DEF One
  <2>3. /\ e.inFlight \in [Blocks -> Peers \cup {None}]
        /\ \A x \in Blocks : e.inFlight[x] = p <=> x \in Hashes(m.vBlocksInFlight)
        /\ \A x \in Blocks, r \in Peers \ {p} : e.inFlight[x] = r <=> d.inFlight[x] = r
    <3>1. /\ d.inFlight \in [Blocks -> Peers \cup {None}]
          /\ \A x \in Blocks : d.inFlight[x] = p <=> x \in Hashes(q)
      BY Zenon DEF StateOK
    <3>2. f \in [Blocks -> Peers \cup {None}]
      BY <3>1, Zenon
    <3>3. \A x \in Blocks : f[x] = IF x \in Hashes(q) THEN None ELSE d.inFlight[x]
      BY Zenon DEF Hashes
    <3>4. \A x \in Blocks : x \notin Hashes(m.vBlocksInFlight)
      BY <1>4, SMTT(30) DEF Hashes
    <3>. HIDE DEF f
    <3>. QED  BY <1>2, <3>1, <3>2, <3>3, <3>4, PeersAssumption
  <2>4. e.aborted = FALSE
    BY <1>2, Zenon DEF StateOK
  <2>5. CountersFollow(d, e, p, m)
    BY <1>2, <1>4, <2>1, <2>4, Zenon DEF CountersFollow
  <2>6. BlocksFollow(d, e, p, m)
    BY <2>2, <2>3, Zenon DEF BlocksFollow
  <2>. QED  BY <2>5, <2>6, NodeChange, Zenon
<1>6. ASSUME \A r \in Peers : ~Live(e.node[r])
      PROVE  /\ \A b \in Blocks : e.inFlight[b] = None
             /\ e.preferred = 0 /\ e.validated = 0 /\ e.protected = 0
  <2>1. \A r \in Peers : /\ ~e.node[r].fPreferredDownload /\ ~e.node[r].m_protect
                         /\ e.node[r].vBlocksInFlight = <<>>
    BY <1>5, <1>6, Zenon DEF StateOK, NodeOK
  <2>2. Preferring(e.node) = {} /\ Protecting(e.node) = {} /\ Delivering(e.node) = {}
    BY <2>1, Zenon DEF Preferring, Protecting, Delivering
  <2>3. \A r \in Peers : Hashes(e.node[r].vBlocksInFlight) = {}
    BY <2>1, SMTT(30) DEF Hashes
  <2>4. \A b \in Blocks : e.inFlight[b] = None
    <3>1. /\ e.inFlight \in [Blocks -> Peers \cup {None}]
          /\ \A r \in Peers, b \in Blocks : e.inFlight[b] = r <=> b \in Hashes(e.node[r].vBlocksInFlight)
      BY <1>5, Zenon DEF StateOK
    <3>. QED  BY <2>3, <3>1, SMTT(30)
  <2>. QED  BY <1>5, <2>2, <2>4, FS_EmptySet, Zenon DEF StateOK
<1>7. ~fails
  <2>1. e.validated \in Nat /\ e.protected \in Nat
    BY <1>5, CountersNat, Zenon
  <2>2. ~e.aborted
    BY <1>5, Zenon DEF StateOK
  <2>. QED  BY <1>6, <2>1, <2>2
<1>8. [e EXCEPT !.aborted = fails] = e
  <2>1. fails = FALSE
    BY <1>7, Zenon
  <2>. HIDE DEF fails
  <2>2. e.aborted = FALSE /\ IsState(e)
    BY <1>5, Zenon DEF StateOK
  <2>. QED  BY <2>1, <2>2, Zenon DEF IsState
<1>. QED  BY <1>3, <1>5, <1>8, Zenon

-----------------------------------------------------------------------------
(* Asking for blocks.                                                      *)

\* The earliest of the blocks that nobody was asked for are asked of p.
LEMMA AskOK ==
    ASSUME NEW d, StateOK(d), NEW p \in Peers, Live(d.node[p]),
           NEW S \in SUBSET Blocks, IsFiniteSet(S), \A x \in S : d.inFlight[x] = None,
           NEW s \in InOrder(Earliest(S, MAX_BLOCKS_IN_TRANSIT_PER_PEER - d.node[p].nBlocksInFlight))
    PROVE  /\ StateOK(MarkBlocksAsInFlight(d, p, s, "none"))
           /\ Live(MarkBlocksAsInFlight(d, p, s, "none").node[p])
<1>. DEFINE n == d.node[p]
            k == MAX_BLOCKS_IN_TRANSIT_PER_PEER - n.nBlocksInFlight
<1>1. /\ n.nBlocksInFlight = Len(n.vBlocksInFlight) /\ Len(n.vBlocksInFlight) \in Nat
      /\ Len(n.vBlocksInFlight) <= MAX_BLOCKS_IN_TRANSIT_PER_PEER
  <2>1. NodeOK(n)
    BY Zenon DEF StateOK
  <2>. HIDE DEF n
  <2>2. /\ n.nBlocksInFlight = Len(n.vBlocksInFlight) /\ QueueOK(n.vBlocksInFlight)
        /\ Len(n.vBlocksInFlight) <= MAX_BLOCKS_IN_TRANSIT_PER_PEER
    BY <2>1, Zenon DEF NodeOK
  <2>. QED  BY <2>2 DEF QueueOK
<1>2. k \in Nat
  BY <1>1, BoundsAssumption, SMTT(30)
<1>3. /\ s \in Seq(Blocks) /\ Len(s) <= k
      /\ \A i, j \in DOMAIN s : s[i] = s[j] => i = j
      /\ \A i \in DOMAIN s : s[i] \in S
  BY <1>2, EarliestOK, Zenon
<1>4. Len(n.vBlocksInFlight) + Len(s) <= MAX_BLOCKS_IN_TRANSIT_PER_PEER
  BY <1>1, <1>3, BoundsAssumption
<1>. QED  BY <1>3, <1>4, MarkInFlightOK, Zenon

\* The state after UpdateBlockAvailability(p, b).
Updated(d, p, index, b) == [d EXCEPT !.node[p] = UpdateBlockAvailability(@, index, b)]

\* What becomes known of the blocks of p keeps the state good.
LEMMA UpdateOK ==
    ASSUME NEW d, StateOK(d), NEW p \in Peers, NEW index, NEW b \in Blocks
    PROVE  /\ StateOK(Updated(d, p, index, b))
           /\ Updated(d, p, index, b).node[p].stage = d.node[p].stage
           /\ Updated(d, p, index, b).inFlight = d.inFlight
<1>. DEFINE u == UpdateBlockAvailability(d.node[p], index, b)
<1>1. IsState(d) /\ NodeOK(d.node[p]) /\ d.node = [r \in Peers |-> d.node[r]]
  BY Zenon DEF StateOK
<1>2. NodeOK(u) /\ Alike(u, d.node[p]) /\ u.stage = d.node[p].stage
  <2>1. NodeOK(u) /\ Alike(u, d.node[p])
    BY <1>1, AvailabilityOK, Zenon
  <2>. QED  BY <2>1, Zenon DEF Alike
<1>. HIDE DEF u
<1>3. Updated(d, p, index, b) = [d EXCEPT !.node[p] = u]
  BY Zenon DEF u, Updated
<1>4. StateOK([d EXCEPT !.node[p] = u])
  BY <1>2, ReplaceOK, Zenon
<1>5. [d EXCEPT !.node[p] = u].node[p] = u /\ [d EXCEPT !.node[p] = u].inFlight = d.inFlight
  BY <1>1, Zenon DEF IsState
<1>. QED  BY <1>2, <1>3, <1>4, <1>5, Zenon

\* The same once a header is known.
LEMMA ProcessOK ==
    ASSUME NEW d, StateOK(d), NEW p \in Peers, NEW index,
           NEW e, e = [d EXCEPT !.node[p] = ProcessBlockAvailability(@, index)]
    PROVE  StateOK(e) /\ e.node[p].stage = d.node[p].stage /\ e.inFlight = d.inFlight
<1>. DEFINE u == ProcessBlockAvailability(d.node[p], index)
<1>1. IsState(d) /\ NodeOK(d.node[p]) /\ d.node = [r \in Peers |-> d.node[r]]
  BY Zenon DEF StateOK
<1>2. NodeOK(u) /\ Alike(u, d.node[p]) /\ u.stage = d.node[p].stage
  <2>1. Genesis \in Blocks
    BY BlocksAssumption, Zenon
  <2>2. NodeOK(u) /\ Alike(u, d.node[p])
    BY <1>1, <2>1, AvailabilityOK, Zenon
  <2>. QED  BY <2>2, Zenon DEF Alike
<1>. HIDE DEF u
<1>3. e = [d EXCEPT !.node[p] = u]
  BY Zenon DEF u
<1>4. StateOK([d EXCEPT !.node[p] = u])
  BY <1>2, ReplaceOK, Zenon
<1>5. [d EXCEPT !.node[p] = u].node[p] = u /\ [d EXCEPT !.node[p] = u].inFlight = d.inFlight
  BY <1>1, Zenon DEF IsState
<1>. QED  BY <1>2, <1>3, <1>4, <1>5, Zenon

\* The variables are the fields of the record that a handler makes.
LEMMA BecomesOK ==
    ASSUME NEW d, StateOK(d), Becomes(d)
    PROVE  StateOK(Now')
<1>1. IsState(d)
  BY Zenon DEF StateOK
<1>2. Now' = d
  BY <1>1, Zenon DEF Becomes, Now, IsState
<1>. QED  BY <1>2, Zenon

\* A message is handled and then the check for a ban is made.
LEMMA HandledOK ==
    ASSUME NEW d, StateOK(d), NEW p \in Peers, Handled(d, p)
    PROVE  StateOK(Now')
BY SendRejectsOK, BecomesOK, Zenon DEF Handled

\* The direct fetch asks for blocks that nobody was asked for.
LEMMA DirectFetchOK ==
    ASSUME NEW n, NEW b \in Blocks, NEW inFlight
    PROVE  \E S \in SUBSET Blocks :
              /\ IsFiniteSet(S) /\ \A x \in S : inFlight[x] = None
              /\ DirectFetch(n, b, inFlight) = Earliest(S, MAX_BLOCKS_IN_TRANSIT_PER_PEER - n.nBlocksInFlight)
<1>. DEFINE walk == Ancestors[b] \ ActiveChain
            vToFetch == {x \in walk : x \notin haveData /\ inFlight[x] = None}
            k == MAX_BLOCKS_IN_TRANSIT_PER_PEER - n.nBlocksInFlight
<1>1. DirectFetch(n, b, inFlight) = Earliest(vToFetch, k) \/ DirectFetch(n, b, inFlight) = {}
  BY Zenon DEF DirectFetch
<1>2. Earliest({}, k) = {}
  BY Zenon DEF Earliest
<1>3. vToFetch \in SUBSET Blocks /\ IsFiniteSet(vToFetch)
  <2>1. vToFetch \subseteq Ancestors[b] /\ Ancestors[b] \subseteq Blocks /\ IsFiniteSet(Ancestors[b])
    BY BlocksAssumption, Zenon
  <2>. QED  BY <2>1, FS_Subset, Zenon
<1>. QED  BY <1>1, <1>2, <1>3, FS_EmptySet, Zenon

\* ProcessHeadersMessage.
LEMMA HeadersAcceptedOK ==
    ASSUME StateOK(Now), NEW p \in Peers, Live(mapNodeState[p]), NEW b \in Blocks, NEW index,
           HeadersAccepted(p, b, index)
    PROVE  StateOK(Now')
<1>. DEFINE d == Updated(Now, p, index, b)
<1>1. StateOK(d) /\ Live(d.node[p])
  <2>1. Now.node[p].stage = mapNodeState[p].stage
    BY Zenon DEF Now
  <2>2. StateOK(d) /\ d.node[p].stage = Now.node[p].stage
    BY UpdateOK, Zenon
  <2>. QED  BY <2>1, <2>2, Zenon DEF Live
<1>2. PICK s \in InOrder(DirectFetch(d.node[p], b, d.inFlight)) :
         \/ Handled(Protect(MarkBlocksAsInFlight(d, p, s, "none"), p), p)
         \/ Handled(Protect(Disconnect(MarkBlocksAsInFlight(d, p, s, "none"), p), p), p)
  BY Zenon DEF HeadersAccepted, Updated
<1>. HIDE DEF d
<1>. DEFINE e == MarkBlocksAsInFlight(d, p, s, "none")
<1>3. StateOK(e) /\ Live(e.node[p])
  <2>1. PICK S \in SUBSET Blocks :
           /\ IsFiniteSet(S) /\ \A x \in S : d.inFlight[x] = None
           /\ DirectFetch(d.node[p], b, d.inFlight)
                = Earliest(S, MAX_BLOCKS_IN_TRANSIT_PER_PEER - d.node[p].nBlocksInFlight)
    BY DirectFetchOK
  <2>2. s \in InOrder(Earliest(S, MAX_BLOCKS_IN_TRANSIT_PER_PEER - d.node[p].nBlocksInFlight))
    BY <1>2, <2>1, Zenon
  <2>. QED  BY <1>1, <2>1, <2>2, AskOK, Zenon
<1>. HIDE DEF e
<1>4. StateOK(Disconnect(e, p)) /\ Live(Disconnect(e, p).node[p])
  <2>1. IsState(e)
    BY <1>3, Zenon DEF StateOK
  <2>2. Disconnect(e, p).node = e.node
    BY <2>1, Zenon DEF IsState, Disconnect
  <2>. QED  BY <1>3, <2>2, DisconnectOK, Zenon
<1>5. StateOK(Protect(e, p)) /\ StateOK(Protect(Disconnect(e, p), p))
  BY <1>3, <1>4, ProtectOK, Zenon
<1>. QED  BY <1>2, <1>5, HandledOK, Zenon DEF e

\* A set of blocks has a lowest one.
LEMMA LowestOK ==
    ASSUME NEW W \in SUBSET Blocks, W # {}
    PROVE  \E b \in W : \A w \in W : Height[b] <= Height[w]
<1>. DEFINE T == {Height[w] : w \in W}
            R == {ss \in Nat \X Nat : ss[1] < ss[2]}
<1>1. T \subseteq Nat /\ T # {}
  BY BlocksAssumption
<1>2. IsWellFoundedOn(R, Nat)
  BY NatLessThanWellFounded, Zenon DEF OpToRel
<1>3. \A x, y \in Nat : y < x => <<y, x>> \in R
  BY Zenon
<1>. HIDE DEF R, T
<1>4. PICK x \in T : \A y \in T : ~(<<y, x>> \in R)
  BY <1>1, <1>2, WFMin, Zenon
<1>5. ASSUME NEW y \in T
      PROVE  x <= y
  <2>1. x \in Nat /\ y \in Nat /\ ~(<<y, x>> \in R)
    BY <1>1, <1>4, Zenon
  <2>2. ~(y < x)
    BY <1>3, <2>1, Zenon
  <2>. QED  BY <2>1, <2>2
<1>. QED  BY <1>4, <1>5, Zenon DEF T

\* What the walk finds: blocks that nobody was asked for, and a staller that
\* was asked for one.
LEMMA FindNextOK ==
    ASSUME NEW n, n.pindexBestKnownBlock \in Blocks \cup {None}, NEW p, NEW count,
           NEW inFlight \in [Blocks -> Peers \cup {None}]
    PROVE  /\ \E S \in SUBSET Blocks :
                 /\ IsFiniteSet(S) /\ \A x \in S : inFlight[x] = None
                 /\ FindNextBlocksToDownload(n, p, count, inFlight).blocks = Earliest(S, count)
           /\ LET staller == FindNextBlocksToDownload(n, p, count, inFlight).staller
              IN  staller = None \/ (staller \in Peers /\ \E b \in Blocks : inFlight[b] = staller)
<1>. DEFINE best == n.pindexBestKnownBlock
            common == LastCommon(n)
            windowEnd == Height[common] + BLOCK_DOWNLOAD_WINDOW
            onPath == {b \in Ancestors[best] :
                          Height[common] < Height[b] /\ Height[b] <= windowEnd + 1}
            sound == {b \in onPath : Ancestors[b] \cap onPath \cap failed = {}}
            wanted == {b \in sound : Wanted(b, inFlight) /\ Height[b] <= windowEnd}
            taken == Earliest(wanted, count)
            visited == IF Cardinality(wanted) < count THEN sound
                       ELSE {b \in sound : \E t \in taken : b \in Ancestors[t]}
            waiting == {b \in visited : b \notin haveData \cup ActiveChain /\ inFlight[b] # None}
            lowest == CHOOSE b \in waiting : \A w \in waiting : Height[b] <= Height[w]
            found == FindNextBlocksToDownload(n, p, count, inFlight)
<1>1. \/ found.blocks = {} /\ found.staller = None
      \/ /\ best # None /\ found.blocks = taken
         /\ found.staller = None \/ (found.staller = inFlight[lowest] /\ waiting # {})
  BY Zenon DEF FindNextBlocksToDownload, Nothing
<1>2. Earliest({}, count) = {}
  BY Zenon DEF Earliest
<1>3. ASSUME best # None
      PROVE  /\ wanted \in SUBSET Blocks /\ IsFiniteSet(wanted) /\ \A x \in wanted : inFlight[x] = None
             /\ waiting # {} => inFlight[lowest] \in Peers /\ lowest \in Blocks
  <2>1. sound \subseteq Ancestors[best] /\ Ancestors[best] \subseteq Blocks /\ IsFiniteSet(Ancestors[best])
    BY <1>3, BlocksAssumption, Zenon
  <2>. HIDE DEF sound
  <2>2. wanted \subseteq Ancestors[best] /\ \A x \in wanted : inFlight[x] = None
    BY <2>1, Zenon DEF Wanted
  <2>3. waiting \in SUBSET Blocks /\ \A b \in waiting : inFlight[b] # None
    BY <2>1, Zenon
  <2>. HIDE DEF waiting, wanted
  <2>4. waiting # {} => lowest \in waiting
    BY <2>3, LowestOK, Zenon
  <2>. QED  BY <2>1, <2>2, <2>3, <2>4, FS_Subset, Zenon
<1>. HIDE DEF wanted, waiting, lowest, found
<1>. QED  BY <1>1, <1>2, <1>3, FS_EmptySet, Zenon DEF found

\* FindNextBlocksToDownload and its caller.
LEMMA RequestBlocksOK ==
    ASSUME NEW d, StateOK(d), NEW p \in Peers, Live(d.node[p]), NEW r \in RequestBlocks(d, p)
    PROVE  StateOK(r)
<1>. DEFINE n == d.node[p]
            count == MAX_BLOCKS_IN_TRANSIT_PER_PEER - n.nBlocksInFlight
            found == FindNextBlocksToDownload(n, p, count, d.inFlight)
            staller == found.staller
            e == [d EXCEPT !.node[p].pindexLastCommonBlock = found.common]
<1>1. \/ r = [e EXCEPT !.node[staller].nStallingSince = "running"] /\ staller # None
      \/ \E s \in InOrder(found.blocks) : r = MarkBlocksAsInFlight(e, p, s, "none")
  BY Zenon DEF RequestBlocks
<1>2. d.inFlight \in [Blocks -> Peers \cup {None}] /\ n.pindexBestKnownBlock \in Blocks \cup {None}
  BY Zenon DEF StateOK, NodeOK, HasFields
<1>3. /\ \E S \in SUBSET Blocks :
            IsFiniteSet(S) /\ (\A x \in S : d.inFlight[x] = None) /\ found.blocks = Earliest(S, count)
      /\ staller = None \/ (staller \in Peers /\ \E b \in Blocks : d.inFlight[b] = staller)
  <2>. HIDE DEF n, count
  <2>. QED  BY <1>2, FindNextOK
<1>. HIDE DEF found
<1>4. StateOK(e)
  BY LastCommonOK, Zenon
<1>5. /\ e.inFlight = d.inFlight /\ e.node[p].stage = n.stage
      /\ e.node[p].nBlocksInFlight = n.nBlocksInFlight
  <2>1. IsState(d) /\ HasFields(n) /\ d.node = [x \in Peers |-> d.node[x]]
    BY Zenon DEF StateOK, NodeOK
  <2>2. e.inFlight = d.inFlight /\ e.node[p] = [n EXCEPT !.pindexLastCommonBlock = found.common]
    BY <2>1, Zenon DEF IsState
  <2>. QED  BY <2>1, <2>2, SMTT(30) DEF HasFields
<1>. HIDE DEF e
<1>6. CASE r = [e EXCEPT !.node[staller].nStallingSince = "running"] /\ staller # None
  <2>1. PICK b \in Blocks : e.inFlight[b] = staller
    BY <1>3, <1>5, <1>6, Zenon
  <2>2. e.node[staller].vBlocksInFlight # <<>>
    BY <1>3, <1>4, <1>6, <2>1, EntryOK, SMTT(30)
  <2>. QED  BY <1>3, <1>4, <1>6, <2>2, StallingOK, Zenon
<1>7. CASE \E s \in InOrder(found.blocks) : r = MarkBlocksAsInFlight(e, p, s, "none")
  BY <1>3, <1>4, <1>5, <1>7, AskOK, Zenon DEF Live
<1>. QED  BY <1>1, <1>6, <1>7, Zenon

\* SendMessages.
LEMMA SentOK ==
    ASSUME StateOK(Now), tip \in Blocks, NEW p \in Peers, Live(mapNodeState[p]), NEW late,
           NEW r \in Sent(p, late)
    PROVE  StateOK(r)
<1>. DEFINE n == mapNodeState[p]
            fFetch == n.fPreferredDownload \/ nPreferredDownload = 0
            d == StartSync(Now, p, fFetch)
            h == CheckHeadersSync(d, p, late)
            e == ConsiderEviction(h, p, late)
            a == [e EXCEPT !.node[p] = ProcessBlockAvailability(@, mapBlockIndex)]
<1>1. \/ r = SendRejectsAndCheckIfBanned(Now, p) \/ r = Disconnect(d, p)
      \/ r \in RequestBlocks(a, p) \/ r = e
  BY Zenon DEF Sent
<1>2. StateOK(d) /\ Live(d.node[p])
  BY StartSyncOK, Zenon DEF Now
<1>. HIDE DEF d
<1>3. StateOK(h) /\ Live(h.node[p])
  BY <1>2, CheckHeadersSyncOK, Zenon
<1>. HIDE DEF h
<1>4. StateOK(e) /\ Live(e.node[p])
  BY <1>3, ConsiderEvictionOK, Zenon DEF Live
<1>. HIDE DEF e
<1>5. StateOK(a) /\ Live(a.node[p])
  <2>1. StateOK(a) /\ a.node[p].stage = e.node[p].stage
    BY <1>4, ProcessOK, Zenon
  <2>. QED  BY <1>4, <2>1, Zenon DEF Live
<1>. HIDE DEF a
<1>. QED  BY <1>1, <1>2, <1>4, <1>5, RequestBlocksOK, SendRejectsOK, DisconnectOK, Zenon

-----------------------------------------------------------------------------
(* The actions.                                                            *)

\* Nothing is there at the start.
LEMMA InitOK == Init => DownloadInv
<1>. SUFFICES ASSUME Init PROVE DownloadInv
  BY Zenon
<1>1. Now.node = [p \in Peers |-> Now.node[p]] /\ IsState(Now) /\ \A p \in Peers : Now.node[p] = NoState
  BY Zenon DEF Init, Now, IsState
<1>2. NodeOK(NoState)
  <2>1. QueueOK(<<>>) /\ Len(<<>>) = 0 /\ 0 <= MAX_BLOCKS_IN_TRANSIT_PER_PEER
    BY BoundsAssumption, SMTT(30) DEF QueueOK
  <2>2. HasFields(NoState)
    BY SMTT(30) DEF HasFields, NoState
  <2>. QED  BY <2>1, <2>2, Zenon DEF NodeOK, NoState
<1>3. /\ Syncing(Now.node) = {} /\ Preferring(Now.node) = {}
      /\ Protecting(Now.node) = {} /\ Delivering(Now.node) = {}
  BY <1>1, SMTT(30) DEF Syncing, Preferring, Protecting, Delivering, NoState
<1>4. /\ Now.inFlight \in [Blocks -> Peers \cup {None}]
      /\ \A p \in Peers, b \in Blocks : Now.inFlight[b] = p <=> b \in Hashes(Now.node[p].vBlocksInFlight)
  <2>1. \A b \in Blocks : Now.inFlight[b] = None
    BY Zenon DEF Init, Now
  <2>2. \A p \in Peers : Hashes(Now.node[p].vBlocksInFlight) = {}
    BY <1>1, SMTT(30) DEF Hashes, NoState
  <2>3. Now.inFlight \in [Blocks -> Peers \cup {None}]
    BY Zenon DEF Init, Now
  <2>. QED  BY <2>1, <2>2, <2>3, PeersAssumption, Zenon
<1>5. /\ Now.sync = 0 /\ Now.preferred = 0 /\ Now.protected = 0 /\ Now.validated = 0
      /\ Now.aborted = FALSE /\ 0 <= MAX_PROTECTED
  <2>1. 0 <= MAX_PROTECTED
    BY BoundsAssumption
  <2>. QED  BY <2>1, Zenon DEF Init, Now
<1>6. StateOK(Now)
  BY <1>1, <1>2, <1>3, <1>4, <1>5, FS_EmptySet, Zenon DEF StateOK
<1>7. /\ mapBlockSource \in [Blocks -> [peer : Peers, punish : BOOLEAN] \cup {None}]
      /\ processing = Idle /\ mapBlockIndex \subseteq Blocks /\ tip \in Blocks
  BY BlocksAssumption, Zenon DEF Init
<1>. QED  BY <1>6, <1>7, Zenon DEF DownloadInv

\* mapBlockSource.emplace
LEMMA SourceOK ==
    ASSUME DownloadInv, NEW p \in Peers, NEW b \in Blocks, NEW punish \in BOOLEAN, Source(b, p, punish)
    PROVE  mapBlockSource' \in [Blocks -> [peer : Peers, punish : BOOLEAN] \cup {None}]
BY Zenon DEF DownloadInv, Source

\* The messages of a peer that connects, announces or sends headers.
LEMMA HeadersStepOK ==
    ASSUME DownloadInv, NEW p \in Peers,
           \/ InitializeNode(p) \/ Version(p) \/ Verack(p)
           \/ \E b \in Blocks : Inv(p, b) \/ \E first \in Blocks : Headers(p, first, b)
    PROVE  DownloadInv'
<1>. USE DEF DownloadInv
<1>0. Now.node = mapNodeState
  BY Zenon DEF Now
<1>1. CASE InitializeNode(p)
  BY <1>1, StageOK, BecomesOK, Zenon DEF InitializeNode, chainVars
<1>2. CASE Version(p)
  <2>. DEFINE d == UpdatePreferredDownload(Now, p)
  <2>1. StateOK(d)
    BY <1>0, <1>2, PreferredOK, Zenon DEF Version, Turn, Found
  <2>2. Handled([d EXCEPT !.node[p].stage = "version"], p)
    BY <1>2, Zenon DEF Version
  <2>. HIDE DEF d
  <2>3. StateOK([d EXCEPT !.node[p].stage = "version"])
    BY <2>1, StageOK, Zenon
  <2>4. StateOK(Now')
    BY <2>2, <2>3, HandledOK, Zenon
  <2>. QED  BY <1>2, <2>4, Zenon DEF Version, chainVars
<1>3. CASE Verack(p)
  BY <1>3, StageOK, HandledOK, Zenon DEF Verack, chainVars
<1>4. ASSUME NEW b \in Blocks, Inv(p, b)
      PROVE  DownloadInv'
  <2>1. StateOK(Updated(Now, p, mapBlockIndex, b))
    BY UpdateOK, Zenon
  <2>2. Handled(Updated(Now, p, mapBlockIndex, b), p)
    BY <1>4, Zenon DEF Inv, Updated
  <2>3. StateOK(Now')
    BY <2>1, <2>2, HandledOK, Zenon
  <2>. QED  BY <1>4, <2>3, Zenon DEF Inv, chainVars
<1>5. ASSUME NEW b \in Blocks, NEW first \in Blocks, Headers(p, first, b)
      PROVE  DownloadInv'
  <2>1. mapBlockIndex' \subseteq Blocks
    <3>1. Ancestors[b] \subseteq Blocks
      BY BlocksAssumption, Zenon
    <3>. QED  BY <1>5, <3>1, Zenon DEF Headers
  <2>2. \/ HeadersAccepted(p, b, mapBlockIndex') \/ Handled(Misbehaving(Now, p), p)
        \/ Handled(Disconnect(Now, p), p) \/ Handled(Now, p)
    BY <1>5, Zenon DEF Headers
  <2>3. Live(mapNodeState[p])
    BY <1>5, Zenon DEF Headers, Ready, Turn, Found
  <2>4. StateOK(Now')
    BY <2>2, <2>3, HeadersAcceptedOK, HandledOK, MisbehavingOK, DisconnectOK, Zenon
  <2>. QED  BY <1>5, <2>1, <2>4, Zenon DEF Headers
<1>. QED  BY <1>1, <1>2, <1>3, <1>4, <1>5, Zenon

\* Compact blocks.
LEMMA CmpctBlockOK ==
    ASSUME DownloadInv, NEW p \in Peers, Live(mapNodeState[p]), NEW b \in Blocks, NEW status,
           CmpctBlock(p, b, status)
    PROVE  DownloadInv'
<1>. DEFINE n == UpdateBlockAvailability(mapNodeState[p], mapBlockIndex', b)
            d == [Now EXCEPT !.node[p] = UpdateBlockAvailability(@, mapBlockIndex', b)]
            owner == mapBlocksInFlight[b]
            mine == (owner = None /\ BelowLimit(n)) \/ owner = p
            marked == IF owner # None THEN SetPartial(d, p, b, "init")
                      ELSE MarkBlocksAsInFlight(d, p, <<b>>, "init")
<1>0. StateOK(Now) /\ Now.node = mapNodeState /\ Now.inFlight = mapBlocksInFlight
  BY Zenon DEF Now, DownloadInv
<1>1. d = [Now EXCEPT !.node[p] = n]
  BY <1>0, Zenon
<1>2. /\ mapBlockIndex' \subseteq Blocks /\ UNCHANGED tip
      /\ mapBlockSource' = mapBlockSource \/ Source(b, p, FALSE)
      /\ processing' = processing \/ Busy(p, b, "blocktxn", TRUE, TRUE) \/ Busy(p, b, "optimistic", TRUE, TRUE)
  <2>1. mapBlockIndex' \subseteq Blocks /\ UNCHANGED tip
    BY Zenon DEF CmpctBlock, DownloadInv
  <2>2. mapBlockSource' = mapBlockSource \/ Source(b, p, FALSE)
    BY Zenon DEF CmpctBlock
  <2>3. processing' = processing \/ Busy(p, b, "blocktxn", TRUE, TRUE) \/ Busy(p, b, "optimistic", TRUE, TRUE)
    BY Zenon DEF CmpctBlock
  <2>. QED  BY <2>1, <2>2, <2>3, Zenon
<1>3. \/ Handled(Misbehaving(Now, p), p)
      \/ Handled([Now EXCEPT !.node[p] = n], p) \/ Becomes([Now EXCEPT !.node[p] = n])
      \/ HeadersAccepted(p, b, mapBlockIndex')
      \/ /\ mine
         /\ \/ Handled(Misbehaving(MarkBlockAsReceived(marked, b), p), p)
            \/ Becomes(marked) \/ Handled(marked, p)
  BY <1>1, Zenon DEF CmpctBlock
<1>4. StateOK(d) /\ d.inFlight = mapBlocksInFlight /\ d.node[p].stage = mapNodeState[p].stage
  <2>1. StateOK(d) /\ d.inFlight = Now.inFlight /\ d.node[p].stage = Now.node[p].stage
    <3>1. d = Updated(Now, p, mapBlockIndex', b)
      BY Zenon DEF Updated
    <3>. HIDE DEF d
    <3>. QED  BY <1>0, <3>1, UpdateOK
  <2>. HIDE DEF d
  <2>. QED  BY <1>0, <2>1, Zenon
<1>5. d.node[p] = n
  <2>1. Now.node = [r \in Peers |-> Now.node[r]]
    BY <1>0, Zenon DEF StateOK
  <2>. QED  BY <1>1, <2>1, Zenon DEF Now
<1>. HIDE DEF d, n
<1>6. ASSUME mine
      PROVE  StateOK(marked)
  <2>1. CASE owner = p
    BY <1>4, <2>1, PeersAssumption, SetPartialOK, Zenon
  <2>2. CASE owner = None /\ BelowLimit(n)
    <3>1. /\ <<b>> \in Seq(Blocks) /\ Len(<<b>>) = 1 /\ DOMAIN <<b>> = {1} /\ <<b>>[1] = b
      BY SMTT(30)
    <3>2. Len(d.node[p].vBlocksInFlight) + 1 <= MAX_BLOCKS_IN_TRANSIT_PER_PEER
      <4>1. n.nBlocksInFlight = Len(n.vBlocksInFlight) /\ n.vBlocksInFlight \in Seq(QueuedBlock)
        BY <1>4, <1>5, Zenon DEF StateOK, NodeOK, QueueOK
      <4>2. Len(n.vBlocksInFlight) \in Nat
        BY <4>1, SMTT(30)
      <4>. QED  BY <1>5, <2>2, <4>1, <4>2, BoundsAssumption DEF BelowLimit
    <3>3. Live(d.node[p])
      BY <1>4, Zenon DEF Live
    <3>4. StateOK(MarkBlocksAsInFlight(d, p, <<b>>, "init"))
      BY <1>4, <2>2, <3>1, <3>2, <3>3, MarkInFlightOK, Zenon
    <3>. QED  BY <2>2, <3>4, Zenon
  <2>. QED  BY <1>6, <2>1, <2>2, Zenon
<1>. HIDE DEF marked
<1>7. StateOK(Now')
  <2>1. CASE mine /\ \/ Handled(Misbehaving(MarkBlockAsReceived(marked, b), p), p)
                     \/ Becomes(marked) \/ Handled(marked, p)
    BY <1>6, <2>1, MarkReceivedOK, MisbehavingOK, HandledOK, BecomesOK, Zenon
  <2>. QED  BY <1>0, <1>1, <1>3, <1>4, <2>1, MisbehavingOK, HandledOK, BecomesOK, HeadersAcceptedOK, Zenon
<1>8. mapBlockSource' \in [Blocks -> [peer : Peers, punish : BOOLEAN] \cup {None}]
  BY <1>2, SourceOK, Zenon DEF DownloadInv
<1>9. processing' = Idle \/ (processing'.peer \in Peers /\ processing'.hash \in Blocks)
  BY <1>2 DEF DownloadInv, Busy
<1>. QED  BY <1>2, <1>7, <1>8, <1>9, Zenon DEF DownloadInv

\* The transactions of a compact block, and whole blocks.
LEMMA BlockTxnOK ==
    ASSUME DownloadInv, NEW p \in Peers, NEW b \in Blocks, NEW status, BlockTxn(p, b, status)
    PROVE  DownloadInv'
<1>1. /\ UNCHANGED chainVars /\ mapBlocksInFlight[b] = p
      /\ mapBlockSource' = mapBlockSource \/ Source(b, p, FALSE)
      /\ processing' = Idle \/ Busy(p, b, "block", TRUE, TRUE) \/ Busy(p, b, "assert", TRUE, TRUE)
      /\ \/ Handled(Misbehaving(MarkBlockAsReceived(Now, b), p), p)
         \/ Handled(SetPartial(Now, p, b, "filled"), p)
         \/ Becomes(MarkBlockAsReceived(Now, b))
         \/ UNCHANGED nodeStates
  BY Zenon DEF BlockTxn
<1>2. StateOK(Now) /\ Now.inFlight[b] = p
  BY <1>1, Zenon DEF Now, DownloadInv
<1>3. StateOK(Now')
  <2>1. UNCHANGED nodeStates => Now' = Now
    BY Zenon DEF nodeStates, Now
  <2>. QED  BY <1>1, <1>2, <2>1, MarkReceivedOK, MisbehavingOK, SetPartialOK, HandledOK, BecomesOK, Zenon
<1>4. mapBlockSource' \in [Blocks -> [peer : Peers, punish : BOOLEAN] \cup {None}]
  BY <1>1, SourceOK, Zenon DEF DownloadInv
<1>5. processing' = Idle \/ (processing'.peer \in Peers /\ processing'.hash \in Blocks)
  BY <1>1 DEF Busy
<1>. QED  BY <1>1, <1>3, <1>4, <1>5, Zenon DEF DownloadInv, chainVars

\* A BLOCK message: the block goes to ProcessNewBlock, its source noted.
LEMMA BlockOK ==
    ASSUME DownloadInv, NEW p \in Peers, NEW b \in Blocks, NEW intact, Block(p, b, intact)
    PROVE  DownloadInv'
<1>1. StateOK(Now')
  BY MarkReceivedOK, BecomesOK, Zenon DEF DownloadInv, Block
<1>2. mapBlockSource' \in [Blocks -> [peer : Peers, punish : BOOLEAN] \cup {None}]
  BY SourceOK, Zenon DEF Block
<1>3. processing'.peer \in Peers /\ processing'.hash \in Blocks
  BY Zenon DEF Block, Busy
<1>. QED  BY <1>1, <1>2, <1>3, Zenon DEF DownloadInv, Block, chainVars

\* The rest of a handler: the peer that sent the block may be gone or another
\* than the one it is in flight from.
LEMMA ProcessBlockOK ==
    ASSUME DownloadInv, ProcessBlock
    PROVE  DownloadInv'
<1>. DEFINE p == processing.peer
            b == processing.hash
<1>1. p \in Peers /\ b \in Blocks
  <2>1. processing.step # "idle"
    BY Zenon DEF ProcessBlock, RejectBlock, ProcessNewBlock
  <2>. QED  BY <2>1 DEF DownloadInv, Idle
<1>2. StateOK(Now) /\ StateOK(CheckedInvalid(Now, b))
  <2>1. mapBlockSource[b] # None => mapBlockSource[b].peer \in Peers
    BY <1>1, Zenon DEF DownloadInv
  <2>. QED  BY <2>1, MisbehavingOK, Zenon DEF DownloadInv, CheckedInvalid
<1>3. ASSUME NEW d, StateOK(d), Processed(d)
      PROVE  StateOK(Now') /\ processing' = Idle
  <2>1. StateOK(MarkBlockAsReceived(d, b))
    BY <1>1, <1>3, MarkReceivedOK, Zenon
  <2>. QED  BY <1>1, <1>3, <2>1, HandledOK, Zenon DEF Processed
<1>4. CASE RejectBlock
  <2>1. Processed(Now) \/ Processed(CheckedInvalid(Now, b))
    BY <1>4, Zenon DEF RejectBlock
  <2>2. /\ UNCHANGED chainVars
        /\ mapBlockSource' \in [Blocks -> [peer : Peers, punish : BOOLEAN] \cup {None}]
    BY <1>4, Zenon DEF RejectBlock, DownloadInv
  <2>3. StateOK(Now') /\ processing' = Idle
    BY <1>2, <1>3, <2>1, Zenon
  <2>. QED  BY <2>2, <2>3, Zenon DEF DownloadInv, chainVars
<1>5. CASE ProcessNewBlock
  <2>1. Processed(Now) \/ Processed(CheckedInvalid(Now, b))
    BY <1>5, Zenon DEF ProcessNewBlock
  <2>2. mapBlockSource' \in [Blocks -> [peer : Peers, punish : BOOLEAN] \cup {None}]
    BY <1>5, Zenon DEF ProcessNewBlock, DownloadInv
  <2>3. mapBlockIndex' \subseteq Blocks
    BY <1>1, <1>5, Zenon DEF ProcessNewBlock, DownloadInv
  <2>4. tip' = tip \/ tip' \in mapBlockIndex'
    BY <1>5, Zenon DEF ProcessNewBlock
  <2>5. StateOK(Now') /\ processing' = Idle
    BY <1>2, <1>3, <2>1, Zenon
  <2>. QED  BY <2>2, <2>3, <2>4, <2>5, Zenon DEF DownloadInv
<1>6. CASE \E status \in {"complete", "failed"} : BlockTxn(p, b, status)
  BY <1>1, <1>6, BlockTxnOK, Zenon
<1>. QED  BY <1>4, <1>5, <1>6, Zenon DEF ProcessBlock

\* The step of a peer, of the message handler with it, or of the other threads.
LEMMA PeerStepOK ==
    ASSUME DownloadInv, NEW p \in Peers, PeerStep(p)
    PROVE  DownloadInv'
<1>0. StateOK(Now) /\ tip \in Blocks /\ Now.node = mapNodeState
  BY Zenon DEF DownloadInv, Now
<1>1. ASSUME StateOK(Now'), UNCHANGED <<mapBlockSource, processing, chainVars>>
      PROVE  DownloadInv'
  BY <1>1, Zenon DEF DownloadInv, chainVars
<1>2. CASE CloseSocketDisconnect(p) \/ EvictExtraOutboundPeers(p)
  <2>1. Becomes(Disconnect(Now, p)) /\ UNCHANGED <<mapBlockSource, processing, chainVars>>
    BY <1>2, Zenon DEF CloseSocketDisconnect, EvictExtraOutboundPeers
  <2>. QED  BY <1>0, <1>1, <2>1, DisconnectOK, BecomesOK, Zenon
<1>3. CASE DeleteNode(p)
  <2>1. StateOK(FinalizeNode(Now, p))
    BY <1>0, <1>3, FinalizeOK, Zenon DEF DeleteNode
  <2>. QED  BY <1>1, <1>3, <2>1, BecomesOK, Zenon DEF DeleteNode
<1>4. ASSUME NEW late, SendMessages(p, late)
      PROVE  DownloadInv'
  <2>1. Live(mapNodeState[p])
    BY <1>4, Zenon DEF SendMessages, Ready, Turn, Found
  <2>2. PICK d \in Sent(p, late) : Becomes(d)
    BY <1>4, Zenon DEF SendMessages
  <2>3. StateOK(Now')
    BY <1>0, <2>1, <2>2, SentOK, BecomesOK, Zenon
  <2>. QED  BY <1>1, <1>4, <2>3, Zenon DEF SendMessages
<1>5. CASE MessageStep(p)
  <2>1. Known(p) \subseteq Blocks
    BY Zenon DEF Known
  <2>2. \/ Version(p) \/ Verack(p)
        \/ \E b \in Blocks : Inv(p, b) \/ \E first \in Blocks : Headers(p, first, b)
        \/ \E b \in Blocks, status \in Reconstructed(p) :
              Ready(p) /\ (CmpctBlock(p, b, status) \/ BlockTxn(p, b, status))
        \/ \E b \in Blocks, intact \in BOOLEAN : Block(p, b, intact)
    BY <1>5, <2>1, Zenon DEF MessageStep
  <2>3. Ready(p) => Live(mapNodeState[p])
    BY Zenon DEF Ready, Turn, Found
  <2>. QED  BY <2>2, <2>3, HeadersStepOK, CmpctBlockOK, BlockTxnOK, BlockOK, Zenon
<1>6. CASE InitializeNode(p)
  BY <1>6, HeadersStepOK, Zenon
<1>. QED  BY <1>2, <1>3, <1>4, <1>5, <1>6, Zenon DEF PeerStep

-----------------------------------------------------------------------------
(* The theorems.                                                           *)

\* Whatever the order of messages, timeouts, disconnections and processed
\* blocks, the state of the download is consistent.
THEOREM DownloadInvariant == Spec => []DownloadInv
<1>1. DownloadInv /\ [Next]_vars => DownloadInv'
  <2>. SUFFICES ASSUME DownloadInv, [Next]_vars PROVE DownloadInv'
    BY Zenon
  <2>1. CASE ProcessBlock
    BY <2>1, ProcessBlockOK, Zenon
  <2>2. CASE \E p \in Peers : PeerStep(p)
    BY <2>2, PeerStepOK, Zenon
  <2>3. CASE UNCHANGED vars
    <3>1. Now' = Now
      BY <2>3, Zenon DEF vars, nodeStates, Now
    <3>. QED  BY <2>3, <3>1, Zenon DEF DownloadInv, vars, chainVars
  <2>. QED  BY <2>1, <2>2, <2>3, Zenon DEF Next, Step
<1>. QED  BY <1>1, InitOK, PTL DEF Spec

\* mapBlocksInFlight and the queues of the peers say the same, and no peer is
\* asked for more than MAX_BLOCKS_IN_TRANSIT_PER_PEER blocks.
THEOREM DownloadsAreExact == Spec => []DownloadsExact
<1>1. DownloadInv => DownloadsExact
  <2>. SUFFICES ASSUME DownloadInv, NEW p \in Peers
                PROVE  LET n == mapNodeState[p]
                       IN  /\ InFlightFrom(p) = {b \in Blocks : mapBlocksInFlight[b] = p}
                           /\ \A i, j \in DOMAIN n.vBlocksInFlight :
                                 n.vBlocksInFlight[i].hash = n.vBlocksInFlight[j].hash => i = j
                           /\ n.nBlocksInFlight = Len(n.vBlocksInFlight)
                           /\ n.nBlocksInFlightValidHeaders = n.nBlocksInFlight
                           /\ n.nBlocksInFlight <= MAX_BLOCKS_IN_TRANSIT_PER_PEER
                           /\ n.nStallingSince # "off" => n.vBlocksInFlight # <<>>
    BY Zenon DEF DownloadsExact
  <2>1. /\ NodeOK(mapNodeState[p])
        /\ \A b \in Blocks : mapBlocksInFlight[b] = p <=> b \in Hashes(mapNodeState[p].vBlocksInFlight)
    BY Zenon DEF DownloadInv, StateOK, Now
  <2>2. InFlightFrom(p) = {b \in Blocks : mapBlocksInFlight[b] = p}
    <3>1. Hashes(mapNodeState[p].vBlocksInFlight) \subseteq Blocks
      <4>1. \A i \in DOMAIN mapNodeState[p].vBlocksInFlight : mapNodeState[p].vBlocksInFlight[i] \in QueuedBlock
        <5>1. mapNodeState[p].vBlocksInFlight \in Seq(QueuedBlock)
          BY <2>1, Zenon DEF NodeOK, QueueOK
        <5>. QED  BY <5>1
      <4>. QED  BY <4>1, Zenon DEF Hashes, QueuedBlock
    <3>. QED  BY <2>1, <3>1, Zenon DEF InFlightFrom, Hashes
  <2>. QED  BY <2>1, <2>2, Zenon DEF NodeOK, QueueOK
<1>. QED  BY <1>1, DownloadInvariant, PTL

\* The counters over all peers are what they count, and no assert fails: not
\* those of FinalizeNode after the last peer, nor those of MarkBlockAsReceived,
\* MarkBlockAsInFlight and ConsiderEviction.
THEOREM CountersAreExact == Spec => []CountersExact
<1>1. DownloadInv => CountersExact
  <2>. SUFFICES ASSUME DownloadInv PROVE CountersExact
    BY Zenon
  <2>1. /\ nSyncStarted = Cardinality(Syncing(mapNodeState))
        /\ nPreferredDownload = Cardinality(Preferring(mapNodeState))
        /\ nProtected = Cardinality(Protecting(mapNodeState)) /\ nProtected <= MAX_PROTECTED
        /\ nPeersWithValidatedDownloads = Cardinality(Delivering(mapNodeState))
        /\ aborted = FALSE
    BY Zenon DEF DownloadInv, StateOK, Now
  <2>. QED  BY <2>1, Zenon DEF CountersExact, Counted, Syncing, Preferring, Protecting, Delivering
<1>. QED  BY <1>1, DownloadInvariant, PTL

=============================================================================
