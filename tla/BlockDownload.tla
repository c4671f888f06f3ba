---------------------------- MODULE BlockDownload ----------------------------
(***************************************************************************)
(* Which block is asked of which peer (net_processing.cpp): CNodeState,    *)
(* mapBlocksInFlight, the counters over all peers, the handlers of the     *)
(* messages about blocks, and SendMessages with its timeouts.  A step is   *)
(* one critical section of cs_main; the message handler thread lets go of  *)
(* it between reading a block and processing it (`processing`).            *)
(*                                                                         *)
(* The chain itself (ChainState) appears as the set of known headers, the  *)
(* set of stored blocks, the set of failed ones and the tip.  A deadline   *)
(* is a timer that is set or not; whether a timer that is set has run out  *)
(* is chosen where the code compares it with the clock.                    *)
(*                                                                         *)
(* A node lives as NodeLife says, which ConnMan implements.                *)
(***************************************************************************)
EXTENDS Integers, FiniteSets, Sequences

CONSTANTS
    Peers,              \* NodeIds, which are never used again
    Inbound, Whitelisted, Manual,
    Companies,          \* the kinds of messages each peer sends; with none it stays away
    Slow,               \* peers that may let a timer run out
    Blocks, Genesis, Parent, Ancestors, Height, Work,
    BadBlocks,          \* blocks with a valid header and an invalid body
    Recent,             \* blocks less than a day old
    Fresh,              \* blocks less than 20 block intervals old
    None,
    MinimumChainWork,
    MIN_BLOCKS_TO_KEEP,
    MAX_BLOCKS_IN_TRANSIT_PER_PEER,
    BLOCK_DOWNLOAD_WINDOW,
    MAX_CMPCT_AHEAD,    \* the 2 blocks above the tip that compact blocks are used for
    MAX_PROTECTED       \* MAX_OUTBOUND_PEERS_TO_PROTECT_FROM_DISCONNECT

\* What a peer sends: the messages, and among them blocks that were not asked
\* for, BLOCKTXN for a GETBLOCKTXN that was answered already, blocks with a body
\* that is not theirs, blocks of BadBlocks, and blocks on top of one of these.
Kinds ==
    {"inv", "headers", "cmpctblock", "block", "unsolicited", "repeated", "damaged",
     "invalid", "onInvalid"}

ASSUME PeersAssumption ==
    /\ IsFiniteSet(Peers) /\ None \notin Peers /\ None \notin Blocks
    /\ Inbound \cup Whitelisted \cup Manual \cup Slow \subseteq Peers
    /\ Companies \subseteq [Peers -> SUBSET Kinds]

ASSUME BlocksAssumption ==
    /\ Genesis \in Blocks
    /\ Parent \in [Blocks \ {Genesis} -> Blocks]
    /\ Ancestors \in [Blocks -> SUBSET Blocks]
    /\ Height \in [Blocks -> Nat] /\ Work \in [Blocks -> Nat]
    /\ \A b \in Blocks : b \in Ancestors[b] /\ IsFiniteSet(Ancestors[b])

ASSUME BoundsAssumption ==
    {MAX_BLOCKS_IN_TRANSIT_PER_PEER, BLOCK_DOWNLOAD_WINDOW, MAX_CMPCT_AHEAD, MAX_PROTECTED} \subseteq Nat \ {0}

VARIABLES
    mapNodeState,       \* CNodeState, with the flags of CNode it is used with
    mapBlocksInFlight,  \* the peer a block is in flight from, or None
    nSyncStarted, nPreferredDownload, nPeersWithValidatedDownloads,
    nProtected,         \* g_outbound_peers_with_protect_from_disconnect
    aborted,            \* an assert failed
    fDisconnect,        \* the nodes marked for disconnection
    mapBlockSource,     \* [peer, punish] or None
    processing,         \* the block the message handler is busy with, or Idle
    mapBlockIndex, haveData, failed, tip,
    sends               \* the member of Companies at hand

nodeStates == <<mapNodeState, mapBlocksInFlight, nSyncStarted, nPreferredDownload,
                nPeersWithValidatedDownloads, nProtected, aborted, fDisconnect>>
chainVars == <<mapBlockIndex, haveData, failed, tip>>
vars == <<nodeStates, mapBlockSource, processing, chainVars, sends>>

Timer == {"off", "running"}

TimerFields == {"nHeadersSyncTimeout", "nDownloadingSince", "nStallingSince", "m_timeout"}

QueuedBlock == [hash : Blocks, partialBlock : {"none", "init", "filled"}]

CNodeState ==
    [stage : {"none", "connected", "version", "ready", "gone"},
     fShouldBan : BOOLEAN,
     pindexBestKnownBlock : Blocks \cup {None}, hashLastUnknownBlock : Blocks \cup {None},
     pindexLastCommonBlock : Blocks \cup {None},
     fSyncStarted : BOOLEAN, nHeadersSyncTimeout : Timer \cup {"max"},
     fPreferredDownload : BOOLEAN,
     vBlocksInFlight : Seq(QueuedBlock),
     nBlocksInFlight : Int, nBlocksInFlightValidHeaders : Int,
     nStallingSince : Timer,
     m_protect : BOOLEAN, m_timeout : Timer, m_work_header : Blocks \cup {None},
     m_sent_getheaders : BOOLEAN]

NoState ==
    [stage |-> "none", fShouldBan |-> FALSE,
     pindexBestKnownBlock |-> None, hashLastUnknownBlock |-> None,
     pindexLastCommonBlock |-> None,
     fSyncStarted |-> FALSE, nHeadersSyncTimeout |-> "off",
     fPreferredDownload |-> FALSE, vBlocksInFlight |-> <<>>,
     nBlocksInFlight |-> 0, nBlocksInFlightValidHeaders |-> 0,
     nStallingSince |-> "off",
     m_protect |-> FALSE, m_timeout |-> "off", m_work_header |-> None,
     m_sent_getheaders |-> FALSE]

Idle == [peer |-> None, hash |-> None, step |-> "idle", forced |-> FALSE, intact |-> FALSE]

Init ==
    /\ mapNodeState = [p \in Peers |-> NoState]
    /\ mapBlocksInFlight = [b \in Blocks |-> None]
    /\ nSyncStarted = 0 /\ nPreferredDownload = 0
    /\ nPeersWithValidatedDownloads = 0 /\ nProtected = 0
    /\ aborted = FALSE /\ fDisconnect = {}
    /\ mapBlockSource = [b \in Blocks |-> None]
    /\ processing = Idle
    /\ mapBlockIndex = {Genesis} /\ haveData = {Genesis} /\ failed = {} /\ tip = Genesis
    /\ sends \in Companies

-----------------------------------------------------------------------------
(* The state as a record, so that a handler can call several operations.   *)

Now ==
    [node |-> mapNodeState, inFlight |-> mapBlocksInFlight,
     sync |-> nSyncStarted, preferred |-> nPreferredDownload,
     validated |-> nPeersWithValidatedDownloads, protected |-> nProtected,
     disconnect |-> fDisconnect, aborted |-> aborted]

Becomes(e) ==
    \E d \in {e} :
        /\ mapNodeState' = d.node /\ mapBlocksInFlight' = d.inFlight
        /\ nSyncStarted' = d.sync /\ nPreferredDownload' = d.preferred
        /\ nPeersWithValidatedDownloads' = d.validated /\ nProtected' = d.protected
        /\ fDisconnect' = d.disconnect /\ aborted' = d.aborted

\* State(p) is not null.
Live(n) == n.stage \in {"connected", "version", "ready"}

One(b) == IF b THEN 1 ELSE 0

IsOutboundDisconnectionCandidate(p) == p \notin Inbound \cup Manual

ActiveChain == Ancestors[tip]
IsInitialBlockDownload == tip \notin Recent
CanDirectFetch == tip \in Fresh
BestHeaderIsRecent == mapBlockIndex \cap Recent # {}
\* nChainTx is set: all the blocks below are there.
Linked(b) == Ancestors[b] \subseteq haveData

Disconnect(d, p) == [d EXCEPT !.disconnect = @ \cup {p}]

\* Misbehaving with a score that reaches -banscore.
Misbehaving(d, p) ==
    IF Live(d.node[p]) THEN [d EXCEPT !.node[p].fShouldBan = TRUE] ELSE d

SendRejectsAndCheckIfBanned(d, p) ==
    LET e == [d EXCEPT !.node[p].fShouldBan = FALSE]
    IN  IF d.node[p].fShouldBan /\ p \notin Whitelisted \cup Manual THEN Disconnect(e, p) ELSE e

\* ProcessMessages after ProcessMessage.
Handled(d, p) == Becomes(SendRejectsAndCheckIfBanned(d, p))

-----------------------------------------------------------------------------
(* Blocks in flight.                                                       *)

\* The list entry that mapBlocksInFlight has an iterator to.
Entry(q, b) == CHOOSE i \in DOMAIN q : q[i].hash = b

\* list::erase
Erase(q, i) == [j \in 1..(Len(q) - 1) |-> IF j < i THEN q[j] ELSE q[j + 1]]

\* Every block in flight has a validated header: all calls pass pindex.
MarkBlockAsReceived(d, b) ==
    LET p == d.inFlight[b]
        n == d.node[p]
        i == Entry(n.vBlocksInFlight, b)
    IN  IF p = None THEN d
        ELSE [d EXCEPT
            !.node[p] = [n EXCEPT
                !.nBlocksInFlightValidHeaders = @ - 1,
                !.vBlocksInFlight = Erase(@, i),
                !.nBlocksInFlight = @ - 1,
                !.nStallingSince = "off"],
            !.inFlight[b] = None,
            !.validated = @ - One(n.nBlocksInFlightValidHeaders = 1),
            !.aborted = @ \/ ~Live(n)]

\* MarkBlockAsInFlight of each block of the sequence s in turn.  Every caller
\* has seen that none of them is in flight from another peer.
MarkBlocksAsInFlight(d, p, s, partial) ==
    LET n == d.node[p]
    IN  [d EXCEPT
            !.node[p] = [n EXCEPT
                !.vBlocksInFlight = @ \o [i \in DOMAIN s |-> [hash |-> s[i], partialBlock |-> partial]],
                !.nBlocksInFlight = @ + Len(s),
                !.nBlocksInFlightValidHeaders = @ + Len(s)],
            !.inFlight = [b \in Blocks |-> IF \E i \in DOMAIN s : s[i] = b THEN p ELSE @[b]],
            !.validated = @ + One(n.nBlocksInFlightValidHeaders = 0 /\ s # <<>>),
            !.aborted = @ \/ ~Live(n)]

\* Blocks of one chain from the lowest to the highest.
InOrder(S) ==
    {s \in [1..Cardinality(S) -> S] : \A i, j \in DOMAIN s : i < j => Height[s[i]] < Height[s[j]]}

\* The k lowest of them.
Earliest(S, k) == {b \in S : Cardinality({c \in S : Height[c] < Height[b]}) < k}

-----------------------------------------------------------------------------
(* What a peer is known to have.                                           *)

Better(b, old) == old = None \/ Work[b] >= Work[old]

ProcessBlockAvailability(n, index) ==
    LET b == n.hashLastUnknownBlock
    IN  IF b = None \/ b \notin index THEN n
        ELSE [n EXCEPT !.hashLastUnknownBlock = None,
                       !.pindexBestKnownBlock = IF Better(b, @) THEN b ELSE @]

UpdateBlockAvailability(n, index, b) ==
    LET m == ProcessBlockAvailability(n, index)
    IN  IF b \notin index THEN [m EXCEPT !.hashLastUnknownBlock = b]
        ELSE [m EXCEPT !.pindexBestKnownBlock = IF Better(b, @) THEN b ELSE @]

AncestorAt(b, h) == CHOOSE a \in Ancestors[b] : Height[a] = h

LastCommonAncestor(a, b) ==
    CHOOSE c \in Ancestors[a] \cap Ancestors[b] :
        \A x \in Ancestors[a] \cap Ancestors[b] : Height[x] <= Height[c]

Lower(a, b) == IF a <= b THEN a ELSE b

\* pindexLastCommonBlock before the walk.
LastCommon(n) ==
    LET best == n.pindexBestKnownBlock
        guess == IF n.pindexLastCommonBlock = None
                 THEN AncestorAt(tip, Lower(Height[best], Height[tip]))
                 ELSE n.pindexLastCommonBlock
    IN  LastCommonAncestor(guess, best)

Nothing(n) == [common |-> n.pindexLastCommonBlock, blocks |-> {}, staller |-> None]

\* Slip: blocks in flight from other peers are asked for as well.
WantedAnyway(b, inFlight) == b \notin haveData \cup ActiveChain

\* Neither downloaded nor in flight.
Wanted(b, inFlight) == b \notin haveData \cup ActiveChain /\ inFlight[b] = None

\* The walk from the last common block towards the best block of peer p, with
\* its returns: at an invalid block, at the count-th block to ask for, and at
\* a block that is wanted but outside the window.
FindNextBlocksToDownload(n, p, count, inFlight) ==
    LET best == n.pindexBestKnownBlock
        common == LastCommon(n)
        windowEnd == Height[common] + BLOCK_DOWNLOAD_WINDOW
        onPath == {b \in Ancestors[best] :
                      Height[common] < Height[b] /\ Height[b] <= windowEnd + 1}
        sound == {b \in onPath : Ancestors[b] \cap onPath \cap failed = {}}
        wanted == {b \in sound : Wanted(b, inFlight) /\ Height[b] <= windowEnd}
        taken == Earliest(wanted, count)
        visited == IF Cardinality(wanted) < count THEN sound
                   ELSE {b \in sound : \E t \in taken : b \in Ancestors[t]}
        passed == {b \in visited : b \in haveData \cup ActiveChain /\ Linked(b)}
        waiting == {b \in visited : b \notin haveData \cup ActiveChain /\ inFlight[b] # None}
        waitingfor == inFlight[CHOOSE b \in waiting : \A w \in waiting : Height[b] <= Height[w]]
        atEnd == \E b \in sound : Height[b] = windowEnd + 1 /\ Wanted(b, inFlight)
    IN  IF \/ best = None
           \/ Work[best] < Work[tip] \/ Work[best] < MinimumChainWork
        THEN Nothing(n)
        ELSE [common |-> CHOOSE c \in passed \cup {common} :
                            \A x \in passed \cup {common} : Height[x] <= Height[c],
              blocks |-> taken,
              staller |-> IF atEnd /\ wanted = {} /\ waiting # {} /\ waitingfor # p
                          THEN waitingfor ELSE None]

-----------------------------------------------------------------------------
(* Connections.                                                            *)

InitializeNode(p) ==
    /\ mapNodeState[p].stage = "none"
    /\ Becomes([Now EXCEPT !.node[p].stage = "connected"])
    /\ UNCHANGED <<mapBlockSource, processing, chainVars>>

\* A connected node that is not marked: what ForNode finds in vNodes, and what
\* ProcessMessages and SendMessages go on with.
Found(p) == Live(mapNodeState[p]) /\ p \notin fDisconnect

\* The message handler turns to p.
Turn(p) == processing = Idle /\ Found(p)
Ready(p) == Turn(p) /\ mapNodeState[p].stage = "ready"

UpdatePreferredDownload(d, p) ==
    LET preferred == p \notin Inbound \/ p \in Whitelisted
    IN  [d EXCEPT !.preferred = @ - One(d.node[p].fPreferredDownload) + One(preferred),
                  !.node[p].fPreferredDownload = preferred]

Version(p) ==
    /\ Turn(p) /\ mapNodeState[p].stage = "connected"
    /\ Handled([UpdatePreferredDownload(Now, p) EXCEPT !.node[p].stage = "version"], p)
    /\ UNCHANGED <<mapBlockSource, processing, chainVars>>

Verack(p) ==
    /\ Turn(p) /\ mapNodeState[p].stage = "version"
    /\ Handled([Now EXCEPT !.node[p].stage = "ready"], p)
    /\ UNCHANGED <<mapBlockSource, processing, chainVars>>

\* Slip: a peer that was synchronizing headers is not taken off the count.
FinalizeKeepsSync(d, p) ==
    [d EXCEPT !.node[p] = [NoState EXCEPT !.stage = "gone"],
              !.disconnect = @ \ {p},
              !.inFlight = [b \in Blocks |-> IF @[b] = p THEN None ELSE @[b]],
              !.preferred = @ - One(d.node[p].fPreferredDownload),
              !.validated = @ - One(d.node[p].nBlocksInFlightValidHeaders # 0),
              !.protected = @ - One(d.node[p].m_protect)]

FinalizeNode(d, p) ==
    LET n == d.node[p]
        q == n.vBlocksInFlight
        e == [d EXCEPT
                !.node[p] = [NoState EXCEPT !.stage = "gone"],
                !.disconnect = @ \ {p},
                !.sync = @ - One(n.fSyncStarted),
                !.inFlight = [b \in Blocks |-> IF \E i \in DOMAIN q : q[i].hash = b THEN None ELSE @[b]],
                !.preferred = @ - One(n.fPreferredDownload),
                !.validated = @ - One(n.nBlocksInFlightValidHeaders # 0),
                !.protected = @ - One(n.m_protect)]
    IN  [e EXCEPT !.aborted =
            \/ @ \/ ~Live(n) \/ e.validated < 0 \/ e.protected < 0
            \/ /\ \A r \in Peers : ~Live(e.node[r])
               /\ \/ \E b \in Blocks : e.inFlight[b] # None
                  \/ e.preferred # 0 \/ e.validated # 0 \/ e.protected # 0]

-----------------------------------------------------------------------------
(* Headers.                                                                *)

\* An announcement of a block: INV, or HEADERS that do not connect.
Inv(p, b) ==
    /\ Ready(p)
    /\ Handled([Now EXCEPT !.node[p] = UpdateBlockAvailability(@, mapBlockIndex, b)], p)
    /\ UNCHANGED <<mapBlockSource, processing, chainVars>>

\* The blocks needed to switch to b, unless they are too many.
DirectFetch(n, b, inFlight) ==
    LET walk == Ancestors[b] \ ActiveChain
        vToFetch == {x \in walk : x \notin haveData /\ inFlight[x] = None}
        notLowest == {x \in vToFetch : \E y \in walk : Height[y] < Height[x]}
    IN  IF /\ CanDirectFetch /\ Work[tip] <= Work[b]
           /\ Cardinality(notLowest) <= MAX_BLOCKS_IN_TRANSIT_PER_PEER
        THEN Earliest(vToFetch, MAX_BLOCKS_IN_TRANSIT_PER_PEER - n.nBlocksInFlight)
        ELSE {}

Protect(d, p) ==
    LET n == d.node[p]
    IN  IF /\ p \notin d.disconnect /\ IsOutboundDisconnectionCandidate(p)
           /\ n.pindexBestKnownBlock # None
           /\ d.protected < MAX_PROTECTED
           /\ Work[n.pindexBestKnownBlock] >= Work[tip]
           /\ ~n.m_protect
        THEN [d EXCEPT !.node[p].m_protect = TRUE, !.protected = @ + 1]
        ELSE d

\* ProcessHeadersMessage once the headers up to b are in the index.
HeadersAccepted(p, b, index) ==
    LET d == [Now EXCEPT !.node[p] = UpdateBlockAvailability(@, index, b)]
        best == d.node[p].pindexBestKnownBlock
        tooLittleWork == IsInitialBlockDownload /\ Work[best] < MinimumChainWork
    IN  \E s \in InOrder(DirectFetch(d.node[p], b, d.inFlight)) :
            LET e == MarkBlocksAsInFlight(d, p, s, "none")
            IN  Handled(Protect(IF tooLittleWork /\ IsOutboundDisconnectionCandidate(p)
                                THEN Disconnect(e, p) ELSE e, p), p)

\* ProcessHeadersMessage with the headers from `first` to b, which connect.
\* The headers below the first invalid one are accepted.  Those of an unknown
\* block on a failed one are misbehaviour; a known failed one costs an outbound
\* peer its connection.
Headers(p, first, b) ==
    LET headers == {x \in Ancestors[b] : Height[x] >= Height[first]}
        invalid == {x \in headers : x \in failed \/ Parent[x] \in failed}
        lowest == CHOOSE x \in invalid : \A y \in invalid : Height[x] <= Height[y]
        d == IF lowest \notin mapBlockIndex THEN Misbehaving(Now, p)
             ELSE IF p \notin Inbound \cup Manual THEN Disconnect(Now, p) ELSE Now
    IN  /\ Ready(p)
        /\ first # Genesis /\ first \in Ancestors[b] /\ Parent[first] \in mapBlockIndex
        /\ IF invalid = {}
           THEN /\ mapBlockIndex' = mapBlockIndex \cup headers
                /\ HeadersAccepted(p, b, mapBlockIndex')
           ELSE /\ mapBlockIndex' = mapBlockIndex \cup {x \in headers : Height[x] < Height[lowest]}
                /\ Handled(d, p)
        /\ UNCHANGED <<mapBlockSource, processing, haveData, failed, tip>>

-----------------------------------------------------------------------------
(* Blocks.                                                                 *)

\* mapBlockSource.emplace, which keeps an entry that is there.
Source(b, p, punish) ==
    mapBlockSource' = [mapBlockSource EXCEPT ![b] = IF @ = None THEN [peer |-> p, punish |-> punish] ELSE @]

Busy(p, b, step, forced, intact) ==
    processing' = [peer |-> p, hash |-> b, step |-> step, forced |-> forced, intact |-> intact]

\* The partial block of the list entry.
PartialBlock(p, b) ==
    LET q == mapNodeState[p].vBlocksInFlight IN q[Entry(q, b)].partialBlock

SetPartial(d, p, b, value) ==
    LET i == Entry(d.node[p].vBlocksInFlight, b)
    IN  [d EXCEPT !.node[p].vBlocksInFlight[i].partialBlock = value]

BelowLimit(n) == n.nBlocksInFlight < MAX_BLOCKS_IN_TRANSIT_PER_PEER

\* A compact block whose header is known or connects.  `status` is what the
\* memory pool makes of it: "complete", "missing" transactions, "failed" (short
\* ids collide) or "invalid".
CmpctBlock(p, b, status) ==
    LET n == UpdateBlockAvailability(mapNodeState[p], mapBlockIndex', b)
        d == [Now EXCEPT !.node[p] = n]
        owner == mapBlocksInFlight[b]
        inFlight == owner # None
        near == Height[b] <= Height[tip] + MAX_CMPCT_AHEAD
        mine == (~inFlight /\ BelowLimit(n)) \/ owner = p
        known == owner = p /\ PartialBlock(p, b) # "none"
        marked == IF inFlight THEN SetPartial(d, p, b, "init")
                  ELSE MarkBlocksAsInFlight(d, p, <<b>>, "init")
        useless == \/ b \in haveData \/ Work[b] <= Work[tip]
                   \/ ~inFlight /\ ~CanDirectFetch
                   \/ near /\ mine /\ known
                   \/ near /\ ~mine /\ status # "complete"
                   \/ ~near /\ inFlight
    IN  /\ b # Genesis /\ Parent[b] \in mapBlockIndex /\ b \notin failed
        /\ mapBlockIndex' = IF Parent[b] \in failed THEN mapBlockIndex ELSE mapBlockIndex \cup {b}
        /\ \/ /\ Parent[b] \in failed
              /\ Handled(Misbehaving(Now, p), p)
              /\ UNCHANGED <<mapBlockSource, processing>>
           \/ /\ Parent[b] \notin failed /\ useless
              /\ Handled(d, p)
              /\ UNCHANGED <<mapBlockSource, processing>>
           \/ /\ Parent[b] \notin failed /\ ~useless /\ ~near
              /\ HeadersAccepted(p, b, mapBlockIndex')
              /\ UNCHANGED <<mapBlockSource, processing>>
           \/ /\ Parent[b] \notin failed /\ ~useless /\ near /\ mine
              /\ CASE status = "invalid" ->
                        /\ Handled(Misbehaving(MarkBlockAsReceived(marked, b), p), p)
                        /\ UNCHANGED <<mapBlockSource, processing>>
                   [] status = "complete" ->
                        /\ Becomes(marked) /\ Busy(p, b, "blocktxn", TRUE, TRUE)
                        /\ UNCHANGED mapBlockSource
                   [] OTHER ->
                        /\ Handled(marked, p)
                        /\ UNCHANGED <<mapBlockSource, processing>>
           \/ /\ Parent[b] \notin failed /\ ~useless /\ near /\ ~mine
              /\ Becomes(d) /\ Busy(p, b, "optimistic", TRUE, TRUE)
              /\ Source(b, p, FALSE)
        /\ UNCHANGED <<haveData, failed, tip>>

\* The handler of BLOCKTXN, for a message of the peer or for the empty one that
\* a complete compact block continues with.  An attempt that failed leaves the
\* partial block in place, emptied; at the next one FillBlock's
\* assert(!header.IsNull()) fails.
BlockTxn(p, b, status) ==
    /\ mapBlocksInFlight[b] = p /\ PartialBlock(p, b) # "none"
    /\ IF PartialBlock(p, b) = "filled"
       THEN Busy(p, b, "assert", TRUE, TRUE) /\ UNCHANGED <<nodeStates, mapBlockSource>>
       ELSE CASE status = "invalid" ->
                  /\ Handled(Misbehaving(MarkBlockAsReceived(Now, b), p), p)
                  /\ processing' = Idle /\ UNCHANGED mapBlockSource
             [] status = "failed" ->
                  /\ Handled(SetPartial(Now, p, b, "filled"), p)
                  /\ processing' = Idle /\ UNCHANGED mapBlockSource
             [] OTHER ->
                  /\ Becomes(MarkBlockAsReceived(Now, b))
                  /\ Source(b, p, FALSE) /\ Busy(p, b, "block", TRUE, TRUE)
    /\ UNCHANGED chainVars

\* A block, asked for or not, whose body may not be the one of its header.
Block(p, b, intact) ==
    /\ Ready(p) /\ b # Genesis
    /\ Becomes(MarkBlockAsReceived(Now, b))
    /\ Source(b, p, TRUE) /\ Busy(p, b, "block", mapBlocksInFlight[b] # None, intact)
    /\ UNCHANGED chainVars

\* BlockChecked for an invalid block.
CheckedInvalid(d, b) ==
    LET source == mapBlockSource[b]
    IN  IF source # None /\ source.punish THEN Misbehaving(d, source.peer) ELSE d

\* What AcceptBlock does with a block that was not asked for.
Uninteresting(b) ==
    \/ Work[b] < Work[tip] \/ Height[b] > Height[tip] + MIN_BLOCKS_TO_KEEP
    \/ Work[b] < MinimumChainWork

\* The end of the handler: the reconstructed block is no longer in flight if
\* it was stored, and a ban takes effect.
Processed(d) ==
    LET b == processing.hash
        e == IF processing.step = "optimistic" /\ b \in haveData' \ failed'
             THEN MarkBlockAsReceived(d, b) ELSE d
    IN  Handled(e, processing.peer) /\ processing' = Idle

\* ProcessNewBlock refuses the block (a body that is not its own, or a header
\* that is not accepted).
RejectBlock ==
    LET b == processing.hash
    IN  /\ processing.step \in {"block", "optimistic"}
        /\ \/ ~processing.intact
           \/ b \in failed \/ Parent[b] \notin mapBlockIndex \/ Parent[b] \in failed
        /\ UNCHANGED chainVars
        /\ Processed(IF ~processing.intact \/ Parent[b] \in failed
                     THEN CheckedInvalid(Now, b) ELSE Now)
        /\ mapBlockSource' = [mapBlockSource EXCEPT ![b] = None]

\* ProcessNewBlock stores the block, or fails it, or has no use for it.
ProcessNewBlock ==
    LET b == processing.hash
        fNewBlock == b \notin haveData /\ (processing.forced \/ ~Uninteresting(b))
        sound == {x \in mapBlockIndex' : Ancestors[x] \subseteq haveData' \ failed'}
        most == {x \in sound : Work[x] > Work[tip] /\ \A y \in sound : Work[y] <= Work[x]}
        connected == Ancestors[tip'] \ ActiveChain
    IN  /\ processing.step \in {"block", "optimistic"} /\ processing.intact
        /\ b \notin failed /\ Parent[b] \in mapBlockIndex \ failed
        /\ mapBlockIndex' = mapBlockIndex \cup {b}
        /\ IF fNewBlock /\ b \in BadBlocks
           THEN /\ failed' = failed \cup {x \in mapBlockIndex' : b \in Ancestors[x]}
                /\ UNCHANGED <<haveData, tip>>
                /\ mapBlockSource' = [mapBlockSource EXCEPT ![b] = None]
                /\ Processed(CheckedInvalid(Now, b))
           ELSE /\ haveData' = IF fNewBlock THEN haveData \cup {b} ELSE haveData
                /\ failed' = failed
                /\ tip' \in IF most = {} THEN {tip} ELSE most
                /\ mapBlockSource' = [x \in Blocks |->
                     IF x \in connected \/ (x = b /\ ~fNewBlock) THEN None ELSE mapBlockSource[x]]
                /\ Processed(Now)

-----------------------------------------------------------------------------
(* SendMessages.                                                           *)

StartSync(d, p, fFetch) ==
    IF ~d.node[p].fSyncStarted /\ ((d.sync = 0 /\ fFetch) \/ BestHeaderIsRecent)
    THEN [d EXCEPT !.node[p].fSyncStarted = TRUE, !.node[p].nHeadersSyncTimeout = "running",
                   !.sync = @ + 1]
    ELSE d

\* Slip: the download of a block has no time limit.
StallingOnly(n, late) == n.nStallingSince = "running" /\ "nStallingSince" \in late

\* nDownloadingSince runs while there is a block in flight.
DownloadTimedOut(n, late) ==
    \/ n.nStallingSince = "running" /\ "nStallingSince" \in late
    \/ n.vBlocksInFlight # <<>> /\ "nDownloadingSince" \in late

\* The only peer that sends headers does not, and another could be asked.
HeadersTimedOut(d, p, late) ==
    /\ d.node[p].nHeadersSyncTimeout = "running" /\ "nHeadersSyncTimeout" \in late
    /\ ~BestHeaderIsRecent
    /\ d.sync = 1 /\ d.preferred - One(d.node[p].fPreferredDownload) >= 1

CheckHeadersSync(d, p, late) ==
    IF HeadersTimedOut(d, p, late)
    THEN [d EXCEPT !.node[p].fSyncStarted = FALSE, !.node[p].nHeadersSyncTimeout = "off",
                   !.sync = @ - 1]
    ELSE IF d.node[p].fSyncStarted /\ BestHeaderIsRecent
    THEN [d EXCEPT !.node[p].nHeadersSyncTimeout = "max"]
    ELSE d

Behind(n, work) == n.pindexBestKnownBlock = None \/ Work[n.pindexBestKnownBlock] < work

ConsiderEviction(d, p, late) ==
    LET n == d.node[p]
        set == [n EXCEPT !.m_timeout = "running", !.m_work_header = tip, !.m_sent_getheaders = FALSE]
        clear == [n EXCEPT !.m_timeout = "off", !.m_work_header = None, !.m_sent_getheaders = FALSE]
        caughtUp == n.m_work_header # None /\ ~Behind(n, Work[n.m_work_header])
        asked == [n EXCEPT !.m_timeout = "running", !.m_sent_getheaders = TRUE]
    IN  IF n.m_protect \/ ~IsOutboundDisconnectionCandidate(p) \/ ~n.fSyncStarted THEN d
        ELSE IF ~Behind(n, Work[tip])
        THEN IF n.m_timeout # "off" THEN [d EXCEPT !.node[p] = clear] ELSE d
        ELSE IF n.m_timeout = "off" \/ caughtUp THEN [d EXCEPT !.node[p] = set]
        ELSE IF "m_timeout" \notin late THEN d
        ELSE IF n.m_sent_getheaders THEN Disconnect(d, p)
        ELSE [d EXCEPT !.node[p] = asked, !.aborted = @ \/ n.m_work_header = None]

\* Asks p for blocks; another peer may turn out to hold everything up.
RequestBlocks(d, p) ==
    LET n == d.node[p]
        count == MAX_BLOCKS_IN_TRANSIT_PER_PEER - n.nBlocksInFlight
        found == FindNextBlocksToDownload(n, p, count, d.inFlight)
        staller == found.staller
        e == [d EXCEPT !.node[p].pindexLastCommonBlock = found.common]
    IN  IF n.nBlocksInFlight = 0 /\ staller # None /\ d.node[staller].nStallingSince = "off"
        THEN {[e EXCEPT !.node[staller].nStallingSince = "running"]}
        ELSE {MarkBlocksAsInFlight(e, p, s, "none") : s \in InOrder(found.blocks)}

\* What SendMessages does; `late` are the timers of p that have run out.
Sent(p, late) ==
    LET n == mapNodeState[p]
        fFetch == n.fPreferredDownload \/ nPreferredDownload = 0
        d == StartSync(Now, p, fFetch)
        e == ConsiderEviction(CheckHeadersSync(d, p, late), p, late)
    IN  IF n.fShouldBan THEN {SendRejectsAndCheckIfBanned(Now, p)}
        ELSE IF \/ DownloadTimedOut(d.node[p], late)
                \/ HeadersTimedOut(d, p, late) /\ p \notin Whitelisted
        THEN {Disconnect(d, p)}
        ELSE IF (fFetch \/ ~IsInitialBlockDownload) /\ BelowLimit(e.node[p])
        THEN RequestBlocks([e EXCEPT !.node[p] = ProcessBlockAvailability(@, mapBlockIndex)], p)
        ELSE {e}

SendMessages(p, late) ==
    /\ Ready(p)
    /\ \E d \in Sent(p, late) : Becomes(d)
    /\ UNCHANGED <<mapBlockSource, processing, chainVars>>

-----------------------------------------------------------------------------
(* Everyone else.                                                          *)

\* EvictExtraOutboundPeers, on the scheduler's thread: of the outbound peers
\* the one that announced a block least recently.
EvictExtraOutboundPeers(p) ==
    LET n == mapNodeState[p]
    IN  /\ n.stage = "ready" /\ Found(p)
        /\ IsOutboundDisconnectionCandidate(p) /\ ~n.m_protect
        /\ n.nBlocksInFlight = 0
        /\ Becomes(Disconnect(Now, p))
        /\ UNCHANGED <<mapBlockSource, processing, chainVars>>

Says(p, kind) == kind \in sends[p]

Known(p) ==
    {b \in Blocks : /\ b \in BadBlocks => Says(p, "invalid")
                    /\ (Ancestors[b] \ {b}) \cap BadBlocks # {} => Says(p, "onInvalid")}

Reconstructed(p) ==
    {"complete", "missing", "failed"} \cup IF Says(p, "damaged") THEN {"invalid"} ELSE {}

\* A GETBLOCKTXN has not been answered yet.
Asked(p, b) == PartialBlock(p, b) = "init"

MessageStep(p) ==
    \/ Version(p) \/ Verack(p)
    \/ \E b \in Known(p) :
         \/ Says(p, "inv") /\ Inv(p, b)
         \/ Says(p, "headers") /\ \E first \in Blocks : Headers(p, first, b)
         \/ /\ Says(p, "cmpctblock") /\ Ready(p)
            /\ \E status \in Reconstructed(p) :
                  \/ CmpctBlock(p, b, status)
                  \/ BlockTxn(p, b, status) /\ (Asked(p, b) \/ Says(p, "repeated"))
         \/ /\ mapBlocksInFlight[b] = p \/ Says(p, "unsolicited")
            /\ \/ Says(p, "block") /\ Block(p, b, TRUE)
               \/ Says(p, "damaged") /\ Block(p, b, FALSE)

\* The socket is closed, broken or silent, or disconnectnode or Stop says so.
CloseSocketDisconnect(p) ==
    /\ Found(p) /\ Becomes(Disconnect(Now, p))
    /\ UNCHANGED <<mapBlockSource, processing, chainVars>>

\* Once the message handler has let go of the node.
DeleteNode(p) ==
    /\ Live(mapNodeState[p]) /\ p \in fDisconnect /\ processing.peer # p
    /\ Becomes(FinalizeNode(Now, p))
    /\ UNCHANGED <<mapBlockSource, processing, chainVars>>

\* The rest of a handler.
ProcessBlock ==
    \/ RejectBlock \/ ProcessNewBlock
    \/ /\ processing.step = "blocktxn"
       /\ \E status \in {"complete", "failed"} :
             BlockTxn(processing.peer, processing.hash, status)

\* The timers of p that run.  A peer that is not slow is served before they end.
Running(p) ==
    {f \in TimerFields : IF f = "nDownloadingSince" THEN mapNodeState[p].vBlocksInFlight # <<>>
                         ELSE mapNodeState[p][f] = "running"}

MayBeLate(p) == IF p \in Slow THEN SUBSET Running(p) ELSE {{}}

PeerStep(p) ==
    \/ sends[p] # {} /\ InitializeNode(p)
    \/ CloseSocketDisconnect(p) \/ DeleteNode(p)
    \/ MessageStep(p)
    \/ \E late \in MayBeLate(p) : SendMessages(p, late)
    \/ EvictExtraOutboundPeers(p)

\* Nothing happens any more once an assert of a handler has failed.
Step(A) == processing.step # "assert" /\ A /\ UNCHANGED sends

Next == Step(ProcessBlock \/ \E p \in Peers : PeerStep(p))

Spec == Init /\ [][Next]_vars

\* SF_vars(SendMessages(p, late)), with its ENABLED written out.
Due(p, late) ==
    /\ Ready(p)
    /\ \E d \in Sent(p, late) : d # Now

KeepsSending(p, late) == <>[]~Due(p, late) \/ []<><<Step(SendMessages(p, late))>>_vars

\* A prompt peer answers GETHEADERS with all it has, GETDATA and GETBLOCKTXN.
AnswerGetHeaders(p) ==
    /\ Says(p, "headers") /\ mapNodeState[p].fSyncStarted
    /\ \E first, b \in Known(p) \ {Genesis} :
         /\ Parent[first] \in ActiveChain /\ \A c \in Known(p) : Work[c] <= Work[b]
         /\ Headers(p, first, b)

AnswerGetData(p) ==
    \E b \in Blocks :
        /\ Says(p, "block") /\ Ready(p) /\ mapBlocksInFlight[b] = p
        /\ Block(p, b, TRUE) \/ (Asked(p, b) /\ BlockTxn(p, b, "complete"))

\* ThreadMessageHandler serves every node in turn, for ever; the socket thread
\* deletes what is disconnected; time passes for slow peers, and the others
\* answer.
FairSpec ==
    /\ Spec
    /\ WF_vars(Step(ProcessBlock))
    /\ \A p \in Peers : SF_vars(Step(DeleteNode(p))) /\ KeepsSending(p, {})
    /\ \A p \in Slow : KeepsSending(p, TimerFields)
    /\ \A p \in Peers \ Slow :
          /\ SF_vars(Step(AnswerGetHeaders(p)))
          /\ SF_vars(Step(AnswerGetData(p)))

-----------------------------------------------------------------------------
(* Properties.                                                             *)

InFlightFrom(p) == {mapNodeState[p].vBlocksInFlight[i].hash : i \in DOMAIN mapNodeState[p].vBlocksInFlight}

\* mapBlocksInFlight and the queues of the peers say the same: a block is in
\* flight from one peer, which has it in its queue once, and no other has it.
\* A peer is asked for at most MAX_BLOCKS_IN_TRANSIT_PER_PEER blocks, and a peer
\* held to be stalling has a block to deliver.
DownloadsExact ==
    \A p \in Peers :
        LET n == mapNodeState[p]
        IN  /\ InFlightFrom(p) = {b \in Blocks : mapBlocksInFlight[b] = p}
            /\ \A i, j \in DOMAIN n.vBlocksInFlight :
                  n.vBlocksInFlight[i].hash = n.vBlocksInFlight[j].hash => i = j
            /\ n.nBlocksInFlight = Len(n.vBlocksInFlight)
            /\ n.nBlocksInFlightValidHeaders = n.nBlocksInFlight
            /\ n.nBlocksInFlight <= MAX_BLOCKS_IN_TRANSIT_PER_PEER
            /\ n.nStallingSince # "off" => n.vBlocksInFlight # <<>>

Counted(field) == Cardinality({p \in Peers : mapNodeState[p][field]})

\* The counters over all peers are what they count, whatever the order of
\* messages, timeouts and disconnections, so that none of FinalizeNode's asserts
\* ("Do a consistency check after the last peer is removed.") fails.
CountersExact ==
    /\ nSyncStarted = Counted("fSyncStarted")
    /\ nPreferredDownload = Counted("fPreferredDownload")
    /\ nProtected = Counted("m_protect") /\ nProtected <= MAX_PROTECTED
    /\ nPeersWithValidatedDownloads =
          Cardinality({p \in Peers : mapNodeState[p].vBlocksInFlight # <<>>})
    /\ ~aborted

\* A peer that withholds a block, a block body that is not the right one, or a
\* compact block that cannot be put together delay the download and never end
\* it: as long as one prompt peer stays connected, the best chain is activated.
\* What does end it is a second BLOCKTXN after one that could not be used: the
\* handler takes it and FillBlock's assert stops the node.
ChainCompletes ==
    (\E p \in Peers \ Slow : <>[](mapNodeState[p].stage = "ready" /\ Found(p)))
        => <>(\/ processing.step = "assert"
              \/ \A b \in Blocks : Ancestors[b] \cap BadBlocks = {} => Work[b] <= Work[tip])

=============================================================================
