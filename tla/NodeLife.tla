------------------------------- MODULE NodeLife -------------------------------
(***************************************************************************)
(* What net_processing relies on CConnman for (NetEventsInterface in       *)
(* net.h): the state of a node is set up once and torn down once, and the  *)
(* one thread that processes messages never works on a node that is being  *)
(* torn down, nor turns to one that is marked for disconnection.           *)
(***************************************************************************)
CONSTANTS Peers,        \* NodeIds, which are never used again
          None

VARIABLES
    alive,      \* nodes between InitializeNode and FinalizeNode
    finished,   \* nodes that FinalizeNode was called for
    marked,     \* those of alive with fDisconnect
    serving     \* the node ProcessMessages or SendMessages is called with, or None

lifeVars == <<alive, finished, marked, serving>>

LifeInit == alive = {} /\ finished = {} /\ marked = {} /\ serving = None

InitializeNode(p) ==
    /\ p \notin alive \cup finished
    /\ alive' = alive \cup {p}
    /\ UNCHANGED <<finished, marked, serving>>

\* Anyone may mark nodes, at any time.
Mark(S) ==
    /\ S \subseteq alive
    /\ marked' = marked \cup S
    /\ UNCHANGED <<alive, finished, serving>>

Serve(p) ==
    /\ serving = None /\ p \in alive \ marked
    /\ serving' = p
    /\ UNCHANGED <<alive, finished, marked>>

Return ==
    /\ serving' = None
    /\ UNCHANGED <<alive, finished, marked>>

FinalizeNode(p) ==
    /\ p \in marked /\ serving # p
    /\ alive' = alive \ {p} /\ marked' = marked \ {p} /\ finished' = finished \cup {p}
    /\ UNCHANGED serving

LifeNext ==
    \/ \E p \in Peers : InitializeNode(p) \/ Serve(p) \/ FinalizeNode(p)
    \/ \E S \in SUBSET Peers : Mark(S)
    \/ Return

LifeSpec == LifeInit /\ [][LifeNext]_lifeVars

=============================================================================
