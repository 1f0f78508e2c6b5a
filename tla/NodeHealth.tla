----------------------------- MODULE NodeHealth -----------------------------
(***************************************************************************)
(* The node health monitor: every minute one goroutine lists the VLESS     *)
(* nodes, dials each of them in a goroutine of its own, at most Parallel   *)
(* at a time, caches the answers and then forgets the nodes that were not  *)
(* listed.  Nodes come and go meanwhile.                                   *)
(***************************************************************************)
EXTENDS Naturals, FiniteSets

CONSTANTS
    HealthNodes,   \* ids of nodes
    Undialable,    \* those with an empty address or no port
    Parallel       \* probes at a time (10)

ASSUME HealthAssumption == Undialable \subseteq HealthNodes /\ Parallel \in Nat \ {0}

VARIABLES
    table,      \* the nodes in the database
    monitor,    \* "wait", or "cycle": in probeAll
    listed,     \* the nodes the last cycle that found any has listed
    todo,       \* of these, not looked at yet
    flying,     \* being dialled
    sem,        \* occupied places of the semaphore
    cache       \* the health of a node: "none", "alive" or "dead"

healthVars == <<table, monitor, listed, todo, flying, sem, cache>>

Cached == {n \in HealthNodes : cache[n] # "none"}

HealthTypeOK ==
    /\ table \subseteq HealthNodes
    /\ monitor \in {"wait", "cycle"}
    /\ listed \subseteq HealthNodes /\ todo \subseteq listed
    /\ flying \subseteq listed
    /\ sem \in 0 .. Parallel
    /\ cache \in [HealthNodes -> {"none", "alive", "dead"}]

HealthInit ==
    /\ table \in SUBSET HealthNodes
    /\ monitor = "wait"
    /\ listed = {} /\ todo = {} /\ flying = {}
    /\ sem = 0
    /\ cache = [n \in HealthNodes |-> "none"]

\* Refreshes, imports and manual edits, seen from here.
NodeAppears(n) ==
    /\ n \notin table
    /\ table' = table \cup {n}
    /\ UNCHANGED <<monitor, listed, todo, flying, sem, cache>>

NodeVanishes(n) ==
    /\ n \in table
    /\ table' = table \ {n}
    /\ UNCHANGED <<monitor, listed, todo, flying, sem, cache>>

\* probeAll starts.  An error or an empty list ends it at once: the cache stays
\* as it is, entries of deleted nodes included.
StartCycle ==
    /\ monitor = "wait"
    /\ table # {}
    /\ monitor' = "cycle"
    /\ listed' = table /\ todo' = table
    /\ UNCHANGED <<table, flying, sem, cache>>

SkipCycle == monitor = "wait" /\ UNCHANGED healthVars

\* The loop over the list: a place of the semaphore, then a goroutine.
Launch(n) ==
    /\ monitor = "cycle" /\ n \in todo
    /\ todo' = todo \ {n}
    /\ \/ n \in Undialable /\ UNCHANGED <<flying, sem>>
       \/ n \notin Undialable /\ sem < Parallel
          /\ flying' = flying \cup {n} /\ sem' = sem + 1
    /\ UNCHANGED <<table, monitor, listed, cache>>

\* Mutation of Probed: a failed dial returns without giving its place back.
ProbedLeaks(n, answer) ==
    /\ n \in flying
    /\ cache' = [cache EXCEPT ![n] = answer]
    /\ flying' = flying \ {n}
    /\ sem' = IF answer = "dead" THEN sem ELSE sem - 1
    /\ UNCHANGED <<table, monitor, listed, todo>>

\* A probe has its answer; the dial's timeout sees to it that there is one.
Probed(n, answer) ==
    /\ n \in flying
    /\ cache' = [cache EXCEPT ![n] = answer]
    /\ flying' = flying \ {n} /\ sem' = sem - 1
    /\ UNCHANGED <<table, monitor, listed, todo>>

\* wg.Wait returns and the entries of nodes not listed are dropped.
EndCycle ==
    /\ monitor = "cycle" /\ todo = {} /\ flying = {}
    /\ cache' = [n \in HealthNodes |-> IF n \in listed THEN cache[n] ELSE "none"]
    /\ monitor' = "wait"
    /\ UNCHANGED <<table, listed, todo, flying, sem>>

ProbeAnswers(n) == \E answer \in {"alive", "dead"} : Probed(n, answer)

HealthNext ==
    \/ \E n \in HealthNodes :
        NodeAppears(n) \/ NodeVanishes(n) \/ Launch(n) \/ ProbeAnswers(n)
    \/ StartCycle \/ SkipCycle \/ EndCycle

HealthSpec == HealthInit /\ [][HealthNext]_healthVars

-----------------------------------------------------------------------------
(* Properties *)

\* Probes finish in any order and nodes vanish under them, but every node that
\* stays is probed a first time: no cycle blocks for want of a place in the
\* semaphore.
StayingNodesProbed ==
    \A n \in HealthNodes \ Undialable :
        (n \in table) ~> (n \notin table \/ n \in Cached)
=============================================================================
