--------------------------- MODULE FailoverVoting ---------------------------
(***************************************************************************)
(* What the watchdog's failover consensus promises, without failover       *)
(* objects, request counts, forwarding or quorum: while a node leads the   *)
(* cluster, nodes lend their support to failover proposals (a request kind *)
(* on a set of backend nodes); a proposal is carried out on votes only     *)
(* when at least MinSupport distinct nodes support it, and the support that  *)
(* carried it is used up.  Support may be forgotten at any time (expiry)   *)
(* and all of it is dropped when the leader steps down.  A failover that   *)
(* needs no votes (no quorum required, a confirmed request, or consensus   *)
(* not required) may be carried out at any time.                          *)
(*                                                                         *)
(* FailoverConsensus implements this specification; MC_FailoverConsensus  *)
(* checks it under a refinement mapping.                                   *)
(***************************************************************************)
EXTENDS Naturals, FiniteSets

CONSTANTS
    Node,      \* watchdog nodes
    Proposal,  \* the failovers that may be proposed: [kind, nodes] records
    MinSupport,  \* distinct supporters needed to carry out a proposal
    NoNode     \* no leader

ASSUME NoNode \notin Node /\ MinSupport \in Nat \ {0}

VARIABLES
    leader,   \* the coordinator, or NoNode
    support,  \* support[p]: the nodes supporting proposal p under this leader
    done      \* the failovers carried out, with the nodes that carried them

vars == <<leader, support, done>>

NoSupport == [p \in Proposal |-> {}]

Init ==
    /\ leader = NoNode
    /\ support = NoSupport
    /\ done = {}

\* Node n supports p, short of the votes needed.
Support(n, p) ==
    /\ leader # NoNode
    /\ Cardinality(support[p] \cup {n}) < MinSupport
    /\ support' = [support EXCEPT ![p] = @ \cup {n}]
    /\ UNCHANGED <<leader, done>>

\* n's support carries p: it is carried out and its support is used up.
Decide(n, p) ==
    /\ leader # NoNode
    /\ Cardinality(support[p] \cup {n}) >= MinSupport
    /\ done' = done \cup {[kind |-> p.kind, nodes |-> p.nodes, voters |-> support[p] \cup {n}]}
    /\ support' = [support EXCEPT ![p] = {}]
    /\ UNCHANGED leader

\* A failover that needs no votes.
Bypass(p) ==
    /\ done' = done \cup {[kind |-> p.kind, nodes |-> p.nodes, voters |-> {}]}
    /\ UNCHANGED <<leader, support>>

\* The support for p expires.
Forget(p) ==
    /\ support' = [support EXCEPT ![p] = {}]
    /\ UNCHANGED <<leader, done>>

Lead(n) ==
    /\ leader = NoNode
    /\ leader' = n
    /\ UNCHANGED <<support, done>>

StepDown ==
    /\ leader # NoNode
    /\ leader' = NoNode
    /\ support' = NoSupport
    /\ UNCHANGED done

Next ==
    \/ \E n \in Node, p \in Proposal : Support(n, p) \/ Decide(n, p)
    \/ \E p \in Proposal : Bypass(p) \/ Forget(p)
    \/ \E n \in Node : Lead(n)
    \/ StepDown

Spec == Init /\ [][Next]_vars

\* Every failover carried out on votes had MinSupport distinct supporters.
VotedEnough == \A d \in done : d.voters # {} => Cardinality(d.voters) >= MinSupport

=============================================================================
