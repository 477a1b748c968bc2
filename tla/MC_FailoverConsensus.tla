------------------------ MODULE MC_FailoverConsensus ------------------------
(***************************************************************************)
(* Instantiates FailoverConsensus for three watchdog nodes (two remote    *)
(* nodes each, so two votes are needed) and two backends.  The node lists *)
(* are those degenerate_backend_set and its callers send: one node, or    *)
(* both nodes in either order, which get_failover_object must see as the  *)
(* same failover.                                                          *)
(***************************************************************************)
EXTENDS FailoverConsensus, TLC

MCNodeLists == {<<0>>, <<1>>, <<0, 1>>, <<1, 0>>}

\* the nodes play interchangeable roles: no rule of the consensus looks at
\* a node's id or wd_priority
NodeSymmetry == Permutations(Node)

\* a bound on the forwarded requests in flight at once
MsgBound == BagCardinality(msgs) <= 2

\* Refinement mapping onto FailoverVoting: a proposal is a request kind on
\* a set of backend nodes; its support is the requestingNodes of the
\* coordinator's failover object that get_failover_object would find for
\* it; a decision forgets the requesting node, the flags and the term.
Proposals == [kind : Kinds, nodes : {Range(l) : l \in NodeLists}]

SupportOf(p) ==
    IF coord = NoNode THEN {}
    ELSE UNION {f.reqs : f \in {g \in failovers[coord] :
                                  g.kind = p.kind /\ Range(g.list) = p.nodes}}

Voting == INSTANCE FailoverVoting
            WITH leader <- coord,
                 support <- [p \in Proposals |-> SupportOf(p)],
                 done <- {[kind |-> d.kind, nodes |-> d.nodes, voters |-> d.voters] :
                            d \in decided},
                 Proposal <- Proposals,
                 MinSupport <- MinimumVotes

\* The failover consensus implements FailoverVoting: every step of the
\* coordinator's vote counting, expiry and stepping down is a step of the
\* abstract specification, so no vote is counted toward two failovers, and
\* none survives a change of coordinator.
VotingSpec == Voting!Spec

=============================================================================
