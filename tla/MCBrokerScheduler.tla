------------------------- MODULE MCBrokerScheduler -------------------------
(* Instances of BrokerScheduler for TLC.                                   *)
EXTENDS BrokerScheduler, TLC

CONSTANTS g1, g2, g3, a1, a2, a3, j1, j2, j3, h1

\* Three jobs of agents, which together fill what the agents may queue.  Two of
\* them fit in one lane, so that a lane may have more work after its turn; the
\* third fills a lane alone.  And one job of the host.
ThreeAgentJobs == {j1, j2, j3, h1}
OneHostJob == {h1}
UnequalSizes == (j1 :> 1) @@ (j2 :> 1) @@ (j3 :> 2) @@ (h1 :> 1)

\* Credentials are interchangeable, and so are agents and the jobs of one size.
Interchangeable ==
    {p @@ q @@ r : p \in Permutations({g1, g2, g3}), q \in Permutations({a1, a2, a3}),
                   r \in Permutations({j1, j2})}

=============================================================================
