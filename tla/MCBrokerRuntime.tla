-------------------------- MODULE MCBrokerRuntime --------------------------
(* Instances of BrokerRuntime for TLC.                                     *)
EXTENDS BrokerRuntime, TLC

CONSTANTS g1, g2, a1, a2, j1, j2, h1

TwoConnections == {j1, j2, h1}
OneConnection == {j1, h1}
OneHostJob == {h1}
UnitSizes == [j \in TwoConnections |-> 1]
UnitSizesOfOne == [j \in OneConnection |-> 1]

\* Grants that compete for one lane, until the host closes.
GrantCommands == [op : {"Grant"}, agent : Agents] \cup [op : {"Close"}]

\* A command of every kind.
AllCommands == [op : {"Grant", "Revoke"}, agent : {a1}] \cup [op : {"Mutate", "Read", "Close"}]

\* Credentials are interchangeable, and so are agents and connections.
Interchangeable ==
    {p @@ q @@ r : p \in Permutations({g1, g2}), q \in Permutations({j1, j2}),
                   r \in Permutations({a1, a2})}

=============================================================================
