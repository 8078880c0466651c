----------------------------- MODULE MCEventBus -----------------------------
EXTENDS EventBus, TLC
CONSTANTS c1, e1, e2
MCChannel == {c1}
\* One event, for the run with three processes, or two, all of one channel.
MCOneEvent == {e1}
MCTwoEvents == {e1, e2}
MCchannel == [e \in Event |-> c1]
NodeSymmetry == Permutations(Node)
=============================================================================
