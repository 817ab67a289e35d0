--------------------------- MODULE MCDecisionChain ---------------------------
EXTENDS DecisionChain

\* A deployment without a key, with its first key, and after a rotation that retained it.
MCConfigs == {
    [key |-> "none", id |-> "none", retained |-> {}],
    [key |-> "k1", id |-> "k1", retained |-> {}],
    [key |-> "k2", id |-> "k2", retained |-> {"k1"}]}
=============================================================================
