---------------------------- MODULE MCSwFwSync ----------------------------
EXTENDS SwFwSync

\* the masks of e1000_acquire_phy_80003es2lan and e1000_acquire_nvm_80003es2lan
MCMasks ==
    [p \in Ports |-> {{"EEP"}, IF p = 0 THEN {"PHY0", "CSR"} ELSE {"PHY1", "CSR"}}]
=============================================================================
