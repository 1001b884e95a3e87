--------------------------- MODULE MCFlowControl ---------------------------
EXTENDS FlowControl
=============================================================================
