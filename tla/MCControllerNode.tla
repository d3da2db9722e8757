--------------------------- MODULE MCControllerNode ---------------------------
EXTENDS ControllerNode
=============================================================================
