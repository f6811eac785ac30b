-------------------------- MODULE MCToolContainers ---------------------------
EXTENDS ToolContainers
CONSTANTS t1, t2
=============================================================================
