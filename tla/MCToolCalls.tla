---------------------------- MODULE MCToolCalls ----------------------------
EXTENDS ToolCalls
CONSTANTS r, w, p, e
=============================================================================
