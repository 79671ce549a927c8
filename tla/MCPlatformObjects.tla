------------------------- MODULE MCPlatformObjects --------------------------
EXTENDS PlatformObjects

MCPriorities == {-1, 1, 9}
=============================================================================
