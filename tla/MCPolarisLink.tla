--------------------------- MODULE MCPolarisLink ---------------------------
EXTENDS PolarisLink
=============================================================================
