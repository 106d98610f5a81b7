-------------------------- MODULE MCPolarisProgram --------------------------
\* Small instances of PolarisProgram for TLC.
EXTENDS PolarisProgram
=============================================================================
