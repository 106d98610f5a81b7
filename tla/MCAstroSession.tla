--------------------------- MODULE MCAstroSession ---------------------------
EXTENDS AstroSession
=============================================================================
