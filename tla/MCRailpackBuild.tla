--------------------------- MODULE MCRailpackBuild ---------------------------
EXTENDS RailpackBuild, TLC
=============================================================================
