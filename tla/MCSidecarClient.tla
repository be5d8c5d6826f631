---------------------------- MODULE MCSidecarClient ----------------------------
\* The client of the bridge, for TLC.
EXTENDS SidecarClient
=============================================================================
