------------------------------- MODULE HostMap -------------------------------
(***************************************************************************)
(* The hosts of HostSkills, drawn: GET /api/hosts/topology beside the      *)
(* requests that change them.  It reads the reports and keeps nothing.     *)
(***************************************************************************)
EXTENDS HostSkills, Topology

\* The map that buildTopology draws of a fleet has each host on the tabs its
\* interfaces belong to, marks the hosts that really share an address, and depends
\* neither on the order of the rows nor on that of Go's map iteration.  The reports
\* are no part of the state: one state is enough to ask.
TopologyIsExact == Init => \A fleet \in Fleets : Exact(fleet)
=============================================================================
