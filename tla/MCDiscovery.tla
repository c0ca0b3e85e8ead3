---- MODULE MCDiscovery ----
EXTENDS Discovery
CONSTANTS east, west, far
\* The hard place for a resource: the region that is listed last, and not the adapter's own.
MCHome == [n \in Resources |-> west]
====
