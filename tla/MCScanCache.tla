---------------------------- MODULE MCScanCache ----------------------------
\* Two access points share one name, a third has a name of its own.
EXTENDS ScanCache

CONSTANTS x, y, z, a, b

MCNetworks == {x, y, z}
MCSsids == {a, b}
MCSsidOf == [n \in MCNetworks |-> IF n = z THEN b ELSE a]
=============================================================================
