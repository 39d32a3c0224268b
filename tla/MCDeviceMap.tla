---------------------------- MODULE MCDeviceMap -----------------------------
(***************************************************************************)
(* DeviceMap at page granularity.  The probes are the corners of both      *)
(* tables: the ends of the segments and of one block of every size, the    *)
(* pages next to them, the segments' sizes, and the ends of the address    *)
(* space, each used both as a start and as a length.                       *)
(***************************************************************************)
EXTENDS DeviceMap

Corners == UNION {{g.base, g.size, g.base + g.size} : g \in DeviceSegments}
             \cup {1024, 1032, 1568, 3968, 4016, 4096, 4160, 5440}

MCProbes == {0, 1, 2, PageCount - 2, PageCount - 1}
              \cup UNION {{e - 1, e, e + 1} : e \in Corners}
=============================================================================
