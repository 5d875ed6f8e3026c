----------------------------- MODULE MCBerthView -----------------------------
\* One cabinet with a berth, and a berth no cabinet serves yet.
EXTENDS BerthView
CONSTANTS c1, b1, b2
MCServedBy == [b \in {b1, b2} |-> IF b = b1 THEN c1 ELSE Absent]
MCUnanswered == {{}, {Server("berths")}, Reads}
=============================================================================
