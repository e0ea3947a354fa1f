----------------------------- MODULE MCThreads -----------------------------
(* Instances of Threads for TLC: user threads u1, u2, u3, kernel thread kt. *)
EXTENDS Threads

CONSTANTS u1, u2, u3, kt

\* threadList after booting.  Threads that are not listed can be created.
MCBoot == <<kt, u1>>
MCBootUsers == <<u1, u2>>
MCBootAll == <<kt, u1, u2>>
MCBoot3 == <<u1, u2, u3>>

\* Arguments of ThrSetPriority: below, inside and above the clamp.
MCPriorities == {-1, 1, PRIORITY_TOP + 1}
=============================================================================
