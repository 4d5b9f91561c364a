------------------------------ MODULE CommandLimit ------------------------------
(* ipc/command.hpp: the limit that the server's buffer and the parser share.       *)
EXTENDS Naturals

CONSTANT kMaximumCommandLength   \* 256 in the code

ASSUME LengthAssumption == kMaximumCommandLength \in Nat \ {0}
=================================================================================
