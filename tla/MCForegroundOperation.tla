----------------------- MODULE MCForegroundOperation ------------------------
(* Two operations, the cleanup of one of which waits for the other, and two*)
(* calls of the handler.                                                   *)
EXTENDS ForegroundOperation
CONSTANTS o1, o2

MCOps == {o1, o2}
MCDependsOn == [o \in MCOps |-> IF o = o1 THEN {o2} ELSE {}]

=============================================================================
