---------------------------- MODULE MCNrmWindows ----------------------------
(* The control windows for TLC: one connection sends for the control input *)
(* only, the other for the input and for another scope.                    *)
EXTENDS NrmWindows

CONSTANTS node, core

MCStreams(s) == {InSensor} \X (IF s = CHOOSE x \in Senders : TRUE
                               THEN {node} ELSE {node, core})
=============================================================================
