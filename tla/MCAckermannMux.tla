---------------------------- MODULE MCAckermannMux ----------------------------
(***************************************************************************)
(* Values for AckermannMux, after its configuration files: a navigation    *)
(* source below a joystick and a tablet of equal rank, a lock that only    *)
(* holds navigation back and one, with a timeout, that holds back all.     *)
(***************************************************************************)
EXTENDS AckermannMux

Handle(t, p) == [timeout |-> t, priority |-> p]

MCVelocities == <<Handle(2, 10), Handle(1, 100), Handle(2, 100)>>
MCLocks == <<Handle(0, 100), Handle(1, 200)>>

\* The two sources of stack_master's mux.yaml, without locks.
NoLocks == <<>>
StackVelocities == <<Handle(1, 10), Handle(1, 100)>>
=============================================================================
