---------------------------- MODULE MCInterrupts ----------------------------
(* The three tasks that take device interrupts, the system task and two    *)
(* user processes.                                                         *)
EXTENDS Interrupts

CONSTANTS WINCHESTER, u1, u2

MCDevice == {CLOCK, TTY, WINCHESTER}
MCUser == {u1, u2}
=============================================================================
