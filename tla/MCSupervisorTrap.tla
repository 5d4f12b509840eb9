------------------------- MODULE MCSupervisorTrap -------------------------
(***************************************************************************)
(* One register of each kind (a0 and t3, saved and restored; s0, preserved *)
(* by C code too), two register files with a different value in every      *)
(* register, even and odd ones changing places (the assembly tests a bit   *)
(* of t0), and a stack for three nested traps.  The two delegations are    *)
(* those of machine_main and of a firmware that delegates everything.      *)
(***************************************************************************)
EXTENDS SupervisorTrap

MCOthers == {"a0", "t3", "s0"}

MCUserRegs ==
  LET file(n) == [r \in Regs |->
                    CASE r = "sp" -> n + 1 [] r = "t0" -> n + 2 [] r = "t1" -> n + 3
                      [] r = "t2" -> n + 4 [] r = "t3" -> n + 5 [] r = "a0" -> n + 6
                      [] r = "s0" -> n + 7]
  IN  {file(20), file(31)}

MCDelegations == { {1, 3, 8, 9, 12, 13, 15}, 0 .. 15 }
=============================================================================
