----------------------------- MODULE MCSyscall -----------------------------
(***************************************************************************)
(* Six cells: two of text (one of them NUL), three of data, one unmapped.  *)
(* A two-byte temp, so that a write takes up to three chunks, and calls    *)
(* with every kind of descriptor, pointer and length.                      *)
(***************************************************************************)
EXTENDS Syscall

MCPerm == <<"rx", "rx", "rw", "rw", "rw", "none">>
MCProgram == <<"a", "nul", "b", "a", "b", "b">>

MCCalls ==
  [nr : {"write"}, fd : {0, 1, 2}, buf : {0, 1, 3, 5}, len : {0, 1, 3, 5}]
    \cup [nr : {"read"}, fd : {0, 1}, buf : {0, 2, 3, 4, 5}, len : {0, 1, 3}]
    \cup [nr : {"exit", "exit_group", "other"}, fd : {0}, buf : {0}, len : {0}]
=============================================================================
