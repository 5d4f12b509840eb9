--------------------------- MODULE MCInitProgram ---------------------------
(***************************************************************************)
(* Pages of eight cells: the image takes five of the first, input_buffer   *)
(* the next two, and the loader's bss region is the second page.           *)
(***************************************************************************)
EXTENDS InitProgram

MCAddress == 1 .. 16
MCPerm == [a \in MCAddress |-> IF a <= 8 THEN "rx" ELSE "rw"]
MCProgram == [a \in MCAddress |-> IF a \in 2 .. 5 THEN "a" ELSE "nul"]

MCprompt == [buf |-> 2, len |-> 3]
MCecho_prefix == [buf |-> 5, len |-> 1]
MCinput_buffer == [buf |-> 6, len |-> 2]
=============================================================================
