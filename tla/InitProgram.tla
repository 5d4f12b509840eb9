---------------------------- MODULE InitProgram ----------------------------
(***************************************************************************)
(* The initial user program, init.S, on the system calls of the kernel:    *)
(* prompt, read a line, echo it, exit.                                     *)
(*                                                                         *)
(* user.ld places .bss right after .rodata, and objcopy leaves it out of   *)
(* the image; the loader maps the pages of the image readable and          *)
(* executable, and its own writable bss region on the page after them.     *)
(***************************************************************************)
EXTENDS Syscall

CONSTANTS prompt,        (* [buf, len] of the label                        *)
          echo_prefix,   (* [buf, len] of the label                        *)
          input_buffer   (* [buf, len] of the label                        *)

VARIABLES step,   (* which ecall comes next                                *)
          s0      (* bytes_read                                            *)

init_vars == <<vars, step, s0>>

Syscall_call(nr, fd, label, len) ==
  [nr |-> nr, fd |-> fd, buf |-> label.buf, len |-> len]

init_call ==
  << Syscall_call("write", 1, prompt, prompt.len),
     Syscall_call("read", 0, input_buffer, input_buffer.len),
     Syscall_call("write", 1, echo_prefix, echo_prefix.len),
     Syscall_call("write", 1, input_buffer, s0),
     [NoCall EXCEPT !.nr = "exit_group"] >>

InitProgram_Init == Init /\ step = 1 /\ s0 = 0

(* The instructions up to the next ecall, and the ecall.                   *)
Run ==
  /\ step <= Len(init_call)
  /\ s0' = IF step = 3 THEN a0 ELSE s0
  /\ Ecall(init_call[step])
  /\ step' = step + 1

System == (Kernel \/ \E key \in Keys : Type(key)) /\ UNCHANGED <<step, s0>>

InitProgram_Spec ==
  /\ InitProgram_Init
  /\ [][Run \/ System]_init_vars
  /\ Fairness /\ WF_init_vars(Run)

(* init.S: the program reads a line into input_buffer, writes it back and  *)
(* ends with exit_group(0), as the comment above each ecall says.          *)
EndsWithExitGroup == <>(phase = "idle")
=============================================================================
