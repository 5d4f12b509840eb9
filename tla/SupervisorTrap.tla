-------------------------- MODULE SupervisorTrap --------------------------
(***************************************************************************)
(* The path of a trap: user.S enters the user program, the hart traps,     *)
(* s_trap.S builds a frame on the trap stack, trap_handler decides, s_trap.S *)
(* restores what it saved and returns.  Traps nest: the handler may fault  *)
(* or meet a breakpoint, and then builds a second frame below the first.   *)
(*                                                                         *)
(* Registers hold integers.  A stack slot holds one activation record: a   *)
(* TrapFrame (288 bytes in the kernel) or the locals of the C handler      *)
(* running above it; addresses count slots, StackTop being the address     *)
(* past the last.  The kernel leaves sstatus.SIE clear and never writes    *)
(* sie, so an interrupt cannot come between two steps.                     *)
(***************************************************************************)
EXTENDS Integers, Sequences

CONSTANTS Others,       (* the registers besides sp, t0, t1 and t2         *)
          CalleeSaved,  (* those of them C code preserves                  *)
          UserRegs,     (* register files the user program may have        *)
          UserStackTop, (* the sp it starts with                           *)
          UserPcs,      (* addresses of user instructions                  *)
          Results,      (* what syscalls return                            *)
          StackTop,     (* _supervisor_trap_stack_top                      *)
          Delegations,  (* medeleg: what machine_main or OpenSBI delegates *)
          Causes        (* exception codes the user program can raise      *)

Regs == Others \cup {"sp", "t0", "t1", "t2"}

ASSUME TrapAssumption ==
  /\ {"a0", "t3"} \subseteq Others \ CalleeSaved /\ CalleeSaved \subseteq Others
  /\ {"sp", "t0", "t1", "t2"} \cap Others = {}
  /\ UserRegs \subseteq [Regs -> Nat] /\ UserPcs \subseteq Nat /\ Results \subseteq Nat
  /\ UserStackTop \in Nat /\ Causes \subseteq Nat
  /\ StackTop \in Nat /\ StackTop >= 2       (* room for one trap *)

VARIABLES at,        (* where the hart is executing                        *)
          mode,      (* "U" or "S"                                         *)
          pc,        (* address of the instruction that runs or trapped    *)
          regs,      (* the integer registers                              *)
          sstatus,   (* SPP and SUM                                        *)
          sepc, scause, sscratch,
          medeleg,   (* exceptions that reach supervisor_trap_entry        *)
          stack,     (* the trap stack                                     *)
          pending    (* history: what each unfinished trap interrupted     *)

vars == <<at, mode, pc, regs, sstatus, sepc, scause, sscratch, medeleg, stack, pending>>

Breakpoint == 3
UserEcall == 8
LoadPageFault == 13
StorePageFault == 15

KernelPc == 100    (* some instruction of the C handler                    *)
Junk == 77         (* what C code leaves in a register it may clobber      *)

-----------------------------------------------------------------------------
(* sstatus: bit 0 stands for SPP (0x100), bit 1 for SUM.                   *)

Status(spp, sum) == (IF spp = "S" THEN 1 ELSE 0) + 2 * sum
SPP(value) == value % 2
SUM(status) == (status \div 2) % 2

Slot == 0 .. StackTop - 1

NoRegs == [r \in Regs |-> 0]
Free == [regs |-> NoRegs, epc |-> 0, status |-> 0, cause |-> 0]

Locals(r) == [Free EXCEPT !.regs = r]

-----------------------------------------------------------------------------
(* enter_user_mode, after supervisor_traps_init has set sscratch.          *)
Init ==
  /\ at = "user_enter"
  /\ mode = "S"
  /\ pc = KernelPc
  /\ regs = [r \in Regs |-> Junk]
  /\ sstatus = Status("U", 0)
  /\ sepc = 0 /\ scause = 0
  /\ sscratch = StackTop
  /\ medeleg \in Delegations
  /\ stack = [s \in Slot |-> Free]
  /\ pending = << >>

(* user_enter: the context user_context_init has built.                    *)
UserEnter ==
  /\ at = "user_enter"
  /\ at' = "user" /\ mode' = "U"
  /\ \E entry \in UserPcs : pc' = entry /\ sepc' = entry
  /\ regs' = [NoRegs EXCEPT !["sp"] = UserStackTop]
  /\ sstatus' = Status("U", 0)
  /\ UNCHANGED <<scause, sscratch, medeleg, stack, pending>>

(* The user program does as it likes.                                      *)
UserStep ==
  /\ at = "user"
  /\ regs' \in UserRegs
  /\ pc' \in UserPcs
  /\ UNCHANGED <<at, mode, sstatus, sepc, scause, sscratch, medeleg, stack, pending>>

(* The hart takes an exception (external): to supervisor_trap_entry when   *)
(* delegated, else to machine_trap_entry, whose handler panics after it    *)
(* has built a frame on the machine trap stack.  The linker scripts give   *)
(* both trap stacks, and the boot stack, the same top.                     *)
Interrupted(at_pc, registers, sum, cause) ==
  [mode |-> mode, pc |-> at_pc, regs |-> registers, sum |-> sum, cause |-> cause]

DelegatedTrap(cause) ==
  /\ at' = "entry" /\ mode' = "S"
  /\ sepc' = pc /\ scause' = cause
  /\ sstatus' = Status("U", SUM(sstatus))
  /\ UNCHANGED stack

MachineTrap(cause) ==
  /\ at' = "panic" /\ mode' = "M"
  /\ stack' = [stack EXCEPT ![StackTop - 1] =
                 [regs |-> regs, epc |-> pc, status |-> sstatus, cause |-> cause]]
  /\ UNCHANGED <<sepc, scause, sstatus>>

(* UserPcs bounds the program: past its end only UserStep moves pc.        *)
UserTrap ==
  /\ at = "user" /\ pc \in UserPcs
  /\ \E cause \in Causes :
       /\ IF cause \in medeleg THEN DelegatedTrap(cause) ELSE MachineTrap(cause)
       /\ pending' = Append(pending, Interrupted(pc, regs, SUM(sstatus), cause))
  /\ UNCHANGED <<pc, regs, sscratch, medeleg>>

(* csrrw sp, sscratch, sp on a trap from the user program.                 *)
trap_stack(from_user) == IF from_user THEN sscratch ELSE regs["sp"]

(* Mutant: no room is made for the frame.                                  *)
frame_base_none(top) == top
frame_base(top) == top - 1

(* supervisor_trap_entry up to the call, and the prologue of the handler,  *)
(* which saves the registers C code must preserve below the frame.         *)
Entry ==
  /\ at = "entry"
  /\ LET user == SPP(sstatus) = 0
         base == frame_base(trap_stack(user))
         saved == [regs EXCEPT !["t0"] = sstatus, !["t1"] = SPP(sstatus),
                               !["t2"] = regs["sp"]]
     IN  /\ stack' = [stack EXCEPT
              ![base] = [regs |-> saved, epc |-> sepc, status |-> sstatus, cause |-> scause],
              ![base - 1] = Locals(saved)]
         /\ regs' = [saved EXCEPT !["sp"] = base - 1, !["a0"] = base]
         /\ sscratch' = IF user THEN regs["sp"] ELSE sscratch
  /\ pc' = KernelPc
  /\ at' = "handler"
  /\ UNCHANGED <<mode, sstatus, sepc, scause, medeleg, pending>>

-----------------------------------------------------------------------------
(* supervisor_trap_handler and trap_handler, on the frame above its locals.*)

frame_at == regs["sp"] + 1
frame == stack[frame_at]
trap_from_user == SPP(frame.status) = 0

(* The C code returns: the registers it preserves come back from its       *)
(* locals, the others hold anything.                                       *)
Return(new_frame) ==
  /\ stack' = [stack EXCEPT ![frame_at] = new_frame]
  /\ regs' = [r \in Regs |-> CASE r = "sp" -> frame_at
                               [] r \in CalleeSaved -> stack[regs["sp"]].regs[r]
                               [] OTHER -> Junk]
  /\ at' = "exit"
  /\ UNCHANGED <<mode, pc, sepc, scause, sscratch, medeleg, pending>>

(* Mutant: the ecall is executed again.                                    *)
past_ecall_same(epc) == epc
past_ecall(epc) == epc + 4

(* syscall_handle for every number but exit's; a copy that was under way   *)
(* has put sstatus back.                                                   *)
HandleSyscall ==
  /\ at = "handler"
  /\ trap_from_user /\ frame.cause = UserEcall
  /\ \E result \in Results :
       Return([frame EXCEPT !.regs["a0"] = result, !.epc = past_ecall(@)])
  /\ sstatus' = SPP(sstatus)

Stop(where) ==
  /\ at' = where
  /\ UNCHANGED <<mode, pc, regs, sstatus, sepc, scause, sscratch, medeleg, stack, pending>>

(* syscall_exit: never returns.                                            *)
HandleExit ==
  /\ at = "handler"
  /\ trap_from_user /\ frame.cause = UserEcall
  /\ Stop("idle")

(* advance_trap on a breakpoint in kernel text: past an instruction of two *)
(* bytes or of four.                                                       *)
HandleBreakpoint ==
  /\ at = "handler"
  /\ ~trap_from_user /\ frame.cause = Breakpoint
  /\ \E length \in {2, 4} : Return([frame EXCEPT !.epc = @ + length])
  /\ UNCHANGED sstatus

(* panic_trap: every other cause.                                          *)
HandlePanic ==
  /\ at = "handler"
  /\ frame.cause # Breakpoint
  /\ ~(trap_from_user /\ frame.cause = UserEcall)
  /\ Stop("panic")

(* The handler traps in its turn, with its own values in the registers.    *)
(* The causes it can meet are delegated in every build.  StackTop bounds   *)
(* the nesting: a trap needs room for a frame and for locals.              *)
KernelTrap(cause, sum) ==
  LET running == [r \in Regs |-> IF r = "sp" THEN regs["sp"] ELSE Junk]
  IN  /\ at = "handler"
      /\ frame_at >= 3
      /\ at' = "entry"
      /\ regs' = running
      /\ pc' = KernelPc /\ sepc' = KernelPc /\ scause' = cause
      /\ sstatus' = Status("S", sum)
      /\ pending' = Append(pending, Interrupted(KernelPc, running, sum, cause))
      /\ UNCHANGED <<mode, sscratch, medeleg, stack>>

(* copy_from_user or copy_to_user meets a page it may not access.          *)
CopyFaults ==
  /\ at = "handler"
  /\ trap_from_user /\ frame.cause = UserEcall
  /\ \E cause \in {LoadPageFault, StorePageFault} : KernelTrap(cause, 1)

(* advance_trap reads the instruction of a user breakpoint without SUM.    *)
AdvanceTrapFaults ==
  /\ at = "handler"
  /\ trap_from_user /\ frame.cause = Breakpoint
  /\ KernelTrap(LoadPageFault, 0)

(* A breakpoint in kernel code, also in the middle of a copy.              *)
KernelBreakpoint ==
  /\ at = "handler"
  /\ \E sum \in IF trap_from_user /\ frame.cause = UserEcall THEN {0, 1}
                 ELSE {SUM(sstatus)} : KernelTrap(Breakpoint, sum)

-----------------------------------------------------------------------------
(* Mutant: the trap stack is not put back.                                 *)
sscratch_after_kept(spp, popped) == sscratch
sscratch_after(spp, popped) == IF spp = 0 THEN popped ELSE sscratch

(* s_trap.S after the call: CSRs, registers, the pop, and sret.            *)
Exit ==
  /\ at = "exit"
  /\ LET f == stack[regs["sp"]]
         popped == regs["sp"] + 1
         spp == SPP(f.regs["t0"])     (* the register, reloaded from its slot *)
         back == IF SPP(f.status) = 0 THEN "U" ELSE "S"
     IN  /\ regs' = [f.regs EXCEPT !["t1"] = spp, !["t2"] = f.regs["sp"]]
         /\ sscratch' = sscratch_after(spp, popped)
         /\ sepc' = f.epc /\ pc' = f.epc
         /\ sstatus' = Status("U", SUM(f.status))
         /\ mode' = back
         /\ at' = IF back = "U" THEN "user" ELSE "handler"
  /\ pending' = SubSeq(pending, 1, Len(pending) - 1)
  /\ UNCHANGED <<scause, medeleg, stack>>

Next ==
  \/ UserEnter \/ UserStep \/ UserTrap \/ Entry
  \/ HandleSyscall \/ HandleExit \/ HandleBreakpoint \/ HandlePanic
  \/ CopyFaults \/ AdvanceTrapFaults \/ KernelBreakpoint
  \/ Exit

Spec == Init /\ [][Next]_vars

-----------------------------------------------------------------------------
(* Properties.                                                             *)

TypeOK ==
  /\ at \in {"user_enter", "user", "entry", "handler", "exit", "idle", "panic"}
  /\ mode \in {"U", "S", "M"}
  /\ DOMAIN regs = Regs /\ DOMAIN stack = Slot
  /\ sstatus \in 0 .. 3
  /\ at \in {"handler", "exit"} => regs["sp"] \in Slot

(* While the user program runs, the next trap will find the whole trap     *)
(* stack, no earlier trap is unfinished, and the kernel's access to user   *)
(* memory is off: however deep the traps before it nested.                 *)
UserModeReady ==
  mode = "U" => sscratch = StackTop /\ SUM(sstatus) = 0 /\ pending = << >>

(* t0, t1 and t2 are overwritten before they are saved.                    *)
Saved == Regs \ {"t0", "t1", "t2"}

FrameOf(i) == stack[StackTop - 2 * i + 1]
LocalsOf(i) == stack[StackTop - 2 * i]

(* Every unfinished trap still has on the stack what it interrupted: its   *)
(* frame and its handler's locals survive whatever nests below them.  Only *)
(* the machine trap handler, which shares the stack, destroys one, and it  *)
(* never returns.                                                          *)
FramesIntact ==
  TypeOK /\
  (mode # "M" =>
    \A i \in 1 .. Len(pending) :
      (i < Len(pending) \/ at \notin {"entry", "exit"}) =>
        /\ FrameOf(i).epc = pending[i].pc
        /\ FrameOf(i).status = Status(pending[i].mode, pending[i].sum)
        /\ \A r \in Saved : FrameOf(i).regs[r] = pending[i].regs[r]
        /\ \A r \in CalleeSaved : LocalsOf(i).regs[r] = pending[i].regs[r])

(* The instruction a trap returns to: ecall is four bytes long.            *)
Resumption(trap) ==
  IF trap.cause = UserEcall THEN {trap.pc + 4} ELSE {trap.pc + 2, trap.pc + 4}

Written(trap) == IF trap.cause = UserEcall THEN {"a0"} ELSE {}

(* A trap that returns, returns to the mode it came from, past the         *)
(* instruction that trapped, with the registers and the SUM bit it         *)
(* interrupted; a system call also writes a0.                              *)
ResumesWhatItInterrupted ==
  [][Exit =>
       LET trap == pending[Len(pending)]
       IN  /\ mode' = trap.mode
           /\ pc' \in Resumption(trap)
           /\ SUM(sstatus') = trap.sum
           /\ \A r \in Saved \ Written(trap) : regs'[r] = trap.regs[r]]_vars

(* What the syscall ABI document promises: it follows the Linux convention,*)
(* in which ecall changes a0 and no other register.                        *)
LinuxConvention ==
  [][Exit /\ pending[Len(pending)].cause = UserEcall =>
       \A r \in Regs \ {"a0"} : regs'[r] = pending[Len(pending)].regs[r]]_vars

(* What the trap policy document promises: a fault of the user program     *)
(* (sstatus.SPP = 0) does not panic the kernel.                            *)
UserFaultsDoNotPanic ==
  at = "panic" => pending[Len(pending)].mode # "U"
=============================================================================
