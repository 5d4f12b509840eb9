----------------------- MODULE SupervisorTrap_proofs -----------------------
(***************************************************************************)
(* Traps of SupervisorTrap, nested to any depth: the trap stack is put     *)
(* back before user mode, no frame is overwritten by what nests below it,  *)
(* and every trap that returns resumes what it interrupted.                *)
(*                                                                         *)
(* The i-th unfinished trap owns two slots, StackTop - 2 * i + 1 for its   *)
(* frame and StackTop - 2 * i for its handler's locals.  The invariant     *)
(* says so by following the stack pointer: only the first trap comes from  *)
(* user mode and starts at StackTop, each later one interrupted a handler  *)
(* whose stack pointer was at its own locals.                              *)
(***************************************************************************)
EXTENDS SupervisorTrap, TLAPS

Registers == [Regs -> Nat]
Record == [regs : Registers, epc : Nat, status : 0 .. 3, cause : Nat]
Trap == [mode : {"U", "S"}, pc : Nat, regs : Registers, sum : {0, 1}, cause : Nat]

Depth == Len(pending)

Typed ==
  /\ at \in {"user_enter", "user", "entry", "handler", "exit", "idle", "panic"}
  /\ mode \in {"U", "S", "M"}
  /\ pc \in Nat /\ sepc \in Nat /\ scause \in Nat
  /\ regs \in Registers
  /\ sstatus \in 0 .. 3
  /\ stack \in [Slot -> Record]
  /\ pending \in Seq(Trap)

(* Between traps the next one has the whole stack to itself.               *)
Outside ==
  /\ at \in {"user_enter", "user"} =>
       pending = << >> /\ sscratch = StackTop /\ SUM(sstatus) = 0
  /\ mode = "U" <=> at = "user"
  /\ mode = "M" => at = "panic"
  /\ at \in {"entry", "handler", "exit"} => Depth >= 1

(* Where the stack pointer is, in the running trap and the waiting ones.   *)
Nested ==
  /\ 2 * Depth <= StackTop
  /\ at = "handler" => regs["sp"] = StackTop - 2 * Depth
  /\ at = "exit" => regs["sp"] = StackTop - 2 * Depth + 1
  /\ \A i \in 1 .. Depth :
       IF i = 1 THEN pending[i].mode = "U" /\ pending[i].sum = 0
       ELSE pending[i].mode = "S" /\ pending[i].regs["sp"] = StackTop - 2 * (i - 1)

(* What the hart knows of a trap before the frame is built.                *)
Taken ==
  at = "entry" =>
    /\ regs = pending[Depth].regs
    /\ sepc = pending[Depth].pc /\ scause = pending[Depth].cause
    /\ sstatus = Status(pending[Depth].mode, pending[Depth].sum)
    /\ Depth = 1 => sscratch = StackTop

(* What no handler changes in frame f and locals l of a trap.              *)
Marked(f, l, trap) ==
  /\ f.status = Status(trap.mode, trap.sum)
  /\ f.regs["t0"] = f.status
  /\ f.cause = trap.cause
  /\ \A r \in CalleeSaved : l.regs[r] = trap.regs[r]

Kept(f, trap) ==
  /\ f.epc = trap.pc
  /\ \A r \in Saved : f.regs[r] = trap.regs[r]

(* What the handler of a finished trap has made of it.                     *)
Answered(f, trap) ==
  /\ f.epc \in Resumption(trap)
  /\ \A r \in Saved \ Written(trap) : f.regs[r] = trap.regs[r]

Frames ==
  mode # "M" =>
    \A i \in 1 .. Depth :
      /\ i < Depth \/ at # "entry" => Marked(FrameOf(i), LocalsOf(i), pending[i])
      /\ i < Depth \/ at \notin {"entry", "exit"} => Kept(FrameOf(i), pending[i])
      /\ i = Depth /\ at = "exit" => Answered(FrameOf(i), pending[i])

IInv == Typed /\ Outside /\ Nested /\ Taken /\ Frames

-----------------------------------------------------------------------------
(* sstatus gives back the mode and the SUM bit it was made from.           *)
LEMMA StatusBits ==
  ASSUME NEW m \in {"U", "S"}, NEW s \in {0, 1}
  PROVE  /\ Status(m, s) \in 0 .. 3
         /\ SPP(Status(m, s)) = IF m = "S" THEN 1 ELSE 0
         /\ SUM(Status(m, s)) = s
<1>1. CASE m = "U" /\ s = 0  BY <1>1 DEF Status, SPP, SUM
<1>2. CASE m = "U" /\ s = 1  BY <1>2 DEF Status, SPP, SUM
<1>3. CASE m = "S" /\ s = 0  BY <1>3 DEF Status, SPP, SUM
<1>4. CASE m = "S" /\ s = 1  BY <1>4 DEF Status, SPP, SUM
<1> QED  BY <1>1, <1>2, <1>3, <1>4

(* SUM reads one bit, and SPP keeps the other.                             *)
LEMMA StatusParts ==
  ASSUME NEW status \in 0 .. 3
  PROVE  SUM(status) \in {0, 1} /\ SPP(status) \in {0, 1} /\ SPP(status) \in 0 .. 3
                                /\ SUM(SPP(status)) = 0
  BY DEF SUM, SPP

(* The two slots of every unfinished trap are on the stack.                *)
LEMMA SlotsOfTraps ==
  ASSUME Typed, Nested, NEW i \in 1 .. Depth
  PROVE  /\ Depth \in Nat
         /\ StackTop - 2 * i + 1 \in Slot /\ StackTop - 2 * i \in Slot
         /\ FrameOf(i) \in Record /\ LocalsOf(i) \in Record
         /\ pending[i] \in Trap
<1>1. Depth \in Nat /\ pending[i] \in Trap  BY DEF Typed, Depth
<1>2. StackTop - 2 * i + 1 \in Slot /\ StackTop - 2 * i \in Slot
  BY <1>1, TrapAssumption DEF Nested, Slot
<1> QED  BY <1>1, <1>2 DEF FrameOf, LocalsOf, Typed

(* Registers by kind.                                                      *)
LEMMA Kinds ==
  /\ {"sp", "t0", "t1", "t2", "a0", "t3"} \subseteq Regs
  /\ CalleeSaved \subseteq Regs /\ CalleeSaved \subseteq Saved
  /\ "sp" \in Saved /\ "sp" \notin CalleeSaved /\ "a0" \notin CalleeSaved
  /\ Saved \subseteq Regs /\ {"t0", "t1", "t2"} \cap Saved = {}
  BY TrapAssumption DEF Regs, Saved

(* The locals of a handler are a record that holds its registers.          *)
LEMMA LocalsRecord ==
  ASSUME NEW r \in Registers
  PROVE  Locals(r) \in Record /\ Locals(r).regs = r
<1>1. Locals(r) = [regs |-> r, epc |-> 0, status |-> 0, cause |-> 0]
  BY DEF Locals, Free
<1> QED  BY <1>1 DEF Record

-----------------------------------------------------------------------------
(* The invariant holds initially.                                          *)
LEMMA InitHolds == Init => IInv
<1> SUFFICES ASSUME Init PROVE IInv  OBVIOUS
<1>1. NoRegs \in Registers /\ [r \in Regs |-> Junk] \in Registers
  BY DEF NoRegs, Registers, Junk
<1>2. Free \in Record  BY <1>1 DEF Free, Record
<1>3. Status("U", 0) \in 0 .. 3 /\ SUM(Status("U", 0)) = 0  BY StatusBits
<1>4. Typed  BY <1>1, <1>2, <1>3 DEF Init, Typed, KernelPc, Trap
<1>5. Depth = 0  BY DEF Init, Depth
<1>6. Outside  BY <1>3 DEF Init, Outside
<1>7. Nested  BY <1>5, TrapAssumption DEF Init, Nested
<1>8. Taken /\ Frames  BY <1>5 DEF Init, Taken, Frames
<1> QED  BY <1>4, <1>6, <1>7, <1>8 DEF IInv

(* Entering the user program, and every step it takes.                     *)
LEMMA UserEnterKeeps == IInv /\ UserEnter => IInv'
<1> SUFFICES ASSUME IInv, UserEnter PROVE IInv'  OBVIOUS
<1>1. regs' \in Registers /\ pc' \in Nat /\ sepc' \in Nat
  BY TrapAssumption DEF UserEnter, NoRegs, Registers
<1>2. Status("U", 0) \in 0 .. 3 /\ SUM(Status("U", 0)) = 0  BY StatusBits
<1>3. Typed'  BY <1>1, <1>2 DEF IInv, Typed, UserEnter
<1>4. pending' = << >> /\ sscratch' = StackTop /\ Depth' = 0
  BY DEF IInv, Outside, UserEnter, Depth
<1>5. Outside'  BY <1>2, <1>4 DEF UserEnter, Outside, SUM
<1>6. (Nested /\ Taken /\ Frames)'
  BY <1>4, TrapAssumption DEF UserEnter, Nested, Taken, Frames
<1> QED  BY <1>3, <1>5, <1>6 DEF IInv

LEMMA UserStepKeeps == IInv /\ UserStep => IInv'
<1> SUFFICES ASSUME IInv, UserStep PROVE IInv'  OBVIOUS
<1>1. Typed'  BY TrapAssumption DEF IInv, Typed, UserStep, Registers
<1>2. pending' = << >> /\ sscratch' = StackTop /\ Depth' = 0
  BY DEF IInv, Outside, UserStep, Depth
<1>3. Outside'  BY <1>2 DEF UserStep, IInv, Outside, SUM
<1>4. (Nested /\ Taken /\ Frames)'
  BY <1>2, TrapAssumption DEF UserStep, Nested, Taken, Frames
<1> QED  BY <1>1, <1>3, <1>4 DEF IInv

-----------------------------------------------------------------------------
(* A trap from user mode is the first one.                                 *)
LEMMA UserTrapKeeps == IInv /\ UserTrap => IInv'
<1> SUFFICES ASSUME IInv, UserTrap PROVE IInv'  OBVIOUS
<1> USE DEF IInv
<1>1. PICK cause \in Causes :
        /\ IF cause \in medeleg THEN DelegatedTrap(cause) ELSE MachineTrap(cause)
        /\ pending' = Append(pending, Interrupted(pc, regs, SUM(sstatus), cause))
  BY DEF UserTrap
<1> DEFINE trap == Interrupted(pc, regs, SUM(sstatus), cause)
<1>2. mode = "U" /\ pending = << >> /\ sscratch = StackTop /\ SUM(sstatus) = 0
  BY DEF UserTrap, Outside
<1>3. trap \in Trap /\ trap.mode = "U" /\ trap.sum = 0
               /\ trap.pc = pc /\ trap.regs = regs /\ trap.cause = cause
  BY <1>2, TrapAssumption DEF Interrupted, Trap, Typed
<1>4. pending' = << trap >>  BY <1>1, <1>2
<1> HIDE DEF trap
<1>5. pending' \in Seq(Trap) /\ Depth' = 1 /\ pending'[1] = trap
  BY <1>3, <1>4 DEF Depth
<1>6. Nested'
  BY <1>1, <1>3, <1>5, TrapAssumption DEF Nested, DelegatedTrap, MachineTrap
<1>7. CASE cause \in medeleg
  <2>1. DelegatedTrap(cause)  BY <1>1, <1>7
  <2>2. sstatus' = Status("U", 0) /\ Status("U", 0) \in 0 .. 3
    BY <2>1, <1>2, StatusBits DEF DelegatedTrap
  <2>3. Typed'
    BY <2>1, <2>2, <1>5, TrapAssumption DEF Typed, DelegatedTrap, UserTrap
  <2>4. Outside'  BY <2>1, <1>5 DEF Outside, DelegatedTrap
  <2>5. Taken'
    BY <2>1, <2>2, <1>2, <1>3, <1>5 DEF Taken, DelegatedTrap, UserTrap
  <2>6. Frames'  BY <2>1, <1>5 DEF Frames, DelegatedTrap
  <2> QED  BY <1>6, <2>3, <2>4, <2>5, <2>6
<1>8. CASE cause \notin medeleg
  <2>1. MachineTrap(cause)  BY <1>1, <1>8
  <2>2. [regs |-> regs, epc |-> pc, status |-> sstatus, cause |-> cause] \in Record
    BY TrapAssumption DEF Typed, Record
  <2>3. stack' \in [Slot -> Record]
    BY <2>1, <2>2 DEF Typed, MachineTrap
  <2>4. Typed'
    BY <2>1, <2>3, <1>5 DEF Typed, MachineTrap, UserTrap
  <2>5. Outside'  BY <2>1 DEF Outside, MachineTrap
  <2>6. Taken' /\ Frames'  BY <2>1 DEF Taken, Frames, MachineTrap
  <2> QED  BY <1>6, <2>4, <2>5, <2>6
<1> QED  BY <1>7, <1>8

(* The frame and the locals of the newest trap: two slots no other has.    *)
LEMMA EntryKeeps == IInv /\ Entry => IInv'
<1> SUFFICES ASSUME IInv, Entry PROVE IInv'  OBVIOUS
<1> USE DEF IInv
<1> DEFINE trap == pending[Depth]
           user == SPP(sstatus) = 0
           base == frame_base(trap_stack(user))
           saved == [regs EXCEPT !["t0"] = sstatus, !["t1"] = SPP(sstatus),
                                 !["t2"] = regs["sp"]]
           built == [regs |-> saved, epc |-> sepc, status |-> sstatus, cause |-> scause]
<1>1. at = "entry" /\ at' = "handler" /\ mode' = mode /\ pending' = pending
      /\ pc' = KernelPc /\ UNCHANGED <<sstatus, sepc, scause>>
      /\ stack' = [stack EXCEPT ![base] = built, ![base - 1] = Locals(saved)]
      /\ regs' = [saved EXCEPT !["sp"] = base - 1, !["a0"] = base]
  BY DEF Entry
<1>2. Depth \in Nat /\ Depth >= 1 /\ 2 * Depth <= StackTop /\ Depth \in 1 .. Depth
  BY <1>1 DEF Typed, Outside, Nested, Depth
<1>3. trap \in Trap /\ regs = trap.regs /\ sepc = trap.pc /\ scause = trap.cause
      /\ sstatus = Status(trap.mode, trap.sum)
  BY <1>1, <1>2, SlotsOfTraps DEF Taken
<1>4. base = StackTop - 2 * Depth + 1
  <2>1. trap.mode \in {"U", "S"} /\ trap.sum \in {0, 1}  BY <1>3 DEF Trap
  <2>2. CASE Depth = 1
    <3>1. trap.mode = "U"  BY <1>2, <2>2 DEF Nested
    <3>2. user  BY <3>1, <2>1, <1>3, StatusBits
    <3> QED  BY <3>2, <2>2, <1>1, TrapAssumption DEF Taken, trap_stack, frame_base
  <2>3. CASE Depth # 1
    <3>1. trap.mode = "S" /\ trap.regs["sp"] = StackTop - 2 * (Depth - 1)
      BY <1>2, <2>3 DEF Nested
    <3>2. ~ user  BY <3>1, <2>1, <1>3, StatusBits
    <3> QED  BY <3>1, <3>2, <1>2, <1>3, TrapAssumption DEF trap_stack, frame_base
  <2> QED  BY <2>2, <2>3
<1>5. base \in Slot /\ base - 1 \in Slot /\ base \in Nat /\ base - 1 \in Nat
  BY <1>2, <1>4, TrapAssumption DEF Slot
<1>6. sstatus \in 0 .. 3 /\ SPP(sstatus) \in Nat /\ regs \in Registers
  BY StatusParts DEF Typed
<1>7. saved \in Registers
  BY <1>6, Kinds DEF Registers
<1>8. saved["t0"] = sstatus /\ \A r \in Saved : saved[r] = regs[r]
  BY <1>6, Kinds DEF Registers
<1>9. built \in Record /\ Locals(saved) \in Record /\ Locals(saved).regs = saved
  <2>1. built \in Record  BY <1>7 DEF Typed, Record
  <2> HIDE DEF saved
  <2> QED  BY <2>1, <1>7, LocalsRecord
<1>10. built.regs = saved /\ built.epc = sepc /\ built.status = sstatus
       /\ built.cause = scause
  OBVIOUS
<1> HIDE DEF base, saved, built, user
<1>11. stack \in [Slot -> Record]  BY DEF Typed
<1>12. stack' \in [Slot -> Record] /\ stack'[base] = built
       /\ stack'[base - 1] = Locals(saved)
       /\ \A s \in Slot \ {base, base - 1} : stack'[s] = stack[s]
  BY <1>1, <1>5, <1>9, <1>11
<1>13. regs' \in Registers /\ regs'["sp"] = base - 1
  BY <1>1, <1>5, <1>7, Kinds DEF Registers
<1>14. Depth' = Depth  BY <1>1 DEF Depth
<1>15. Typed'  BY <1>1, <1>12, <1>13 DEF Typed, KernelPc
<1>16. Outside'  BY <1>1, <1>2, <1>14 DEF Outside
<1>17. Nested'
  BY <1>1, <1>2, <1>4, <1>13, <1>14, TrapAssumption DEF Nested
<1>18. Taken'  BY <1>1 DEF Taken
<1>19. Frames'
  <2> SUFFICES ASSUME mode' # "M", NEW i \in 1 .. Depth
               PROVE  /\ Marked(FrameOf(i), LocalsOf(i), pending[i])'
                      /\ Kept(FrameOf(i), pending[i])'
    BY <1>1, <1>14 DEF Frames
  <2>1. CASE i = Depth
    <3>1. FrameOf(i)' = built /\ LocalsOf(i)' = Locals(saved)
      BY <2>1, <1>2, <1>4, <1>12, TrapAssumption DEF FrameOf, LocalsOf
    <3>2. pending'[i] = trap  BY <1>1, <2>1
    <3>3. Marked(built, Locals(saved), trap)
      BY <1>3, <1>8, <1>9, <1>10, Kinds DEF Marked
    <3>4. Kept(built, trap)  BY <1>3, <1>8, <1>10 DEF Kept
    <3> QED  BY <3>1, <3>2, <3>3, <3>4 DEF Marked, Kept
  <2>2. CASE i # Depth
    <3>1. i < Depth  BY <1>2, <2>2
    <3>2. StackTop - 2 * i + 1 \in Slot \ {base, base - 1}
          /\ StackTop - 2 * i \in Slot \ {base, base - 1}
      BY <1>2, <1>4, <3>1, SlotsOfTraps, TrapAssumption
    <3>3. FrameOf(i)' = FrameOf(i) /\ LocalsOf(i)' = LocalsOf(i)
      BY <1>12, <3>2 DEF FrameOf, LocalsOf
    <3>4. Marked(FrameOf(i), LocalsOf(i), pending[i]) /\ Kept(FrameOf(i), pending[i])
      BY <1>1, <3>1 DEF Frames
    <3> QED  BY <3>3, <3>4, <1>1 DEF Marked, Kept
  <2> QED  BY <2>1, <2>2
<1> QED  BY <1>15, <1>16, <1>17, <1>18, <1>19

-----------------------------------------------------------------------------
(* The handler's stack pointer is at the newest trap's locals.             *)
LEMMA InHandler ==
  ASSUME IInv, at = "handler"
  PROVE  /\ Depth \in Nat /\ Depth >= 1 /\ Depth \in 1 .. Depth
         /\ 2 * Depth <= StackTop
         /\ pending[Depth] \in Trap
         /\ frame_at = StackTop - 2 * Depth + 1 /\ frame_at \in Slot
         /\ frame = FrameOf(Depth) /\ frame \in Record
         /\ stack[regs["sp"]] = LocalsOf(Depth) /\ LocalsOf(Depth) \in Record
         /\ mode # "U" /\ mode # "M"
         /\ Marked(frame, LocalsOf(Depth), pending[Depth])
         /\ Kept(frame, pending[Depth])
         /\ trap_from_user <=> pending[Depth].mode = "U"
<1> USE DEF IInv
<1>1. Depth \in Nat /\ Depth >= 1 /\ Depth \in 1 .. Depth /\ 2 * Depth <= StackTop
  BY DEF Outside, Nested, Typed, Depth
<1>2. frame_at = StackTop - 2 * Depth + 1 /\ regs["sp"] = StackTop - 2 * Depth
  BY <1>1, TrapAssumption DEF Nested, frame_at
<1>3. frame = FrameOf(Depth) /\ stack[regs["sp"]] = LocalsOf(Depth)
  BY <1>2 DEF frame, FrameOf, LocalsOf
<1>4. /\ frame_at \in Slot /\ frame \in Record
      /\ LocalsOf(Depth) \in Record /\ pending[Depth] \in Trap
  BY <1>1, <1>2, <1>3, SlotsOfTraps
<1>5. mode # "U" /\ mode # "M"  BY DEF Outside
<1>6. Marked(frame, LocalsOf(Depth), pending[Depth]) /\ Kept(frame, pending[Depth])
  BY <1>1, <1>3, <1>5 DEF Frames
<1>7. pending[Depth].mode \in {"U", "S"} /\ pending[Depth].sum \in {0, 1}
  BY <1>4 DEF Trap
<1>8. frame.status = Status(pending[Depth].mode, pending[Depth].sum)
  BY <1>6 DEF Marked
<1>9. trap_from_user <=> pending[Depth].mode = "U"
  BY <1>7, <1>8, StatusBits DEF trap_from_user
<1> QED  BY <1>1, <1>2, <1>3, <1>4, <1>5, <1>6, <1>9

(* A handler that returns has answered its own trap and touched no other.  *)
LEMMA ReturnKeeps ==
  ASSUME IInv, at = "handler", NEW new_frame \in Record, Return(new_frame),
         Marked(new_frame, LocalsOf(Depth), pending[Depth]),
         Answered(new_frame, pending[Depth]),
         sstatus' \in 0 .. 3
  PROVE  IInv'
<1> USE DEF IInv
<1>1. Depth \in Nat /\ Depth >= 1 /\ 2 * Depth <= StackTop
      /\ frame_at = StackTop - 2 * Depth + 1 /\ frame_at \in Slot
      /\ stack[regs["sp"]] \in Record /\ mode # "U" /\ mode # "M"
  BY InHandler
<1>2. at' = "exit" /\ pending' = pending /\ Depth' = Depth /\ mode' = mode
      /\ pc' = pc /\ sepc' = sepc /\ scause' = scause
  BY DEF Return, Depth
<1>3. stack' \in [Slot -> Record] /\ stack'[frame_at] = new_frame
      /\ \A s \in Slot \ {frame_at} : stack'[s] = stack[s]
  BY <1>1 DEF Return, Typed
<1>4. regs' \in Registers /\ regs'["sp"] = frame_at
  <2>1. stack[regs["sp"]].regs \in [Regs -> Nat]
    BY <1>1 DEF Record, Registers
  <2>2. frame_at \in Nat  BY <1>1, TrapAssumption DEF Slot
  <2> QED  BY <2>1, <2>2, Kinds DEF Return, Registers, Junk
<1>5. Typed'  BY <1>2, <1>3, <1>4 DEF Typed
<1>6. Outside'  BY <1>1, <1>2 DEF Outside
<1>7. Nested'  BY <1>1, <1>2, <1>4 DEF Nested
<1>8. Taken'  BY <1>2 DEF Taken
<1>9. Frames'
  <2> SUFFICES ASSUME NEW i \in 1 .. Depth
               PROVE  /\ Marked(FrameOf(i), LocalsOf(i), pending[i])'
                      /\ i < Depth => Kept(FrameOf(i), pending[i])'
                      /\ i = Depth => Answered(FrameOf(i), pending[i])'
    BY <1>1, <1>2 DEF Frames
  <2>1. StackTop - 2 * i \in Slot \ {frame_at}
    BY <1>1, SlotsOfTraps, TrapAssumption
  <2>2. LocalsOf(i)' = LocalsOf(i)  BY <1>3, <2>1 DEF LocalsOf
  <2>3. CASE i = Depth
    <3>1. FrameOf(i)' = new_frame  BY <1>1, <1>3, <2>3 DEF FrameOf
    <3> QED  BY <1>2, <2>2, <2>3, <3>1 DEF Marked, Answered, Resumption, Written
  <2>4. CASE i # Depth
    <3>1. i < Depth  BY <1>1, <2>4
    <3>2. StackTop - 2 * i + 1 \in Slot \ {frame_at}
      BY <1>1, <3>1, SlotsOfTraps, TrapAssumption
    <3>3. FrameOf(i)' = FrameOf(i)  BY <1>3, <3>2 DEF FrameOf
    <3>4. Marked(FrameOf(i), LocalsOf(i), pending[i]) /\ Kept(FrameOf(i), pending[i])
      BY <1>1, <3>1 DEF Frames
    <3> QED  BY <1>2, <2>2, <2>4, <3>3, <3>4 DEF Marked, Kept
  <2> QED  BY <2>3, <2>4
<1> QED  BY <1>5, <1>6, <1>7, <1>8, <1>9

LEMMA HandleSyscallKeeps == IInv /\ HandleSyscall => IInv'
<1> SUFFICES ASSUME IInv, HandleSyscall PROVE IInv'  OBVIOUS
<1>1. at = "handler" /\ frame.cause = UserEcall  BY DEF HandleSyscall
<1>2. PICK result \in Results :
        Return([frame EXCEPT !.regs["a0"] = result, !.epc = past_ecall(@)])
  BY DEF HandleSyscall
<1> DEFINE new_frame == [frame EXCEPT !.regs["a0"] = result, !.epc = past_ecall(@)]
<1>3. frame \in Record /\ pending[Depth] \in Trap
      /\ Marked(frame, LocalsOf(Depth), pending[Depth]) /\ Kept(frame, pending[Depth])
  BY <1>1, InHandler
<1>4. new_frame.regs = [frame.regs EXCEPT !["a0"] = result]
      /\ new_frame.epc = frame.epc + 4
      /\ new_frame.status = frame.status /\ new_frame.cause = frame.cause
  BY <1>3 DEF Record, past_ecall
<1>5. new_frame \in Record
  <2>1. [frame.regs EXCEPT !["a0"] = result] \in Registers
    BY <1>3, TrapAssumption DEF Record, Registers
  <2>2. new_frame.epc \in Nat  BY <1>3, <1>4 DEF Record
  <2>3. new_frame = [frame EXCEPT !.regs = [frame.regs EXCEPT !["a0"] = result],
                                  !.epc = frame.epc + 4]
    BY <1>3 DEF Record, past_ecall
  <2> QED  BY <1>3, <2>1, <2>2, <2>3 DEF Record
<1>6. \A r \in Regs \ {"a0"} : new_frame.regs[r] = frame.regs[r]
  BY <1>3, <1>4 DEF Record, Registers
<1> HIDE DEF new_frame
<1>7. Marked(new_frame, LocalsOf(Depth), pending[Depth])
  BY <1>3, <1>4, <1>6, Kinds DEF Marked
<1>8. pending[Depth].cause = UserEcall  BY <1>1, <1>3 DEF Marked
<1>9. Answered(new_frame, pending[Depth])
  BY <1>3, <1>4, <1>6, <1>8, Kinds DEF Answered, Kept, Resumption, Written
<1>10. sstatus' \in 0 .. 3
  BY StatusParts DEF HandleSyscall, IInv, Typed
<1> QED  BY <1>1, <1>2, <1>5, <1>7, <1>9, <1>10, ReturnKeeps DEF new_frame

LEMMA HandleBreakpointKeeps == IInv /\ HandleBreakpoint => IInv'
<1> SUFFICES ASSUME IInv, HandleBreakpoint PROVE IInv'  OBVIOUS
<1>1. at = "handler" /\ frame.cause = Breakpoint  BY DEF HandleBreakpoint
<1>2. PICK length \in {2, 4} : Return([frame EXCEPT !.epc = @ + length])
  BY DEF HandleBreakpoint
<1> DEFINE new_frame == [frame EXCEPT !.epc = @ + length]
<1>3. frame \in Record /\ pending[Depth] \in Trap
      /\ Marked(frame, LocalsOf(Depth), pending[Depth]) /\ Kept(frame, pending[Depth])
  BY <1>1, InHandler
<1>4. new_frame.regs = frame.regs /\ new_frame.epc = frame.epc + length
      /\ new_frame.status = frame.status /\ new_frame.cause = frame.cause
  BY <1>3 DEF Record
<1>5. new_frame \in Record  BY <1>3 DEF Record
<1> HIDE DEF new_frame
<1>6. Marked(new_frame, LocalsOf(Depth), pending[Depth])
  BY <1>3, <1>4 DEF Marked
<1>7. pending[Depth].cause # UserEcall
  BY <1>1, <1>3 DEF Marked, Breakpoint, UserEcall
<1>8. Answered(new_frame, pending[Depth])
  BY <1>3, <1>4, <1>7 DEF Answered, Kept, Resumption, Written
<1>9. sstatus' \in 0 .. 3  BY DEF HandleBreakpoint, IInv, Typed
<1> QED  BY <1>1, <1>2, <1>5, <1>6, <1>8, <1>9, ReturnKeeps DEF new_frame

(* A handler that does not return leaves everything as it is.              *)
LEMMA StopKeeps ==
  ASSUME IInv, at = "handler", NEW where \in {"idle", "panic"}, Stop(where)
  PROVE  IInv'
<1> USE DEF IInv
<1>1. at' = where /\ Depth' = Depth
      /\ UNCHANGED <<mode, pc, regs, sstatus, sepc, scause, sscratch, stack, pending>>
  BY DEF Stop, Depth
<1>2. mode # "U" /\ mode # "M"  BY InHandler
<1>3. Typed'  BY <1>1 DEF Typed
<1>4. Outside' /\ Taken'  BY <1>1, <1>2 DEF Outside, Taken
<1>5. Nested'  BY <1>1 DEF Nested
<1>6. Frames'
  <2> SUFFICES ASSUME NEW i \in 1 .. Depth
               PROVE  /\ Marked(FrameOf(i), LocalsOf(i), pending[i])'
                      /\ Kept(FrameOf(i), pending[i])'
    BY <1>1 DEF Frames
  <2>1. Marked(FrameOf(i), LocalsOf(i), pending[i]) /\ Kept(FrameOf(i), pending[i])
    BY <1>2 DEF Frames
  <2> QED  BY <1>1, <2>1 DEF Marked, Kept, FrameOf, LocalsOf
<1> QED  BY <1>3, <1>4, <1>5, <1>6

(* A trap of the handler itself: one deeper, from its own locals.          *)
LEMMA KernelTrapKeeps ==
  ASSUME IInv, NEW cause \in Nat, NEW sum \in {0, 1}, KernelTrap(cause, sum)
  PROVE  IInv'
<1> USE DEF IInv
<1> DEFINE running == [r \in Regs |-> IF r = "sp" THEN regs["sp"] ELSE Junk]
           trap == Interrupted(KernelPc, running, sum, cause)
<1>1. at = "handler" /\ frame_at >= 3 /\ at' = "entry" /\ regs' = running
      /\ pc' = KernelPc /\ sepc' = KernelPc /\ scause' = cause
      /\ sstatus' = Status("S", sum) /\ pending' = Append(pending, trap)
      /\ UNCHANGED <<mode, sscratch, stack>>
  BY DEF KernelTrap
<1>2. Depth \in Nat /\ Depth >= 1 /\ frame_at = StackTop - 2 * Depth + 1
      /\ mode # "U" /\ mode # "M"
  BY <1>1, InHandler
<1>3. running \in Registers /\ running["sp"] = StackTop - 2 * Depth
  BY <1>1, Kinds DEF Registers, Junk, Typed, Nested
<1>4. mode = "S"  BY <1>2 DEF Typed
<1>5. trap \in Trap /\ trap.mode = "S" /\ trap.regs = running /\ trap.sum = sum
      /\ trap.pc = KernelPc /\ trap.cause = cause
  BY <1>3, <1>4 DEF Interrupted, Trap, KernelPc
<1> HIDE DEF trap, running
<1>6. pending' \in Seq(Trap) /\ Depth' = Depth + 1 /\ pending'[Depth + 1] = trap
      /\ \A i \in 1 .. Depth : pending'[i] = pending[i]
  BY <1>1, <1>2, <1>5 DEF Typed, Depth
<1>7. Status("S", sum) \in 0 .. 3  BY StatusBits
<1>8. Typed'
  BY <1>1, <1>3, <1>6, <1>7 DEF Typed, KernelPc
<1>9. Outside'  BY <1>1, <1>2, <1>6 DEF Outside
<1>10. Nested'
  <2>1. 2 * (Depth + 1) <= StackTop  BY <1>1, <1>2, TrapAssumption
  <2>2. ASSUME NEW i \in 1 .. Depth + 1
        PROVE  IF i = 1 THEN pending'[i].mode = "U" /\ pending'[i].sum = 0
               ELSE pending'[i].mode = "S"
                      /\ pending'[i].regs["sp"] = StackTop - 2 * (i - 1)
    <3>1. CASE i = Depth + 1
      <4>1. i # 1 /\ i - 1 = Depth /\ pending'[i] = trap  BY <3>1, <1>2, <1>6
      <4> QED  BY <4>1, <1>3, <1>5
    <3>2. CASE i # Depth + 1  BY <3>2, <1>2, <1>6 DEF Nested
    <3> QED  BY <3>1, <3>2
  <2> QED  BY <2>1, <2>2, <1>1, <1>6 DEF Nested
<1>11. Taken'
  <2>1. Depth' # 1 /\ pending'[Depth'] = trap  BY <1>2, <1>6
  <2>2. regs' = trap.regs /\ sepc' = trap.pc /\ scause' = trap.cause
        /\ sstatus' = Status(trap.mode, trap.sum)
    BY <1>1, <1>5
  <2> QED  BY <2>1, <2>2 DEF Taken
<1>12. Frames'
  <2> SUFFICES ASSUME NEW i \in 1 .. Depth
               PROVE  /\ Marked(FrameOf(i), LocalsOf(i), pending[i])'
                      /\ Kept(FrameOf(i), pending[i])'
    <3>1. \A i \in 1 .. Depth + 1 : i < Depth + 1 => i \in 1 .. Depth
      BY <1>2
    <3> QED  BY <1>1, <1>2, <1>6, <3>1 DEF Frames
  <2>1. Marked(FrameOf(i), LocalsOf(i), pending[i]) /\ Kept(FrameOf(i), pending[i])
    BY <1>1, <1>2 DEF Frames
  <2> QED  BY <1>1, <1>6, <2>1 DEF Marked, Kept, FrameOf, LocalsOf
<1> QED  BY <1>8, <1>9, <1>10, <1>11, <1>12

-----------------------------------------------------------------------------
(* A finished trap gives back what it interrupted.                         *)
LEMMA AtExit ==
  ASSUME IInv, at = "exit"
  PROVE  LET f == stack[regs["sp"]]
             trap == pending[Depth]
         IN  /\ Depth \in Nat /\ Depth >= 1 /\ 2 * Depth <= StackTop
             /\ regs["sp"] = StackTop - 2 * Depth + 1
             /\ f \in Record /\ trap \in Trap /\ mode = "S"
             /\ Answered(f, trap)
             /\ f.regs["t0"] = f.status
             /\ SUM(f.status) = trap.sum
             /\ SPP(f.status) = IF trap.mode = "S" THEN 1 ELSE 0
             /\ Depth = 1 => trap.mode = "U" /\ trap.sum = 0
             /\ Depth # 1 => trap.mode = "S"
                               /\ trap.regs["sp"] = StackTop - 2 * (Depth - 1)
<1> USE DEF IInv
<1> DEFINE f == stack[regs["sp"]]
           trap == pending[Depth]
<1>1. Depth \in Nat /\ Depth >= 1 /\ Depth \in 1 .. Depth /\ 2 * Depth <= StackTop
  BY DEF Outside, Nested, Typed, Depth
<1>2. regs["sp"] = StackTop - 2 * Depth + 1  BY DEF Nested
<1>3. f = FrameOf(Depth)  BY <1>2 DEF FrameOf
<1>4. f \in Record /\ trap \in Trap  BY <1>1, <1>3, SlotsOfTraps
<1>5. mode = "S"  BY DEF Outside, Typed
<1>6. Marked(f, LocalsOf(Depth), trap) /\ Answered(f, trap)
  BY <1>1, <1>3, <1>5 DEF Frames
<1>7. trap.mode \in {"U", "S"} /\ trap.sum \in {0, 1}  BY <1>4 DEF Trap
<1>8. f.status = Status(trap.mode, trap.sum) /\ f.regs["t0"] = f.status
  BY <1>6 DEF Marked
<1>9. SUM(f.status) = trap.sum /\ SPP(f.status) = IF trap.mode = "S" THEN 1 ELSE 0
  BY <1>7, <1>8, StatusBits
<1>10. /\ Depth = 1 => trap.mode = "U" /\ trap.sum = 0
       /\ Depth # 1 => trap.mode = "S" /\ trap.regs["sp"] = StackTop - 2 * (Depth - 1)
  BY <1>1 DEF Nested
<1> QED  BY <1>1, <1>2, <1>4, <1>5, <1>6, <1>8, <1>9, <1>10

LEMMA ExitKeeps == IInv /\ Exit => IInv'
<1> SUFFICES ASSUME IInv, Exit PROVE IInv'  OBVIOUS
<1> USE DEF IInv
<1> DEFINE f == stack[regs["sp"]]
           trap == pending[Depth]
           spp == SPP(f.regs["t0"])
           back == IF SPP(f.status) = 0 THEN "U" ELSE "S"
<1>1. /\ Depth \in Nat /\ Depth >= 1 /\ 2 * Depth <= StackTop
      /\ regs["sp"] = StackTop - 2 * Depth + 1
      /\ f \in Record /\ trap \in Trap /\ Answered(f, trap)
      /\ f.regs["t0"] = f.status
      /\ SUM(f.status) = trap.sum
      /\ SPP(f.status) = IF trap.mode = "S" THEN 1 ELSE 0
      /\ Depth = 1 => trap.mode = "U" /\ trap.sum = 0
      /\ Depth # 1 => trap.mode = "S" /\ trap.regs["sp"] = StackTop - 2 * (Depth - 1)
  BY AtExit DEF Exit
<1>2. /\ regs' = [f.regs EXCEPT !["t1"] = spp, !["t2"] = f.regs["sp"]]
      /\ sscratch' = sscratch_after(spp, regs["sp"] + 1)
      /\ sepc' = f.epc /\ pc' = f.epc
      /\ sstatus' = Status("U", SUM(f.status))
      /\ mode' = back
      /\ at' = IF back = "U" THEN "user" ELSE "handler"
      /\ pending' = SubSeq(pending, 1, Depth - 1)
      /\ UNCHANGED <<scause, stack>>
  BY DEF Exit, Depth
<1>3. f.regs \in Registers /\ f.epc \in Nat /\ f.status \in 0 .. 3  BY <1>1 DEF Record
<1>4. spp \in Nat /\ f.regs["sp"] \in Nat /\ SUM(f.status) \in {0, 1}
  BY <1>1, <1>3, StatusParts, Kinds DEF Registers
<1>5. spp = (IF trap.mode = "S" THEN 1 ELSE 0) /\ back = trap.mode
  BY <1>1 DEF Trap
<1>6. f.regs["sp"] = trap.regs["sp"]
  BY <1>1, Kinds DEF Answered, Written
<1> HIDE DEF f, trap, spp, back
<1>7. regs' \in Registers /\ regs'["sp"] = trap.regs["sp"]
  BY <1>2, <1>3, <1>4, <1>6, Kinds DEF Registers
<1>8. pending' \in Seq(Trap) /\ Depth' = Depth - 1
      /\ \A i \in 1 .. Depth - 1 : pending'[i] = pending[i]
  <2>1. pending \in Seq(Trap) /\ Len(pending) = Depth  BY DEF Typed, Depth
  <2>2. pending' = SubSeq(pending, 1, Depth - 1)  BY <1>2
  <2> HIDE DEF Depth
  <2>3. Len(pending') = Depth - 1  BY <1>1, <2>1, <2>2
  <2>4. \A i \in 1 .. Depth - 1 : pending'[i] = pending[i]  BY <1>1, <2>1, <2>2
  <2>5. pending' \in Seq(Trap)  BY <1>1, <2>1, <2>2
  <2> QED  BY <2>3, <2>4, <2>5 DEF Depth
<1>9. sstatus' \in 0 .. 3 /\ SUM(sstatus') = trap.sum
  BY <1>1, <1>2, <1>4, StatusBits
<1>10. trap.mode \in {"U", "S"}  BY <1>1 DEF Trap
<1>11. Typed'
  BY <1>2, <1>3, <1>5, <1>7, <1>8, <1>9, <1>10 DEF Typed
<1>12. CASE Depth = 1
  <2>1. mode' = "U" /\ at' = "user" /\ Depth' = 0 /\ trap.sum = 0
    BY <1>1, <1>2, <1>5, <1>8, <1>12
  <2>2. pending' = << >>  BY <1>8, <2>1 DEF Depth
  <2>3. sscratch' = StackTop
    BY <1>1, <1>2, <1>5, <1>12, TrapAssumption DEF sscratch_after
  <2>4. Outside'  BY <2>1, <2>2, <2>3, <1>9 DEF Outside, SUM
  <2>5. (Nested /\ Taken /\ Frames)'
    BY <2>1, TrapAssumption DEF Nested, Taken, Frames
  <2> QED  BY <1>11, <2>4, <2>5
<1>13. CASE Depth # 1
  <2>1. mode' = "S" /\ at' = "handler" /\ Depth' = Depth - 1 /\ Depth' >= 1
    BY <1>1, <1>2, <1>5, <1>8, <1>13
  <2>2. Outside' /\ Taken'  BY <2>1 DEF Outside, Taken
  <2>3. Nested'
    <3>1. 2 * Depth' <= StackTop  BY <1>1, <2>1, TrapAssumption
    <3>2. regs'["sp"] = StackTop - 2 * Depth'  BY <1>1, <1>7, <1>13, <2>1
    <3>3. ASSUME NEW i \in 1 .. Depth'
          PROVE  IF i = 1 THEN pending'[i].mode = "U" /\ pending'[i].sum = 0
                 ELSE pending'[i].mode = "S"
                        /\ pending'[i].regs["sp"] = StackTop - 2 * (i - 1)
      BY <1>1, <1>8, <2>1 DEF Nested
    <3> QED  BY <2>1, <3>1, <3>2, <3>3 DEF Nested
  <2>4. Frames'
    <3> SUFFICES ASSUME NEW i \in 1 .. Depth - 1
                 PROVE  /\ Marked(FrameOf(i), LocalsOf(i), pending[i])'
                        /\ Kept(FrameOf(i), pending[i])'
      BY <1>8, <2>1 DEF Frames
    <3>1. Marked(FrameOf(i), LocalsOf(i), pending[i]) /\ Kept(FrameOf(i), pending[i])
      BY <1>1, AtExit DEF Frames, Exit
    <3> QED  BY <1>2, <1>8, <3>1 DEF Marked, Kept, FrameOf, LocalsOf
  <2> QED  BY <1>11, <2>2, <2>3, <2>4
<1> QED  BY <1>12, <1>13

-----------------------------------------------------------------------------
LEMMA NextKeeps == IInv /\ [Next]_vars => IInv'
<1> SUFFICES ASSUME IInv, [Next]_vars PROVE IInv'  OBVIOUS
<1>1. CASE UserEnter  BY <1>1, UserEnterKeeps
<1>2. CASE UserStep  BY <1>2, UserStepKeeps
<1>3. CASE UserTrap  BY <1>3, UserTrapKeeps
<1>4. CASE Entry  BY <1>4, EntryKeeps
<1>5. CASE HandleSyscall  BY <1>5, HandleSyscallKeeps
<1>6. CASE HandleExit  BY <1>6, StopKeeps DEF HandleExit
<1>7. CASE HandleBreakpoint  BY <1>7, HandleBreakpointKeeps
<1>8. CASE HandlePanic  BY <1>8, StopKeeps DEF HandlePanic
<1>9. CASE CopyFaults
  BY <1>9, KernelTrapKeeps DEF CopyFaults, LoadPageFault, StorePageFault
<1>10. CASE AdvanceTrapFaults
  BY <1>10, KernelTrapKeeps DEF AdvanceTrapFaults, LoadPageFault
<1>11. CASE KernelBreakpoint
  <2>1. PICK sum \in IF trap_from_user /\ frame.cause = UserEcall THEN {0, 1}
                     ELSE {SUM(sstatus)} : KernelTrap(Breakpoint, sum)
    BY <1>11 DEF KernelBreakpoint
  <2>2. SUM(sstatus) \in {0, 1}  BY StatusParts DEF IInv, Typed
  <2>3. sum \in {0, 1} /\ Breakpoint \in Nat  BY <2>1, <2>2 DEF Breakpoint
  <2> QED  BY <2>1, <2>3, KernelTrapKeeps
<1>12. CASE Exit  BY <1>12, ExitKeeps
<1>13. CASE UNCHANGED vars
  <2>1. Depth' = Depth /\ \A i \in 1 .. Depth :
          FrameOf(i)' = FrameOf(i) /\ LocalsOf(i)' = LocalsOf(i)
    BY <1>13 DEF vars, Depth, FrameOf, LocalsOf
  <2>2. (Typed /\ Outside /\ Nested /\ Taken)'
    BY <1>13, <2>1 DEF vars, IInv, Typed, Outside, Nested, Taken
  <2>3. Frames'
    BY <1>13, <2>1 DEF vars, IInv, Frames, Marked, Kept, Answered
  <2> QED  BY <2>2, <2>3 DEF IInv
<1> QED
  BY <1>1, <1>2, <1>3, <1>4, <1>5, <1>6, <1>7, <1>8, <1>9, <1>10, <1>11,
     <1>12, <1>13 DEF Next

(* The inductive invariant holds of every behaviour.                       *)
LEMMA InvariantHolds == Spec => []IInv
<1> QED  BY InitHolds, NextKeeps, PTL DEF Spec

(* For every stack, program and delegation: whenever user mode runs, the   *)
(* next trap of s_trap.S finds the whole trap stack in sscratch, no trap   *)
(* is unfinished and sstatus.SUM is clear, however deep traps nested.      *)
THEOREM StackReadyForUser == Spec => []UserModeReady
<1>1. IInv => UserModeReady
  BY DEF IInv, Outside, UserModeReady
<1> QED  BY <1>1, InvariantHolds, PTL

(* For every stack, program and delegation: no TrapFrame of an unfinished  *)
(* trap, and no locals of its handler, is overwritten by a trap that nests *)
(* inside it.                                                              *)
THEOREM FramesSurviveNesting == Spec => []FramesIntact
<1>1. ASSUME IInv PROVE FramesIntact
  <2>1. TypeOK
    <3>1. at \in {"handler", "exit"} => regs["sp"] \in Slot
      <4>1. CASE at = "handler"
        BY <1>1, <4>1, SlotsOfTraps DEF IInv, Outside, Nested, Typed, Depth
      <4>2. CASE at = "exit"
        BY <1>1, <4>2, SlotsOfTraps DEF IInv, Outside, Nested, Typed, Depth
      <4> QED  BY <4>1, <4>2
    <3>2. DOMAIN regs = Regs /\ DOMAIN stack = Slot
      BY <1>1 DEF IInv, Typed, Registers
    <3> QED  BY <1>1, <3>1, <3>2 DEF TypeOK, IInv, Typed
  <2>2. ASSUME mode # "M", NEW i \in 1 .. Len(pending),
               i < Len(pending) \/ at \notin {"entry", "exit"}
        PROVE  /\ Marked(FrameOf(i), LocalsOf(i), pending[i])
               /\ Kept(FrameOf(i), pending[i])
    BY <1>1, <2>2 DEF IInv, Frames, Depth
  <2> QED  BY <2>1, <2>2 DEF FramesIntact, Marked, Kept
<1> QED  BY <1>1, InvariantHolds, PTL

(* For every stack, program and delegation: the sret that ends a trap goes *)
(* back to the mode that trapped, past its instruction, with its registers *)
(* and its SUM bit.                                                        *)
THEOREM EveryTrapResumes == Spec => ResumesWhatItInterrupted
<1> DEFINE Resumes ==
      Exit => LET trap == pending[Len(pending)]
              IN  /\ mode' = trap.mode
                  /\ pc' \in Resumption(trap)
                  /\ SUM(sstatus') = trap.sum
                  /\ \A r \in Saved \ Written(trap) : regs'[r] = trap.regs[r]
<1>1. IInv /\ [Next]_vars => [Resumes]_vars
  <2> SUFFICES ASSUME IInv, Exit PROVE Resumes  OBVIOUS
  <2> DEFINE f == stack[regs["sp"]]
             trap == pending[Depth]
  <2>1. /\ f \in Record /\ trap \in Trap /\ Answered(f, trap)
        /\ SUM(f.status) = trap.sum
        /\ SPP(f.status) = IF trap.mode = "S" THEN 1 ELSE 0
    BY AtExit DEF Exit
  <2>2. trap.mode \in {"U", "S"} /\ trap.sum \in {0, 1} /\ f.regs \in Registers
    BY <2>1 DEF Trap, Record
  <2>3. mode' = trap.mode  BY <2>1, <2>2 DEF Exit
  <2>4. pc' \in Resumption(trap)  BY <2>1 DEF Exit, Answered
  <2>5. SUM(sstatus') = trap.sum  BY <2>1, <2>2, StatusBits DEF Exit
  <2>6. ASSUME NEW r \in Saved \ Written(trap)
        PROVE  regs'[r] = trap.regs[r]
    <3>1. regs'[r] = f.regs[r]  BY <2>2, Kinds DEF Exit, Registers
    <3> QED  BY <3>1, <2>1 DEF Answered
  <2> QED  BY <2>3, <2>4, <2>5, <2>6 DEF Depth
<1> QED  BY <1>1, InvariantHolds, PTL DEF Spec, ResumesWhatItInterrupted
=============================================================================
