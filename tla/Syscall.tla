------------------------------ MODULE Syscall ------------------------------
(***************************************************************************)
(* syscall_handle and the console: write copies the user's bytes out in    *)
(* chunks of a kernel buffer, read edits a line as it is typed and copies  *)
(* it to the user.  The user program waits while the kernel works, the     *)
(* person at the terminal does not: keys are pressed at any time.          *)
(*                                                                         *)
(* User memory is a few cells, each mapped with the permissions the loader *)
(* gave its page or not mapped at all.  A character of the console is a    *)
(* letter, "nl" (\n), "cr" (\r), "bs" (\b or DEL), "sp" or "nul".          *)
(***************************************************************************)
EXTENDS Integers, Sequences, FiniteSets

CONSTANTS Address,    (* the user addresses in play; 0 is the null pointer *)
          Perm,       (* Perm[a]: "rx", "rw" or "none"                     *)
          Program,    (* user memory at the start                          *)
          Calls,      (* system calls: [nr, fd, buf, len]                  *)
          TempSize,   (* bytes in temp (256)                               *)
          Keys        (* what is typed                                     *)

ASSUME SyscallAssumption ==
  /\ Address \subseteq Nat \ {0}
  /\ TempSize \in Nat \ {0}
  /\ DOMAIN Program = Address
  /\ \A c \in Calls : c.buf \in Nat /\ c.len \in Nat

VARIABLES phase,    (* where the kernel is, "user" when it has returned    *)
          call,     (* the arguments of the last call                      *)
          buffer, length, total,  (* locals of syscall_write, syscall_read *)
          temp,     (* the bytes in use of uint8_t temp[256]               *)
          sent,     (* bytes of temp given to the UART                     *)
          a0,       (* what the last call returned                         *)
          user,     (* user memory                                         *)
          rhr,      (* the UART's receive register                         *)
          tx,       (* history: what the last write sent to the UART       *)
          screen    (* the line on the terminal since read began           *)

locals == <<call, buffer, length, total, temp, sent>>
vars == <<phase, locals, a0, user, rhr, tx, screen>>

EBADF == -9
EFAULT == -14
ENOSYS == -38

Empty == "none"      (* LSR has no RX_READY                                *)
NoCall == [nr |-> "none", fd |-> 0, buf |-> 0, len |-> 0]

Least(a, b) == IF a < b THEN a ELSE b

(* Mutant: the caller's length is ignored.                                 *)
read_limit_ignored(len) == TempSize

(* How many bytes one copy moves, and how many one read can return.        *)
read_limit(len) == Least(len, TempSize)

(* Mutant: the last chunk is not cut short.                                *)
chunk_size_whole(left) == TempSize
chunk_size(left) == Least(left, TempSize)

(* Mutant: the loop forgets to count down.                                 *)
left_after_same(left, chunk) == left
left_after(left, chunk) == left - chunk

(* The terminal (external): a character goes where the cursor is, \b moves *)
(* the cursor back.                                                        *)
Prompt == "prompt"
BlankLine == [cells |-> <<Prompt>>, cursor |-> 1]

Display(s, c) ==
  IF c = "bs" THEN [s EXCEPT !.cursor = IF s.cursor > 0 THEN s.cursor - 1 ELSE 0]
  ELSE [cells |-> SubSeq(s.cells, 1, s.cursor) \o <<c>>
                    \o SubSeq(s.cells, s.cursor + 2, Len(s.cells)),
        cursor |-> s.cursor + 1]

(* Mutant: only the cursor goes back.                                      *)
Erased_cursor(s) == Display(s, "bs")
Erased(s) == Display(Display(Display(s, "bs"), "sp"), "bs")

-----------------------------------------------------------------------------
Init ==
  /\ phase = "user"
  /\ call = NoCall
  /\ buffer = 0 /\ length = 0 /\ total = 0
  /\ temp = << >> /\ sent = 0
  /\ a0 = 0
  /\ user = Program
  /\ rhr = Empty
  /\ tx = << >>
  /\ screen = BlankLine

(* A key is pressed (external).  A character nobody has read is lost; the  *)
(* polling loop of uart_getc is faster than any typist.                    *)
Type(key) ==
  /\ phase \notin {"idle", "panic"}
  /\ phase = "getc" => rhr = Empty
  /\ rhr' = key
  /\ UNCHANGED <<phase, locals, a0, user, tx, screen>>

Return(value) ==
  /\ phase' = "user"
  /\ a0' = value
  /\ buffer' = 0 /\ length' = 0 /\ total' = 0 /\ temp' = << >> /\ sent' = 0

Begin(where, len) ==
  /\ phase' = where
  /\ buffer' = call'.buf /\ length' = len
  /\ total' = 0 /\ temp' = << >> /\ sent' = 0
  /\ UNCHANGED a0

(* ecall: syscall_handle's dispatch, and what syscall_write, syscall_read  *)
(* and syscall_exit check first.                                           *)
Ecall(c) ==
  /\ phase = "user"
  /\ call' = c
  /\ CASE c.nr = "write" -> IF c.fd \notin {1, 2} THEN Return(EBADF)
                            ELSE IF c.len = 0 THEN Return(0)
                            ELSE Begin("copyin", c.len)
       [] c.nr = "read" -> IF c.fd # 0 THEN Return(EBADF)
                           ELSE IF c.len = 0 THEN Return(0)
                           ELSE Begin("getc", read_limit(c.len))
       [] c.nr \in {"exit", "exit_group"} -> Begin("idle", 0)
       [] OTHER -> Return(ENOSYS)
  /\ tx' = << >>
  /\ screen' = BlankLine
  /\ UNCHANGED <<user, rhr>>

Cells(start, size) == start .. start + size - 1

MayRead(a) == a \in Address /\ Perm[a] \in {"rx", "rw"}
MayWrite(a) == a \in Address /\ Perm[a] = "rw"

(* A supervisor page fault: handle_supervisor_exception panics.            *)
PageFault == phase' = "panic" /\ UNCHANGED <<locals, a0>>

(* copy_from_user of the next chunk.                                       *)
CopyFromUser ==
  /\ phase = "copyin"
  /\ LET chunk == chunk_size(length)
     IN  IF buffer = 0 THEN Return(EFAULT) /\ UNCHANGED call
         ELSE IF \E a \in Cells(buffer, chunk) : ~MayRead(a) THEN PageFault
         ELSE /\ temp' = [i \in 1 .. chunk |-> user[buffer + i - 1]]
              /\ sent' = 0
              /\ phase' = "put"
              /\ UNCHANGED <<call, buffer, length, total, a0>>
  /\ UNCHANGED <<user, rhr, tx, screen>>

(* uart_puts of a one-character string: a NUL ends the string at once.     *)
uart_puts(out, c) == IF c = "nul" THEN out ELSE Append(out, c)

(* One round of syscall_write's inner loop, and of the outer one after it. *)
PutByte ==
  /\ phase = "put"
  /\ tx' = uart_puts(tx, temp[sent + 1])
  /\ LET chunk == Len(temp)
     IN  IF sent + 1 < chunk
         THEN /\ sent' = sent + 1
              /\ UNCHANGED <<phase, call, buffer, length, total, temp, a0>>
         ELSE IF left_after(length, chunk) > 0
         THEN /\ phase' = "copyin"
              /\ buffer' = buffer + chunk
              /\ length' = left_after(length, chunk)
              /\ total' = total + chunk
              /\ temp' = << >> /\ sent' = 0
              /\ UNCHANGED <<call, a0>>
         ELSE Return(total + chunk) /\ UNCHANGED call
  /\ UNCHANGED <<user, rhr, screen>>

(* Mutant: Enter is kept as it comes.                                      *)
normalized_raw(c) == c
normalized(c) == IF c = "cr" THEN "nl" ELSE c

(* One round of syscall_read's loop.                                       *)
GetChar ==
  /\ phase = "getc"
  /\ rhr # Empty
  /\ rhr' = Empty
  /\ LET c == normalized(rhr)
     IN  IF c = "bs"
         THEN /\ temp' = SubSeq(temp, 1, Len(temp) - 1)
              /\ screen' = IF temp = << >> THEN screen
                           ELSE Erased(screen)
              /\ UNCHANGED phase
         ELSE /\ temp' = Append(temp, c)
              /\ screen' = Display(screen, c)
              /\ phase' = IF c = "nl" \/ Len(temp') = length THEN "copyout" ELSE "getc"
  /\ total' = Len(temp')
  /\ UNCHANGED <<call, buffer, length, sent, a0, user, tx>>

(* Mutant: the newline is not delivered.                                   *)
copied_short == total - 1
copied == total

(* copy_to_user of the line.  The bytes before a cell that faults have     *)
(* been stored.                                                            *)
CopyToUser ==
  /\ phase = "copyout"
  /\ IF buffer = 0 THEN Return(EFAULT) /\ UNCHANGED <<call, user>>
     ELSE /\ user' = [a \in Address |->
                        IF a \in Cells(buffer, copied) /\ \A b \in buffer .. a : MayWrite(b)
                        THEN temp[a - buffer + 1] ELSE user[a]]
          /\ IF \E a \in Cells(buffer, copied) : ~MayWrite(a) THEN PageFault
             ELSE Return(total) /\ UNCHANGED call
  /\ UNCHANGED <<rhr, tx, screen>>

Kernel == CopyFromUser \/ PutByte \/ GetChar \/ CopyToUser

Next ==
  \/ \E c \in Calls : Ecall(c)
  \/ \E key \in Keys : Type(key)
  \/ Kernel

(* The hart keeps executing, and whoever waits for a line to be accepted   *)
(* presses Enter again.                                                    *)
Fairness == WF_vars(Kernel) /\ SF_vars(Type("cr"))

Spec == Init /\ [][Next]_vars /\ Fairness

-----------------------------------------------------------------------------
(* Properties.                                                             *)

TypeOK ==
  /\ phase \in {"user", "copyin", "put", "getc", "copyout", "idle", "panic"}
  /\ call \in Calls \cup {NoCall}
  /\ DOMAIN user = Address
  /\ Len(temp) <= TempSize /\ sent \in 0 .. TempSize
  /\ total \in Nat /\ length \in 0 .. call.len

(* Which of the first n bytes of the user's buffer a NUL does not hide.    *)
Shown(n) == {i \in 1 .. n : user[call.buf + i - 1] # "nul"}

(* The output is these bytes in order: one that is the k-th of them, counted *)
(* from the start of the buffer, comes out as the k-th character.          *)
Prints(out, n) ==
  /\ Len(out) = Cardinality(Shown(n))
  /\ \A i \in Shown(n) : out[Cardinality(Shown(i))] = user[call.buf + i - 1]

(* write puts out the user's bytes in order, none twice and none skipped   *)
(* between two chunks, and reports all of them.  If it reports an error it *)
(* has put out nothing: it finds a bad descriptor or a null pointer before *)
(* the first byte.                                                         *)
WriteInOrder ==
  /\ TypeOK
  /\ call.nr = "write" =>
       /\ phase \in {"copyin", "put"} => Prints(tx, total + sent)
       /\ phase = "user" /\ a0 >= 0 => a0 = call.len /\ Prints(tx, a0)
  /\ phase = "user" /\ a0 < 0 => tx = << >>

(* What the person at the terminal sees is the kernel's line, whatever was *)
(* typed and erased; the prompt before it is never erased.                 *)
ScreenShowsLine ==
  phase = "getc" =>
    /\ SubSeq(screen.cells, 1, screen.cursor) = <<Prompt>> \o temp
    /\ \A i \in screen.cursor + 1 .. Len(screen.cells) : screen.cells[i] = "sp"

(* What was on the screen when Enter was pressed, or the line was full, is *)
(* what the program finds in its buffer, and a0 is its length.             *)
ReadDelivers ==
  (phase = "user" /\ call.nr = "read" /\ a0 > 0) =>
    /\ a0 <= call.len /\ a0 <= TempSize
    /\ <<Prompt>> \o [i \in 1 .. a0 |-> user[call.buf + i - 1]]
         = SubSeq(screen.cells, 1, screen.cursor)
    /\ a0 < Least(call.len, TempSize) => user[call.buf + a0 - 1] = "nl"

(* The kernel changes user memory only in the buffer of a read, and only   *)
(* where the program itself could have.                                    *)
OnlyBufferWritten ==
  [][\A a \in Address : user'[a] # user[a] =>
       /\ phase = "copyout" /\ a \in Cells(call.buf, call.len)
       /\ Perm[a] = "rw"]_vars

(* write returns to the user when the buffer is mapped, however many       *)
(* chunks it takes.                                                        *)
WriteEnds ==
  phase = "copyin" /\ (\A a \in Cells(call.buf, call.len) : MayRead(a))
    ~> phase = "user"

(* read returns to the user when the buffer is writable and Enter is       *)
(* pressed often enough, whatever else is typed and erased.                *)
ReadEnds ==
  phase = "getc" /\ (\A a \in Cells(call.buf, call.len) : MayWrite(a))
    ~> phase = "user"

(* Syscall ABI: bad user pointers return -EFAULT.                          *)
BadPointersReturnEfault == phase # "panic"

(* Syscall ABI: write returns the number of bytes written.                 *)
ReturnsBytesWritten ==
  phase = "user" /\ call.nr = "write" /\ a0 > 0 => Len(tx) = a0
=============================================================================
