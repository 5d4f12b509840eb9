-------------------------- MODULE Syscall_proofs --------------------------
(***************************************************************************)
(* The console's system calls, for every temp buffer, user memory, call    *)
(* and sequence of keys: what write puts out, what read shows, delivers    *)
(* and touches.                                                            *)
(*                                                                         *)
(* The invariant has a part for each place the kernel can be in.  A write  *)
(* keeps buffer, length and total in step with the call's arguments, so    *)
(* the byte at hand is always the next one of the user's buffer.  A read   *)
(* keeps the cells before the cursor equal to the line in temp.            *)
(***************************************************************************)
EXTENDS Syscall, FiniteSetTheorems, TLAPS

Char == Keys \cup {"nl", "sp", Prompt} \cup {Program[a] : a \in Address}

Line == [cells : Seq(Char), cursor : Nat]

Typed ==
  /\ phase \in {"user", "copyin", "put", "getc", "copyout", "idle", "panic"}
  /\ call \in Calls \cup {NoCall}
  /\ buffer \in Nat /\ length \in 0 .. call.len /\ total \in Nat
  /\ temp \in Seq(Char) /\ Len(temp) <= TempSize /\ sent \in 0 .. TempSize
  /\ a0 \in Int
  /\ DOMAIN user = Address /\ \A a \in Address : user[a] \in Char
  /\ rhr \in Char \cup {Empty}
  /\ tx \in Seq(Char)
  /\ screen \in Line

(* A write has put out what precedes the byte at hand.                     *)
Writing ==
  phase \in {"copyin", "put"} =>
    /\ call.nr = "write"
    /\ buffer = call.buf + total /\ length >= 1 /\ total + length = call.len
    /\ Prints(tx, total + sent)

Holding ==
  /\ phase = "copyin" => sent = 0
  /\ phase = "put" =>
       /\ Len(temp) = chunk_size(length) /\ sent < Len(temp)
       /\ \A i \in 1 .. Len(temp) : temp[i] = user[buffer + i - 1]

Wrote ==
  phase = "user" =>
    /\ a0 < 0 => tx = << >>
    /\ call.nr = "write" /\ a0 >= 0 => a0 = call.len /\ Prints(tx, a0)

(* The line is on the screen, up to the cursor.                            *)
Visible(line) ==
  /\ screen.cursor = Len(line) + 1 /\ screen.cursor <= Len(screen.cells)
  /\ screen.cells[1] = Prompt
  /\ \A i \in 1 .. Len(line) : screen.cells[i + 1] = line[i]

Blank == \A i \in screen.cursor + 1 .. Len(screen.cells) : screen.cells[i] = "sp"

Reading ==
  phase \in {"getc", "copyout"} =>
    /\ call.nr = "read" /\ tx = << >>
    /\ buffer = call.buf /\ length = read_limit(call.len)
    /\ total = Len(temp) /\ Visible(temp)

Editing ==
  /\ phase = "getc" => Len(temp) < length /\ Blank
  /\ phase = "copyout" =>
       /\ 1 <= total /\ total <= length
       /\ total < length => temp[total] = "nl"

IInv ==
  Typed /\ Writing /\ Holding /\ Wrote /\ Reading /\ Editing /\ ReadDelivers

-----------------------------------------------------------------------------
LEMMA CallType ==
  ASSUME Typed
  PROVE  call.len \in Nat /\ call.buf \in Nat
  BY SyscallAssumption DEF Typed, NoCall

LEMMA LeastType ==
  ASSUME NEW n \in Nat
  PROVE  /\ Least(n, TempSize) \in 0 .. TempSize /\ Least(n, TempSize) <= n
         /\ n >= 1 => Least(n, TempSize) >= 1
  BY SyscallAssumption DEF Least

(* One more byte is shown unless it is a NUL.                              *)
LEMMA ShownGrows ==
  ASSUME Typed
  PROVE
  /\ Shown(0) = {} /\ Cardinality(Shown(0)) = 0
  /\ \A n \in Nat :
       /\ IsFiniteSet(Shown(n)) /\ Cardinality(Shown(n)) \in Nat
       /\ Shown(n + 1) = IF user[call.buf + n] = "nul" THEN Shown(n)
                         ELSE Shown(n) \cup {n + 1}
       /\ Cardinality(Shown(n + 1)) =
            IF user[call.buf + n] = "nul" THEN Cardinality(Shown(n))
            ELSE Cardinality(Shown(n)) + 1
       /\ \A i \in Shown(n) : i \in 1 .. n
<1>1. Shown(0) = {}  BY DEF Shown
<1>2. Cardinality(Shown(0)) = 0  BY <1>1, FS_EmptySet
<1>3. ASSUME NEW n \in Nat
      PROVE  /\ IsFiniteSet(Shown(n)) /\ Cardinality(Shown(n)) \in Nat
             /\ Shown(n + 1) = IF user[call.buf + n] = "nul" THEN Shown(n)
                               ELSE Shown(n) \cup {n + 1}
             /\ Cardinality(Shown(n + 1)) =
                  IF user[call.buf + n] = "nul" THEN Cardinality(Shown(n))
                  ELSE Cardinality(Shown(n)) + 1
             /\ \A i \in Shown(n) : i \in 1 .. n
  <2>1. IsFiniteSet(1 .. n)  BY FS_Interval
  <2>2. Shown(n) \subseteq 1 .. n  BY DEF Shown
  <2>3. IsFiniteSet(Shown(n))  BY <2>1, <2>2, FS_Subset
  <2>4. Cardinality(Shown(n)) \in Nat  BY <2>3, FS_CardinalityType
  <2>5. user[call.buf + (n + 1) - 1] = user[call.buf + n]
    BY CallType
  <2>6. Shown(n + 1) = IF user[call.buf + n] = "nul" THEN Shown(n)
                       ELSE Shown(n) \cup {n + 1}
    BY <2>5 DEF Shown
  <2>7. n + 1 \notin Shown(n)  BY <2>2
  <2>8. Cardinality(Shown(n) \cup {n + 1}) = Cardinality(Shown(n)) + 1
    BY <2>3, <2>7, FS_AddElement
  <2> QED  BY <2>2, <2>3, <2>4, <2>6, <2>8
<1> QED  BY <1>1, <1>2, <1>3

(* The console puts out one more character of the buffer.                  *)
LEMMA PrintsGrows ==
  ASSUME Typed, NEW n \in Nat, Prints(tx, n), user[call.buf + n] \in Char
  PROVE  LET out == uart_puts(tx, user[call.buf + n])
         IN  out \in Seq(Char) /\ Prints(out, n + 1)
<1> DEFINE c == user[call.buf + n]
           out == uart_puts(tx, c)
<1>1. tx \in Seq(Char) /\ c \in Char /\ call.buf \in Nat  BY CallType DEF Typed
<1>2. /\ Len(tx) = Cardinality(Shown(n)) /\ Cardinality(Shown(n)) \in Nat
      /\ \A i \in Shown(n) : tx[Cardinality(Shown(i))] = user[call.buf + i - 1]
  BY ShownGrows DEF Prints
<1>3. CASE c = "nul"
  <2>1. out = tx /\ Shown(n + 1) = Shown(n)  BY <1>3, ShownGrows DEF uart_puts
  <2> QED  BY <1>1, <1>2, <2>1 DEF Prints
<1>4. CASE c # "nul"
  <2>1. /\ out = Append(tx, c) /\ Shown(n + 1) = Shown(n) \cup {n + 1}
        /\ Cardinality(Shown(n + 1)) = Cardinality(Shown(n)) + 1
    BY <1>4, ShownGrows DEF uart_puts
  <2> HIDE DEF out
  <2>2. /\ out \in Seq(Char) /\ Len(out) = Cardinality(Shown(n + 1))
        /\ out[Cardinality(Shown(n + 1))] = c
        /\ \A k \in 1 .. Len(tx) : out[k] = tx[k]
    BY <1>1, <1>2, <2>1
  <2>3. c = user[call.buf + (n + 1) - 1]
    BY <1>1
  <2>4. ASSUME NEW i \in Shown(n)
        PROVE  Cardinality(Shown(i)) \in 1 .. Len(tx)
    <3>1. i \in 1 .. n /\ i \in Nat  BY <2>4 DEF Shown
    <3>2. i - 1 \in Nat /\ i = (i - 1) + 1 /\ i \in Shown(i)
      BY <2>4, <3>1 DEF Shown
    <3>3. IsFiniteSet(Shown(i)) /\ IsFiniteSet(Shown(n))
      BY <3>1, ShownGrows
    <3>4. Shown(i) \subseteq Shown(n)  BY <3>1 DEF Shown
    <3>5. Cardinality(Shown(i)) <= Cardinality(Shown(n))
      BY <3>3, <3>4, FS_Subset
    <3>6. Cardinality(Shown(i)) # 0
      BY <3>2, <3>3, FS_EmptySet
    <3>7. Cardinality(Shown(i)) \in Nat  BY <3>1, ShownGrows
    <3> QED  BY <1>2, <3>5, <3>6, <3>7
  <2> HIDE DEF c
  <2>5. \A i \in Shown(n + 1) : out[Cardinality(Shown(i))] = user[call.buf + i - 1]
    BY <1>2, <2>1, <2>2, <2>3, <2>4
  <2> QED  BY <2>2, <2>5 DEF Prints, out, c
<1> QED  BY <1>3, <1>4

-----------------------------------------------------------------------------
(* The kernel does nothing yet.                                            *)
LEMMA InitHolds == Init => IInv
<1> SUFFICES ASSUME Init PROVE IInv  OBVIOUS
<1>1. BlankLine \in Line  BY DEF BlankLine, Line, Char
<1>2. Typed  BY <1>1, SyscallAssumption DEF Init, Typed, NoCall, Char
<1>3. phase = "user" /\ a0 = 0 /\ call.nr = "none"  BY DEF Init, NoCall
<1> QED  BY <1>2, <1>3 DEF IInv, Writing, Holding, Wrote, Reading, Editing, ReadDelivers

(* A key touches the receive register alone.                               *)
LEMMA TypeKeeps ==
  ASSUME IInv, NEW key \in Keys, Type(key)
  PROVE  IInv'
<1>1. \A n \in Int : Shown(n)' = Shown(n)  BY DEF Shown, Type, locals
<1>2. /\ UNCHANGED <<phase, call, buffer, length, total, temp, sent, a0, user, tx, screen>>
      /\ rhr' \in Char
  BY DEF Type, locals, Char
<1>3. Typed'  BY <1>2 DEF IInv, Typed
<1>4. (Writing /\ Wrote)'
  BY <1>1, <1>2 DEF IInv, Writing, Wrote, Prints, Shown
<1>5. (Holding /\ Reading /\ Editing /\ ReadDelivers)'
  BY <1>2 DEF IInv, Holding, Reading, Editing, ReadDelivers, Visible, Blank
<1> QED  BY <1>3, <1>4, <1>5 DEF IInv

(* What the dispatch of a call can do.                                     *)
LEMMA EcallOutcome ==
  ASSUME NEW c \in Calls, Ecall(c)
  PROVE  \/ \E v \in {EBADF, 0, ENOSYS} : Return(v) /\ (v = 0 => c.len = 0)
         \/ c.nr = "write" /\ c.len # 0 /\ Begin("copyin", c.len)
         \/ c.nr = "read" /\ c.len # 0 /\ Begin("getc", read_limit(c.len))
         \/ Begin("idle", 0)
<1>1. CASE c.nr = "write"  BY <1>1 DEF Ecall, EBADF, ENOSYS
<1>2. CASE c.nr = "read"  BY <1>2 DEF Ecall, EBADF, ENOSYS
<1>3. CASE c.nr \in {"exit", "exit_group"}  BY <1>3 DEF Ecall
<1>4. CASE c.nr \notin {"write", "read", "exit", "exit_group"}
  BY <1>4 DEF Ecall, EBADF, ENOSYS
<1> QED  BY <1>1, <1>2, <1>3, <1>4

LEMMA EcallKeeps ==
  ASSUME IInv, NEW c \in Calls, Ecall(c)
  PROVE  IInv'
<1> USE DEF IInv
<1>1. c.len \in Nat /\ c.buf \in Nat  BY SyscallAssumption
<1>2. call' = c /\ tx' = << >> /\ screen' = BlankLine /\ user' = user /\ rhr' = rhr
  BY DEF Ecall
<1>3. BlankLine \in Line /\ << >> \in Seq(Char)  BY DEF BlankLine, Line, Char
<1>4. Prints(<< >>, 0)'
  <2>1. Shown(0)' = {}  BY DEF Shown
  <2> QED  BY <2>1, FS_EmptySet DEF Prints
<1>5. ASSUME NEW v \in {EBADF, 0, ENOSYS}, Return(v), v = 0 => c.len = 0
      PROVE  IInv'
  <2>1. Typed'
    BY <1>1, <1>2, <1>3, <1>5, SyscallAssumption DEF Typed, Return, EBADF, ENOSYS
  <2>2. (Writing /\ Holding /\ Reading /\ Editing)'
    BY <1>5 DEF Return, Writing, Holding, Reading, Editing
  <2>3. a0' <= 0 /\ (a0' >= 0 => a0' = 0 /\ call'.len = 0)
    BY <1>2, <1>5 DEF Return, EBADF, ENOSYS
  <2>4. Wrote'
    <3>1. ASSUME a0' >= 0 PROVE a0' = call'.len /\ Prints(tx, a0)'
      BY <1>2, <1>4, <2>3, <3>1 DEF Prints
    <3> QED  BY <1>2, <3>1 DEF Wrote
  <2>5. ReadDelivers'  BY <2>3, <1>5 DEF ReadDelivers, Return, EBADF, ENOSYS
  <2> QED  BY <2>1, <2>2, <2>4, <2>5
<1>6. ASSUME c.nr = "write", c.len # 0, Begin("copyin", c.len)
      PROVE  IInv'
  <2>1. Typed'
    BY <1>1, <1>2, <1>3, <1>6, SyscallAssumption DEF Typed, Begin
  <2>2. phase' = "copyin" /\ total' = 0 /\ sent' = 0 /\ buffer' = c.buf /\ length' = c.len
    BY <1>2, <1>6 DEF Begin
  <2>3. Writing'  BY <1>1, <1>2, <1>4, <1>6, <2>2 DEF Writing, Prints
  <2>4. (Holding /\ Wrote /\ Reading /\ Editing /\ ReadDelivers)'
    BY <2>2 DEF Holding, Wrote, Reading, Editing, ReadDelivers
  <2> QED  BY <2>1, <2>3, <2>4
<1>7. ASSUME c.nr = "read", c.len # 0, Begin("getc", read_limit(c.len))
      PROVE  IInv'
  <2>1. read_limit(c.len) \in 0 .. c.len /\ read_limit(c.len) >= 1
    BY <1>1, <1>7, LeastType DEF read_limit
  <2>2. Typed'
    BY <1>1, <1>2, <1>3, <1>7, <2>1, SyscallAssumption DEF Typed, Begin
  <2>3. /\ phase' = "getc" /\ total' = 0 /\ temp' = << >> /\ buffer' = c.buf
        /\ length' = read_limit(c.len)
    BY <1>2, <1>7 DEF Begin
  <2>4. Reading' /\ Editing'
    BY <1>2, <1>7, <2>1, <2>3 DEF Reading, Editing, Visible, Blank, BlankLine
  <2>5. (Writing /\ Holding /\ Wrote /\ ReadDelivers)'
    BY <2>3 DEF Holding, Wrote, Writing, ReadDelivers
  <2> QED  BY <2>2, <2>4, <2>5
<1>8. ASSUME Begin("idle", 0)
      PROVE  IInv'
  <2>1. Typed'
    BY <1>1, <1>2, <1>3, <1>8, SyscallAssumption DEF Typed, Begin
  <2>2. phase' = "idle"  BY <1>8 DEF Begin
  <2>3. (Writing /\ Holding /\ Wrote /\ Reading /\ Editing /\ ReadDelivers)'
    BY <2>2 DEF Holding, Wrote, Writing, Reading, Editing, ReadDelivers
  <2> QED  BY <2>1, <2>3
<1> QED  BY <1>5, <1>6, <1>7, <1>8, EcallOutcome

-----------------------------------------------------------------------------
(* A page fault in the kernel stops everything.                            *)
LEMMA PageFaultKeeps ==
  ASSUME Typed, PageFault, rhr' = rhr, tx' = tx, screen' = screen,
         DOMAIN user' = Address, \A a \in Address : user'[a] \in Char
  PROVE  IInv'
<1>1. Typed'  BY DEF Typed, PageFault, locals
<1>2. phase' = "panic"  BY DEF PageFault
<1> QED  BY <1>1, <1>2 DEF IInv, Holding, Wrote, Writing, Reading, Editing, ReadDelivers

LEMMA CopyFromUserKeeps == IInv /\ CopyFromUser => IInv'
<1> SUFFICES ASSUME IInv, CopyFromUser PROVE IInv'  OBVIOUS
<1> USE DEF IInv
<1> DEFINE chunk == chunk_size(length)
<1>1. phase = "copyin" /\ UNCHANGED <<user, rhr, tx, screen>>  BY DEF CopyFromUser
<1>2. length \in Nat /\ length >= 1 /\ call.buf \in Nat /\ call.len \in Nat
  BY <1>1, CallType DEF Typed, Writing
<1>3. chunk \in 0 .. TempSize /\ chunk <= length /\ chunk >= 1
  BY <1>2, LeastType DEF chunk_size
<1>4. CASE buffer = 0
  <2>1. Return(EFAULT) /\ call' = call  BY <1>1, <1>4 DEF CopyFromUser
  <2>2. Typed'
    BY <1>1, <1>2, <2>1, SyscallAssumption DEF Typed, Return, EFAULT
  <2>3. tx = << >>
    <3>1. total + sent = 0  BY <1>1, <1>2, <1>4 DEF Writing, Holding, Typed
    <3>2. Prints(tx, 0)  BY <1>1, <3>1 DEF Writing
    <3>3. Len(tx) = 0  BY <3>2, ShownGrows DEF Prints
    <3> QED  BY <3>3 DEF Typed
  <2>4. (Writing /\ Holding /\ Reading /\ Editing)'
    BY <2>1 DEF Return, Writing, Holding, Reading, Editing
  <2>5. (Wrote /\ ReadDelivers)'
    BY <1>1, <2>1, <2>3 DEF Return, EFAULT, Wrote, ReadDelivers
  <2> QED  BY <2>2, <2>4, <2>5
<1>5. CASE buffer # 0 /\ \E a \in Cells(buffer, chunk) : ~MayRead(a)
  <2>1. PageFault  BY <1>1, <1>5 DEF CopyFromUser
  <2> QED  BY <1>1, <2>1, PageFaultKeeps DEF Typed
<1>6. CASE buffer # 0 /\ \A a \in Cells(buffer, chunk) : MayRead(a)
  <2>1. /\ temp' = [i \in 1 .. chunk |-> user[buffer + i - 1]] /\ sent' = 0
        /\ phase' = "put" /\ UNCHANGED <<call, buffer, length, total, a0>>
    BY <1>1, <1>6 DEF CopyFromUser
  <2>2. \A i \in 1 .. chunk : user[buffer + i - 1] \in Char
    <3> SUFFICES ASSUME NEW i \in 1 .. chunk PROVE buffer + i - 1 \in Address
      BY DEF Typed
    <3>1. buffer + i - 1 \in Cells(buffer, chunk)  BY <1>3 DEF Cells, Typed
    <3> QED  BY <1>6, <3>1 DEF MayRead
  <2> HIDE DEF chunk
  <2>3. /\ temp' \in Seq(Char) /\ Len(temp') = chunk
        /\ \A i \in 1 .. chunk : temp'[i] = user[buffer + i - 1]
    BY <1>3, <2>1, <2>2
  <2>4. Typed'
    BY <1>1, <1>3, <2>1, <2>3, SyscallAssumption DEF Typed
  <2>5. \A n \in Int : Shown(n)' = Shown(n)  BY <1>1, <2>1 DEF Shown
  <2>6. total' + sent' = total + sent  BY <1>1, <2>1 DEF Typed, Holding
  <2>7. Writing'
    BY <1>1, <2>1, <2>5, <2>6 DEF Writing, Prints, Shown
  <2>8. Holding'
    BY <1>1, <1>3, <2>1, <2>3 DEF Holding, chunk
  <2>9. (Wrote /\ Reading /\ Editing /\ ReadDelivers)'
    BY <2>1 DEF Wrote, Reading, Editing, ReadDelivers
  <2> QED  BY <2>4, <2>7, <2>8, <2>9
<1> QED  BY <1>4, <1>5, <1>6

LEMMA PutByteKeeps == IInv /\ PutByte => IInv'
<1> SUFFICES ASSUME IInv, PutByte PROVE IInv'  OBVIOUS
<1> USE DEF IInv
<1> DEFINE chunk == Len(temp)
           n == total + sent
<1>1. /\ phase = "put" /\ UNCHANGED <<call, user, rhr, screen>>
      /\ tx' = uart_puts(tx, temp[sent + 1])
  BY DEF PutByte, Return
<1>2. /\ length \in Nat /\ length >= 1 /\ call.buf \in Nat /\ call.len \in Nat
      /\ buffer \in Nat /\ total \in Nat /\ sent \in Nat
  BY <1>1, CallType DEF Typed, Writing
<1>3. /\ chunk = chunk_size(length) /\ chunk \in 0 .. TempSize /\ chunk <= length
      /\ sent < chunk
  BY <1>1, <1>2, LeastType DEF Holding, chunk_size
<1>4. temp[sent + 1] = user[call.buf + n] /\ temp[sent + 1] \in Char
  <2>1. sent + 1 \in 1 .. Len(temp)  BY <1>2, <1>3
  <2>2. temp[sent + 1] = user[buffer + (sent + 1) - 1]  BY <1>1, <2>1 DEF Holding
  <2>3. buffer + (sent + 1) - 1 = call.buf + n  BY <1>1, <1>2 DEF Writing
  <2> QED  BY <2>1, <2>2, <2>3 DEF Typed
<1>5. n \in Nat /\ Prints(tx, n)  BY <1>1, <1>2 DEF Writing
<1>6. tx' \in Seq(Char) /\ Prints(tx', n + 1)
  BY <1>1, <1>4, <1>5, PrintsGrows
<1>7. ASSUME NEW k \in Int, k = n + 1 PROVE Prints(tx, k)'
  <2>1. \A i \in Int : Shown(i)' = Shown(i)  BY <1>1 DEF Shown
  <2>2. Prints(tx', k)  BY <1>6, <1>7
  <2> QED  BY <1>1, <2>1, <2>2 DEF Prints, Shown
<1>8. /\ left_after(length, chunk) = length - chunk /\ total + length = call.len
      /\ buffer = call.buf + total /\ call.nr = "write"
  BY <1>1 DEF Writing, left_after
<1>9. CASE sent + 1 < chunk
  <2>1. sent' = sent + 1 /\ UNCHANGED <<phase, call, buffer, length, total, temp, a0>>
    BY <1>9 DEF PutByte
  <2>2. Typed'
    BY <1>1, <1>2, <1>3, <1>6, <1>9, <2>1, SyscallAssumption DEF Typed
  <2>3. total' + sent' = n + 1 /\ total' + sent' \in Int  BY <1>2, <2>1
  <2>4. Prints(tx, total + sent)'  BY <1>7, <2>3 DEF Prints
  <2>5. Writing'  BY <1>1, <1>2, <1>8, <2>1, <2>4 DEF Writing
  <2>6. Holding'  BY <1>1, <1>9, <2>1 DEF Holding
  <2>7. (Wrote /\ Reading /\ Editing /\ ReadDelivers)'
    BY <1>1, <2>1 DEF Wrote, Reading, Editing, ReadDelivers
  <2> QED  BY <2>2, <2>5, <2>6, <2>7
<1>10. CASE sent + 1 = chunk /\ length - chunk > 0
  <2>1. /\ phase' = "copyin" /\ buffer' = buffer + chunk /\ length' = length - chunk
        /\ total' = total + chunk /\ temp' = << >> /\ sent' = 0 /\ a0' = a0
    BY <1>8, <1>10 DEF PutByte
  <2>2. chunk \in Nat /\ chunk <= length  BY <1>3
  <2> HIDE DEF chunk
  <2>3. /\ length' \in Nat /\ length' >= 1 /\ length' <= call'.len /\ buffer' \in Nat
        /\ total' \in Nat /\ total' + length' = call'.len
        /\ buffer' = call'.buf + total'
    BY <1>1, <1>2, <1>8, <1>10, <2>1, <2>2
  <2>4. Typed'
    BY <1>1, <1>6, <2>1, <2>3, SyscallAssumption DEF Typed
  <2>5. total' + sent' = n + 1 /\ total' + sent' \in Int  BY <1>2, <1>10, <2>1
  <2>6. Prints(tx, total + sent)'  BY <1>7, <2>5 DEF Prints
  <2>7. Writing'  BY <1>1, <1>8, <2>3, <2>6 DEF Writing
  <2>8. (Holding /\ Wrote /\ Reading /\ Editing /\ ReadDelivers)'
    BY <2>1 DEF Holding, Wrote, Reading, Editing, ReadDelivers
  <2> QED  BY <2>4, <2>7, <2>8
<1>11. CASE sent + 1 = chunk /\ length - chunk = 0
  <2>1. Return(total + chunk)
    BY <1>8, <1>11 DEF PutByte
  <2>2. total + chunk = call.len /\ total + chunk = n + 1
    BY <1>2, <1>8, <1>11
  <2>3. Typed'
    BY <1>1, <1>2, <1>6, <2>1, <2>2, SyscallAssumption DEF Typed, Return
  <2>4. a0' = call'.len /\ a0' = n + 1 /\ a0' \in Int /\ ~(a0' < 0)
    BY <1>1, <1>2, <2>1, <2>2 DEF Return
  <2>5. Prints(tx, a0)'  BY <1>7, <2>4 DEF Prints
  <2>6. Wrote'  BY <2>4, <2>5 DEF Wrote
  <2>7. (Writing /\ Holding /\ Reading /\ Editing /\ ReadDelivers)'
    BY <1>1, <1>8, <2>1 DEF Return, Writing, Holding, Reading, Editing, ReadDelivers
  <2> QED  BY <2>3, <2>6, <2>7
<1> QED  BY <1>2, <1>3, <1>9, <1>10, <1>11

-----------------------------------------------------------------------------
(* Parts and joins of sequences, element by element.                       *)
LEMMA PartOfSequence ==
  ASSUME NEW S, NEW s \in Seq(S), NEW m \in 1 .. Len(s) + 1, NEW n \in m - 1 .. Len(s)
  PROVE  /\ SubSeq(s, m, n) \in Seq(S) /\ Len(SubSeq(s, m, n)) = n - m + 1
         /\ \A i \in 1 .. n - m + 1 : SubSeq(s, m, n)[i] = s[m + i - 1]
  OBVIOUS

LEMMA JoinedSequences ==
  ASSUME NEW S, NEW s \in Seq(S), NEW t \in Seq(S)
  PROVE  /\ s \o t \in Seq(S) /\ Len(s \o t) = Len(s) + Len(t)
         /\ \A i \in 1 .. Len(s) : (s \o t)[i] = s[i]
         /\ \A i \in 1 .. Len(t) : (s \o t)[Len(s) + i] = t[i]
  OBVIOUS

(* A character goes where the cursor is, and the cursor after it.          *)
LEMMA DisplayPuts ==
  ASSUME NEW s \in Line, NEW c \in Char, c # "bs", s.cursor <= Len(s.cells)
  PROVE  LET d == Display(s, c)
         IN  /\ d \in Line
             /\ d.cursor = s.cursor + 1 /\ d.cursor <= Len(d.cells)
             /\ \A i \in 1 .. s.cursor : d.cells[i] = s.cells[i]
             /\ d.cells[d.cursor] = c
             /\ \A i \in d.cursor + 1 .. Len(d.cells) :
                  i <= Len(s.cells) /\ d.cells[i] = s.cells[i]
             /\ Len(d.cells) >= Len(s.cells)
<1> DEFINE before == SubSeq(s.cells, 1, s.cursor)
           after == SubSeq(s.cells, s.cursor + 2, Len(s.cells))
           start == before \o <<c>>
           cells == start \o after
           d == Display(s, c)
           n == s.cursor
           size == Len(s.cells)
<1>1. s.cells \in Seq(Char) /\ n \in Nat /\ size \in Nat /\ n <= size  BY DEF Line
<1>2. /\ before \in Seq(Char) /\ Len(before) = n
      /\ \A i \in 1 .. n : before[i] = s.cells[i]
  BY <1>1, PartOfSequence
<1>3. /\ start \in Seq(Char) /\ Len(start) = n + 1 /\ start[n + 1] = c
      /\ \A i \in 1 .. n : start[i] = s.cells[i]
  BY <1>1, <1>2
<1>4. d = [cells |-> cells, cursor |-> n + 1]  BY DEF Display
<1> DEFINE rest == Len(after)
<1>5. /\ after \in Seq(Char) /\ rest \in Nat
      /\ rest = (IF n + 2 <= size THEN size - (n + 1) ELSE 0)
      /\ \A i \in 1 .. rest : after[i] = s.cells[n + 1 + i]
  <2>1. CASE n + 2 <= size
    <3>1. n + 2 \in 1 .. size + 1 /\ size \in (n + 2) - 1 .. size  BY <1>1, <2>1
    <3>2. /\ after \in Seq(Char) /\ rest = size - (n + 2) + 1
          /\ \A i \in 1 .. size - (n + 2) + 1 : after[i] = s.cells[(n + 2) + i - 1]
      BY <1>1, <3>1, PartOfSequence
    <3>3. size - (n + 2) + 1 = size - (n + 1) /\ size - (n + 1) \in Nat  BY <1>1, <2>1
    <3> HIDE DEF after, n, size
    <3>4. ASSUME NEW i \in 1 .. rest  PROVE after[i] = s.cells[n + 1 + i]
      <4>1. (n + 2) + i - 1 = n + 1 + i  BY <1>1, <3>2, <3>3
      <4> QED  BY <3>2, <4>1
    <3> QED  BY <2>1, <3>2, <3>3, <3>4
  <2>2. CASE ~(n + 2 <= size)
    <3>1. after = << >>  BY <1>1, <2>2
    <3> HIDE DEF after, n, size
    <3> QED  BY <2>2, <3>1
  <2> QED  BY <2>1, <2>2
<1> HIDE DEF before, after, start, n, size, rest
<1>6. /\ cells \in Seq(Char) /\ Len(cells) = n + 1 + rest
      /\ \A i \in 1 .. n + 1 : cells[i] = start[i]
      /\ \A i \in 1 .. rest : cells[n + 1 + i] = after[i]
  <2>1. /\ cells \in Seq(Char) /\ Len(cells) = Len(start) + rest
        /\ \A i \in 1 .. Len(start) : cells[i] = start[i]
        /\ \A i \in 1 .. rest : cells[Len(start) + i] = after[i]
    <3>1. start \in Seq(Char) /\ after \in Seq(Char)  BY <1>3, <1>5
    <3> HIDE DEF cells
    <3> QED  BY <3>1, JoinedSequences DEF rest, cells
  <2> HIDE DEF cells
  <2> QED  BY <1>3, <2>1
<1> HIDE DEF cells
<1>7. d \in Line /\ d.cells = cells /\ d.cursor = n + 1
  BY <1>1, <1>4, <1>6 DEF Line
<1> HIDE DEF d
<1>8. ASSUME NEW i \in n + 2 .. Len(cells)
      PROVE  i <= size /\ cells[i] = s.cells[i]
  <2> DEFINE k == i - (n + 1)
  <2>1. k \in 1 .. rest /\ n + 1 + k = i
    BY <1>1, <1>5, <1>6
  <2> HIDE DEF k
  <2>2. cells[n + 1 + k] = after[k] /\ after[k] = s.cells[n + 1 + k]
    BY <1>5, <1>6, <2>1
  <2> QED  BY <1>1, <1>5, <2>1, <2>2
<1>9. d.cursor <= Len(d.cells) /\ Len(d.cells) >= size
  BY <1>1, <1>5, <1>6, <1>7
<1>10. \A i \in 1 .. n : d.cells[i] = s.cells[i]
  BY <1>1, <1>3, <1>6, <1>7
<1>11. d.cells[d.cursor] = c
  BY <1>1, <1>3, <1>6, <1>7
<1>12. \A i \in d.cursor + 1 .. Len(d.cells) : i <= size /\ d.cells[i] = s.cells[i]
  <2>1. d.cursor + 1 = n + 2  BY <1>1, <1>7
  <2> QED  BY <1>7, <1>8, <2>1
<1> QED  BY <1>7, <1>9, <1>10, <1>11, <1>12 DEF d, n, size

(* Erasing takes the last character off the screen and off nothing else.   *)
LEMMA ErasedTakesOne ==
  ASSUME NEW s \in Line, s.cursor >= 1, s.cursor <= Len(s.cells),
         \A i \in s.cursor + 1 .. Len(s.cells) : s.cells[i] = "sp"
  PROVE  LET e == Erased(s)
         IN  /\ e \in Line
             /\ e.cursor = s.cursor - 1 /\ e.cursor <= Len(e.cells)
             /\ \A i \in 1 .. e.cursor : e.cells[i] = s.cells[i]
             /\ \A i \in e.cursor + 1 .. Len(e.cells) : e.cells[i] = "sp"
<1> DEFINE back == Display(s, "bs")
           spaced == Display(back, "sp")
<1>1. s.cells \in Seq(Char) /\ s.cursor \in Nat /\ Len(s.cells) \in Nat  BY DEF Line
<1>2. back = [s EXCEPT !.cursor = s.cursor - 1]  BY <1>1 DEF Display
<1>3. /\ back \in Line /\ back.cells = s.cells /\ back.cursor = s.cursor - 1
      /\ back.cursor <= Len(back.cells)
  BY <1>1, <1>2 DEF Line
<1>4. "sp" \in Char /\ "sp" # "bs"  BY DEF Char
<1> HIDE DEF back
<1>5. /\ spaced \in Line
      /\ spaced.cursor = s.cursor /\ spaced.cursor <= Len(spaced.cells)
      /\ \A i \in 1 .. s.cursor - 1 : spaced.cells[i] = s.cells[i]
      /\ spaced.cells[s.cursor] = "sp"
      /\ \A i \in s.cursor + 1 .. Len(spaced.cells) :
           i <= Len(s.cells) /\ spaced.cells[i] = s.cells[i]
  <2>1. /\ spaced \in Line
        /\ spaced.cursor = back.cursor + 1 /\ spaced.cursor <= Len(spaced.cells)
        /\ \A i \in 1 .. back.cursor : spaced.cells[i] = back.cells[i]
        /\ spaced.cells[spaced.cursor] = "sp"
        /\ \A i \in spaced.cursor + 1 .. Len(spaced.cells) :
             i <= Len(back.cells) /\ spaced.cells[i] = back.cells[i]
    <3> HIDE DEF Line
    <3> QED  BY <1>3, <1>4, DisplayPuts
  <2>2. back.cursor = s.cursor - 1 /\ spaced.cursor = s.cursor
    BY <1>1, <1>3, <2>1
  <2> QED  BY <1>3, <2>1, <2>2
<1> HIDE DEF spaced
<1>6. spaced.cells \in Seq(Char) /\ Len(spaced.cells) \in Nat  BY <1>5 DEF Line
<1>7. Erased(s) = [spaced EXCEPT !.cursor = s.cursor - 1]
  <2>1. Erased(s) = Display(spaced, "bs")  BY DEF Erased, back, spaced
  <2>2. Display(spaced, "bs") = [spaced EXCEPT !.cursor =
                                   IF spaced.cursor > 0 THEN spaced.cursor - 1 ELSE 0]
    BY DEF Display
  <2> QED  BY <1>1, <1>5, <2>1, <2>2
<1>8. /\ Erased(s) \in Line /\ Erased(s).cells = spaced.cells
      /\ Erased(s).cursor = s.cursor - 1
  BY <1>1, <1>5, <1>7 DEF Line
<1>9. \A i \in s.cursor .. Len(spaced.cells) : spaced.cells[i] = "sp"
  BY <1>1, <1>5, <1>6
<1> QED  BY <1>1, <1>5, <1>6, <1>8, <1>9

LEMMA GetCharKeeps == IInv /\ GetChar => IInv'
<1> SUFFICES ASSUME IInv, GetChar PROVE IInv'  OBVIOUS
<1> USE DEF IInv
<1> DEFINE c == normalized(rhr)
<1>1. /\ phase = "getc" /\ rhr' = Empty /\ total' = Len(temp')
      /\ UNCHANGED <<call, buffer, length, sent, a0, user, tx>>
      /\ c \in Char
  BY DEF GetChar, Typed, normalized, Char
<1>2. /\ call.nr = "read" /\ tx = << >> /\ buffer = call.buf
      /\ length = read_limit(call.len) /\ total = Len(temp) /\ Visible(temp)
      /\ Len(temp) < length /\ Blank
  BY <1>1 DEF Reading, Editing
<1>3. call.len \in Nat /\ length \in 0 .. TempSize /\ length <= call.len
  BY <1>2, CallType, LeastType DEF read_limit
<1>4. /\ screen \in Line /\ temp \in Seq(Char) /\ screen.cursor = Len(temp) + 1
      /\ screen.cursor <= Len(screen.cells) /\ Len(temp) \in Nat
      /\ screen.cells \in Seq(Char) /\ screen.cells[1] = Prompt
      /\ \A i \in 1 .. Len(temp) : screen.cells[i + 1] = temp[i]
      /\ \A i \in screen.cursor + 1 .. Len(screen.cells) : screen.cells[i] = "sp"
      /\ TempSize \in Nat
  BY <1>2, SyscallAssumption DEF Typed, Visible, Line, Blank
<1>5. Len(temp) \in Nat /\ Len(temp) + 1 <= TempSize /\ TempSize \in Nat
  BY <1>2, <1>3, <1>4
<1> HIDE DEF c
<1>6. CASE c = "bs" /\ temp = << >>
  <2>1. temp' = << >> /\ screen' = screen /\ phase' = phase
    BY <1>4, <1>6 DEF GetChar, c
  <2>2. Typed'  BY <1>1, <2>1, <1>6 DEF Typed
  <2>3. Visible(temp)' /\ Blank'  BY <1>2, <1>6, <2>1 DEF Visible, Blank
  <2>4. Reading' /\ Editing'  BY <1>1, <1>2, <1>6, <2>1, <2>3 DEF Reading, Editing
  <2>5. (Writing /\ Holding /\ Wrote /\ ReadDelivers)'
    BY <1>1, <2>1 DEF Writing, Holding, Wrote, ReadDelivers
  <2> QED  BY <2>2, <2>4, <2>5
<1>7. CASE c = "bs" /\ temp # << >>
  <2>1. /\ temp' = SubSeq(temp, 1, Len(temp) - 1) /\ screen' = Erased(screen)
        /\ phase' = phase
    BY <1>7 DEF GetChar, c
  <2>2. Len(temp) >= 1  BY <1>4, <1>7
  <2>3. /\ temp' \in Seq(Char) /\ Len(temp') = Len(temp) - 1
        /\ \A i \in 1 .. Len(temp) - 1 : temp'[i] = temp[i]
    <3>1. /\ 1 \in 1 .. Len(temp) + 1 /\ Len(temp) - 1 \in 1 - 1 .. Len(temp)
          /\ (Len(temp) - 1) - 1 + 1 = Len(temp) - 1
          /\ \A i \in 1 .. Len(temp) - 1 : 1 + i - 1 = i
      BY <1>4, <2>2
    <3> QED  BY <1>4, <2>1, <3>1, PartOfSequence
  <2>4. /\ screen' \in Line
        /\ screen'.cursor = Len(temp) /\ screen'.cursor <= Len(screen'.cells)
        /\ \A i \in 1 .. Len(temp) : screen'.cells[i] = screen.cells[i]
        /\ \A i \in screen'.cursor + 1 .. Len(screen'.cells) : screen'.cells[i] = "sp"
    <3>1. screen.cursor >= 1 /\ screen.cursor - 1 = Len(temp)  BY <1>4
    <3> DEFINE e == Erased(screen)
    <3>2. /\ e \in Line
          /\ e.cursor = screen.cursor - 1 /\ e.cursor <= Len(e.cells)
          /\ \A i \in 1 .. e.cursor : e.cells[i] = screen.cells[i]
          /\ \A i \in e.cursor + 1 .. Len(e.cells) : e.cells[i] = "sp"
      <4>1. /\ screen \in Line /\ screen.cursor >= 1 /\ screen.cursor <= Len(screen.cells)
            /\ \A i \in screen.cursor + 1 .. Len(screen.cells) : screen.cells[i] = "sp"
        BY <1>4, <3>1
      <4> QED  BY <4>1, ErasedTakesOne
    <3> QED  BY <2>1, <3>1, <3>2
  <2>5. Typed'
    <3>1. Len(temp') \in Nat /\ Len(temp') <= TempSize  BY <1>5, <2>2, <2>3
    <3> QED  BY <1>1, <2>1, <2>3, <2>4, <3>1 DEF Typed
  <2>6. Visible(temp)' /\ Blank'
    <3>1. Len(temp) = Len(temp') + 1 /\ Len(temp') \in Nat  BY <1>4, <2>2, <2>3
    <3>2. \A i \in 1 .. Len(temp') : i + 1 \in 1 .. Len(temp) /\ i \in 1 .. Len(temp)
                                       /\ i \in 1 .. Len(temp) - 1
      BY <3>1
    <3>3. screen'.cells[1] = Prompt  BY <1>4, <2>2, <2>4
    <3>4. ASSUME NEW i \in 1 .. Len(temp')
          PROVE  screen'.cells[i + 1] = temp'[i]
      BY <1>4, <2>3, <2>4, <3>2, <3>4
    <3>5. Visible(temp)'  BY <2>4, <3>1, <3>3, <3>4 DEF Visible
    <3>6. Blank'  BY <2>4 DEF Blank
    <3> QED  BY <3>5, <3>6
  <2>7. Reading'  BY <1>1, <1>2, <2>6 DEF Reading
  <2>8. Editing'  BY <1>1, <1>2, <1>3, <1>4, <2>1, <2>3, <2>6 DEF Editing
  <2>9. (Writing /\ Holding /\ Wrote /\ ReadDelivers)'
    BY <1>1, <2>1 DEF Writing, Holding, Wrote, ReadDelivers
  <2> QED  BY <2>5, <2>7, <2>8, <2>9
<1>8. CASE c # "bs"
  <2>1. /\ temp' = Append(temp, c) /\ screen' = Display(screen, c)
        /\ phase' = IF c = "nl" \/ Len(temp') = length THEN "copyout" ELSE "getc"
    BY <1>8 DEF GetChar, c
  <2>2. /\ temp' \in Seq(Char) /\ Len(temp') = Len(temp) + 1 /\ temp'[Len(temp')] = c
        /\ \A i \in 1 .. Len(temp) : temp'[i] = temp[i]
    BY <1>1, <1>4, <2>1
  <2>3. /\ screen' \in Line
        /\ screen'.cursor = screen.cursor + 1 /\ screen'.cursor <= Len(screen'.cells)
        /\ \A i \in 1 .. screen.cursor : screen'.cells[i] = screen.cells[i]
        /\ screen'.cells[screen'.cursor] = c
        /\ \A i \in screen'.cursor + 1 .. Len(screen'.cells) :
             i <= Len(screen.cells) /\ screen'.cells[i] = screen.cells[i]
    BY <1>1, <1>4, <1>8, <2>1, DisplayPuts
  <2>4. Typed'
    <3>1. Len(temp') \in Nat /\ Len(temp') <= TempSize  BY <1>5, <2>2
    <3>2. phase' \in {"copyout", "getc"}  BY <2>1
    <3> QED  BY <1>1, <2>2, <2>3, <3>1, <3>2 DEF Typed
  <2>5. Visible(temp)'
    <3>1. ASSUME NEW i \in 1 .. Len(temp')
          PROVE  screen'.cells[i + 1] = temp'[i]
      <4>1. CASE i = Len(temp')
        <5>1. i + 1 = screen'.cursor  BY <1>4, <2>2, <2>3, <4>1
        <5> QED  BY <2>2, <2>3, <4>1, <5>1
      <4>2. CASE i # Len(temp')
        <5>1. i \in 1 .. Len(temp) /\ i + 1 \in 1 .. screen.cursor  BY <1>4, <2>2, <4>2
        <5> QED  BY <1>4, <2>2, <2>3, <5>1
      <4> QED  BY <4>1, <4>2
    <3>2. 1 \in 1 .. screen.cursor /\ screen'.cursor = Len(temp') + 1
      BY <1>4, <2>2, <2>3
    <3> QED  BY <1>4, <2>3, <3>1, <3>2 DEF Visible
  <2>6. Blank'
    <3>1. Len(screen'.cells) \in Nat  BY <2>3 DEF Line
    <3> QED  BY <1>2, <1>4, <2>3, <3>1 DEF Blank
  <2>7. Reading'  BY <1>1, <1>2, <2>5 DEF Reading
  <2>8. Editing'  BY <1>1, <1>2, <1>3, <1>4, <2>1, <2>2, <2>6 DEF Editing
  <2>9. (Writing /\ Holding /\ Wrote /\ ReadDelivers)'
    BY <1>1, <2>1 DEF Writing, Holding, Wrote, ReadDelivers
  <2> QED  BY <2>4, <2>7, <2>8, <2>9
<1> QED  BY <1>6, <1>7, <1>8

-----------------------------------------------------------------------------
(* What the copy stores, and where.                                        *)
LEMMA CopyToUserStores ==
  ASSUME IInv, CopyToUser, buffer # 0, NEW a \in Address
  PROVE  /\ user'[a] \in Char
         /\ user'[a] # user[a] =>
              a \in Cells(call.buf, call.len) /\ MayWrite(a)
         /\ a \in Cells(buffer, total) /\ (\A b \in buffer .. a : MayWrite(b)) =>
              user'[a] = temp[a - buffer + 1]
<1> USE DEF IInv
<1>1. /\ phase = "copyout" /\ buffer = call.buf /\ total = Len(temp)
      /\ total <= length /\ length \in 0 .. call.len /\ call.len \in Nat
      /\ buffer \in Nat /\ temp \in Seq(Char) /\ a \in Nat
  BY CallType, SyscallAssumption DEF CopyToUser, Reading, Editing, Typed
<1>2. user'[a] = IF a \in Cells(buffer, total) /\ \A b \in buffer .. a : MayWrite(b)
                 THEN temp[a - buffer + 1] ELSE user[a]
  BY DEF CopyToUser, copied
<1>3. CASE a \in Cells(buffer, total) /\ \A b \in buffer .. a : MayWrite(b)
  <2>1. a - buffer + 1 \in 1 .. Len(temp) /\ a \in buffer .. a
    BY <1>1, <1>3 DEF Cells
  <2>2. a \in Cells(call.buf, call.len) /\ MayWrite(a)  BY <1>1, <1>3, <2>1 DEF Cells
  <2> QED  BY <1>1, <1>2, <1>3, <2>1, <2>2
<1>4. CASE ~(a \in Cells(buffer, total) /\ \A b \in buffer .. a : MayWrite(b))
  BY <1>2, <1>4 DEF Typed
<1> QED  BY <1>3, <1>4

LEMMA CopyToUserKeeps == IInv /\ CopyToUser => IInv'
<1> SUFFICES ASSUME IInv, CopyToUser PROVE IInv'  OBVIOUS
<1> USE DEF IInv
<1>1. phase = "copyout" /\ UNCHANGED <<rhr, tx, screen>>  BY DEF CopyToUser
<1>2. /\ call.nr = "read" /\ tx = << >> /\ buffer = call.buf
      /\ length = read_limit(call.len) /\ total = Len(temp) /\ Visible(temp)
      /\ 1 <= total /\ total <= length
      /\ total < length => temp[total] = "nl"
  BY <1>1 DEF Reading, Editing
<1>3. /\ call.len \in Nat /\ length \in 0 .. TempSize /\ length <= call.len
      /\ call.buf \in Nat
  BY <1>2, CallType, LeastType DEF read_limit
<1>4. CASE buffer = 0
  <2>1. Return(EFAULT) /\ call' = call /\ user' = user
    BY <1>4 DEF CopyToUser
  <2>2. Typed'
    BY <1>1, <1>3, <2>1, SyscallAssumption DEF Typed, Return, EFAULT
  <2>3. (Writing /\ Holding /\ Wrote /\ Reading /\ Editing /\ ReadDelivers)'
    BY <1>1, <1>2, <2>1
    DEF Return, EFAULT, Writing, Holding, Wrote, Reading, Editing, ReadDelivers
  <2> QED  BY <2>2, <2>3
<1>5. CASE buffer # 0
  <2>1. DOMAIN user' = Address  BY <1>5 DEF CopyToUser
  <2>2. \A a \in Address : user'[a] \in Char  BY <1>5, CopyToUserStores
  <2>3. CASE \E a \in Cells(buffer, copied) : ~MayWrite(a)
    <3>1. PageFault  BY <1>5, <2>3 DEF CopyToUser
    <3> QED  BY <1>1, <2>1, <2>2, <3>1, PageFaultKeeps
  <2>4. CASE \A a \in Cells(buffer, copied) : MayWrite(a)
    <3>1. Return(total) /\ call' = call  BY <1>5, <2>4 DEF CopyToUser
    <3>2. Typed'
      BY <1>1, <1>3, <2>1, <2>2, <3>1, SyscallAssumption DEF Typed, Return
    <3>3. (Writing /\ Holding /\ Wrote /\ Reading /\ Editing)'
      BY <1>1, <1>2, <3>1 DEF Return, Writing, Holding, Wrote, Reading, Editing
    <3>4. temp \in Seq(Char) /\ total \in Nat /\ screen \in Line
      BY DEF Typed
    <3>5. ASSUME NEW i \in 1 .. total
          PROVE  user'[call.buf + i - 1] = temp[i]
      <4>1. /\ call.buf + i - 1 \in Cells(buffer, total)
            /\ \A b \in buffer .. call.buf + i - 1 : b \in Cells(buffer, total)
        BY <1>2, <1>3, <3>4 DEF Cells
      <4>2. \A b \in buffer .. call.buf + i - 1 : MayWrite(b)
        BY <2>4, <4>1 DEF copied
      <4>3. call.buf + i - 1 \in Address
        BY <2>4, <4>1 DEF copied, MayWrite
      <4>4. (call.buf + i - 1) - buffer + 1 = i  BY <1>2, <1>3
      <4> QED  BY <1>5, <4>1, <4>2, <4>3, <4>4, CopyToUserStores
    <3>6. a0' = total /\ call' = call  BY <3>1 DEF Return
    <3>7. <<Prompt>> \o [i \in 1 .. a0' |-> user'[call'.buf + i - 1]]
            = SubSeq(screen'.cells, 1, screen'.cursor)
      <4> DEFINE left == [i \in 1 .. total |-> user'[call.buf + i - 1]]
                 shown == <<Prompt>> \o left
                 line == SubSeq(screen.cells, 1, screen.cursor)
      <4>1. left \in Seq(Char) /\ Len(left) = total /\ \A i \in 1 .. total : left[i] = temp[i]
        BY <1>2, <3>4, <3>5
      <4> HIDE DEF left
      <4>2. /\ shown \in Seq(Char) /\ Len(shown) = total + 1 /\ shown[1] = Prompt
            /\ \A i \in 1 .. total : shown[i + 1] = temp[i]
        BY <3>4, <4>1 DEF Char
      <4>3. /\ screen.cells \in Seq(Char) /\ screen.cursor = total + 1
            /\ total + 1 <= Len(screen.cells) /\ screen.cells[1] = Prompt
            /\ \A i \in 1 .. total : screen.cells[i + 1] = temp[i]
        BY <1>2, <3>4 DEF Visible, Line
      <4>4. /\ line \in Seq(Char) /\ Len(line) = total + 1
            /\ \A i \in 1 .. total + 1 : line[i] = screen.cells[i]
        BY <3>4, <4>3
      <4> HIDE DEF shown, line
      <4>5. \A i \in 1 .. total + 1 : line[i] = shown[i]
        <5> TAKE i \in 1 .. total + 1
        <5>1. CASE i = 1  BY <3>4, <4>2, <4>3, <4>4, <5>1
        <5>2. CASE i # 1
          <6>1. i - 1 \in 1 .. total /\ (i - 1) + 1 = i  BY <3>4, <5>2
          <6> QED  BY <4>2, <4>3, <4>4, <6>1
        <5> QED  BY <5>1, <5>2
      <4>6. line = shown  BY <4>2, <4>4, <4>5
      <4> QED  BY <1>1, <3>6, <4>6 DEF line, shown, left
    <3>8. a0' <= call'.len /\ a0' <= TempSize
      BY <1>2, <1>3, <3>4, <3>6, SyscallAssumption
    <3>9. a0' < Least(call'.len, TempSize) => user'[call'.buf + a0' - 1] = "nl"
      <4>1. total \in 1 .. total  BY <1>2, <3>4
      <4>2. length = Least(call.len, TempSize)  BY <1>2 DEF read_limit
      <4> QED  BY <1>2, <3>5, <3>6, <4>1, <4>2
    <3> QED  BY <3>2, <3>3, <3>7, <3>8, <3>9 DEF ReadDelivers
  <2> QED  BY <2>3, <2>4
<1> QED  BY <1>4, <1>5

-----------------------------------------------------------------------------
LEMMA NextKeeps == IInv /\ [Next]_vars => IInv'
<1> SUFFICES ASSUME IInv, [Next]_vars PROVE IInv'  OBVIOUS
<1>1. CASE \E c \in Calls : Ecall(c)  BY <1>1, EcallKeeps
<1>2. CASE \E key \in Keys : Type(key)  BY <1>2, TypeKeeps
<1>3. CASE CopyFromUser  BY <1>3, CopyFromUserKeeps
<1>4. CASE PutByte  BY <1>4, PutByteKeeps
<1>5. CASE GetChar  BY <1>5, GetCharKeeps
<1>6. CASE CopyToUser  BY <1>6, CopyToUserKeeps
<1>7. CASE UNCHANGED vars
  <2>1. \A n \in Int : Shown(n)' = Shown(n)  BY <1>7 DEF Shown, vars, locals
  <2>2. (Typed /\ Holding /\ Reading /\ Editing /\ ReadDelivers)'
    BY <1>7 DEF vars, locals, IInv, Typed, Holding, Reading, Editing, ReadDelivers,
                Visible, Blank
  <2>3. (Writing /\ Wrote)'
    BY <1>7, <2>1 DEF vars, locals, IInv, Typed, Writing, Wrote, Prints, Shown
  <2> QED  BY <2>2, <2>3 DEF IInv
<1> QED  BY <1>1, <1>2, <1>3, <1>4, <1>5, <1>6, <1>7 DEF Next, Kernel

LEMMA InvariantHolds == Spec => []IInv
<1> QED  BY InitHolds, NextKeeps, PTL DEF Spec

(* For every length and every size of temp: syscall_write puts the user's  *)
(* bytes out in order, none twice and none skipped between two chunks, and *)
(* an error has put out nothing.                                           *)
THEOREM BytesInOrder == Spec => []WriteInOrder
<1>1. IInv => WriteInOrder
  <2> SUFFICES ASSUME IInv PROVE WriteInOrder  OBVIOUS
  <2>1. TypeOK  BY DEF IInv, Typed, TypeOK
  <2> QED  BY <2>1 DEF IInv, Writing, Wrote, WriteInOrder
<1> QED  BY <1>1, InvariantHolds, PTL

(* Whatever is typed and erased, and however long the line: the screen     *)
(* shows the line that syscall_read holds, and the prompt before it.       *)
THEOREM ScreenIsTheLine == Spec => []ScreenShowsLine
<1>1. ASSUME IInv PROVE ScreenShowsLine
  <2> SUFFICES ASSUME phase = "getc"
               PROVE  /\ SubSeq(screen.cells, 1, screen.cursor) = <<Prompt>> \o temp
                      /\ Blank
    BY DEF ScreenShowsLine, Blank
  <2> DEFINE shown == <<Prompt>> \o temp
             line == SubSeq(screen.cells, 1, screen.cursor)
  <2>1. temp \in Seq(Char) /\ screen \in Line /\ Visible(temp) /\ Blank
    BY <1>1 DEF IInv, Typed, Reading, Editing
  <2>2. /\ screen.cells \in Seq(Char) /\ screen.cursor = Len(temp) + 1
        /\ screen.cursor <= Len(screen.cells) /\ Len(temp) \in Nat
    BY <2>1 DEF Visible, Line
  <2>3. /\ line \in Seq(Char) /\ Len(line) = Len(temp) + 1
        /\ \A i \in 1 .. Len(temp) + 1 : line[i] = screen.cells[i]
    BY <2>2
  <2>4. /\ shown \in Seq(Char) /\ Len(shown) = Len(temp) + 1 /\ shown[1] = Prompt
        /\ \A i \in 1 .. Len(temp) : shown[i + 1] = temp[i]
    BY <2>1 DEF Char
  <2> HIDE DEF shown, line
  <2>5. \A i \in 1 .. Len(temp) + 1 : line[i] = shown[i]
    <3> TAKE i \in 1 .. Len(temp) + 1
    <3>1. CASE i = 1  BY <2>1, <2>2, <2>3, <2>4, <3>1 DEF Visible
    <3>2. CASE i # 1
      <4>1. i - 1 \in 1 .. Len(temp) /\ (i - 1) + 1 = i  BY <2>2, <3>2
      <4> QED  BY <2>1, <2>3, <2>4, <4>1 DEF Visible
    <3> QED  BY <3>1, <3>2
  <2>6. line = shown  BY <2>3, <2>4, <2>5
  <2> QED  BY <2>1, <2>6 DEF line, shown
<1> QED  BY <1>1, InvariantHolds, PTL

(* The line that was on the screen is what syscall_read stores in the      *)
(* user's buffer, and its length is what it returns.                       *)
THEOREM LineIsDelivered == Spec => []ReadDelivers
<1>1. IInv => ReadDelivers  BY DEF IInv
<1> QED  BY <1>1, InvariantHolds, PTL

(* copy_to_user stores only in the buffer of the read, and only in pages   *)
(* the user program can write.                                             *)
THEOREM KernelWritesOnlyTheBuffer == Spec => OnlyBufferWritten
<1> DEFINE Within ==
      \A a \in Address : user'[a] # user[a] =>
        /\ phase = "copyout" /\ a \in Cells(call.buf, call.len)
        /\ Perm[a] = "rw"
<1>1. IInv /\ [Next]_vars => [Within]_vars
  <2> SUFFICES ASSUME IInv, Next, NEW a \in Address, user'[a] # user[a]
               PROVE  /\ phase = "copyout" /\ a \in Cells(call.buf, call.len)
                      /\ Perm[a] = "rw"
    OBVIOUS
  <2>1. CopyToUser /\ buffer # 0
    BY DEF Next, Kernel, Ecall, Type, CopyFromUser, PutByte, GetChar, CopyToUser
  <2>2. a \in Cells(call.buf, call.len) /\ MayWrite(a)  BY <2>1, CopyToUserStores
  <2> QED  BY <2>1, <2>2 DEF CopyToUser, MayWrite
<1> QED  BY <1>1, InvariantHolds, PTL DEF Spec, OnlyBufferWritten
=============================================================================
