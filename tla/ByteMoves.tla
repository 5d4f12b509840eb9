------------------------------ MODULE ByteMoves ------------------------------
(***************************************************************************)
(* memmove and memcpy as the loops over bytes that they are.  A compiler   *)
(* may call memcpy only for ranges that do not overlap, libfdt calls       *)
(* memmove for those that may; every other module takes the whole move as  *)
(* one step, which is what is shown here.                                  *)
(***************************************************************************)
EXTENDS Integers, Programs

CONSTANTS Address,   (* where there is memory                                *)
          Datum,
          Lengths    (* numbers of bytes asked for                           *)

Memory == [Address -> Datum]

(* A call in progress: memory as it was and as it is, the arguments as     *)
(* addresses, and the loop's counter.                                      *)
Call == [function : {"memcpy", "memmove"}, old : Memory, now : Memory,
         dest : Nat, src : Nat, n : Nat, i : Nat]

(* Mutant: memmove copies like memcpy.                                     *)
forward_always(c) == TRUE
forward(c) == c.function = "memcpy" \/ c.dest < c.src

InMemory(c) == \A k \in 0 .. c.n - 1 : c.dest + k \in Address /\ c.src + k \in Address
Disjoint(c) == c.dest + c.n <= c.src \/ c.src + c.n <= c.dest

(* The call before its first round: `for (i = 0; ...' or `for (i = n; ...'. *)
Entered(function, m, dest, src, n) ==
  LET c == [function |-> function, old |-> m, now |-> m, dest |-> dest, src |-> src,
            n |-> n, i |-> 0]
  IN IF forward(c) THEN c ELSE [c EXCEPT !.i = n]

MoveInit ==
  /\ \E function \in {"memcpy", "memmove"}, m \in Memory,
        dest \in Address \cap Nat, src \in Address \cap Nat, n \in Lengths \cap Nat :
       b = Entered(function, m, dest, src, n)
  /\ InMemory(b)
  /\ b.function = "memcpy" => Disjoint(b)

Copied(c, k) == [c.now EXCEPT ![c.dest + k] = c.now[c.src + k]]

CopyUp ==
  /\ forward(b) /\ b.i < b.n
  /\ b' = [b EXCEPT !.now = Copied(b, b.i), !.i = @ + 1]

CopyDown ==
  /\ ~forward(b) /\ b.i # 0
  /\ b' = [b EXCEPT !.now = Copied(b, b.i - 1), !.i = @ - 1]

MoveNext == CopyUp \/ CopyDown

Moving == program = "mover"
MoverSpec ==
  /\ Moving => MoveInit
  /\ [][/\ Moving => MoveNext /\ UNCHANGED <<program, count>>
        /\ Moving' => Moving]_vars

-----------------------------------------------------------------------------
Returned == b.i = IF forward(b) THEN b.n ELSE 0

(* When the loop is over, the destination holds what the source held       *)
(* before it, however the two overlap, and no other byte has changed.      *)
Moved(c) ==
  \A a \in Address :
    c.now[a] = IF a \in c.dest .. c.dest + c.n - 1 THEN c.old[c.src + (a - c.dest)]
               ELSE c.old[a]

MovesAreExact == Moving => (Returned => Moved(b))
=============================================================================
