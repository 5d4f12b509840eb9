--------------------------- MODULE MCPageTables ---------------------------
(***************************************************************************)
(* Two entries per table and 2-byte pages: eight virtual pages, 32-byte    *)
(* words.  The requests take a page of each table, an unaligned address, a *)
(* non-canonical alias of a canonical page, a physical page the allocator  *)
(* will also hand out, and every RAM size from none to more than enough.   *)
(***************************************************************************)
EXTENDS PageTables

MCAllocators == { [current |-> 4, end |-> e] : e \in {4, 6, 9, 12, 16, 22} }

(* RAM is full of entries that look like valid leaves, or valid pointers.  *)
MCGarbage == { [page |-> 6, flags |-> {"V", "R", "U"}],
               [page |-> 6, flags |-> {"V"}] }

MCRequests ==
  { [va |-> va, pa |-> 6, flags |-> {"R", "W"}] : va \in {0, 1, 12, 22} }
    \cup { [va |-> 2, pa |-> pa, flags |-> {"R", "X"}] : pa \in {28, 27} }
=============================================================================
