--------------------------- MODULE AddressSpace ---------------------------
(***************************************************************************)
(* What the page tables promise: an address space is a partial function    *)
(* from virtual page numbers to mappings.  A map request either adds the   *)
(* one mapping it asks for and reports success, or changes nothing and     *)
(* reports failure.  A mapping is never replaced or removed.               *)
(***************************************************************************)
CONSTANTS Vpns,     (* virtual page numbers                                *)
          Mappings  (* what a virtual page can be mapped to                *)

VARIABLES space,    (* the address space                                   *)
          result    (* what the last map request returned                  *)

avars == <<space, result>>

Init ==
  /\ space = [t \in {} |-> {}]
  /\ result = "none"

MapPage(t) ==
  /\ t \notin DOMAIN space
  /\ DOMAIN space' = DOMAIN space \cup {t}
  /\ space'[t] \in Mappings
  /\ \A u \in DOMAIN space : space'[u] = space[u]
  /\ result' = "mapped"

(* The page is taken, an address is not aligned, or memory ran out.        *)
Refuse ==
  /\ result' = "refused"
  /\ UNCHANGED space

Next ==
  \/ \E t \in Vpns : MapPage(t)
  \/ Refuse

Spec == Init /\ [][Next]_avars
=============================================================================
