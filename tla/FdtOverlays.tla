---------------------------- MODULE FdtOverlays ----------------------------
(***************************************************************************)
(* A program that applies overlays to a base one after another, each of    *)
(* which may refer to what an earlier one added.                           *)
(***************************************************************************)
EXTENDS OverlayMeaning

CONSTANTS Bases,        (* blobs with a good deal of room, little and none   *)
          Overlays,     (* records as in OverlayMeaning                      *)
          MaxOverlays   (* bound: overlays applied                           *)

VARIABLES b,         (* the base                                             *)
          applied    (* how many overlays have been applied to it            *)

OverlayBlob(o) == Flatten(Compiled(o), NamesIn(Compiled(o)), 0, <<>>, 0)

Init == b \in Bases /\ applied = 0

MayApply == b.magic = "FDT_MAGIC" /\ applied < MaxOverlays

Apply ==
  /\ MayApply
  /\ \E o \in Overlays : b' = fdt_overlay_apply(b, OverlayBlob(o)).b
  /\ applied' = applied + 1

Next == Apply

(***************************************************************************)
(* Properties.                                                             *)
(***************************************************************************)
WithoutSymbols(meaning) ==
  [path \in DOMAIN meaning \ {<<symbols_name>>} |-> meaning[path]]

(* What the application of o with the result r, which leaves the tree t,   *)
(* should make of the tree base.                                           *)
Exact(base, o, r, t) ==
  /\ (r.ret = 0) = Applicable(base, o)
  /\ r.ret = 0 =>
       /\ WithoutSymbols(Meaning(t)) = WithoutSymbols(Expected(base, o))
       /\ \A m, n \in Nodes(t) :
            Phandle(t, m) = Phandle(t, n) /\ Phandle(t, m) # 0 => m = n

TargetNames(t, symbol) == Names(t, SymbolTarget(t, symbol))
SymbolsOf(t, table) == IF table = 0 THEN {} ELSE PropNamesOf(t, table)

(* The symbols of an overlay can be used afterwards, next to those the     *)
(* base had: each names the place its node was put.                        *)
Exported(base, o, t) ==
  /\ \A x \in o.exports :
       x[2] \in Merged(o) => TargetNames(t, x[1]) = Place(base, o, x[2])
  /\ \A s \in SymbolsOf(base, ChildNamed(base, Root, symbols_name))
              \ {x[1] : x \in o.exports} :
       TargetNames(t, s) = TargetNames(base, s)

Applied(o) == fdt_overlay_apply(b, OverlayBlob(o))

(* An overlay that makes sense is applied, if there is room, and no other: *)
(* then every node holds what the fragments put there, every reference of  *)
(* the overlay leads to the node it was meant for, under a phandle that no *)
(* other node has, the base's phandles have not changed, and the symbols   *)
(* are exported.                                                           *)
OverlaysAreExact ==
  MayApply =>
    \A o \in Overlays : \A r \in {Applied(o)} : \A t \in {Tree(r.b)} :
      /\ r.ret # -FDT_ERR_NOSPACE => Exact(Tree(b), o, r, t)
      /\ r.ret = 0 => Exported(Tree(b), o, t)

(* What may be damaged is marked: the overlay always, the base after any   *)
(* failure; a base that keeps its magic number passes the full check.      *)
DamageIsMarked ==
  MayApply =>
    \A o \in Overlays : \A r \in {Applied(o)} :
      /\ r.o.magic = "none"
      /\ IF r.ret = 0 THEN fdt_check_full(r.b, r.b.totalsize) = 0
         ELSE r.b.magic = "none"
=============================================================================
