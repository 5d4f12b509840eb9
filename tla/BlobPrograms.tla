---------------------------- MODULE BlobPrograms ----------------------------
(***************************************************************************)
(* The programs that change blobs: one writes a tree sequentially, one     *)
(* edits a blob it is given or that the first has finished, one applies    *)
(* overlays; and memmove, by which all of them move bytes, at work.  They  *)
(* have nothing in common but the functions they call, so one of them runs *)
(* and has the memory.                                                     *)
(***************************************************************************)
EXTENDS FdtWriter, FdtRw, ByteMoves

CONSTANTS Given, EditBuffers, EditNodes, EditProps, MaxEdits,
          Bases, Overlays, MaxOverlays

Editor == INSTANCE FdtEditor WITH
            edits <- count, Buffers <- EditBuffers, NodeNames <- EditNodes,
            PropNames <- EditProps

Overlayer == INSTANCE FdtOverlays WITH applied <- count

Init == \/ program = "writer" /\ WriterInit
        \/ program = "editor" /\ Editor!Init
        \/ program = "overlayer" /\ Overlayer!Init
        \/ program = "mover" /\ MoveInit /\ count = 0

Write   == program = "writer" /\ WriterNext /\ UNCHANGED program
Edit    == program = "editor" /\ Editor!Next /\ UNCHANGED program
Overlay == program = "overlayer" /\ Overlayer!Next /\ UNCHANGED program
Move    == program = "mover" /\ MoveNext /\ UNCHANGED <<program, count>>

(* A finished tree is copied to where there is room and opened there, if   *)
(* its nodes have their properties before their children: fdt_property     *)
(* writes one wherever it is called, but no function of libfdt looks for   *)
(* one behind a child.  The editor makes the last of its edits (a bound).  *)
Room == 60
PropertiesComeFirst(tree) ==
  \A i \in TagAt(tree, "prop") : tree[i - 1].tag # "end"
HandOver ==
  /\ program = "writer" /\ Stage = "complete" /\ b.addr % Alignment8 = 0
  /\ IsTree(Written) /\ PropertiesComeFirst(Written)
  /\ LET size == b.totalsize
         copy == [b EXCEPT !.addr = 0,
                           !.bytes = [i \in 0 .. size + Room - 1 |->
                                        IF i < size THEN b.bytes[i] ELSE 0]]
     IN b' = fdt_open_into(copy, 0, size + Room).b
  /\ program' = "editor"
  /\ count' = MaxEdits - 1

Next == Write \/ Edit \/ Overlay \/ Move \/ HandOver
Spec == Init /\ [][Next]_vars

(***************************************************************************)
(* Properties; their parts are stated where the programs are.              *)
(***************************************************************************)
Editing == program = "editor"

(* Every edit changes the tree exactly as documented: bytes that move take *)
(* everything else along, and the blob still passes fdt_check_full.        *)
EditsAreExact ==
  Editing => Editor!TypeOK /\ Editor!EditsAreExact /\ Editor!RangesRoundTrip

(* Opening and packing change where things lie, edits in place what they   *)
(* are, and neither the other; the empty tree is the root.                 *)
LayoutIsKept ==
  Editing => /\ Editor!OpeningKeepsTheTree /\ Editor!InPlaceMovesNothing
             /\ Editor!PackedIsTight /\ Editor!EmptyTreeIsRoot

(* An edit for which there is no room leaves no trace, and succeeds once   *)
(* the blob has been opened into a larger buffer.                          *)
FailuresAreHarmless ==
  Editing => Editor!FailuresChangeNothing /\ Editor!RetrySucceeds

(* An overlay merges and refers as it was written, under new phandles, and *)
(* exports its symbols to the overlays after it.                           *)
OverlaysAreExact ==
  program = "overlayer" => Overlayer!OverlaysAreExact

(* A base that an overlay has left half merged is never taken for a tree.  *)
DamageIsMarked == program = "overlayer" => Overlayer!DamageIsMarked
=============================================================================
