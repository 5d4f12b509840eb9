------------------------------ MODULE Programs ------------------------------
(***************************************************************************)
(* What the programs of BlobPrograms share: one of them runs and has the   *)
(* memory.  Each of them is specified by the steps it takes while it is    *)
(* the one; the others do what they like.                                  *)
(***************************************************************************)
VARIABLES program,   (* who runs: "writer", "editor", "overlayer", "mover"     *)
          b,         (* the blob it works on; for the mover the call of        *)
                     (* memmove that is in progress                            *)
          count      (* of the writer's moves, of the edits, of the overlays   *)

vars == <<program, b, count>>
=============================================================================
