---------------------------- MODULE CheckedBlob ----------------------------
(***************************************************************************)
(* A blob that somebody has been handed and nobody changes, and what is    *)
(* known of it once fdt_check_full has accepted it.                        *)
(***************************************************************************)
EXTENDS FdtCheck, DeviceTreeBlob

CONSTANT Blobs   (* what may be handed over, intact or damaged              *)

VARIABLE blob

(* A blob lies in a buffer of some size; its header may say anything.      *)
Size(c) == Cardinality(MemoryOf(c))

ASSUME BlobsAssumption ==
  \A c \in Blobs : Size(c) \in Nat /\ c \in BlobsOver(0 .. Size(c) - 1)

BlobInit == blob \in Blobs
BlobNext == UNCHANGED blob
BlobSpec == BlobInit /\ [][BlobNext]_blob

(* The blob passed the full check.                                         *)
Accepted == fdt_check_full(blob, Size(blob)) = 0

(* fdt_check_full lets no damage through: what it accepts has balanced     *)
(* nodes, one root without a name at most, and properties whose names and  *)
(* values lie in the blob, so that no later walk leaves the buffer.        *)
CheckedBlobsAreTrees ==
  LET t == Tree(blob) IN
  Accepted => /\ \A i \in DOMAIN t : t[i].tag # "bad" /\ Open(t, i) >= 0
              /\ Open(t, Len(t) + 1) = 0
              /\ \A i \in Nodes(t) : Open(t, i) = 0 => t[i] = Begin(<<>>)
              /\ Cardinality({i \in Nodes(t) : Open(t, i) = 0}) <= 1
=============================================================================
