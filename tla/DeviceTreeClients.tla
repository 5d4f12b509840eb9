------------------------- MODULE DeviceTreeClients -------------------------
(***************************************************************************)
(* The two clients of a blob: the kernel, which takes its platform from it *)
(* at boot, and then any program that walks over it with libfdt.  Neither  *)
(* may change it or leave it.                                              *)
(***************************************************************************)
EXTENDS FdtRead, CheckedBlob

CONSTANTS Symbols, PropNames, Components, Strings

VARIABLES g_dtb, phase, cursor, platform,   (* the kernel's                  *)
          node, depth                       (* the walker's                  *)

Kernel == INSTANCE PlatformInfo WITH dtb <- blob, node <- cursor
Walker == INSTANCE FdtReader

Init == Kernel!Init /\ Walker!Init

KernelStep == Kernel!Next /\ UNCHANGED <<node, depth>>

(* The walk begins when platform_info_init has returned.                   *)
Booted     == phase \in Kernel!Done
WalkerStep == Booted /\ Walker!Next /\ UNCHANGED <<g_dtb, phase, cursor, platform>>

Next == KernelStep \/ WalkerStep

vars == <<blob, g_dtb, phase, cursor, platform, node, depth>>
Spec == Init /\ [][Next]_vars /\ Kernel!Fairness

(***************************************************************************)
(* Properties; their parts are stated where the clients are, and that of   *)
(* the blob, CheckedBlobsAreTrees, where the blob is.                      *)
(***************************************************************************)

(* Nodes: the walker always stands on one, and the walks up, down and      *)
(* sideways, and the paths to and from it, say of it what the tree in the  *)
(* blob says.                                                              *)
NodesAreRead ==
  Booted => Walker!TypeOK /\ Walker!NestingIsRead /\ Walker!PathsAreRead

(* Properties, phandles and string lists are found by the whole name, in   *)
(* the node asked for, with exactly their value.                           *)
PropertiesAreRead ==
  Booted => /\ Walker!PropertiesAreRead
            /\ Walker!PhandlesAreRead
            /\ Walker!StringListsAreRead

(* The kernel gets the first console and the first memory of the tree with *)
(* every bit of their addresses, or refuses the tree for a reason.         *)
PlatformIsTheTrees == Kernel!TypeOK /\ Kernel!PlatformIsTheTrees

(* Whatever the structure block of a blob with a good header holds,        *)
(* platform_info_init comes to an end.                                     *)
InitEnds == Kernel!InitEnds
=============================================================================
