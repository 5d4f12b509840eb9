----------------------------- MODULE FdtOverlay -----------------------------
(***************************************************************************)
(* Applying a device tree overlay (fdt_overlay.c): the overlay's phandles  *)
(* are moved above the base's, its references follow, those that name      *)
(* symbols of the base are filled in, and its fragments are merged into    *)
(* their targets.  The overlay is edited in place, the base grows.         *)
(*                                                                         *)
(* Results are as in FdtSw; the blob in a result is the overlay until the  *)
(* merge and the base from then on.                                        *)
(***************************************************************************)
EXTENDS FdtRw

target_name       == <<116>>               (* "target"                       *)
target_path_name  == <<116, 112>>          (* "target-path"                  *)
overlay_name      == <<111>>               (* "__overlay__"                  *)
symbols_name      == <<115>>               (* "__symbols__"                  *)
fixups_name       == <<102>>               (* "__fixups__"                   *)
local_fixups_name == <<108>>               (* "__local_fixups__"             *)

Colon == 58

(* A loop over items that ends with the first error.                       *)
Each(items, b, Step(_, _)) ==
  FoldLeft(LAMBDA r, x : IF r.ret # 0 THEN r ELSE Step(r.b, x), Result(0, b), items)

own_properties(b, node) == Front(property_scan(b, node))

(* An error that a caller does not mind, or calls by another name.         *)
despite(r, err)    == IF r.ret = -err THEN Result(0, r.b) ELSE r
or_internal(err)   == IF err = -FDT_ERR_NOTFOUND THEN -FDT_ERR_INTERNAL ELSE err
or_badoverlay(err) == IF err = -FDT_ERR_NOTFOUND THEN -FDT_ERR_BADOVERLAY ELSE err

(* What is done with an offset that may be missing, or with the offset     *)
(* that the step before returned.                                          *)
IfPresent(offset, b, Step(_)) ==
  IF offset = -FDT_ERR_NOTFOUND THEN Result(0, b) ELSE Step(offset)
IfThere(offset, b, Step(_)) ==
  IfPresent(offset, b, LAMBDA there : IfValid(there, b, Step))
into(r, Step(_, _)) == IF r.ret < 0 THEN r ELSE Step(r.b, r.ret)

store(b, at, value) == after(Result(0, b), at, CellBytes(value))

(***************************************************************************)
(* Where a fragment goes.                                                  *)
(***************************************************************************)
overlay_get_target_phandle(o, fragment) ==
  LET value(p) == CASE p.len < 0 -> 0
                    [] p.len = Cell -> LoadCell(o, p.data)
                    [] OTHER -> WordSize - 1
  IN value(fdt_getprop(o, fragment, target_name))

(* `path' is the target's path if the fragment has one, and empty if not.  *)
target_found(ret, path) == [ret |-> ret, path |-> path]

target_by_path(b, o, p) ==
  IF p.len < 0
  THEN target_found(IF p.len = -FDT_ERR_NOTFOUND THEN -FDT_ERR_BADOVERLAY ELSE p.len, <<>>)
  ELSE target_found(fdt_path_offset(b, CString(o, p.data)), CString(o, p.data))

target_by_phandle(b, o, fragment, phandle) ==
  CASE phandle = WordSize - 1 -> target_found(-FDT_ERR_BADPHANDLE, <<>>)
    [] phandle = 0 ->
         target_by_path(b, o, fdt_getprop(o, fragment, target_path_name))
    [] OTHER -> target_found(fdt_node_offset_by_phandle(b, phandle), <<>>)

fdt_overlay_target_offset(b, o, fragment) ==
  target_by_phandle(b, o, fragment, overlay_get_target_phandle(o, fragment))

(***************************************************************************)
(* The overlay's own phandles and the references to them.                  *)
(***************************************************************************)
moved_up(o, at, val, sum) ==
  Unless(sum < val \/ sum = WordSize - 1, FDT_ERR_NOPHANDLES, o, store(o, at, sum))

overlay_phandle_add_offset(o, node, name, delta) ==
  IfFound(fdt_getprop(o, node, name), o, LAMBDA p :
    Unless(p.len # Cell, FDT_ERR_BADPHANDLE, o,
           moved_up(o, p.data, LoadCell(o, p.data), Wrap(LoadCell(o, p.data) + delta))))

RECURSIVE overlay_adjust_node_phandles(_, _, _)
overlay_adjust_node_phandles(overlay, node, delta) ==
  LET kids(o) == Each(subnodes(o, node), o, LAMBDA a, child :
                        overlay_adjust_node_phandles(a, child, delta))
      added(o, name) ==
        despite(overlay_phandle_add_offset(o, node, name, delta), FDT_ERR_NOTFOUND)
  IN  then(then(added(overlay, phandle_name),
                LAMBDA o : added(o, linux_phandle_name)), kids)

overlay_adjust_local_phandles(o, delta) == overlay_adjust_node_phandles(o, 0, delta)

(* How the references change: by a distance, or from one value to another. *)
By(delta)      == [from |-> 0, to |-> delta]
Swap(old, new) == [from |-> old, to |-> new]
changed(value, change) ==
  IF change.from = 0 THEN Wrap(value + change.to)
  ELSE IF value = change.from THEN change.to ELSE value

(* The properties of a node under __local_fixups__ hold the places of the  *)
(* references in the properties of the same names of the overlay's node.   *)
fixup_places(o, f, p, change) ==
  LET place(a, i) == p.data + LoadCell(a, f.data + i * Cell)
  IN  IF p.len < 0 THEN Result(or_badoverlay(p.len), o)
      ELSE Each([i \in 1 .. f.len \div Cell |-> i - 1], o,
                LAMBDA a, i : store(a, place(a, i),
                                    changed(LoadCell(a, place(a, i)), change)))

fixup_property(o, tree_node, fixup_prop, change) ==
  IfFound(fdt_getprop_by_offset(o, fixup_prop), o, LAMBDA f :
    Unless(f.len % Cell # 0, FDT_ERR_BADOVERLAY, o,
           fixup_places(o, f, fdt_getprop(o, tree_node, f.name), change)))

RECURSIVE update_references(_, _, _, _)
update_references(overlay, tree_node, fixup_node, change) ==
  then(Each(own_properties(overlay, fixup_node), overlay,
            LAMBDA o, f : fixup_property(o, tree_node, f, change)),
       LAMBDA o : Each(subnodes(o, fixup_node), o, LAMBDA a, child :
         IfValid(or_badoverlay(fdt_subnode_offset(a, tree_node,
                                                  fdt_get_name(a, child).str)), a,
                 LAMBDA there : update_references(a, there, child, change))))

(* From the root, unless the overlay has no such node.                     *)
from_local_fixups(o, change) ==
  IfThere(fdt_path_offset(o, <<Slash>> \o local_fixups_name), o,
          LAMBDA fixups : update_references(o, 0, fixups, change))

overlay_update_local_references(o, delta) == from_local_fixups(o, By(delta))

(***************************************************************************)
(* References to symbols of the base.                                      *)
(***************************************************************************)
overlay_fixup_one_phandle(o, symbols_off, path, name, poffset, phandle) ==
  IfValid(symbols_off, o, LAMBDA symbols :
    IfValid(or_badoverlay(fdt_path_offset(o, path)), o, LAMBDA fixup_off :
      fdt_setprop_inplace_namelen_partial(o, fixup_off, name, poffset,
                                          CellBytes(phandle))))

(* memchr, and strtoul in base 10: how many characters it reads (blanks in *)
(* front included) and the number.                                         *)
memchr(s, c) == SelectInSeq(s, LAMBDA x : x = c)

Blanks == {32, 9}
Digits == 48 .. 57
strtoul(s) ==
  LET skip == SelectInSeq(s, LAMBDA c : c \notin Blanks)
      from == IF skip = 0 THEN Len(s) + 1 ELSE skip
      stop == SelectInSubSeq(s, from, Len(s), LAMBDA c : c \notin Digits)
      end  == IF stop = 0 THEN Len(s) + 1 ELSE stop
  IN  [read |-> end - 1,
       value |-> FoldLeft(LAMBDA v, c : 10 * v + (c - 48), 0, SubSeq(s, from, end - 1))]

(* A sequence before and after the first c in it, which is at `at'.        *)
cut(s, c) == [at |-> memchr(s, c), front |-> SubSeq(s, 1, memchr(s, c) - 1),
              back |-> SubSeq(s, memchr(s, c) + 1, Len(s))]

fixup_place(o, symbols_off, path, name, digits, place, phandle) ==
  Unless(place.read < Len(digits) \/ place.read = 0, FDT_ERR_BADOVERLAY, o,
         overlay_fixup_one_phandle(o, symbols_off, path, name, place.value, phandle))

(* One string "path:name:place".                                           *)
fixup_string(o, symbols_off, string, phandle) ==
  LET first  == cut(string, Colon)
      second == cut(first.back, Colon)
  IN  Unless(first.at = 0 \/ second.at <= 1, FDT_ERR_BADOVERLAY, o,
             fixup_place(o, symbols_off, first.front, second.front, second.back,
                         strtoul(second.back), phandle))

(* What is left of a list of such strings, one after another.              *)
RECURSIVE fixup_strings(_, _, _, _)
fixup_strings(o, symbols_off, value, phandle) ==
  LET list == cut(value, 0)
  IN  Unless(list.at = 0, FDT_ERR_BADOVERLAY, o,
        then(fixup_string(o, symbols_off, list.front, phandle), LAMBDA a :
             IF list.back = <<>> THEN Result(0, a)
             ELSE fixup_strings(a, symbols_off, list.back, phandle)))

fixup_with(o, symbols_off, value, phandle) ==
  Unless(phandle = 0, FDT_ERR_NOTFOUND, o,
         fixup_strings(o, symbols_off, value, phandle))

(* A property by its offset; it cannot be missing.                         *)
property_at(o, property) ==
  LET there(p) == [p EXCEPT !.len = or_internal(@)]
  IN there(fdt_getprop_by_offset(o, property))

overlay_fixup_phandle(b, o, symbols_off, property) ==
  IfFound(property_at(o, property), o, LAMBDA p :
    IfFound(fdt_getprop(b, symbols_off, p.name), o, LAMBDA symbol :
      IfValid(fdt_path_offset(b, CString(b, symbol.data)), o, LAMBDA node :
        fixup_with(o, symbols_off, PropValue(o, p), fdt_get_phandle(b, node)))))

fixup_each(b, o, fixups, symbols) ==
  IF symbols < 0 /\ symbols # -FDT_ERR_NOTFOUND THEN Result(symbols, o)
  ELSE Each(own_properties(o, fixups), o,
            LAMBDA a, p : overlay_fixup_phandle(b, a, symbols, p))

overlay_fixup_phandles(b, o) ==
  IfThere(fdt_path_offset(o, <<Slash>> \o fixups_name), o, LAMBDA fixups :
    fixup_each(b, o, fixups, fdt_path_offset(b, <<Slash>> \o symbols_name)))

(***************************************************************************)
(* Nodes that the base has already: their phandles win.                    *)
(***************************************************************************)
replaced_phandle(o, node, name, phandle) ==
  IF fdt_getprop(o, node, name).len # Cell THEN Result(0, o)
  ELSE fdt_setprop_inplace(o, node, name, CellBytes(phandle))

overlay_adjust_local_conflicting_phandle(overlay, node, phandle) ==
  then(replaced_phandle(overlay, node, phandle_name, phandle),
       LAMBDA o : replaced_phandle(o, node, linux_phandle_name, phandle))

overlay_update_local_conflicting_references(o, fdt_phandle, fdto_phandle) ==
  from_local_fixups(o, Swap(fdto_phandle, fdt_phandle))

phandle_kept(overlay, fdtonode, phandle, old) ==
  IF phandle = 0 \/ old = 0 THEN Result(0, overlay)
  ELSE then(overlay_adjust_local_conflicting_phandle(overlay, fdtonode, phandle),
            LAMBDA o : overlay_update_local_conflicting_references(o, phandle, old))

RECURSIVE overlay_prevent_phandle_overwrite_node(_, _, _, _)
overlay_prevent_phandle_overwrite_node(b, fdtnode, overlay, fdtonode) ==
  then(phandle_kept(overlay, fdtonode, fdt_get_phandle(b, fdtnode),
                    fdt_get_phandle(overlay, fdtonode)),
       LAMBDA o : Each(subnodes(o, fdtonode), o, LAMBDA a, child :
         IfPresent(fdt_subnode_offset(b, fdtnode, fdt_get_name(a, child).str), a,
           LAMBDA there : overlay_prevent_phandle_overwrite_node(b, there, a, child))))

(* Mutant: the merge overwrites the base's phandles.                       *)
prevent_phandle_overwrite_none(b, overlay) == Result(0, overlay)

overlay_prevent_phandle_overwrite(b, overlay) ==
  Each(subnodes(overlay, 0), overlay, LAMBDA o, fragment :
    IfThere(fdt_subnode_offset(o, fragment, overlay_name), o, LAMBDA node :
      IfThere(fdt_overlay_target_offset(b, o, fragment).ret, o, LAMBDA target :
        overlay_prevent_phandle_overwrite_node(b, target, o, node))))

(***************************************************************************)
(* The merge.  From here on the overlay o is only read.                    *)
(***************************************************************************)

(* The node of this name in the target, new or old.                        *)
added_or_old(b, target, name) ==
  LET old(added) == IF added.ret # -FDT_ERR_EXISTS THEN added
                    ELSE Result(or_internal(fdt_subnode_offset(b, target, name)), added.b)
  IN old(fdt_add_subnode(b, target, name))

RECURSIVE overlay_apply_node(_, _, _, _)
overlay_apply_node(base, target, o, node) ==
  then(Each(own_properties(o, node), base, LAMBDA b, property :
         IfFound(property_at(o, property), b, LAMBDA p :
           fdt_setprop(b, target, p.name, PropValue(o, p)))),
       LAMBDA a : Each(subnodes(o, node), a, LAMBDA b, subnode :
         into(added_or_old(b, target, fdt_get_name(o, subnode).str),
              LAMBDA c, nnode : overlay_apply_node(c, nnode, o, subnode))))

overlay_merge(base, o) ==
  Each(subnodes(o, 0), base, LAMBDA b, fragment :
    IfThere(fdt_subnode_offset(o, fragment, overlay_name), b, LAMBDA node :
      IfValid(fdt_overlay_target_offset(b, o, fragment).ret, b, LAMBDA target :
        overlay_apply_node(b, target, o, node))))

(***************************************************************************)
(* The overlay's symbols become the base's.                                *)
(***************************************************************************)
RECURSIVE path_len_from(_, _, _)
path_len_from(b, node, len) ==
  unless_error(node, LAMBDA n :
    unless_error(fdt_get_name(b, n).len, LAMBDA name_len :
      CASE name_len > 0 ->
             path_len_from(b, fdt_parent_offset(b, n), len + name_len + 1)
        [] name_len = 0 /\ len = 0 -> 1
        [] name_len = 0 /\ len # 0 -> len))

get_path_len(b, node) ==
  IF fdt_ro_probe_(b) < 0 THEN fdt_ro_probe_(b) ELSE path_len_from(b, node, 0)

(* A symbol's path, "/fragment/__overlay__/rest" as a rule: the fragment   *)
(* and the rest, or why it is not exported.                                *)
exported(path) ==
  LET slash == SelectInSubSeq(path, 2, Len(path), LAMBDA c : c = Slash)
      tail  == SubSeq(path, slash, Len(path))
      mark  == <<Slash>> \o overlay_name
      rest  == SubSeq(tail, Len(mark) + 2, Len(tail))
  IN  IF slash = 0 \/ (tail # mark /\ ~IsPrefix(Append(mark, Slash), tail))
      THEN [it_is |-> FALSE]
      ELSE [it_is |-> TRUE, fragment |-> SubSeq(path, 2, slash - 1), rest |-> rest]

symbol_len(len, rest) == len + (IF len > 1 THEN 1 ELSE 0) + Len(rest) + 1

(* The path of the target once the placeholder has moved it.               *)
path_again(b, node, len) ==
  CASE node < 0 -> Failure(node)
    [] node >= 0 /\ len <= 1 -> Text(<<>>)
    [] node >= 0 /\ len > 1 -> fdt_get_path(b, node, len + 1)

path_to_target(b, o, fragment, path, len) ==
  IF path # <<>> THEN Text(IF len <= 1 THEN <<>> ELSE path)
  ELSE path_again(b, fdt_overlay_target_offset(b, o, fragment).ret, len)

symbol_under(base, o, root_sym, name, fragment, rest, target) ==
  IfValid(target.ret, base, LAMBDA node :
    IfValid(IF target.path = <<>> THEN get_path_len(base, node)
            ELSE Len(target.path), base, LAMBDA len :
      into(fdt_setprop_placeholder_namelen(base, root_sym, name, Len(name),
                                           symbol_len(len, rest)), LAMBDA b, at :
        IfFound(path_to_target(b, o, fragment, target.path, len), b, LAMBDA path :
          after(Result(0, b), at, path.str \o <<Slash>> \o rest \o <<0>>)))))

symbol_of(base, o, root_sym, name, e, fragment) ==
  Unless(unless_error(fragment, LAMBDA f : fdt_subnode_offset(o, f, overlay_name)) < 0,
         FDT_ERR_BADOVERLAY, base,
         symbol_under(base, o, root_sym, name, fragment, e.rest,
                      fdt_overlay_target_offset(base, o, fragment)))

symbol_exported(base, o, root_sym, name, e) ==
  IF ~e.it_is THEN Result(0, base)
  ELSE symbol_of(base, o, root_sym, name, e, fdt_subnode_offset(o, 0, e.fragment))

symbol_with(base, o, root_sym, name, value) ==
  Unless(value = <<>> \/ memchr(value, 0) # Len(value) \/ Len(value) = 1
           \/ Head(value) # Slash,
         FDT_ERR_BADVALUE, base,
         symbol_exported(base, o, root_sym, name, exported(Front(value))))

symbol_update(base, o, root_sym, property) ==
  IfFound(fdt_getprop_by_offset(o, property), base, LAMBDA p :
    symbol_with(base, o, root_sym, p.name, PropValue(o, p)))

symbols_node(base, there) ==
  IF there = -FDT_ERR_NOTFOUND THEN fdt_add_subnode(base, 0, symbols_name)
  ELSE Result(there, base)

symbols_update(base, o, ov_sym) ==
  IF ov_sym < 0 THEN Result(0, base)
  ELSE into(symbols_node(base, fdt_subnode_offset(base, 0, symbols_name)),
            LAMBDA a, root : Each(own_properties(o, ov_sym), a, LAMBDA b, p :
                               symbol_update(b, o, root, p)))

overlay_symbol_update(base, o) ==
  symbols_update(base, o, fdt_subnode_offset(o, 0, symbols_name))

(***************************************************************************)
(* The whole.  The overlay never keeps its magic number, the base only if  *)
(* nothing failed.                                                         *)
(***************************************************************************)
erased(b) == [b EXCEPT !.magic = "none"]

adjusted(b, overlay, delta) ==
  then(then(then(overlay_adjust_local_phandles(overlay, delta),
       LAMBDA o : overlay_update_local_references(o, delta)),
       LAMBDA o : overlay_fixup_phandles(b, o)),
       LAMBDA o : overlay_prevent_phandle_overwrite(b, o))

(* Mutant: a base that has been changed in part keeps its magic number.    *)
failed_base_kept(b) == b
failed_base(b) == erased(b)

done(ret, base, over) == [ret |-> ret, b |-> base, o |-> over]

(* What is left behind by a step with the result r.                        *)
ended(r, over) ==
  done(r.ret, IF r.ret = 0 THEN r.b ELSE failed_base(r.b), erased(over))

merged(b, ready) ==
  IF ready.ret # 0 THEN ended(Result(ready.ret, b), ready.b)
  ELSE ended(then(overlay_merge(b, ready.b),
                  LAMBDA a : overlay_symbol_update(a, ready.b)), ready.b)

applied_above(b, o, delta) ==
  IF delta < 0 THEN ended(Result(delta, b), o) ELSE merged(b, adjusted(b, o, delta))

fdt_overlay_apply(b, o) ==
  IF fdt_ro_probe_(b) < 0 THEN done(fdt_ro_probe_(b), b, o)
  ELSE IF fdt_ro_probe_(o) < 0 THEN done(fdt_ro_probe_(o), b, o)
  ELSE applied_above(b, o, fdt_find_max_phandle(b))
=============================================================================
