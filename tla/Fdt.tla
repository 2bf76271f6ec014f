-------------------------------- MODULE Fdt --------------------------------
(***************************************************************************)
(* The flattened device tree, lib/fdt: the blob as libfdt reads it         *)
(* (fdt.c, fdt_ro.c, fdt_check.c), writes it from the start (fdt_sw.c) and *)
(* edits it in place (fdt_rw.c, fdt_wip.c).  A word of the structure block *)
(* is one unit of size, and so is a name, a string or a reservation; the   *)
(* blocks are in libfdt's order, so their offsets follow from their sizes. *)
(* Offsets and error codes are numbers, errors negative, as in the code.   *)
(* The variable tree says what the calls promise: the tree the blob stands *)
(* for.                                                                    *)
(***************************************************************************)
EXTENDS Integers, SequencesExt, FiniteSetsExt, TLC

CONSTANTS
  NodeNames,   \* node names: 10 * base + unit for base@unit
  PropNames,   \* property names, with the next two
  Phandle,     \* "phandle"
  Compatible,  \* "compatible"
  PropVals,    \* property values: sequences of words
  Totals,      \* sizes of the buffers
  MaxRsv       \* reservations

\* The tags and the errors of libfdt.h.
BEGIN_NODE == 1
END_NODE == 2
PROP == 3
NOP == 4
END == 9
NOTFOUND == -1
EXISTS == -2
NOSPACE == -3
BADOFFSET == -4
TRUNCATED == -8
BADSTRUCTURE == -11
NULL == 100      \* the depth a caller is not interested in

VARIABLES blob,  \* the header, mem_rsvmap, dt_struct and dt_strings
          ret,   \* what the last call returned
          open,  \* history: the path of the node being written
          tree,  \* history: what the blob stands for, by path from the root
          named  \* history: the names that properties have had

fdtVars == <<blob, ret, open, tree, named>>

Root == <<0>>
NoNode == [props |-> <<>>, kids |-> <<>>]
HdrSize == 1

FdtInit ==
  /\ blob = [magic |-> "none", total |-> 0, rsv |-> <<>>, st |-> <<>>, strs |-> <<>>]
  /\ ret = 0 /\ open = <<>> /\ tree = <<>> /\ named = {}

StructTop(b) == HdrSize + Len(b.rsv) + Len(b.st)
DataSize(b) == StructTop(b) + Len(b.strs)

-----------------------------------------------------------------------------
(* fdt.c                                                                   *)

Word(b, off) == b.st[off + 1]

\* fdt_next_tag: the tag at off and the offset of the next one, or END and an
\* error if the block ends too early.
NextTag(b, off) ==
  LET size == Len(b.st)
      tag == Word(b, off)
      next == CASE tag = BEGIN_NODE -> off + 2
                [] tag = PROP /\ off + 1 < size -> off + 3 + Word(b, off + 1)
                [] tag \in {END_NODE, NOP, END} -> off + 1
                [] OTHER -> size + 1
  IN  IF off >= size THEN [tag |-> END, next |-> TRUNCATED]
      ELSE IF next > size THEN [tag |-> END, next |-> BADSTRUCTURE]
      ELSE [tag |-> tag, next |-> next]

CheckOffset(b, off, tag) ==
  IF off < 0 \/ NextTag(b, off).tag # tag THEN BADOFFSET ELSE NextTag(b, off).next

RECURSIVE NextNodeFrom(_, _, _)
NextNodeFrom(b, p, depth) ==
  LET t == NextTag(b, p) IN
  CASE t.tag = BEGIN_NODE -> [off |-> p, depth |-> IF depth = NULL THEN NULL ELSE depth + 1]
    [] t.tag = END -> [depth |-> depth,
                       off |-> IF t.next >= 0 \/ (t.next = TRUNCATED /\ depth = NULL)
                               THEN NOTFOUND ELSE t.next]
    [] t.tag = END_NODE /\ depth = 0 -> [off |-> t.next, depth |-> -1]
    [] OTHER -> NextNodeFrom(b, t.next, IF t.tag = END_NODE /\ depth # NULL THEN depth - 1 ELSE depth)

\* fdt_next_node: the node after off in the order of the blob, or what follows
\* the end of the subtree when depth gets negative.
NextNode(b, off, depth) ==
  IF off < 0 THEN NextNodeFrom(b, 0, depth)
  ELSE LET next == CheckOffset(b, off, BEGIN_NODE) IN
       IF next < 0 THEN [off |-> next, depth |-> depth] ELSE NextNodeFrom(b, next, depth)

FirstSubnode(b, off) ==
  LET n == NextNode(b, off, 0) IN IF n.off < 0 \/ n.depth # 1 THEN NOTFOUND ELSE n.off

RECURSIVE NextSubnodeFrom(_, _, _)
NextSubnodeFrom(b, off, depth) ==
  LET n == NextNode(b, off, depth) IN
  IF n.off < 0 \/ n.depth < 1 THEN NOTFOUND
  ELSE IF n.depth > 1 THEN NextSubnodeFrom(b, n.off, n.depth) ELSE n.off


NextSubnode(b, off) == NextSubnodeFrom(b, off, 1)

-----------------------------------------------------------------------------
(* fdt_ro.c                                                                *)

GetName(b, off) == Word(b, off + 1)

\* fdt_nodename_eq_: a name without a unit address finds the first with one.
NodenameEq(name, s) == name = s \/ (s % 10 = 0 /\ name \div 10 = s \div 10)

\* fdt_get_string: an unfinished blob counts from the end of the strings.
GetString(b, off) == b.strs[IF b.magic = "sw" THEN Len(b.strs) + off + 1 ELSE off + 1]

RECURSIVE SubnodeFrom(_, _, _, _)
SubnodeFrom(b, off, depth, name) ==
  IF off < 0 THEN off
  ELSE IF depth < 0 THEN NOTFOUND
  ELSE IF depth = 1 /\ NodenameEq(GetName(b, off), name) THEN off
  ELSE LET n == NextNode(b, off, depth) IN SubnodeFrom(b, n.off, n.depth, name)

\* fdt_subnode_offset_namelen.
SubnodeOffset(b, off, name) == SubnodeFrom(b, off, 0, name)

\* fdt_path_offset_namelen of an absolute path, given by its names.
RECURSIVE PathOffset(_, _)
PathOffset(b, path) ==
  IF Len(path) <= 1 THEN 0
  ELSE LET off == PathOffset(b, Front(path)) IN
       IF off < 0 THEN off ELSE SubnodeOffset(b, off, Last(path))

RECURSIVE NextProp(_, _)
NextProp(b, off) ==
  LET t == NextTag(b, off) IN
  CASE t.tag = END -> IF t.next >= 0 THEN BADSTRUCTURE ELSE t.next
    [] t.tag = PROP -> off
    [] t.tag = NOP -> NextProp(b, t.next)
    [] OTHER -> NOTFOUND

\* fdt_first_property_offset and fdt_next_property_offset.
FirstProperty(b, off) ==
  LET next == CheckOffset(b, off, BEGIN_NODE) IN IF next < 0 THEN next ELSE NextProp(b, next)

NextProperty(b, off) ==
  LET next == CheckOffset(b, off, PROP) IN IF next < 0 THEN next ELSE NextProp(b, next)

PropName(b, off) == GetString(b, Word(b, off + 2))
PropLen(b, off) == Word(b, off + 1)
PropData(b, off) == SubSeq(b.st, off + 4, off + 3 + PropLen(b, off))

RECURSIVE PropertyFrom(_, _, _)
PropertyFrom(b, off, name) ==
  IF off < 0 \/ PropName(b, off) = name THEN off
  ELSE PropertyFrom(b, NextProperty(b, off), name)

\* fdt_get_property_namelen_: the offset of the property.
GetProperty(b, off, name) == PropertyFrom(b, FirstProperty(b, off), name)

\* fdt_get_phandle: 0 unless the property is one word.
GetPhandle(b, off) ==
  LET p == GetProperty(b, off, Phandle) IN
  IF p < 0 \/ PropLen(b, p) # 1 THEN 0 ELSE PropData(b, p)[1]

\* The nodes behind off in the order in which fdt_next_node meets them.
RECURSIVE ScanNodes(_, _)
ScanNodes(b, off) ==
  LET next == NextNode(b, off, NULL).off IN
  IF next < 0 THEN <<>> ELSE <<next>> \o ScanNodes(b, next)

NodeWhere(b, off, Wanted(_)) ==
  LET nodes == ScanNodes(b, off)
      i == SelectInSeq(nodes, Wanted)
  IN  IF i = 0 THEN NOTFOUND ELSE nodes[i]

\* fdt_node_offset_by_phandle, fdt_node_offset_by_prop_value.
NodeOffsetByPhandle(b, phandle) == NodeWhere(b, -1, LAMBDA n : GetPhandle(b, n) = phandle)

NodeOffsetByPropValue(b, off, name, val) ==
  NodeWhere(b, off, LAMBDA n : LET p == GetProperty(b, n, name) IN p >= 0 /\ PropData(b, p) = val)

\* fdt_stringlist_search: the place of a string in a list, each string a word.
StringlistSearch(b, off, name, str) ==
  LET p == GetProperty(b, off, name)
      i == SelectInSeq(PropData(b, p), LAMBDA s : s = str)
  IN  IF p < 0 THEN p ELSE IF i = 0 THEN NOTFOUND ELSE i - 1

\* fdt_node_check_compatible and fdt_node_offset_by_compatible.
NodeCheckCompatible(b, off, str) ==
  LET p == GetProperty(b, off, Compatible) IN
  IF p < 0 THEN p ELSE IF str \in ToSet(PropData(b, p)) THEN 0 ELSE 1

NodeOffsetByCompatible(b, off, str) == NodeWhere(b, off, LAMBDA n : NodeCheckCompatible(b, n, str) = 0)

\* fdt_generate_phandle: one more than fdt_find_max_phandle finds.
GeneratePhandle(b) == Max({0} \cup {GetPhandle(b, n) : n \in ToSet(ScanNodes(b, -1))}) + 1

\* fdt_get_path: the name of a node replaces what the path had from its depth on.
RECURSIVE PathFrom(_, _, _, _)
PathFrom(b, n, node, path) ==
  LET here == Append(SubSeq(path, 1, n.depth), GetName(b, n.off)) IN
  IF n.off < 0 \/ n.off > node THEN <<>>
  ELSE IF n.off = node THEN here
  ELSE PathFrom(b, NextNode(b, n.off, n.depth), node, here)

GetPath(b, node) == PathFrom(b, [off |-> 0, depth |-> 0], node, <<>>)

RECURSIVE Supernode(_, _, _, _, _)
Supernode(b, node, at, n, super) ==
  LET found == IF n.depth = at THEN n.off ELSE super IN
  IF n.off < 0 \/ n.off > node THEN [off |-> BADOFFSET, depth |-> n.depth]
  ELSE IF n.off = node THEN [off |-> IF at > n.depth THEN NOTFOUND ELSE found, depth |-> n.depth]
  ELSE Supernode(b, node, at, NextNode(b, n.off, n.depth), found)

\* fdt_supernode_atdepth_offset.
SupernodeAtDepth(b, node, at) ==
  IF at < 0 THEN [off |-> NOTFOUND, depth |-> 0]
  ELSE Supernode(b, node, at, [off |-> 0, depth |-> 0], BADOFFSET)

NodeDepth(b, node) == SupernodeAtDepth(b, node, 0).depth

ParentOffset(b, node) == SupernodeAtDepth(b, node, NodeDepth(b, node) - 1).off

\* fdt_num_mem_rsv: up to the entry of size 0, for which 0 stands.
NumMemRsv(b) == SelectInSeq(b.rsv, LAMBDA size : size = 0) - 1

-----------------------------------------------------------------------------
(* fdt_check.c                                                             *)

RECURSIVE CheckFrom(_, _, _, _)
CheckFrom(b, p, depth, expectEnd) ==
  LET t == NextTag(b, p) IN
  IF t.next < 0 THEN t.next
  ELSE IF expectEnd /\ t.tag \notin {END, NOP} THEN BADSTRUCTURE
  ELSE CASE t.tag = NOP -> CheckFrom(b, t.next, depth, expectEnd)
         [] t.tag = END -> IF depth = 0 THEN 0 ELSE BADSTRUCTURE
         [] t.tag = BEGIN_NODE -> IF depth = 0 /\ GetName(b, p) # 0 THEN BADSTRUCTURE
                                  ELSE CheckFrom(b, t.next, depth + 1, FALSE)
         [] t.tag = END_NODE -> IF depth = 0 THEN BADSTRUCTURE
                                ELSE CheckFrom(b, t.next, depth - 1, depth = 1)
         [] OTHER -> IF Word(b, p + 2) \in 0 .. Len(b.strs) - 1
                     THEN CheckFrom(b, t.next, depth, FALSE) ELSE BADOFFSET

\* fdt_check_full.
CheckFull(b) ==
  IF b.magic # "fdt" THEN BADSTRUCTURE
  ELSE IF DataSize(b) > b.total THEN TRUNCATED
  ELSE IF NumMemRsv(b) < 0 THEN TRUNCATED
  ELSE CheckFrom(b, 0, 0, FALSE)

-----------------------------------------------------------------------------
(* fdt_sw.c: the blob is written from the start, with the strings at the   *)
(* end of the buffer and growing down.                                     *)

Fail(err) == ret' = err /\ UNCHANGED <<blob, open, tree, named>>
Done(b) == ret' = 0 /\ blob' = b

\* fdt_create, for a buffer that holds the header.
Create(total) ==
  /\ blob.magic = "none"
  /\ Done([magic |-> "sw", total |-> total, rsv |-> <<>>, st |-> <<>>, strs |-> <<>>])
  /\ UNCHANGED <<open, tree, named>>

Reserving == blob.magic = "sw" /\ 0 \notin ToSet(blob.rsv)
Writing == blob.magic = "sw" /\ ~Reserving

\* fdt_add_reservemap_entry; fdt_finish_reservemap adds the entry 0.
AddReservemapEntry(size) ==
  /\ Reserving /\ (size # 0 => Len(blob.rsv) < MaxRsv)
  /\ IF StructTop(blob) + 1 > blob.total THEN Fail(NOSPACE)
     ELSE Done([blob EXCEPT !.rsv = Append(@, size)]) /\ UNCHANGED <<open, tree, named>>

\* fdt_grab_space_
HasSpace(b, len) == DataSize(b) + len <= b.total

\* fdt_begin_node.  The callers write one root, named 0, and no name twice.
BeginNode(name) ==
  /\ Writing
  /\ IF open = <<>> THEN tree = <<>> /\ name = 0
     ELSE name # 0 /\ name \notin ToSet(tree[open].kids)
  /\ IF ~HasSpace(blob, 2) THEN Fail(NOSPACE)
     ELSE /\ Done([blob EXCEPT !.st = @ \o <<BEGIN_NODE, name>>])
          /\ open' = Append(open, name)
          /\ tree' = (Append(open, name) :> NoNode) @@
                     [p \in DOMAIN tree |->
                        IF p = open THEN [tree[p] EXCEPT !.kids = Append(@, name)] ELSE tree[p]]
          /\ UNCHANGED named

EndNode ==
  /\ Writing /\ open # <<>>
  /\ IF ~HasSpace(blob, 1) THEN Fail(NOSPACE)
     ELSE /\ Done([blob EXCEPT !.st = Append(@, END_NODE)])
          /\ open' = Front(open) /\ UNCHANGED <<tree, named>>

PropWords(nameoff, val) == <<PROP, Len(val), nameoff>> \o val

WithProp(path, name, val) == [tree EXCEPT ![path].props = (name :> val) @@ @]

\* fdt_find_add_string_: a string that is new goes below the others.
FindAddStringSw(b, name) ==
  LET at == SelectInSeq(b.strs, LAMBDA s : s = name) IN
  IF at > 0 THEN [b |-> b, off |-> at - 1 - Len(b.strs), allocated |-> FALSE]
  ELSE [b |-> [b EXCEPT !.strs = <<name>> \o @], off |-> -(Len(b.strs) + 1), allocated |-> TRUE]

\* Faulty variant: the string stays.
DelLastStringNot(s) == s.b

\* fdt_del_last_string_ of both files: the string that was added is taken back.
DelLastString(s) ==
  IF ~s.allocated THEN s.b
  ELSE [s.b EXCEPT !.strs = IF s.b.magic = "sw" THEN Tail(@) ELSE Front(@)]

\* The name s is there, and the property of size len is put in, or there is no
\* room for one of them.
AddNamed(s, len, b, path, name, val) ==
  IF DataSize(s.b) > s.b.total THEN Fail(NOSPACE)
  ELSE IF ~HasSpace(s.b, len) THEN ret' = NOSPACE /\ blob' = DelLastString(s) /\ UNCHANGED <<open, tree, named>>
  ELSE /\ Done(b) /\ tree' = WithProp(path, name, val) /\ named' = named \cup {name}
       /\ UNCHANGED open

\* fdt_property
Property(name, val) ==
  LET s == FindAddStringSw(blob, name) IN
  /\ Writing /\ open # <<>> /\ tree[open].kids = <<>> /\ name \notin DOMAIN tree[open].props
  /\ AddNamed(s, 3 + Len(val), [s.b EXCEPT !.st = @ \o PropWords(s.off, val)], open, name, val)

\* The words that hold the name of a property.
RECURSIVE Fixed(_, _)
Fixed(b, p) ==
  LET t == NextTag(b, p) IN
  CASE t.tag = END -> {}
    [] t.tag = PROP -> {p + 3} \cup Fixed(b, t.next)
    [] OTHER -> Fixed(b, t.next)

\* fdt_finish: the terminator; the strings move down behind the structure and
\* the offsets of the names are made relative to their new start.
Finish ==
  LET b == [blob EXCEPT !.st = Append(@, END)]
      names == Fixed(b, 0)
  IN
  /\ Writing /\ open = <<>> /\ tree # <<>>
  /\ IF ~HasSpace(blob, 1) THEN Fail(NOSPACE)
     ELSE /\ Done([b EXCEPT !.magic = "fdt", !.total = DataSize(b),
                     !.st = [i \in DOMAIN @ |-> IF i \in names THEN @[i] + Len(b.strs) ELSE @[i]]])
          /\ UNCHANGED <<open, tree, named>>

\* fdt_resize of an unfinished blob.
Resize(total) ==
  /\ blob.magic = "sw" /\ total # blob.total
  /\ IF DataSize(blob) > total THEN Fail(NOSPACE)
     ELSE Done([blob EXCEPT !.total = total]) /\ UNCHANGED <<open, tree, named>>

-----------------------------------------------------------------------------
(* fdt_rw.c and fdt_wip.c: a complete blob is edited.                      *)

\* fdt_splice_struct_: old words from off on become new.
SpliceStruct(b, off, old, new) ==
  [b EXCEPT !.st = SubSeq(@, 1, off) \o new \o SubSeq(@, off + old + 1, Len(@))]

\* The call succeeds if the result fits; tree is then t.
Edit(b, t) ==
  IF DataSize(b) > b.total THEN Fail(NOSPACE) ELSE Done(b) /\ tree' = t /\ UNCHANGED <<open, named>>

Complete == blob.magic = "fdt"

\* fdt_find_add_string_: a string that is new goes to the end.
FindAddString(b, name) ==
  LET at == SelectInSeq(b.strs, LAMBDA s : s = name) IN
  IF at > 0 THEN [b |-> b, off |-> at - 1, allocated |-> FALSE]
  ELSE [b |-> [b EXCEPT !.strs = Append(@, name)], off |-> Len(b.strs), allocated |-> TRUE]

\* fdt_add_property_: before the other properties.
AddProperty(node, path, name, val) ==
  LET s == FindAddString(blob, name)
      next == CheckOffset(blob, node, BEGIN_NODE)
  IN  AddNamed(s, 3 + Len(val), SpliceStruct(s.b, next, 0, PropWords(s.off, val)), path, name, val)

\* fdt_setprop: a property that exists is resized.
SetProp(path, name, val) ==
  LET node == PathOffset(blob, path)
      p == GetProperty(blob, node, name)
  IN
  /\ Complete
  /\ IF p = NOTFOUND THEN AddProperty(node, path, name, val)
     ELSE Edit([SpliceStruct(blob, p + 3, PropLen(blob, p), val) EXCEPT !.st[p + 2] = Len(val)],
               WithProp(path, name, val))

\* fdt_appendprop
AppendProp(path, name, val) ==
  LET node == PathOffset(blob, path)
      p == GetProperty(blob, node, name)
      new == PropData(blob, p) \o val
  IN
  /\ Complete /\ val # <<>>
  /\ IF p < 0 THEN AddProperty(node, path, name, val)
     ELSE Edit([SpliceStruct(blob, p + 3 + PropLen(blob, p), 0, val) EXCEPT !.st[p + 2] = Len(new)],
               WithProp(path, name, new))

Nops(n) == [i \in 1 .. n |-> NOP]

\* Faulty variant: the words of the value stay.
PropSizeHeader(b, p) == 3

PropSize(b, p) == 3 + PropLen(b, p)

\* fdt_delprop takes the property out, fdt_nop_property overwrites it.
DropProp(path, name, new(_)) ==
  LET p == GetProperty(blob, PathOffset(blob, path), name)
      t == [tree EXCEPT ![path].props = [n \in DOMAIN @ \ {name} |-> @[n]]]
  IN
  /\ Complete
  /\ IF p < 0 THEN Fail(p)
     ELSE Edit(SpliceStruct(blob, p, PropSize(blob, p), new(PropSize(blob, p))), t)

DelProp(path, name) == DropProp(path, name, LAMBDA n : <<>>)
NopProperty(path, name) == DropProp(path, name, Nops)

\* fdt_setprop_inplace: the value keeps its length.
SetPropInplace(path, name, val) ==
  LET p == GetProperty(blob, PathOffset(blob, path), name) IN
  /\ Complete /\ p >= 0
  /\ IF PropLen(blob, p) # Len(val) THEN Fail(NOSPACE)
     ELSE Edit(SpliceStruct(blob, p + 3, Len(val), val), WithProp(path, name, val))

RECURSIVE AfterProps(_, _)
AfterProps(b, p) == IF NextTag(b, p).tag \in {PROP, NOP} THEN AfterProps(b, NextTag(b, p).next) ELSE p

\* fdt_add_subnode_namelen: behind the properties of the parent.
AddSubnode(path, name) ==
  LET node == PathOffset(blob, path)
      old == SubnodeOffset(blob, node, name)
      at == AfterProps(blob, NextTag(blob, node).next)
      t == (Append(path, name) :> NoNode) @@ [tree EXCEPT ![path].kids = <<name>> \o @]
  IN
  /\ Complete
  /\ IF old >= 0 THEN Fail(EXISTS)
     ELSE IF old # NOTFOUND THEN Fail(old)
     ELSE Edit(SpliceStruct(blob, at, 0, <<BEGIN_NODE, name, END_NODE>>), t)

RECURSIVE NodeEndFrom(_, _)
NodeEndFrom(b, n) ==
  IF n.off >= 0 /\ n.depth >= 0 THEN NodeEndFrom(b, NextNode(b, n.off, n.depth)) ELSE n.off

\* fdt_node_end_offset_
NodeEndOffset(b, off) == NodeEndFrom(b, [off |-> off, depth |-> 0])

\* fdt_del_node takes a node with its subtree out, fdt_nop_node overwrites it.
DropNode(path, new(_)) ==
  LET node == PathOffset(blob, path)
      size == NodeEndOffset(blob, node) - node
      kept == {p \in DOMAIN tree : ~IsPrefix(path, p)}
      t == [p \in kept |-> [tree[p] EXCEPT !.kids =
              SelectSeq(@, LAMBDA k : Append(p, k) # path)]]
  IN  Complete /\ path # Root /\ Edit(SpliceStruct(blob, node, size, new(size)), t)

DelNode(path) == DropNode(path, LAMBDA n : <<>>)
NopNode(path) == DropNode(path, Nops)

\* fdt_add_mem_rsv and fdt_del_mem_rsv.
AddMemRsv(size) ==
  /\ Complete /\ size # 0 /\ NumMemRsv(blob) < MaxRsv
  /\ Edit([blob EXCEPT !.rsv = InsertAt(@, NumMemRsv(blob) + 1, size)], tree)

DelMemRsv(n) ==
  /\ Complete
  /\ IF n >= NumMemRsv(blob) THEN Fail(NOTFOUND)
     ELSE Edit([blob EXCEPT !.rsv = RemoveAt(@, n + 1)], tree)

\* fdt_open_into a buffer, and fdt_pack.
OpenInto(total) ==
  /\ Complete
  /\ IF blob.total > total THEN Fail(NOSPACE)
     ELSE Done([blob EXCEPT !.total = total]) /\ UNCHANGED <<open, tree, named>>

Pack == Complete /\ Done([blob EXCEPT !.total = DataSize(blob)]) /\ UNCHANGED <<open, tree, named>>

-----------------------------------------------------------------------------
FdtNext ==
  \/ \E total \in Totals : Create(total) \/ Resize(total) \/ OpenInto(total)
  \/ \E size \in 0 .. 1 : AddReservemapEntry(size) \/ AddMemRsv(size) \/ DelMemRsv(size)
  \/ \E name \in NodeNames \cup {0} : BeginNode(name)
  \/ EndNode \/ Finish \/ Pack
  \/ \E name \in PropNames, val \in PropVals : Property(name, val)
  \/ \E path \in DOMAIN tree :
       \/ \E name \in PropNames :
            \/ DelProp(path, name) \/ NopProperty(path, name)
            \/ \E val \in PropVals :
                 SetProp(path, name, val) \/ AppendProp(path, name, val) \/ SetPropInplace(path, name, val)
       \/ \E name \in NodeNames : AddSubnode(path, name)
       \/ DelNode(path) \/ NopNode(path)

FdtSpec == FdtInit /\ [][FdtNext]_fdtVars

-----------------------------------------------------------------------------
(* Properties.                                                             *)

\* The tree a structure block stands for, read word by word.
RECURSIVE Decode(_, _, _, _)
Decode(b, i, path, t) ==
  LET w == b.st[i]
      name == b.st[i + 1]
      grown == (Append(path, name) :> NoNode) @@
               (IF path = <<>> THEN t ELSE [t EXCEPT ![path].kids = Append(@, name)])
      val == SubSeq(b.st, i + 3, i + 2 + b.st[i + 1])
  IN  CASE w = END -> t
        [] w = NOP -> Decode(b, i + 1, path, t)
        [] w = END_NODE -> Decode(b, i + 1, Front(path), t)
        [] w = BEGIN_NODE -> Decode(b, i + 2, Append(path, name), grown)
        [] w = PROP -> Decode(b, i + 3 + b.st[i + 1], path,
             [t EXCEPT ![path].props = (b.strs[b.st[i + 2] + 1] :> val) @@ @])

\* Whatever was written and edited, and whichever calls found no room on the
\* way, a complete blob passes fdt_check_full and stands for the tree that the
\* calls have described; the blocks of an unfinished one do not overlap, and the
\* strings are the names that properties have had, each of them once.
BlobInv ==
  /\ ToSet(blob.strs) = named /\ Len(blob.strs) = Cardinality(named)
  /\ blob.magic # "none" => DataSize(blob) <= blob.total
  /\ Complete => CheckFull(blob) = 0 /\ Decode(blob, 1, <<>>, <<>>) = tree

\* The queries agree with the tree: a path leads to the node of that name and
\* back, a name without a unit address to the first subnode it fits; the parent
\* and the depth of a node are those of its path, its properties and subnodes
\* those of the tree; a search for a phandle, a value or a compatible string finds
\* the first node that has it, and a new phandle is one that no node has.
QueryInv ==
  LET Having(P(_)) == {PathOffset(blob, path) : path \in {p \in DOMAIN tree : P(tree[p].props)}}
      FirstOf(nodes) == IF nodes = {} THEN NOTFOUND ELSE Min(nodes)
      Is(props, name, val) == name \in DOMAIN props /\ props[name] = val
  IN
  Complete =>
    /\ \A path \in DOMAIN tree :
         LET node == PathOffset(blob, path)
             kids == [i \in DOMAIN tree[path].kids |->
                        PathOffset(blob, Append(path, tree[path].kids[i]))]
         IN
         /\ node >= 0 /\ GetPath(blob, node) = path
         /\ NodeDepth(blob, node) = Len(path) - 1
         /\ path # Root => ParentOffset(blob, node) = PathOffset(blob, Front(path))
         /\ \A name \in PropNames :
              LET p == GetProperty(blob, node, name) IN
              IF name \in DOMAIN tree[path].props THEN PropData(blob, p) = tree[path].props[name]
              ELSE p = NOTFOUND
         /\ \A val \in PropVals : (NodeCheckCompatible(blob, node, val[1]) = 0)
                                  = (StringlistSearch(blob, node, Compatible, val[1]) >= 0)
         /\ \A k \in ToSet(tree[path].kids) :
              SubnodeOffset(blob, node, 10 * (k \div 10)) =
                kids[SelectInSeq(tree[path].kids, LAMBDA n : n \div 10 = k \div 10)]
         /\ FirstSubnode(blob, node) = IF kids = <<>> THEN NOTFOUND ELSE kids[1]
         /\ \A i \in DOMAIN kids :
              NextSubnode(blob, kids[i]) = IF i = Len(kids) THEN NOTFOUND ELSE kids[i + 1]
    /\ \A val \in PropVals :
         /\ NodeOffsetByPropValue(blob, -1, Compatible, val) =
              FirstOf(Having(LAMBDA props : Is(props, Compatible, val)))
         /\ NodeOffsetByPhandle(blob, val[1]) = FirstOf(Having(LAMBDA props : Is(props, Phandle, <<val[1]>>)))
         /\ NodeOffsetByCompatible(blob, -1, Last(val)) =
              FirstOf(Having(LAMBDA props : Compatible \in DOMAIN props /\ Last(val) \in ToSet(props[Compatible])))
    /\ Having(LAMBDA props : Is(props, Phandle, <<GeneratePhandle(blob)>>)) = {}
=============================================================================
