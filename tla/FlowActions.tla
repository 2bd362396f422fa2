---------------------------- MODULE FlowActions ----------------------------
(***************************************************************************)
(* What a flow table entry does with a packet: how the actions of a rule   *)
(* become the flow context, the destination list and the modify and        *)
(* reformat objects of an entry of an ordinary table, and the flow the     *)
(* back end is asked for on the root table (flow_action.cpp,               *)
(* flow_rule_ex.cpp, dcmd action and flow).  A rule keeps its actions in a *)
(* hash map: they are applied in any order.                                *)
(***************************************************************************)
EXTENDS Calls, Layouts, Sequences, Functions

CONSTANTS
  Rules,    \* lists of actions that are tried
  Garbage   \* contents of memory that was not initialised, that are tried

MLX5_ACTION_TYPE_SET  == {0}
MLX5_ACTION_TYPE_COPY == {0, 1}
MLX5_FLOW_CONTEXT_ACTION_FWD_DEST        == 2    \* the bits of the flags
MLX5_FLOW_CONTEXT_ACTION_PACKET_REFORMAT == 4
MLX5_FLOW_CONTEXT_ACTION_MOD_HDR         == 6
MLX5_FLOW_CONTEXT_ACTION_REPARSE         == 15

(* A number of 24 bits as its set of bits, and back. *)
Bin(n)  == {i \in 0..23 : (n \div 2^i) % 2 = 1}
Num(b)  == LET sum[n \in 0..24] == IF n = 0 THEN 0
                                   ELSE sum[n - 1] + IF n - 1 \in b THEN 2^(n - 1) ELSE 0
           IN  sum[24]
None    == "none"

(* The actions, as the generator makes them. *)
create_fwd(dests)     == [kind |-> "fwd", dests |-> dests]
create_tag(id)        == [kind |-> "tag", id |-> id]
create_modify(list)   == [kind |-> "modify", actions |-> list]
create_reformat(attr) == [kind |-> "reformat", attr |-> attr]
create_reparse        == [kind |-> "reparse"]
forwardable_obj(type, id, valid) == [type |-> type, id |-> id, valid |-> valid]
flow_action_reformat_attr(type, start, offset, null, data) ==
  [type |-> type, start |-> start, offset |-> offset, null |-> null, data |-> data]
flow_action_modify_set_attr(field, offset, length, data) ==
  [type |-> "SET", field |-> field, offset |-> offset, length |-> length, data |-> data]
flow_action_modify_copy_attr(src, src_offset, length, dst, dst_offset) ==
  [type |-> "COPY", src_field |-> src, src_offset |-> src_offset, length |-> length,
   dst_field |-> dst, dst_offset |-> dst_offset]

(* Their widths in the interface; a type of modification may be any other  *)
(* number.  A device gives ids of 24 bits.                                 *)
forwardable_obj_type == [type : SUBSET Word(8), id : SUBSET Word(24), valid : BOOLEAN]
modify_set_type ==
  [type : {"SET"}, field : SUBSET Word(12), offset : SUBSET Word(5), length : SUBSET Word(5),
   data : SUBSET Word(32)]
modify_copy_type ==
  [type : {"COPY"}, src_field : SUBSET Word(12), src_offset : SUBSET Word(5),
   length : SUBSET Word(5), dst_field : SUBSET Word(12), dst_offset : SUBSET Word(5)]
modify_other_type == [type : STRING \ {"SET", "COPY"}]
reformat_type ==
  [type : STRING, start : Nat, offset : 0..255, null : BOOLEAN, data : Seq(0..255)]
flow_action ==
  [kind : {"fwd"}, dests : Seq(forwardable_obj_type)]
  \cup [kind : {"tag"}, id : SUBSET Word(32)]
  \cup [kind : {"modify"}, actions : Seq(modify_set_type \cup modify_copy_type \cup modify_other_type)]
  \cup [kind : {"reformat"}, attr : reformat_type]
  \cup [kind : {"reparse"}]

ASSUME ActionsAssumption ==
  /\ Rules \subseteq Seq(flow_action)
  /\ \A actions \in Rules : \A i \in DOMAIN actions :
       actions[i].kind = "reformat" => Len(actions[i].attr.data) < 2^10

(* flow_rule_ex::verify_flow_actions *)
verify_flow_actions(actions) ==
  /\ actions # <<>>
  /\ \A i, j \in DOMAIN actions : actions[i].kind = actions[j].kind => i = j
  /\ \E i \in DOMAIN actions : actions[i].kind = "fwd"

----------------------------------------------------------------------------
(* Modify actions.  prepare_prm_modify_buff writes entries into a cleared  *)
(* buffer; num_of_actions has 8 bits.                                      *)
apply_modify_set_action(a) ==
  LET l == set_action_in
  IN  DEVX_SET(l.action_type, MLX5_ACTION_TYPE_SET) \cup DEVX_SET(l.field, a.field)
      \cup DEVX_SET(l.offset, a.offset) \cup DEVX_SET(l.length, a.length)
      \cup DEVX_SET(l.data, a.data)

apply_modify_copy_action(a) ==
  LET l == copy_action_in
  IN  DEVX_SET(l.action_type, MLX5_ACTION_TYPE_COPY) \cup DEVX_SET(l.src_field, a.src_field)
      \cup DEVX_SET(l.src_offset, a.src_offset) \cup DEVX_SET(l.length, a.length)
      \cup DEVX_SET(l.dst_field, a.dst_field) \cup DEVX_SET(l.dst_offset, a.dst_offset)

ModifySupported(list) == \A i \in DOMAIN list : list[i].type \in {"SET", "COPY"}

prepare_prm_modify_buff(list) ==
  [num_of_actions |-> Len(list) % 2^8,
   inlen   |-> alloc_modify_header_context_in_SZ + set_add_copy_action_in_auto_SZ * Len(list),
   actions |-> [i \in DOMAIN list |-> IF list[i].type = "SET" THEN apply_modify_set_action(list[i])
                                      ELSE apply_modify_copy_action(list[i])]]

(* prepare_flow_desc_buffs: the same for the root table, in an array that  *)
(* is not initialised.                                                     *)
RootAction(a, garbage) ==
  LET l == modify_action
      dst(type, field, offset) ==
        DEVX_SET(l.dst_action_type, type) \cup DEVX_SET(l.dst_field, field)
        \cup DEVX_SET(l.dst_offset, offset) \cup DEVX_SET(l.dst_length, a.length)
      written == Bits(l.dst_action_type) \cup Bits(l.dst_field) \cup Bits(l.dst_offset)
                 \cup Bits(l.dst_length)
                 \cup IF a.type = "SET" THEN Bits(l.src_data)
                      ELSE Bits(l.src_field) \cup Bits(l.src_offset)
  IN  (garbage \ written)
      \cup IF a.type = "SET"
           THEN dst(MLX5_ACTION_TYPE_SET, a.field, a.offset) \cup DEVX_SET(l.src_data, a.data)
           ELSE dst(MLX5_ACTION_TYPE_COPY, a.dst_field, a.dst_offset)
                \cup DEVX_SET(l.src_field, a.src_field) \cup DEVX_SET(l.src_offset, a.src_offset)

prepare_flow_desc_buffs(list, garbage) ==
  [i \in DOMAIN list |-> RootAction(list[i], garbage)]

(* alloc_reformat_insert_action, called by the constructor; an action      *)
(* whose object was not made is not valid.                                 *)
alloc_reformat_insert_action(attr) ==
  LET raw == alloc_packet_reformat_context_in_SZ + Len(attr.data)
  IN  [inlen |-> raw + (4 - (raw % 4)), data |-> attr.data,
       reformat_data_size |-> Len(attr.data) % 2^10,
       reformat_param_0 |-> attr.start, reformat_param_1 |-> attr.offset]
ReformatValid(attr, accepts) == attr.type = "INSERT_HDR" /\ ~attr.null /\ accepts

----------------------------------------------------------------------------
(* A variant with a slip: an action's flag replaces those set before it. *)
Enable_Overwrites(ctx, flag) ==
  (ctx \ Bits(flow_context.action)) \cup DEVX_SET(flow_context.action, {flag})
tag_root_Forgotten(desc, a) == desc

(* The flags of an entry's actions are read, extended and written back. *)
Enable(ctx, flag) ==
  (ctx \ Bits(flow_context.action))
  \cup DEVX_SET(flow_context.action, DEVX_GET(flow_context.action, ctx) \cup {flag})

(* A command that sets an entry, with the objects its actions made.        *)
(* alloc_in_buff makes room for as many destinations as there are.         *)
Fwd(actions) == actions[CHOOSE i \in DOMAIN actions : actions[i].kind = "fwd"]
alloc_in_buff(actions) ==
  [inlen |-> set_fte_in_SZ + dest_format_struct_SZ * Len(Fwd(actions).dests),
   ctx |-> {}, destination |-> <<>>, modify |-> None, reformat |-> None]

Fail(ret) == [ret |-> ret]
Done(in)  == [ret |-> "DPCP_OK", in |-> in]

(* flow_action_fwd::apply *)
Destination(d) ==
  DEVX_SET(dest_format_struct.destination_id, d.id)
  \cup DEVX_SET(dest_format_struct.destination_type, d.type)
fwd_apply(in, a) ==
  IF \E i \in DOMAIN a.dests : ~a.dests[i].valid THEN Fail("DPCP_ERR_INVALID_ID")
  ELSE Done([in EXCEPT
         !.destination = [i \in DOMAIN a.dests |-> Destination(a.dests[i])],
         !.ctx = Enable(@, MLX5_FLOW_CONTEXT_ACTION_FWD_DEST)
                 \cup DEVX_SET(flow_context.destination_list_size, Bin(Len(a.dests)))])

tag_apply(in, a) == Done([in EXCEPT !.ctx = @ \cup DEVX_SET(flow_context.flow_tag, a.id)])

(* flow_action_modify::apply with create_prm_modify; the device gives the  *)
(* object id modify_header_id.                                             *)
modify_apply(in, a, accepts) ==
  IF ~ModifySupported(a.actions) THEN Fail("DPCP_ERR_NO_SUPPORT")
  ELSE IF ~accepts THEN Fail("DPCP_ERR_CREATE")
  ELSE Done([in EXCEPT !.ctx = Enable(@, MLX5_FLOW_CONTEXT_ACTION_MOD_HDR)
                                \cup DEVX_SET(flow_context.modify_header_id, One),
                       !.modify = prepare_prm_modify_buff(a.actions)])

reformat_apply(in, a, accepts) ==
  IF ~ReformatValid(a.attr, accepts) THEN Fail("DPCP_ERR_NOT_APPLIED")
  ELSE Done([in EXCEPT !.ctx = Enable(@, MLX5_FLOW_CONTEXT_ACTION_PACKET_REFORMAT)
                                \cup DEVX_SET(flow_context.packet_reformat_id, One),
                       !.reformat = alloc_reformat_insert_action(a.attr)])

reparse_apply(in) == Done([in EXCEPT !.ctx = Enable(@, MLX5_FLOW_CONTEXT_ACTION_REPARSE)])

apply_prm(in, a, accepts) ==
  CASE a.kind = "fwd"      -> fwd_apply(in, a)
    [] a.kind = "tag"      -> tag_apply(in, a)
    [] a.kind = "modify"   -> modify_apply(in, a, accepts)
    [] a.kind = "reformat" -> reformat_apply(in, a, accepts)
    [] a.kind = "reparse"  -> reparse_apply(in)

(* The loop over the actions stops at the first that fails. *)
InOrder(start, order, Apply(_, _)) ==
  LET after[n \in 0..Len(order)] ==
        IF n = 0 THEN Done(start)
        ELSE IF after[n - 1].ret # "DPCP_OK" THEN after[n - 1]
        ELSE Apply(after[n - 1].in, order[n])
  IN  after[Len(order)]

(* flow_rule_ex_prm::create, without the match value. *)
create_rule_prm(actions, order, accepts) ==
  Call("rule_prm", [actions |-> actions],
       IF ~verify_flow_actions(actions) THEN Fail("DPCP_ERR_INVALID_PARAM")
       ELSE InOrder(alloc_in_buff(actions), order, LAMBDA in, a : apply_prm(in, a, accepts)))

----------------------------------------------------------------------------
(* The root table: actions fill a flow_desc; modify_actions is a list that *)
(* holds the array, or nothing.                                            *)
flow_desc == [flow_id |-> {}, dst_obj |-> <<>>, modify_actions |-> <<>>]

fwd_root(desc, a) ==
  IF \E i \in DOMAIN a.dests : ~a.dests[i].valid THEN Fail("DPCP_ERR_CREATE")
  ELSE Done([desc EXCEPT !.dst_obj = a.dests])
tag_root(desc, a) == [desc EXCEPT !.flow_id = a.id]
modify_root(desc, a, garbage) ==
  IF ~ModifySupported(a.actions) THEN Fail("DPCP_ERR_NO_SUPPORT")
  ELSE Done([desc EXCEPT !.modify_actions = <<prepare_flow_desc_buffs(a.actions, garbage)>>])

apply_root(desc, a, garbage) ==
  CASE a.kind = "fwd"    -> fwd_root(desc, a)
    [] a.kind = "tag"    -> Done(tag_root(desc, a))
    [] a.kind = "modify" -> modify_root(desc, a, garbage)
    [] OTHER             -> Fail("DPCP_ERR_NO_SUPPORT")

(* What is left of a rule that is refused. *)
Refuse(ret, left) == [ret |-> ret, left |-> left]

(* dcmd::flow::flow asks for a matcher, for a modify action and for the    *)
(* flow; step is the one that the device refuses, or none.                 *)
flow(desc, step) ==
  LET modifies == desc.modify_actions # <<>>
  IN  CASE step = "matcher"            -> Refuse("DPCP_ERR_CREATE", {})
        [] step = "modify" /\ modifies -> Refuse("DPCP_ERR_CREATE", {"matcher"})
        [] step = "flow" -> Refuse("DPCP_ERR_CREATE", IF modifies THEN {"modify"} ELSE {})
        [] OTHER -> [ret |-> "DPCP_OK", left |-> IF modifies THEN {"modify"} ELSE {},
                     tag |-> desc.flow_id, modify |-> desc.modify_actions, dests |-> desc.dst_obj]

(* flow_rule_ex_kernel::create, without the match parameters, and the      *)
(* objects that are left when the rule, if it was made, is deleted.        *)
create_rule_kernel(actions, order, garbage, step) ==
  Call("rule_kernel", [actions |-> actions],
       IF ~verify_flow_actions(actions) THEN Refuse("DPCP_ERR_INVALID_PARAM", {})
       ELSE LET r == InOrder(flow_desc, order, LAMBDA desc, a : apply_root(desc, a, garbage))
            IN  IF r.ret # "DPCP_OK" THEN Refuse(r.ret, {}) ELSE flow(r.in, step))

Orders(actions) ==
  {[i \in DOMAIN actions |-> actions[p[i]]] : p \in Bijection(DOMAIN actions, DOMAIN actions)}

ActionsNext ==
  \E actions \in Rules : \E order \in Orders(actions) :
    \/ \E accepts \in BOOLEAN : create_rule_prm(actions, order, accepts)
    \/ \E g \in Garbage, step \in {"matcher", "modify", "flow", None} :
         create_rule_kernel(actions, order, g, step)

ActionsSpec == CallsInit /\ [][ActionsNext \/ Return]_last

----------------------------------------------------------------------------
(* How the device reads an entry (external). *)
ReadModify(box) ==
  LET s == set_action_in
      c == copy_action_in
  IN  IF DEVX_GET(s.action_type, box) = MLX5_ACTION_TYPE_SET
      THEN flow_action_modify_set_attr(DEVX_GET(s.field, box), DEVX_GET(s.offset, box),
                                       DEVX_GET(s.length, box), DEVX_GET(s.data, box))
      ELSE flow_action_modify_copy_attr(DEVX_GET(c.src_field, box), DEVX_GET(c.src_offset, box),
             DEVX_GET(c.length, box), DEVX_GET(c.dst_field, box), DEVX_GET(c.dst_offset, box))
ReadList(list) == [i \in DOMAIN list |-> ReadModify(list[i])]

(* Members of a list that lie inside a command of inlen bytes. *)
Inside(list, n, inlen, fixed, size) ==
  SubSeq(list, 1, IF n <= (inlen - fixed) \div size THEN n ELSE (inlen - fixed) \div size)

Does(e) ==
  LET flags == DEVX_GET(flow_context.action, e.ctx)
      n     == Num(DEVX_GET(flow_context.destination_list_size, e.ctx))
      dests == Inside(e.destination, n, e.inlen, set_fte_in_SZ, dest_format_struct_SZ)
      d     == dest_format_struct
      m     == e.modify
  IN  [dests |-> IF MLX5_FLOW_CONTEXT_ACTION_FWD_DEST \notin flags THEN <<>>
                 ELSE [i \in DOMAIN dests |-> <<DEVX_GET(d.destination_type, dests[i]),
                                                DEVX_GET(d.destination_id, dests[i])>>],
       tag |-> DEVX_GET(flow_context.flow_tag, e.ctx),
       modify |-> IF MLX5_FLOW_CONTEXT_ACTION_MOD_HDR \notin flags THEN <<>>
                  ELSE ReadList(Inside(m.actions, m.num_of_actions, m.inlen,
                         alloc_modify_header_context_in_SZ, set_add_copy_action_in_auto_SZ)),
       insert |-> IF MLX5_FLOW_CONTEXT_ACTION_PACKET_REFORMAT \notin flags THEN <<>>
                  ELSE <<e.reformat.reformat_param_0, e.reformat.reformat_param_1,
                         Inside(e.reformat.data, e.reformat.reformat_data_size,
                                e.reformat.inlen, reformat_data_AT, 1)>>,
       reparse |-> MLX5_FLOW_CONTEXT_ACTION_REPARSE \in flags]

(* What the actions of a rule ask for. *)
Of(actions, kind, Get(_), default) ==
  LET is == {i \in DOMAIN actions : actions[i].kind = kind}
  IN  IF is = {} THEN default ELSE Get(actions[CHOOSE i \in is : TRUE])
WantedTag(actions)    == Of(actions, "tag", LAMBDA a : a.id, {})
WantedModify(actions) == Of(actions, "modify", LAMBDA a : a.actions, <<>>)
Wanted(actions) ==
  [dests  |-> [i \in DOMAIN Fwd(actions).dests |->
                 <<Fwd(actions).dests[i].type, Fwd(actions).dests[i].id>>],
   tag    |-> WantedTag(actions), modify |-> WantedModify(actions),
   insert |-> Of(actions, "reformat", LAMBDA a : <<a.attr.start, a.attr.offset, a.attr.data>>, <<>>),
   reparse |-> \E i \in DOMAIN actions : actions[i].kind = "reparse"]

Made(op) == last.op = op /\ last.out.ret = "DPCP_OK"
Copies(list) == \E i \in DOMAIN list : list[i].type = "COPY"

(* An entry of an ordinary table does exactly what the rule's actions say, *)
(* in whatever order the map yields them: it forwards to every destination *)
(* and to no other, marks, modifies, inserts and parses again.  Marks have *)
(* 24 bits and 255 modifications are counted; there are fewer than 2^24    *)
(* destinations.                                                           *)
EntryActs ==
  Made("rule_prm") /\ WantedTag(last.in.actions) \subseteq Word(24)
  /\ Len(WantedModify(last.in.actions)) < 256 /\ Len(Fwd(last.in.actions).dests) < 2^24
    => Does(last.out.in) = Wanted(last.in.actions)

(* A flow of the root table does what the rule's actions say, whatever the *)
(* memory of its descriptions held before, as long as nothing is copied;   *)
(* a rule with an action the root table does not have is refused, never    *)
(* made without it.  When nothing is modified a refused or deleted rule    *)
(* leaves no object of the device behind.                                  *)
RootActs ==
  last.op = "rule_kernel" =>
    LET list == WantedModify(last.in.actions)
    IN  /\ last.out.ret = "DPCP_OK" =>
             /\ \A i \in DOMAIN last.in.actions : last.in.actions[i].kind \in {"fwd", "tag", "modify"}
             /\ last.out.dests = Fwd(last.in.actions).dests
             /\ last.out.tag = WantedTag(last.in.actions)
             /\ IF last.out.modify = <<>> THEN list = <<>>
                ELSE Copies(list) \/ ReadList(last.out.modify[1]) = list
        /\ (\A i \in DOMAIN last.in.actions : last.in.actions[i].kind # "modify") => last.out.left = {}

(* "The source field of packet where data is copied from", "The            *)
(* destination field of packet where data is copied to": also on the root  *)
(* table.                                                                  *)
RootCopies ==
  Made("rule_kernel") /\ last.out.modify # <<>>
    => ReadList(last.out.modify[1]) = WantedModify(last.in.actions)
=============================================================================
