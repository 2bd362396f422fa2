---------------------------- MODULE MCEncodings ----------------------------
(* The calls whose outcome depends on their arguments alone, in one model: *)
(* sizes of rings, contexts of queues, matches and actions of flows.       *)
EXTENDS RingSizes, QueueContexts, FlowMatch, FlowActions, TLC

(* Rings: powers of two and their neighbours, up to and beyond what fits   *)
(* into W bits.                                                            *)
MCNum       == {0, 1, 3, 4, 16, 17, 2^10, 2^14, 2^18, 2^18 + 1, 2^19}
MCSz        == {0, 1, 2, 3, 4, 64, 65}
MCStrideNum == {2^8, 2^9, 2^12, 2^16, 2^16 + 1, 0}
MCStrideSz  == {2^5, 2^6, 2^13, 2^13 + 1}
MCLog       == (-2)..70 \cup {2^17 - 1, 2^17, 2^17 + 1, 2^18, 2^18 + 1, 2^19 - 1}

----------------------------------------------------------------------------
(* Contexts: every attribute with its lowest bit, the highest bit that     *)
(* arrives and one that may not.                                           *)
MCCqAttrs ==
  [eq_num : {{0, 7}, {1, 8}}, cq_period : {{}, {0, 11}, {12}}, cq_max_cnt : {{0, 15}, {1, 16}},
   flags : SUBSET cq_flags,
   use : SUBSET {"CQ_SIZE", "CQ_EQ_NUM", "CQ_MODERATION", "CQ_FLAGS"}]
MCRqAttrs ==
  [user_index : {{0, 23}, {1, 24}}, cqn : {{0, 23}, {7}}, ts_format : {{}, {1}, {0, 2}}]
MCIbqAttrs ==
  [user_index : {{0, 23}, {1, 24}}, cqn : {{2, 23}}, ts_format : {{1}}, protocol : dpcp_ibq_protocol,
   buf_stride_sz : {{0, 15}, {6, 16}}, ibq_scatter_offset : {{0, 7}}]
MCSqAttrs == [user_index : {{0, 23}, {1, 24}}, cqn : {{0, 23}, {7}}, tis_num : {{3, 23}, {2, 24}}]
MCStates  == {{}, {0}, {0, 1}}

----------------------------------------------------------------------------
(* One thing to match on: fields of the criteria and of the value. *)
A(c, v) == [c |-> c, v |-> v]
S(n, val) == [i \in 1..n |-> [val |-> val, id |-> {i - 1}]]

Aspects ==
  {A([dst_mac |-> {0, 47}], [dst_mac |-> {47}]), A([dst_mac |-> {50}], [dst_mac |-> {47, 50}]),
   A([src_mac |-> {3, 47}], [src_mac |-> {3}]),
   A([ethertype |-> Word(16)], [ethertype |-> Ethertype4]),
   A([first_vlan_id |-> Word(12)], [first_vlan_id |-> {0, 11}]),
   A([first_vlan_id |-> {13}], [first_vlan_id |-> {0, 13}]), A([first_vlan_id |-> {0}], <<>>),
   A([src_ip |-> Word(32)], [src_ip |-> {0, 31}]), A([dst_ip |-> {0, 31}], [dst_ip |-> {31}]),
   A([ip_protocol |-> Word(8)], [ip_protocol |-> ProtoTcp]),
   A([ip_version |-> Word(4)], [ip_version |-> Version4]),
   A([type |-> "TCP", dst_port |-> {0, 15}], [type |-> "UDP", dst_port |-> {15}, src_port |-> {1}]),
   A([type |-> "UDP", src_port |-> {0, 15}, dst_port |-> {7}], [src_port |-> {0}, dst_port |-> {}]),
   A([type |-> "SCTP"], [type |-> "SCTP"]),
   A([samples |-> S(1, {0, 31})], [samples |-> S(1, {31})]),
   A([samples |-> S(2, {5})], [samples |-> S(2, {5})]),
   A([samples |-> S(2, {5})], [samples |-> S(1, {5})]),
   A([samples |-> S(8, {5})], [samples |-> S(8, {5})]),
   A([samples |-> S(9, {5})], [samples |-> S(9, {5})]),
   A([metadata_reg_c_0 |-> Word(32)], [metadata_reg_c_0 |-> {0, 30}])}

MCMatch ==
  {<<(a.c @@ b.c) @@ match_params_ex, (a.v @@ b.v) @@ match_params_ex>> : a, b \in Aspects}
MCEnabled == SUBSET {FG_MATCH_OUTER_HDR, FG_MATCH_METADATA_REG_C_0, FG_MATCH_PARSER_FIELDS}

Rule(m) == m @@ match_params
Four == A([ethertype |-> Word(16), ip_version |-> Word(4)], [ethertype |-> Ethertype4, ip_version |-> Version4])
Six  == A([ethertype |-> Word(16), ip_version |-> Word(4)], [ethertype |-> Ethertype6, ip_version |-> Version6])
Versions == {A(<<>>, <<>>), Four, Six, A([ip_version |-> Word(4)], [ip_version |-> Version4]),
             A([ip_version |-> {2, 5}], [ip_version |-> {2, 5}]), A([ip_version |-> {5}], [ip_version |-> {}])}
Wheres ==
  {A(<<>>, <<>>),
   A([src_ip |-> Word(32)], [src_ip |-> {0, 31}]),
   A([src_ip |-> Word(32), dst_ip |-> {0, 31}], [src_ip |-> {0, 31}, dst_ip |-> {31}]),
   A([dst_ip |-> {0, 31}], [dst_ip |-> {0}]),
   A([src |-> Word(32)], [src |-> {0, 31}]), A([src |-> Word(32)], [src |-> {}]),
   A([src |-> Word(32), dst |-> {0}], [src_ip |-> {0, 31}, dst_ip |-> {31}]),
   A([src |-> Word(128), dst |-> {0, 127}], [src |-> {0, 31, 127}, dst |-> {127}]),
   A([src |-> Word(128), dst_ip |-> {0}], [src |-> {127}, dst_ip |-> {0}])}
Others ==
  {A(<<>>, <<>>), A([dst_mac |-> {0, 47}], [dst_mac |-> {47}]),
   A([vlan_id |-> Word(12)], [vlan_id |-> {0, 11}]), A([vlan_id |-> {13}], [vlan_id |-> {0, 13}]),
   A([protocol |-> Word(8), dst_port |-> {0, 15}], [protocol |-> ProtoTcp, dst_port |-> {15}]),
   A([protocol |-> Word(8), src_port |-> {0}], [protocol |-> {4, 0}, src_port |-> {0}]),
   A([dst_port |-> {15}], [protocol |-> ProtoTcp, dst_port |-> {15}])}
MCLegacy ==
  {<<(a.c @@ b.c) @@ (d.c @@ match_params), (a.v @@ b.v) @@ (d.v @@ match_params)>> :
     a \in Versions, b \in Wheres, d \in Others}

Base ==
  [src_mac |-> {3}, dst_mac |-> {47}, ethertype |-> Ethertype4, tag |-> One, vid |-> {0, 11},
   src_ip |-> {0, 31}, dst_ip |-> {31}, ip_protocol |-> ProtoTcp, ip_version |-> Version4,
   type |-> "TCP", src_port |-> {1}, dst_port |-> {15}, metadata_reg_c_0 |-> {0, 30},
   sample |-> [id \in {{}} \cup {{i} : i \in 0..8} |-> {5, 31}]]
MCPackets ==
  {Base, [Base EXCEPT !.src_mac = {47}], [Base EXCEPT !.dst_mac = {0, 47}],
   [Base EXCEPT !.tag = {}, !.vid = {}], [Base EXCEPT !.vid = {11}], [Base EXCEPT !.vid = {}],
   [Base EXCEPT !.src_ip = {31}], [Base EXCEPT !.dst_ip = {0, 31}], [Base EXCEPT !.dst_ip = {0}],
   [Base EXCEPT !.type = "UDP", !.ip_protocol = {4, 0}, !.src_port = {0}, !.dst_port = {}],
   [Base EXCEPT !.type = "UDP", !.ip_protocol = {4, 0}], [Base EXCEPT !.dst_port = {}],
   [Base EXCEPT !.metadata_reg_c_0 = {0}], [Base EXCEPT !.sample[{0}] = {}],
   [Base EXCEPT !.sample[{7}] = {31}],
   [Base EXCEPT !.ethertype = Ethertype6, !.ip_version = Version6,
                !.src_ip = {0, 31, 127}, !.dst_ip = {127}],
   [Base EXCEPT !.ethertype = Ethertype6, !.ip_version = Version6,
                !.src_ip = {0, 31, 127}, !.dst_ip = {0, 127}]}

----------------------------------------------------------------------------
tir == forwardable_obj({1}, {0, 23}, TRUE)
table == forwardable_obj({0}, {3}, TRUE)
gone == forwardable_obj({1}, {}, FALSE)
set == flow_action_modify_set_attr({0, 11}, {4}, {0, 4}, {0, 31})
copy == flow_action_modify_copy_attr({0}, {4}, {1}, {4, 6}, {0})
add == [type |-> "ADD"]

MCFwd == {create_fwd(<<tir>>), create_fwd(<<tir, table, tir>>), create_fwd(<<table, gone>>)}
MCTag == {create_tag({0, 23}), create_tag({}), create_tag({1, 24})}
MCModify == {create_modify(l) : l \in {<<set>>, <<copy>>, <<set, copy>>, <<set, add>>, <<>>}}
MCReformat ==
  {create_reformat(flow_action_reformat_attr("INSERT_HDR", 7, 3, FALSE, [i \in 1..n |-> i])) : n \in {1, 4, 7}}
  \cup {create_reformat(flow_action_reformat_attr("INSERT_HDR", 7, 3, TRUE, <<>>)),
        create_reformat(flow_action_reformat_attr("REMOVE_HDR", 7, 3, TRUE, <<>>))}
Many(n) == create_modify([i \in 1..n |-> set])

(* An action of each kind or none, in one list; and lists that are not one *)
(* of each kind.                                                           *)
Maybe(acts) == {<<>>} \cup {<<a>> : a \in acts}
MCRules ==
  {f \o t \o m \o r \o p : f \in Maybe({create_fwd(<<tir, table>>)}), t \in Maybe({create_tag({0, 23})}),
     m \in Maybe({create_modify(<<set, copy>>), create_modify(<<set>>)}),
     r \in Maybe({create_reformat(flow_action_reformat_attr("INSERT_HDR", 7, 3, FALSE, <<1, 2, 3>>))}),
     p \in Maybe({create_reparse})}
  \cup {<<f, x>> : f \in MCFwd, x \in MCTag \cup MCModify \cup MCReformat \cup {Many(255), Many(256)}}
  \cup {<<f>> : f \in MCFwd} \cup {<<f, create_tag({0}), create_tag({1})>> : f \in MCFwd}

MCGarbage == {{}, 0..63}

----------------------------------------------------------------------------
Next == RingNext \/ ContextsNext \/ MatchNext \/ ActionsNext \/ Return
Spec == CallsInit /\ [][Next]_last
=============================================================================
