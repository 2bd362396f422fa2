------------------------------ MODULE Layouts ------------------------------
(***************************************************************************)
(* The layouts of the device's command mailboxes (prm.h): where in a       *)
(* structure a field begins and how many bits it has, for the fields the   *)
(* library reads or writes.  A number is the set of its bits that are one  *)
(* and a mailbox the set of its positions that hold a one, so that a field *)
(* too narrow for a value, or a value put at another field's place, shows. *)
(***************************************************************************)
EXTENDS Integers

F(offset, bits) == [at |-> offset, width |-> bits]

(* The place of bit i of a field: fields are big-endian. *)
Place(field, i) == field.at + field.width - 1 - i
Bits(field)     == field.at .. (field.at + field.width - 1)

(* DEVX_SET keeps of a value the bits the field has; DEVX_GET reads back.  *)
DEVX_SET(field, value) == {Place(field, i) : i \in value \cap 0..(field.width - 1)}
DEVX_GET(field, box)   == {i \in 0..(field.width - 1) : Place(field, i) \in box}

(* A structure at an offset of another one: DEVX_ADDR_OF. *)
DEVX_ADDR_OF(part, box) == {part.at + p : p \in box}
PartOf(part, box)       == {p - part.at : p \in box \cap Bits(part)}

When(cond, box) == IF cond THEN box ELSE {}
Word(n) == 0..(n - 1)     \* all ones in n bits
One     == {0}

----------------------------------------------------------------------------
(* Matching.  A MAC address is 6 bytes over two fields. *)
fte_match_param ==
  [outer_headers |-> F(0, 512), misc_parameters_2 |-> F(1536, 512),
   misc_parameters_4 |-> F(2560, 512)]

fte_match_set_lyr_2_4 ==
  [smac |-> F(0, 48), ethertype |-> F(48, 16), dmac |-> F(64, 48), first_vid |-> F(116, 12),
   ip_protocol |-> F(128, 8), cvlan_tag |-> F(144, 1), ip_version |-> F(147, 4),
   tcp_sport |-> F(160, 16), tcp_dport |-> F(176, 16), udp_sport |-> F(224, 16),
   udp_dport |-> F(240, 16), src_ipv4_src_ipv6 |-> F(256, 128), dst_ipv4_dst_ipv6 |-> F(384, 128)]

ipv4_layout == [ipv4 |-> F(96, 32)]
ipv6_layout == [ipv6 |-> F(0, 128)]

fte_match_set_misc2 == [metadata_reg_c_0 |-> F(352, 32)]

fte_match_set_misc4 ==
  [prog_sample_field_value |-> [i \in 0..7 |-> F(64 * i, 32)],
   prog_sample_field_id    |-> [i \in 0..7 |-> F(64 * i + 32, 32)]]

(* Flow table entries and their actions. *)
flow_context ==
  [group_id |-> F(32, 32), flow_tag |-> F(72, 24), action |-> F(112, 16),
   destination_list_size |-> F(136, 24), packet_reformat_id |-> F(192, 32),
   modify_header_id |-> F(224, 32)]

dest_format_struct == [destination_type |-> F(0, 8), destination_id |-> F(8, 24)]

set_action_in ==
  [action_type |-> F(0, 4), field |-> F(4, 12), offset |-> F(19, 5), length |-> F(27, 5),
   data |-> F(32, 32)]

copy_action_in ==
  [action_type |-> F(0, 4), src_field |-> F(4, 12), src_offset |-> F(19, 5), length |-> F(27, 5),
   dst_field |-> F(36, 12), dst_offset |-> F(51, 5)]

(* dcmd::modify_action, whose bit-fields become such an entry when both    *)
(* words are turned into network order; src is data or field and offset.   *)
modify_action ==
  [dst_action_type |-> F(0, 4), dst_field |-> F(4, 12), dst_offset |-> F(19, 5),
   dst_length |-> F(27, 5), src_data |-> F(32, 32), src_field |-> F(36, 12),
   src_offset |-> F(51, 5)]

(* Bytes of the commands that end in a list, and of the list's members. *)
set_fte_in_SZ                       == 832
dest_format_struct_SZ               == 8
alloc_modify_header_context_in_SZ   == 16
set_add_copy_action_in_auto_SZ      == 8
alloc_packet_reformat_context_in_SZ == 36
reformat_data_AT                    == 34

----------------------------------------------------------------------------
(* Queue contexts. *)
cqc ==
  [cc |-> F(11, 1), scqe_break_moderation_en |-> F(13, 1), oi |-> F(14, 1),
   cq_period_mode |-> F(15, 2), dbr_umem_id |-> F(32, 32), log_cq_size |-> F(99, 5), uar_page |-> F(104, 24),
   cq_period |-> F(132, 12), cq_max_count |-> F(144, 16), c_eqn |-> F(184, 8)]

rqc ==
  [vlan_strip_disable |-> F(3, 1), mem_rq_type |-> F(4, 4), state |-> F(8, 4),
   flush_in_error_en |-> F(13, 1), ts_format |-> F(26, 2), user_index |-> F(40, 24),
   cqn |-> F(72, 24), ibq_wire_protocol |-> F(160, 8), ibq_segment_size |-> F(192, 16),
   ibq_mkey |-> F(224, 32), ibq_scatter_offset |-> F(272, 8), log_ibq_buffer_size |-> F(283, 5),
   wq |-> F(384, 1536)]

sqc ==
  [flush_in_error_en |-> F(3, 1), allow_multi_pkt_send_wqe |-> F(4, 1), state |-> F(8, 4),
   ts_format |-> F(26, 2), user_index |-> F(40, 24), cqn |-> F(72, 24),
   packet_pacing_rate_limit_index |-> F(240, 16), tis_lst_sz |-> F(256, 16),
   tis_num_0 |-> F(360, 24), wq |-> F(384, 1536)]

wq ==
  [wq_type |-> F(0, 4), pd |-> F(72, 24), uar_page |-> F(104, 24), dbr_umem_valid |-> F(288, 1),
   wq_umem_valid |-> F(289, 1), dbr_umem_id |-> F(320, 32), wq_umem_id |-> F(352, 32)]

create_sq_in == [ctx |-> F(256, 1920)]
modify_sq_in == [sq_state |-> F(64, 4), sqn |-> F(72, 24), ctx |-> F(256, 1920)]

(* Transport objects, encryption keys and tag buffer tables. *)
tirc ==
  [disp_type |-> F(32, 4), tls_en |-> F(36, 1), nvmeotcp_zerocopy_en |-> F(37, 1),
   nvmeotcp_crc_en |-> F(38, 1), lro_timeout_period_usecs |-> F(132, 16),
   lro_enable_mask |-> F(148, 4), lro_max_ip_payload_size |-> F(152, 8), inline_rqn |-> F(232, 24),
   self_lb_block |-> F(294, 2), transport_domain |-> F(296, 24),
   nvmeotcp_tag_buffer_table_id |-> F(704, 32)]

tisc ==
  [tls_en |-> F(1, 1), nvmeotcp_en |-> F(2, 1), transport_domain |-> F(296, 24),
   pd |-> F(360, 24)]

encryption_key_obj ==
  [modify_field_select |-> F(0, 64), key_size |-> F(84, 4), has_keytag |-> F(88, 1),
   key_type |-> F(92, 4), pd |-> F(104, 24), opaque |-> F(384, 64), key |-> F(512, 256)]

tag_buffer_table_obj ==
  [modify_field_select |-> F(0, 64), log_tag_buffer_table_size |-> F(123, 5)]
=============================================================================
