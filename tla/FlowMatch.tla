----------------------------- MODULE FlowMatch -----------------------------
(***************************************************************************)
(* Which packets a flow rule selects: how the match criteria of a group    *)
(* and the match values of its rules become the mask and the value of a    *)
(* flow table entry (flow_matcher.cpp, flow_group.cpp, flow_rule_ex.cpp),  *)
(* how the mask and the values of a flow_rule become those of a flow on    *)
(* the root table (fr.cpp), and what the back end passes on (dcmd flow).   *)
(* Numbers and mailboxes are sets of bits, as in Layouts.                  *)
(***************************************************************************)
EXTENDS Calls, Layouts, Sequences, FiniteSets

CONSTANTS
  Match,     \* pairs of a group's match_params_ex and a rule's, that are tried
  Enabled,   \* values of match_criteria_enable that are tried
  Legacy,    \* pairs of a flow_rule's mask and values, that are tried
  Packets    \* packets the entries are asked about

outer    == fte_match_set_lyr_2_4
Ok(box)  == [ret |-> "DPCP_OK", box |-> box]

(* flow_group_match_criteria_enable *)
FG_MATCH_OUTER_HDR        == "OUTER_HDR"
FG_MATCH_METADATA_REG_C_0 == "METADATA_REG_C_0"
FG_MATCH_PARSER_FIELDS    == "PARSER_FIELDS"

(* An object with nothing set: match_params_ex::match_params_ex. *)
match_params_ex ==
  [src_mac |-> {}, dst_mac |-> {}, ethertype |-> {}, first_vlan_id |-> {},
   src_ip |-> {}, dst_ip |-> {}, ip_protocol |-> {}, ip_version |-> {},
   type |-> "NONE", src_port |-> {}, dst_port |-> {},
   samples |-> <<>>, metadata_reg_c_0 |-> {}]

(* match_params, with nothing set; src and dst are the unions. *)
match_params ==
  [dst_mac |-> {}, ethertype |-> {}, vlan_id |-> {}, dst_ip |-> {}, src_ip |-> {},
   dst_port |-> {}, src_port |-> {}, protocol |-> {}, ip_version |-> {}, dst |-> {}, src |-> {}]

(* Their widths in the interface.  Of an ip_version flow_rule passes on 4  *)
(* bits, of a VLAN id both pass on 12; a packet has no more of them.       *)
parser_sample_field == [val : SUBSET Word(32), id : SUBSET Word(32)]
match_params_ex_type ==
  [src_mac : SUBSET Word(64), dst_mac : SUBSET Word(64), ethertype : SUBSET Word(16),
   first_vlan_id : SUBSET Word(16), src_ip : SUBSET Word(32), dst_ip : SUBSET Word(32),
   ip_protocol : SUBSET Word(8), ip_version : SUBSET Word(4), type : STRING,
   src_port : SUBSET Word(16), dst_port : SUBSET Word(16),
   samples : Seq(parser_sample_field), metadata_reg_c_0 : SUBSET Word(32)]
match_params_type ==
  [dst_mac : SUBSET Word(64), ethertype : SUBSET Word(16), vlan_id : SUBSET Word(16),
   dst_ip : SUBSET Word(32), src_ip : SUBSET Word(32), dst_port : SUBSET Word(16),
   src_port : SUBSET Word(16), protocol : SUBSET Word(8), ip_version : SUBSET Word(8),
   dst : SUBSET Word(128), src : SUBSET Word(128)]

ASSUME MatchAssumption ==
  /\ \A m \in Match : m[1] \in match_params_ex_type /\ m[2] \in match_params_ex_type
  /\ \A m \in Legacy : m[1] \in match_params_type /\ m[2] \in match_params_type
  /\ \A p \in Packets : /\ p.tag \in {{}, One} /\ p.vid \subseteq Word(12)
                       /\ p.ip_version \subseteq Word(4)

(* copy_ether_mac: six of the eight bytes. *)
copy_ether_mac(field, mac) == DEVX_SET(field, mac)

ipv4(field, addr) == DEVX_ADDR_OF(field, DEVX_SET(ipv4_layout.ipv4, addr))
ipv6(field, addr) == DEVX_ADDR_OF(field, DEVX_SET(ipv6_layout.ipv6, addr))

(* Variants with a slip, for the properties below. *)
set_outer_header_lyr_2_fields_Untagged(c, v) ==
  When(c.dst_mac # {}, copy_ether_mac(outer.dmac, v.dst_mac))
  \cup When(c.src_mac # {}, copy_ether_mac(outer.smac, v.src_mac))
  \cup When(c.ethertype # {}, DEVX_SET(outer.ethertype, v.ethertype))
  \cup When(c.first_vlan_id # {}, DEVX_SET(outer.first_vid, v.first_vlan_id))
Choose4_Union(m) == [src |-> m.src \cap Word(32), dst |-> m.dst \cap Word(32)]

(* The fields of a layer are written where the criteria are not zero. *)
set_outer_header_lyr_2_fields(c, v) ==
  When(c.dst_mac # {}, copy_ether_mac(outer.dmac, v.dst_mac))
  \cup When(c.src_mac # {}, copy_ether_mac(outer.smac, v.src_mac))
  \cup When(c.ethertype # {}, DEVX_SET(outer.ethertype, v.ethertype))
  \cup When(c.first_vlan_id # {},
            DEVX_SET(outer.first_vid, v.first_vlan_id) \cup DEVX_SET(outer.cvlan_tag, One))

set_outer_header_lyr_3_fields(c, v) ==
  When(c.dst_ip # {}, ipv4(outer.dst_ipv4_dst_ipv6, v.dst_ip))
  \cup When(c.src_ip # {}, ipv4(outer.src_ipv4_src_ipv6, v.src_ip))
  \cup When(c.ip_protocol # {}, DEVX_SET(outer.ip_protocol, v.ip_protocol))
  \cup When(c.ip_version # {}, DEVX_SET(outer.ip_version, v.ip_version))

Ports(c, v, dport, sport) ==
  When(c.dst_port # {}, DEVX_SET(dport, v.dst_port))
  \cup When(c.src_port # {}, DEVX_SET(sport, v.src_port))

(* The type of the criteria decides, not that of the value. *)
set_outer_header_lyr_4_fields(c, v) ==
  CASE c.type = "NONE" -> Ok({})
    [] c.type = "UDP"  -> Ok(Ports(c, v, outer.udp_dport, outer.udp_sport))
    [] c.type = "TCP"  -> Ok(Ports(c, v, outer.tcp_dport, outer.tcp_sport))
    [] OTHER           -> [ret |-> "DPCP_ERR_NO_SUPPORT", box |-> {}]

set_outer_header_fields(enable, c, v) ==
  LET lyr4 == set_outer_header_lyr_4_fields(c, v)
      box  == set_outer_header_lyr_2_fields(c, v) \cup set_outer_header_lyr_3_fields(c, v)
              \cup lyr4.box
  IN  IF FG_MATCH_OUTER_HDR \notin enable THEN Ok({})
      ELSE [ret |-> lyr4.ret, box |-> DEVX_ADDR_OF(fte_match_param.outer_headers, box)]

set_prog_sample_fileds(enable, c, v) ==
  LET misc4     == fte_match_set_misc4
      sample(i) == DEVX_SET(misc4.prog_sample_field_value[i], v.samples[i + 1].val)
                   \cup DEVX_SET(misc4.prog_sample_field_id[i], v.samples[i + 1].id)
  IN  CASE FG_MATCH_PARSER_FIELDS \notin enable -> Ok({})
        [] OTHER ->
             IF Len(c.samples) # Len(v.samples)
             THEN [ret |-> "DPCP_ERR_INVALID_PARAM", box |-> {}]
             ELSE IF Len(c.samples) > 8
             THEN [ret |-> "DPCP_ERR_OUT_OF_RANGE", box |-> {}]
             ELSE Ok(DEVX_ADDR_OF(fte_match_param.misc_parameters_4,
                                  UNION {sample(i) : i \in 0..(Len(c.samples) - 1)}))

set_metadata_registers_fields(enable, c, v) ==
  When(FG_MATCH_METADATA_REG_C_0 \in enable /\ c.metadata_reg_c_0 # {},
       DEVX_ADDR_OF(fte_match_param.misc_parameters_2,
                    DEVX_SET(fte_match_set_misc2.metadata_reg_c_0, v.metadata_reg_c_0)))

(* flow_matcher::apply.  What was written before an error stays written. *)
apply(enable, c, v) ==
  LET headers == set_outer_header_fields(enable, c, v)
      samples == set_prog_sample_fileds(enable, c, v)
  IN  IF headers.ret # "DPCP_OK" THEN headers
      ELSE IF samples.ret # "DPCP_OK" THEN [samples EXCEPT !.box = headers.box]
      ELSE Ok(headers.box \cup samples.box \cup set_metadata_registers_fields(enable, c, v))

----------------------------------------------------------------------------
(* What of an entry is the device's (external): it compares a packet with  *)
(* the value where the mask has ones, in the parts enabled for the group.  *)
EnabledBits(enable) ==
  When(FG_MATCH_OUTER_HDR \in enable, Bits(fte_match_param.outer_headers))
  \cup When(FG_MATCH_METADATA_REG_C_0 \in enable, Bits(fte_match_param.misc_parameters_2))
  \cup When(FG_MATCH_PARSER_FIELDS \in enable, Bits(fte_match_param.misc_parameters_4))

Entry(enable, mask, value) == [enable |-> enable, mask |-> mask, value |-> value]
Rejected(ret)              == [ret |-> ret]
Installed(entry)           == [ret |-> "DPCP_OK", entry |-> entry]

(* A rule of a group of an ordinary table: flow_group_prm::create does not *)
(* look at what the matcher returns, flow_rule_ex_prm::create does.        *)
create_prm(enable, c, v) ==
  LET value == apply(enable, c, v)
  IN  Call("prm", [enable |-> enable, criteria |-> c, value |-> v],
           IF value.ret # "DPCP_OK" THEN Rejected(value.ret)
           ELSE Installed(Entry(enable, apply(enable, c, c).box, value.box)))

(* A rule of a group of the root table: flow_rule_ex_kernel::create with   *)
(* set_match_params; the back end asks for outer headers only.             *)
create_kernel(enable, c, v) ==
  LET mask  == apply(enable, c, c)
      value == apply(enable, c, v)
  IN  Call("kernel", [enable |-> enable, criteria |-> c, value |-> v],
           IF mask.ret # "DPCP_OK" THEN Rejected(mask.ret)
           ELSE IF value.ret # "DPCP_OK" THEN Rejected(value.ret)
           ELSE Installed(Entry({FG_MATCH_OUTER_HDR}, mask.box, value.box)))

----------------------------------------------------------------------------
(* flow_rule::apply_settings *)
Ethertype4 == {11}
Ethertype6 == {15, 10, 9, 7, 6, 4, 3, 2, 0}
Version4   == {2}
Version6   == {1, 2}
ProtoTcp   == {1, 2}

Pinned(mask, value, ethertype, version) ==
  /\ mask.ethertype = Word(16) /\ value.ethertype = ethertype
  /\ mask.ip_version = Word(4) /\ value.ip_version = version

(* The deprecated fields when they are set or equal to the unions', else   *)
(* the unions.                                                             *)
Choose4(m) ==
  LET src == m.src \cap Word(32)
      dst == m.dst \cap Word(32)
  IN  IF (m.src_ip # {} \/ m.src_ip = src) /\ (m.dst_ip # {} \/ m.dst_ip = dst)
      THEN [src |-> m.src_ip, dst |-> m.dst_ip]
      ELSE [src |-> src, dst |-> dst]

Addresses(mask, value, m) ==
  When(Pinned(mask, value, Ethertype4, Version4),
       ipv4(outer.src_ipv4_src_ipv6, Choose4(m).src)
       \cup ipv4(outer.dst_ipv4_dst_ipv6, Choose4(m).dst))
  \cup When(Pinned(mask, value, Ethertype6, Version6),
            ipv6(outer.src_ipv4_src_ipv6, m.src) \cup ipv6(outer.dst_ipv4_dst_ipv6, m.dst))

(* One of the two buffers: m is the mask or the value. *)
Buffer(mask, value, m) ==
  DEVX_SET(outer.ethertype, m.ethertype)
  \cup When(mask.vlan_id # {},
            DEVX_SET(outer.cvlan_tag, One) \cup DEVX_SET(outer.first_vid, m.vlan_id))
  \cup DEVX_SET(outer.ip_protocol, m.protocol)
  \cup When(mask.ip_version # {}, DEVX_SET(outer.ip_version, m.ip_version))
  \cup When(mask.dst_mac # {}, copy_ether_mac(outer.dmac, m.dst_mac))
  \cup Addresses(mask, value, m)
  \cup IF value.protocol # ProtoTcp
       THEN DEVX_SET(outer.udp_dport, m.dst_port) \cup DEVX_SET(outer.udp_sport, m.src_port)
       ELSE DEVX_SET(outer.tcp_dport, m.dst_port) \cup DEVX_SET(outer.tcp_sport, m.src_port)

apply_settings(mask, value) ==
  Call("flow_rule", [mask |-> mask, value |-> value],
       Installed(Entry({FG_MATCH_OUTER_HDR}, Buffer(mask, value, mask),
                       Buffer(mask, value, value))))

MatchNext ==
  \/ \E m \in Match, enable \in Enabled :
       create_prm(enable, m[1], m[2]) \/ create_kernel(enable, m[1], m[2])
  \/ \E m \in Legacy : apply_settings(m[1], m[2])

MatchSpec == CallsInit /\ [][MatchNext \/ Return]_last

----------------------------------------------------------------------------
(* A packet as the device's parser presents it (external): the value of    *)
(* every field that can be matched.  For a sample it looks at the sample   *)
(* whose id the entry names.                                               *)
Port(p, type, port) == IF p.type = type THEN port ELSE {}
ParsedAddress(p, field, addr) == IF p.ip_version = Version6 THEN ipv6(field, addr) ELSE ipv4(field, addr)

Headers(p) ==
  DEVX_SET(outer.smac, p.src_mac) \cup DEVX_SET(outer.dmac, p.dst_mac)
  \cup DEVX_SET(outer.ethertype, p.ethertype) \cup DEVX_SET(outer.cvlan_tag, p.tag)
  \cup DEVX_SET(outer.first_vid, p.vid) \cup DEVX_SET(outer.ip_protocol, p.ip_protocol)
  \cup DEVX_SET(outer.ip_version, p.ip_version)
  \cup ParsedAddress(p, outer.src_ipv4_src_ipv6, p.src_ip)
  \cup ParsedAddress(p, outer.dst_ipv4_dst_ipv6, p.dst_ip)
  \cup DEVX_SET(outer.tcp_sport, Port(p, "TCP", p.src_port))
  \cup DEVX_SET(outer.tcp_dport, Port(p, "TCP", p.dst_port))
  \cup DEVX_SET(outer.udp_sport, Port(p, "UDP", p.src_port))
  \cup DEVX_SET(outer.udp_dport, Port(p, "UDP", p.dst_port))

Samples(p, value) ==
  LET misc4 == fte_match_set_misc4
      slot(i) == LET id == DEVX_GET(misc4.prog_sample_field_id[i], value)
                 IN  DEVX_SET(misc4.prog_sample_field_id[i], id)
                     \cup DEVX_SET(misc4.prog_sample_field_value[i], p.sample[id])
  IN  UNION {slot(i) : i \in 0..7}

Parsed(p, e) ==
  DEVX_ADDR_OF(fte_match_param.outer_headers, Headers(p))
  \cup DEVX_ADDR_OF(fte_match_param.misc_parameters_2,
                    DEVX_SET(fte_match_set_misc2.metadata_reg_c_0, p.metadata_reg_c_0))
  \cup DEVX_ADDR_OF(fte_match_param.misc_parameters_4,
                    Samples(p, PartOf(fte_match_param.misc_parameters_4, e.value)))

Selects(e, p) ==
  LET mask == e.mask \cap EnabledBits(e.enable)
  IN  Parsed(p, e) \cap mask = e.value \cap mask

(* What the attributes of a group and of a rule ask for, field by field.   *)
Same(c, v, x) == v \cap c = x \cap c

AsksFor(enable, c, v, p) ==
  /\ FG_MATCH_OUTER_HDR \in enable =>
       /\ Same(c.src_mac \cap Word(48), v.src_mac, p.src_mac)
       /\ Same(c.dst_mac \cap Word(48), v.dst_mac, p.dst_mac)
       /\ Same(c.ethertype, v.ethertype, p.ethertype)
       /\ c.first_vlan_id # {} => p.tag = One /\ Same(c.first_vlan_id, v.first_vlan_id, p.vid)
       /\ Same(c.src_ip, v.src_ip, p.src_ip) /\ Same(c.dst_ip, v.dst_ip, p.dst_ip)
       /\ Same(c.ip_protocol, v.ip_protocol, p.ip_protocol)
       /\ Same(c.ip_version, v.ip_version, p.ip_version)
       /\ c.type # "NONE" => /\ Same(c.src_port, v.src_port, Port(p, c.type, p.src_port))
                             /\ Same(c.dst_port, v.dst_port, Port(p, c.type, p.dst_port))
  /\ FG_MATCH_METADATA_REG_C_0 \in enable =>
       Same(c.metadata_reg_c_0, v.metadata_reg_c_0, p.metadata_reg_c_0)
  /\ FG_MATCH_PARSER_FIELDS \in enable =>
       \A i \in 1..Len(c.samples) : Same(c.samples[i].val, v.samples[i].val, p.sample[v.samples[i].id])

(* The rules of a group select exactly the packets that agree with their   *)
(* values in the bits of the group's criteria, whatever fields, layers and *)
(* parts are combined.  On the root table this holds of the outer headers  *)
(* only: other criteria are accepted and never compared.  A VLAN id has 12 *)
(* bits, and an IPv4 address is also compared with the end of an IPv6 one. *)
EntrySelects ==
  last.op \in {"prm", "kernel"} /\ last.out.ret = "DPCP_OK" =>
    LET c == last.in.criteria
        v == last.in.value
        enable == IF last.op = "kernel" THEN last.in.enable \cap {FG_MATCH_OUTER_HDR}
                  ELSE last.in.enable
    IN  c.first_vlan_id \cap v.first_vlan_id \subseteq Word(12) =>
          \A p \in Packets :
            (p.ip_version = Version6 => c.src_ip = {} /\ c.dst_ip = {})
            => (Selects(last.out.entry, p) <=> AsksFor(enable, c, v, p))

(* What a flow_rule's mask and values ask for.  The addresses are in the   *)
(* deprecated fields or in the unions.                                     *)
NoAddress(m)     == m.src_ip = {} /\ m.dst_ip = {} /\ m.src = {} /\ m.dst = {}
OneStyle(m)      == (m.src_ip = {} /\ m.dst_ip = {}) \/ (m.src = {} /\ m.dst = {})
Address(value)   == IF value.ip_version = Version6 THEN Word(128) ELSE Word(32)
RuleType(value)  == IF value.protocol = ProtoTcp THEN "TCP" ELSE "UDP"

RuleAsksFor(mask, value, p) ==
  /\ Same(mask.dst_mac \cap Word(48), value.dst_mac, p.dst_mac)
  /\ Same(mask.ethertype, value.ethertype, p.ethertype)
  /\ mask.vlan_id # {} => p.tag = One /\ Same(mask.vlan_id, value.vlan_id, p.vid)
  /\ Same(mask.protocol, value.protocol, p.ip_protocol)
  /\ Same(mask.ip_version, value.ip_version, p.ip_version)
  /\ Same((mask.src \cup mask.src_ip) \cap Address(value), value.src \cup value.src_ip, p.src_ip)
  /\ Same((mask.dst \cup mask.dst_ip) \cap Address(value), value.dst \cup value.dst_ip, p.dst_ip)
  /\ Same(mask.src_port, value.src_port, Port(p, RuleType(value), p.src_port))
  /\ Same(mask.dst_port, value.dst_port, Port(p, RuleType(value), p.dst_port))

(* A flow_rule selects exactly the packets that agree with its values in   *)
(* the bits of its mask, whether addresses are given in the deprecated     *)
(* fields or in the unions, for IPv4 and for IPv6.  Addresses count only   *)
(* when ethertype and version are matched in full: without that they are   *)
(* dropped and the rule selects more.  An IP version has 4 bits.           *)
RuleSelects ==
  last.op = "flow_rule" =>
    LET mask == last.in.mask
        value == last.in.value
        four  == Pinned(mask, value, Ethertype4, Version4)
        six   == Pinned(mask, value, Ethertype6, Version6)
    IN  /\ mask.vlan_id \cap value.vlan_id \subseteq Word(12)
        /\ mask.ip_version \cap value.ip_version \subseteq Word(4)
        /\ NoAddress(mask) \/ (four /\ OneStyle(mask) /\ OneStyle(value))
           \/ (six /\ \A m \in {mask, value} : m.src_ip = {} /\ m.dst_ip = {})
        => \A p \in Packets : Selects(last.out.entry, p) <=> RuleAsksFor(mask, value, p)
=============================================================================
