---------------------------- MODULE Capabilities ----------------------------
(***************************************************************************)
(* What an adapter learns of its device and what it then lets through      *)
(* (src/src/dpcp/adapter.cpp): the constructor queries nine types of       *)
(* capabilities, each of which may fail, the store_hca_* callbacks build   *)
(* the structure the application sees, and the creation of encryption      *)
(* keys, flow tables and parser graph nodes consults it.  A parser graph   *)
(* node (parser_graph_node.cpp) is then queried for its sample ids.        *)
(*                                                                         *)
(* A bit mask is the set of its bits.  The capabilities no operation of    *)
(* the library looks at are one number for each type they come from.       *)
(***************************************************************************)
EXTENDS Naturals, Sequences, FiniteSets

CONSTANTS
  DeviceCaps,    \* what the device may be: a set of functions on CapType
  FailureSets,   \* sets of capability types whose query fails
  NodeAttrs,     \* parser graph nodes the application may ask for
  TableAttrs,    \* flow tables the application may ask for
  MaxIds,        \* bound on the sample ids collected by repeated queries
  Nothing           \* no node

VARIABLES
  dev,                   \* the capabilities of the device
  failed,                \* history: the types whose query failed
  m_external_hca_caps,   \* what the adapter reports
  node,                  \* attributes of the parser graph node, or Nothing
  m_sample_ids,          \* sample ids the node has collected
  crashed,               \* an element of an empty vector was used
  last                   \* the last call: what was asked for and the status

capsVars == <<dev, failed, m_external_hca_caps, node, m_sample_ids, crashed, last>>

(* s_supported_cap_types *)
CapType == {"GENERAL", "TLS", "PARSE_GRAPH_NODE", "ETHERNET_OFFLOADS", "GENERAL_2",
            "FLOW_TABLE", "DPP", "NVMEOTCP", "CRYPTO"}

(* What the fields of the answers and of the requests hold.  The checks    *)
(* shift an int by the mask width and by the node an arc leads to: numbers *)
(* beyond its width, whose shift is undefined, are left out.               *)
Arc == 0 .. 31

ASSUME CapsAssumption ==
  /\ \A d \in DeviceCaps :
       /\ d["GENERAL"] \in [value : Nat, encryption_key : BOOLEAN, parse_graph_node : BOOLEAN,
                             nvmeotcp : BOOLEAN]
       /\ d["PARSE_GRAPH_NODE"] \in
            [node_in : SUBSET Nat, header_length_mode : SUBSET Nat, sample_offset_mode : SUBSET Nat,
             mask_width : 0 .. 30, max_base : Nat, max_arc_in : Nat, max_sample : Nat,
             max_sample_base : Nat, sample_id_in_out : BOOLEAN]
       /\ d["FLOW_TABLE"] \in
            [value : Nat, ft_support : BOOLEAN, max_log_size : Nat, max_level : Nat]
       /\ d["NVMEOTCP"] \in [zerocopy : BOOLEAN]
       /\ \A t \in {"TLS", "ETHERNET_OFFLOADS", "GENERAL_2", "DPP", "CRYPTO"} : d[t] \in [value : Nat]
  /\ NodeAttrs \subseteq
       [header_length_mode : Nat, mask : SUBSET Nat, base : Nat, in_arcs : Seq(Arc),
        samples : Seq([enabled : BOOLEAN, base : Nat, offset_mode : Nat, field_id : Nat])]
  /\ TableAttrs \subseteq [type : STRING, level : Nat, log_size : Nat]

(* The answer buffer of a query that failed, as calloc left it. *)
Zeroed(t) ==
  CASE t = "GENERAL" ->
         [value |-> 0, encryption_key |-> FALSE, parse_graph_node |-> FALSE, nvmeotcp |-> FALSE]
    [] t = "PARSE_GRAPH_NODE" ->
         [node_in |-> {}, header_length_mode |-> {}, sample_offset_mode |-> {},
          mask_width |-> 0, max_base |-> 0, max_arc_in |-> 0, max_sample |-> 0,
          max_sample_base |-> 0, sample_id_in_out |-> FALSE]
    [] t = "FLOW_TABLE" -> [value |-> 0, ft_support |-> FALSE, max_log_size |-> 0, max_level |-> 0]
    [] t = "NVMEOTCP" -> [zerocopy |-> FALSE]
    [] OTHER -> [value |-> 0]

(* adapter::query_hca_caps: a failed query is only logged. *)
query_hca_caps(d, f) == [t \in CapType |-> IF t \in f THEN Zeroed(t) ELSE d[t]]

----------------------------------------------------------------------------
(* The callbacks that fill adapter_hca_capabilities.  m is m_caps. *)
store_hca_general_caps(m) ==
  [general |-> m["GENERAL"].value, tls |-> m["TLS"].value,
   encryption_key |-> m["GENERAL"].encryption_key]
store_hca_offload_caps(m) ==
  [lro |-> m["ETHERNET_OFFLOADS"].value, ibq |-> m["GENERAL"].value, dpp |-> m["DPP"].value]
store_hca_parse_graph_node_caps(m) ==
  [supported |-> m["GENERAL"].parse_graph_node, caps |-> m["PARSE_GRAPH_NODE"]]
store_hca_flow_table_caps(m) ==
  [reformat |-> m["GENERAL_2"].value, nic |-> m["GENERAL"].value,
   steering |-> m["FLOW_TABLE"].value]
store_hca_flow_table_nic_receive_caps(m) ==
  [supported |-> m["FLOW_TABLE"].ft_support, max_log_size |-> m["FLOW_TABLE"].max_log_size,
   max_level |-> m["FLOW_TABLE"].max_level, modify_argument |-> m["GENERAL"].value]

(* Variant with a slip: zerocopy is stored without regard to enabled. *)
store_hca_nvmeotcp_caps_Always(m) ==
  [enabled |-> m["GENERAL"].nvmeotcp, zerocopy |-> m["NVMEOTCP"].zerocopy]

store_hca_nvmeotcp_caps(m) ==
  [enabled  |-> m["GENERAL"].nvmeotcp,
   zerocopy |-> m["GENERAL"].nvmeotcp /\ m["NVMEOTCP"].zerocopy]

(* adapter::set_external_hca_caps runs caps_callbacks. *)
set_external_hca_caps(m) ==
  [general  |-> store_hca_general_caps(m),
   offloads |-> store_hca_offload_caps(m),
   crypto   |-> m["CRYPTO"].value,
   node     |-> store_hca_parse_graph_node_caps(m),
   tables   |-> store_hca_flow_table_caps(m),
   receive  |-> store_hca_flow_table_nic_receive_caps(m),
   nvmeotcp |-> store_hca_nvmeotcp_caps(m)]

(* The constructor of the adapter. *)
CapsInit ==
  /\ dev \in DeviceCaps
  /\ failed \in FailureSets
  /\ m_external_hca_caps = set_external_hca_caps(query_hca_caps(dev, failed))
  /\ node = Nothing /\ m_sample_ids = <<>> /\ crashed = FALSE
  /\ last = [op |-> "adapter", attr |-> Nothing, ret |-> "DPCP_OK"]

Returns(op, attr, r) == last' = [op |-> op, attr |-> attr, ret |-> r]
unchangedAdapter == UNCHANGED <<dev, failed, m_external_hca_caps>>

----------------------------------------------------------------------------
(* adapter::verify_flow_table_receive_attr *)
verify_flow_table_receive_attr(a) ==
  LET c == m_external_hca_caps.receive
  IN  CASE ~c.supported -> "DPCP_ERR_CREATE"
        [] c.supported /\ (c.max_log_size < a.log_size \/ c.max_level < a.level)
             -> "DPCP_ERR_INVALID_PARAM"
        [] OTHER -> "DPCP_OK"

(* adapter::create_flow_table: no command is sent, the table is only built. *)
create_flow_table(a) ==
  /\ ~crashed
  /\ LET checked == CASE a.level = 0 -> "DPCP_ERR_INVALID_PARAM"
                      [] a.level # 0 /\ a.type # "FT_RX" -> "DPCP_ERR_NO_SUPPORT"
                      [] OTHER -> verify_flow_table_receive_attr(a)
     IN  \E r \in {checked} \cup (IF checked = "DPCP_OK" THEN {"DPCP_ERR_NO_MEMORY"} ELSE {}) :
           Returns("create_flow_table", a, r)
  /\ unchangedAdapter /\ UNCHANGED <<node, m_sample_ids, crashed>>

----------------------------------------------------------------------------
MaskBits(width) == {b \in 0 .. width : b < width}
Enabled(a) == {i \in DOMAIN a.samples : a.samples[i].enabled}

(* The checks of create_parser_graph_node before it looks at the first     *)
(* input arc, and those after it.                                          *)
HeaderSupported(a) ==
  LET c == m_external_hca_caps.node.caps
  IN  /\ m_external_hca_caps.node.supported
      /\ a.header_length_mode \in c.header_length_mode
      /\ a.mask = {} \/ a.mask \cap MaskBits(c.mask_width) # {}
      /\ a.base <= c.max_base
      /\ Len(a.in_arcs) <= c.max_arc_in /\ Len(a.in_arcs) <= 1

(* Variant with a slip: a sample that is not enabled is checked as well. *)
SamplesSupported_All(a) ==
  LET c == m_external_hca_caps.node.caps
  IN  /\ Len(a.samples) <= c.max_sample
      /\ \A i \in DOMAIN a.samples :
           /\ a.samples[i].base <= c.max_sample_base
           /\ a.samples[i].offset_mode \in c.header_length_mode
           /\ a.samples[i].field_id = 0 \/ c.sample_id_in_out

SamplesSupported(a) ==
  LET c == m_external_hca_caps.node.caps
  IN  /\ Len(a.samples) <= c.max_sample
      /\ \A i \in Enabled(a) :
           /\ a.samples[i].base <= c.max_sample_base
           /\ a.samples[i].offset_mode \in c.header_length_mode
           /\ a.samples[i].field_id = 0 \/ c.sample_id_in_out

(* A request without an input arc passes the check of their number, and    *)
(* element 0 of the empty vector is read: a crash, or whatever is there,   *)
(* which is refused or let through to the copy of the vector, whose        *)
(* element 0 create() reads.                                               *)
create_without_arc(a) ==
  \/ crashed' = TRUE /\ Returns("create_parser_graph_node", a, "crash")
  \/ /\ \E r \in {"DPCP_ERR_NO_SUPPORT"}
               \cup (IF SamplesSupported(a) THEN {"DPCP_ERR_NO_MEMORY"} ELSE {}) :
          Returns("create_parser_graph_node", a, r)
     /\ UNCHANGED crashed

(* parser_graph_node::create, by the device. *)
create_node(a) ==
  \/ /\ \E r \in {"DPCP_ERR_NO_MEMORY", "DPCP_ERR_CREATE"} :
          Returns("create_parser_graph_node", a, r)
     /\ UNCHANGED <<node, m_sample_ids>>
  \/ /\ Returns("create_parser_graph_node", a, "DPCP_OK")
     /\ node' = a /\ m_sample_ids' = <<>>

(* adapter::create_parser_graph_node; the application keeps one node. *)
create_parser_graph_node(a) ==
  /\ ~crashed /\ node = Nothing
  /\ unchangedAdapter
  /\ \/ /\ HeaderSupported(a) /\ a.in_arcs = <<>>
        /\ create_without_arc(a)
        /\ UNCHANGED <<node, m_sample_ids>>
     \/ /\ HeaderSupported(a) /\ a.in_arcs # <<>>
        /\ a.in_arcs[1] \in m_external_hca_caps.node.caps.node_in
        /\ SamplesSupported(a)
        /\ create_node(a)
        /\ UNCHANGED crashed
     \/ /\ \/ ~HeaderSupported(a)
           \/ /\ a.in_arcs # <<>>
              /\ \/ a.in_arcs[1] \notin m_external_hca_caps.node.caps.node_in
                 \/ ~SamplesSupported(a)
        /\ Returns("create_parser_graph_node", a, "DPCP_ERR_NO_SUPPORT")
        /\ UNCHANGED <<node, m_sample_ids, crashed>>

(* The ids the device gave to the samples of the node: their positions. *)
DeviceIds(a) ==
  LET ids[n \in 0 .. Len(a.samples)] ==
        IF n = 0 THEN <<>> ELSE IF a.samples[n].enabled THEN Append(ids[n - 1], n) ELSE ids[n - 1]
  IN  ids[Len(a.samples)]

QueryStatus(ids) == IF Len(node.samples) = Len(ids) THEN "DPCP_OK" ELSE "DPCP_ERR_QUERY"

(* parser_graph_node::query appends to m_sample_ids and then compares its  *)
(* length with the number of samples.                                      *)
query ==
  /\ ~crashed /\ node # Nothing
  /\ Len(m_sample_ids) + Len(node.samples) <= MaxIds
  /\ \/ Returns("query", Nothing, "DPCP_ERR_QUERY") /\ UNCHANGED m_sample_ids
     \/ /\ m_sample_ids' = m_sample_ids \o DeviceIds(node)
        /\ Returns("query", Nothing, QueryStatus(m_sample_ids'))
  /\ unchangedAdapter /\ UNCHANGED <<node, crashed>>

(* The application deletes the node. *)
delete_node ==
  /\ ~crashed /\ node # Nothing
  /\ node' = Nothing /\ m_sample_ids' = <<>>
  /\ Returns("delete", Nothing, "DPCP_OK")
  /\ unchangedAdapter /\ UNCHANGED crashed

CapsNext ==
  \/ \E a \in TableAttrs : create_flow_table(a)
  \/ \E a \in NodeAttrs : create_parser_graph_node(a)
  \/ query
  \/ delete_node

----------------------------------------------------------------------------
(* The request a is within the capabilities of the device, as dpcp.h       *)
(* documents them: the mask has valid bits only, and the sample offset     *)
(* modes are those of parse_graph_flow_match_sample_offset_mode.           *)
NodeWithin(a) ==
  LET c == dev["PARSE_GRAPH_NODE"]
  IN  /\ dev["GENERAL"].parse_graph_node
      /\ a.header_length_mode \in c.header_length_mode
      /\ a.mask \subseteq MaskBits(c.mask_width)
      /\ a.base <= c.max_base
      /\ Len(a.in_arcs) <= c.max_arc_in
      /\ \A i \in DOMAIN a.in_arcs : a.in_arcs[i] \in c.node_in
      /\ Len(a.samples) <= c.max_sample
      /\ \A i \in Enabled(a) :
           /\ a.samples[i].base <= c.max_sample_base
           /\ a.samples[i].offset_mode \in c.sample_offset_mode
           /\ a.samples[i].field_id = 0 \/ c.sample_id_in_out

TableWithin(a) ==
  LET c == dev["FLOW_TABLE"]
  IN  c.ft_support /\ a.log_size <= c.max_log_size /\ a.level \in 1 .. c.max_level

(* Two checks of create_parser_graph_node differ from the documentation:   *)
(* the modes of the header length are used for those of the samples, and   *)
(* a mask needs one valid bit only.                                        *)
ModesDiffer(a) ==
  LET c == dev["PARSE_GRAPH_NODE"]
  IN  \E i \in Enabled(a) : (a.samples[i].offset_mode \in c.header_length_mode)
                              # (a.samples[i].offset_mode \in c.sample_offset_mode)
MaskTooWide(a) == ~(a.mask \subseteq MaskBits(dev["PARSE_GRAPH_NODE"].mask_width))

(* The report e is nowhere above the report f. *)
ReportWithin(e, f) ==
  /\ \A k \in DOMAIN e.offloads : e.offloads[k] <= f.offloads[k]
  /\ \A k \in DOMAIN e.tables : e.tables[k] <= f.tables[k]
  /\ e.general.general <= f.general.general /\ e.general.tls <= f.general.tls
  /\ e.crypto <= f.crypto
  /\ e.node.supported => f.node.supported
  /\ e.receive.supported => f.receive.supported
  /\ e.receive.modify_argument <= f.receive.modify_argument

(* Whatever queries failed in the constructor, the adapter reports nothing *)
(* the device lacks, NVMe/TCP zero copy included, and a key, table or node *)
(* it creates is within the capabilities of the device, except for the two *)
(* checks above.                                                           *)
NothingOverstated ==
  /\ ReportWithin(m_external_hca_caps, set_external_hca_caps(dev))
  /\ m_external_hca_caps.nvmeotcp.zerocopy =>
       dev["GENERAL"].nvmeotcp /\ dev["NVMEOTCP"].zerocopy
  /\ last.ret = "DPCP_OK" =>
       /\ last.op = "create_dek" => dev["GENERAL"].encryption_key
       /\ last.op = "create_flow_table" => TableWithin(last.attr)
       /\ last.op = "create_parser_graph_node" =>
            NodeWithin(last.attr) \/ ModesDiffer(last.attr) \/ MaskTooWide(last.attr)

(* A parser graph node is refused as not supported only if it exceeds the  *)
(* capabilities of the device, if these could not be queried, if it has    *)
(* not exactly one input arc, or if the two kinds of modes differ.         *)
RefusedOnlyBeyondCaps ==
  last.op = "create_parser_graph_node" /\ last.ret = "DPCP_ERR_NO_SUPPORT" =>
    \/ ~NodeWithin(last.attr)
    \/ failed \cap {"GENERAL", "PARSE_GRAPH_NODE"} # {}
    \/ Len(last.attr.in_arcs) # 1
    \/ ModesDiffer(last.attr)
=============================================================================
