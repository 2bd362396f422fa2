---------------------------- MODULE AdapterProofs ----------------------------
(***************************************************************************)
(* What an adapter tells and lets through, for any device, any requests    *)
(* and any sequence of calls, refusals and errors: what it reports of the  *)
(* device and the states of its queues; and, of its objects, the sample    *)
(* ids of a parser graph node, the contexts that create, modify and query  *)
(* write and read, and the forms that one call can leave.                  *)
(***************************************************************************)
EXTENDS DeviceObjects, QueueState, WellFoundedInduction, TLAPS

----------------------------------------------------------------------------
(* What the adapter reports and lets through. *)

(* The report is what the callbacks make of the answers of the device. *)
CapsInv ==
  /\ dev \in DeviceCaps
  /\ m_external_hca_caps = set_external_hca_caps(query_hca_caps(dev, failed))

(* The report, field by field: the value of the device, or zero when the   *)
(* query failed.                                                           *)
LEMMA ReportFacts ==
  ASSUME CapsInv
  PROVE  /\ m_external_hca_caps.general =
              [general |-> IF "GENERAL" \in failed THEN 0 ELSE dev["GENERAL"].value,
               tls |-> IF "TLS" \in failed THEN 0 ELSE dev["TLS"].value,
               encryption_key |-> IF "GENERAL" \in failed THEN FALSE ELSE dev["GENERAL"].encryption_key]
         /\ m_external_hca_caps.general.encryption_key =
              IF "GENERAL" \in failed THEN FALSE ELSE dev["GENERAL"].encryption_key
         /\ m_external_hca_caps.offloads =
              [lro |-> IF "ETHERNET_OFFLOADS" \in failed THEN 0 ELSE dev["ETHERNET_OFFLOADS"].value,
               ibq |-> IF "GENERAL" \in failed THEN 0 ELSE dev["GENERAL"].value,
               dpp |-> IF "DPP" \in failed THEN 0 ELSE dev["DPP"].value]
         /\ m_external_hca_caps.crypto = IF "CRYPTO" \in failed THEN 0 ELSE dev["CRYPTO"].value
         /\ m_external_hca_caps.tables =
              [reformat |-> IF "GENERAL_2" \in failed THEN 0 ELSE dev["GENERAL_2"].value,
               nic |-> IF "GENERAL" \in failed THEN 0 ELSE dev["GENERAL"].value,
               steering |-> IF "FLOW_TABLE" \in failed THEN 0 ELSE dev["FLOW_TABLE"].value]
         /\ m_external_hca_caps.receive.supported =
              IF "FLOW_TABLE" \in failed THEN FALSE ELSE dev["FLOW_TABLE"].ft_support
         /\ "FLOW_TABLE" \notin failed =>
              /\ m_external_hca_caps.receive.max_log_size = dev["FLOW_TABLE"].max_log_size
              /\ m_external_hca_caps.receive.max_level = dev["FLOW_TABLE"].max_level
         /\ m_external_hca_caps.receive.modify_argument =
              IF "GENERAL" \in failed THEN 0 ELSE dev["GENERAL"].value
         /\ m_external_hca_caps.node.supported =
              IF "GENERAL" \in failed THEN FALSE ELSE dev["GENERAL"].parse_graph_node
         /\ m_external_hca_caps.node.caps = IF "PARSE_GRAPH_NODE" \in failed
                                            THEN Zeroed("PARSE_GRAPH_NODE")
                                            ELSE dev["PARSE_GRAPH_NODE"]
         /\ m_external_hca_caps.nvmeotcp.zerocopy =>
              dev["GENERAL"].nvmeotcp /\ dev["NVMEOTCP"].zerocopy
<1> DEFINE m == query_hca_caps(dev, failed)
<1>0. m_external_hca_caps = set_external_hca_caps(m)
  BY DEF CapsInv
<1>1. \A t \in CapType : m[t] = IF t \in failed THEN Zeroed(t) ELSE dev[t]
  BY DEF query_hca_caps
<1>2. /\ {"GENERAL", "TLS", "PARSE_GRAPH_NODE", "ETHERNET_OFFLOADS", "GENERAL_2", "FLOW_TABLE",
           "DPP", "NVMEOTCP", "CRYPTO"} \subseteq CapType
      /\ Zeroed("GENERAL") = [value |-> 0, encryption_key |-> FALSE, parse_graph_node |-> FALSE,
                              nvmeotcp |-> FALSE]
      /\ Zeroed("FLOW_TABLE") = [value |-> 0, ft_support |-> FALSE, max_log_size |-> 0,
                                 max_level |-> 0]
      /\ Zeroed("NVMEOTCP") = [zerocopy |-> FALSE]
      /\ \A t \in {"TLS", "ETHERNET_OFFLOADS", "GENERAL_2", "DPP", "CRYPTO"} :
           Zeroed(t) = [value |-> 0]
  BY DEF CapType, Zeroed
<1>3. /\ dev["GENERAL"].encryption_key \in BOOLEAN /\ dev["GENERAL"].parse_graph_node \in BOOLEAN
      /\ dev["GENERAL"].nvmeotcp \in BOOLEAN /\ dev["FLOW_TABLE"].ft_support \in BOOLEAN
      /\ dev["NVMEOTCP"].zerocopy \in BOOLEAN
  BY CapsAssumption DEF CapsInv
<1> HIDE DEF m
<1>4. /\ m_external_hca_caps.general = store_hca_general_caps(m)
      /\ m_external_hca_caps.offloads = store_hca_offload_caps(m)
      /\ m_external_hca_caps.crypto = m["CRYPTO"].value
      /\ m_external_hca_caps.node = store_hca_parse_graph_node_caps(m)
      /\ m_external_hca_caps.tables = store_hca_flow_table_caps(m)
      /\ m_external_hca_caps.receive = store_hca_flow_table_nic_receive_caps(m)
      /\ m_external_hca_caps.nvmeotcp = store_hca_nvmeotcp_caps(m)
  BY <1>0 DEF set_external_hca_caps
<1>5. /\ m["GENERAL"].value = IF "GENERAL" \in failed THEN 0 ELSE dev["GENERAL"].value
      /\ m["FLOW_TABLE"].value = IF "FLOW_TABLE" \in failed THEN 0 ELSE dev["FLOW_TABLE"].value
      /\ \A t \in {"TLS", "ETHERNET_OFFLOADS", "GENERAL_2", "DPP", "CRYPTO"} :
           m[t].value = IF t \in failed THEN 0 ELSE dev[t].value
  BY <1>1, <1>2
<1>6. /\ m["GENERAL"].encryption_key =
           IF "GENERAL" \in failed THEN FALSE ELSE dev["GENERAL"].encryption_key
      /\ m["GENERAL"].parse_graph_node =
           IF "GENERAL" \in failed THEN FALSE ELSE dev["GENERAL"].parse_graph_node
      /\ m["GENERAL"].nvmeotcp = IF "GENERAL" \in failed THEN FALSE ELSE dev["GENERAL"].nvmeotcp
      /\ m["NVMEOTCP"].zerocopy = IF "NVMEOTCP" \in failed THEN FALSE ELSE dev["NVMEOTCP"].zerocopy
      /\ m["FLOW_TABLE"].ft_support =
           IF "FLOW_TABLE" \in failed THEN FALSE ELSE dev["FLOW_TABLE"].ft_support
  <2>1. ASSUME "GENERAL" \in failed
        PROVE  /\ m["GENERAL"].encryption_key = FALSE /\ m["GENERAL"].parse_graph_node = FALSE
               /\ m["GENERAL"].nvmeotcp = FALSE
    BY <2>1, <1>1, <1>2
  <2>2. "FLOW_TABLE" \in failed => m["FLOW_TABLE"].ft_support = FALSE
    BY <1>1, <1>2
  <2>3. "NVMEOTCP" \in failed => m["NVMEOTCP"].zerocopy = FALSE
    BY <1>1, <1>2
  <2>4. \A t \in CapType : t \notin failed => m[t] = dev[t]
    BY <1>1
  <2>5. QED
    BY <2>1, <2>2, <2>3, <2>4, <1>2, Zenon
<1>7. m_external_hca_caps.nvmeotcp.zerocopy => dev["GENERAL"].nvmeotcp /\ dev["NVMEOTCP"].zerocopy
  <2>1. m_external_hca_caps.nvmeotcp.zerocopy = (m["GENERAL"].nvmeotcp /\ m["NVMEOTCP"].zerocopy)
    BY <1>4 DEF store_hca_nvmeotcp_caps
  <2>2. QED
    BY <2>1, <1>3, <1>6
<1>8. "FLOW_TABLE" \notin failed => m["FLOW_TABLE"] = dev["FLOW_TABLE"]
  BY <1>1, <1>2
<1>9. m_external_hca_caps.general =
        [general |-> IF "GENERAL" \in failed THEN 0 ELSE dev["GENERAL"].value,
         tls |-> IF "TLS" \in failed THEN 0 ELSE dev["TLS"].value,
         encryption_key |-> IF "GENERAL" \in failed THEN FALSE ELSE dev["GENERAL"].encryption_key]
  BY <1>4, <1>5, <1>6, Zenon DEF store_hca_general_caps
<1>10. /\ m_external_hca_caps.offloads =
            [lro |-> IF "ETHERNET_OFFLOADS" \in failed THEN 0 ELSE dev["ETHERNET_OFFLOADS"].value,
             ibq |-> IF "GENERAL" \in failed THEN 0 ELSE dev["GENERAL"].value,
             dpp |-> IF "DPP" \in failed THEN 0 ELSE dev["DPP"].value]
       /\ m_external_hca_caps.crypto = IF "CRYPTO" \in failed THEN 0 ELSE dev["CRYPTO"].value
       /\ m_external_hca_caps.tables =
            [reformat |-> IF "GENERAL_2" \in failed THEN 0 ELSE dev["GENERAL_2"].value,
             nic |-> IF "GENERAL" \in failed THEN 0 ELSE dev["GENERAL"].value,
             steering |-> IF "FLOW_TABLE" \in failed THEN 0 ELSE dev["FLOW_TABLE"].value]
  BY <1>4, <1>5 DEF store_hca_offload_caps, store_hca_flow_table_caps
<1>11. /\ m_external_hca_caps.receive.supported = m["FLOW_TABLE"].ft_support
       /\ m_external_hca_caps.receive.max_log_size = m["FLOW_TABLE"].max_log_size
       /\ m_external_hca_caps.receive.max_level = m["FLOW_TABLE"].max_level
       /\ m_external_hca_caps.receive.modify_argument = m["GENERAL"].value
  BY <1>4 DEF store_hca_flow_table_nic_receive_caps
<1>12. /\ m_external_hca_caps.node.supported = m["GENERAL"].parse_graph_node
       /\ m_external_hca_caps.node.caps = m["PARSE_GRAPH_NODE"]
  BY <1>4 DEF store_hca_parse_graph_node_caps
<1>13. m["PARSE_GRAPH_NODE"] = IF "PARSE_GRAPH_NODE" \in failed THEN Zeroed("PARSE_GRAPH_NODE")
                                ELSE dev["PARSE_GRAPH_NODE"]
  BY <1>1, <1>2
<1>14. m_external_hca_caps.general.encryption_key = m["GENERAL"].encryption_key
  BY <1>4 DEF store_hca_general_caps
<1>15. QED
  BY <1>14, <1>5, <1>6, <1>7, <1>8, <1>9, <1>10, <1>11, <1>12, <1>13, Zenon

(* The adapter reports nothing above what the device has. *)
LEMMA ReportHonest ==
  ASSUME CapsInv
  PROVE  /\ ReportWithin(m_external_hca_caps, set_external_hca_caps(dev))
         /\ m_external_hca_caps.nvmeotcp.zerocopy =>
              dev["GENERAL"].nvmeotcp /\ dev["NVMEOTCP"].zerocopy
<1> DEFINE e == m_external_hca_caps
           f == set_external_hca_caps(dev)
<1>1. /\ dev["GENERAL"].value \in Nat /\ dev["FLOW_TABLE"].value \in Nat
      /\ \A t \in {"TLS", "ETHERNET_OFFLOADS", "GENERAL_2", "DPP", "CRYPTO"} : dev[t].value \in Nat
  BY CapsAssumption, Zenon DEF CapsInv
<1>2. /\ f.general = [general |-> dev["GENERAL"].value, tls |-> dev["TLS"].value,
                      encryption_key |-> dev["GENERAL"].encryption_key]
      /\ f.offloads = [lro |-> dev["ETHERNET_OFFLOADS"].value, ibq |-> dev["GENERAL"].value,
                       dpp |-> dev["DPP"].value]
      /\ f.crypto = dev["CRYPTO"].value
      /\ f.tables = [reformat |-> dev["GENERAL_2"].value, nic |-> dev["GENERAL"].value,
                     steering |-> dev["FLOW_TABLE"].value]
      /\ f.node.supported = dev["GENERAL"].parse_graph_node
      /\ f.receive.supported = dev["FLOW_TABLE"].ft_support
      /\ f.receive.modify_argument = dev["GENERAL"].value
  BY DEF set_external_hca_caps, store_hca_general_caps, store_hca_offload_caps,
         store_hca_parse_graph_node_caps, store_hca_flow_table_caps,
         store_hca_flow_table_nic_receive_caps, store_hca_nvmeotcp_caps
<1> HIDE DEF e, f
<1>3. \A k \in DOMAIN e.offloads : e.offloads[k] <= f.offloads[k]
  BY <1>1, <1>2, ReportFacts DEF e
<1>4. \A k \in DOMAIN e.tables : e.tables[k] <= f.tables[k]
  BY <1>1, <1>2, ReportFacts DEF e
<1>5. e.general.general <= f.general.general /\ e.general.tls <= f.general.tls
  BY <1>1, <1>2, ReportFacts DEF e
<1>6. e.crypto <= f.crypto /\ e.receive.modify_argument <= f.receive.modify_argument
  BY <1>1, <1>2, ReportFacts DEF e
<1>7. /\ e.node.supported => f.node.supported
      /\ e.receive.supported => f.receive.supported
  BY <1>2, ReportFacts, Zenon DEF e
<1>8. QED
  BY <1>3, <1>4, <1>5, <1>6, <1>7, ReportFacts DEF ReportWithin, e, f

(* A flow table the adapter creates is one the device can have. *)
LEMMA TableGranted ==
  ASSUME CapsInv, NEW a \in TableAttrs, a.level # 0, verify_flow_table_receive_attr(a) = "DPCP_OK"
  PROVE  TableWithin(a)
<1>1. /\ a.level \in Nat /\ a.log_size \in Nat
      /\ dev["FLOW_TABLE"].max_log_size \in Nat /\ dev["FLOW_TABLE"].max_level \in Nat
  BY CapsAssumption DEF CapsInv
<1> DEFINE c == m_external_hca_caps.receive
<1>2. c.supported /\ ~(c.max_log_size < a.log_size \/ c.max_level < a.level)
  BY DEF verify_flow_table_receive_attr
<1>3. "FLOW_TABLE" \notin failed /\ dev["FLOW_TABLE"].ft_support
  BY <1>2, ReportFacts, Zenon
<1>4. c.max_log_size = dev["FLOW_TABLE"].max_log_size /\ c.max_level = dev["FLOW_TABLE"].max_level
  BY <1>3, ReportFacts, Zenon
<1>5. QED
  BY <1>1, <1>2, <1>3, <1>4 DEF TableWithin

(* A parser graph node that passes the checks is within the capabilities   *)
(* of the device, except for the two known differences.                    *)
LEMMA NodeGranted ==
  ASSUME CapsInv, NEW a \in NodeAttrs, HeaderSupported(a), a.in_arcs # << >>,
         a.in_arcs[1] \in m_external_hca_caps.node.caps.node_in, SamplesSupported(a)
  PROVE  NodeWithin(a) \/ ModesDiffer(a) \/ MaskTooWide(a)
<1> DEFINE c == dev["PARSE_GRAPH_NODE"]
<1>1. SUFFICES ASSUME ~ModesDiffer(a), ~MaskTooWide(a)
               PROVE  NodeWithin(a)
  OBVIOUS
<1>2. m_external_hca_caps.node.caps = c
  <2>1. a.header_length_mode \in m_external_hca_caps.node.caps.header_length_mode
    BY DEF HeaderSupported
  <2>2. Zeroed("PARSE_GRAPH_NODE").header_length_mode = {}
    BY DEF Zeroed
  <2>3. QED
    BY <2>1, <2>2, ReportFacts
<1>3. dev["GENERAL"].parse_graph_node
  <2>1. m_external_hca_caps.node.supported
    BY DEF HeaderSupported
  <2>2. QED
    BY <2>1, ReportFacts, Zenon
<1>4. \A i \in DOMAIN a.in_arcs : a.in_arcs[i] \in c.node_in
  <2>1. a.in_arcs \in Seq(Arc)
    BY CapsAssumption
  <2>2. Len(a.in_arcs) <= 1
    BY DEF HeaderSupported
  <2>3. \A i \in DOMAIN a.in_arcs : i = 1
    BY <2>1, <2>2
  <2>4. QED
    BY <2>3, <1>2
<1>5. \A i \in Enabled(a) : a.samples[i].offset_mode \in c.sample_offset_mode
  BY <1>1, <1>2 DEF ModesDiffer, SamplesSupported
<1>6. a.mask \subseteq MaskBits(c.mask_width)
  BY <1>1 DEF MaskTooWide
<1> HIDE DEF c
<1>7. QED
  BY <1>2, <1>3, <1>4, <1>5, <1>6 DEF NodeWithin, HeaderSupported, SamplesSupported, c

(* A node within the capabilities passes the checks, if they were queried, *)
(* it has one input arc and the two kinds of modes do not differ.          *)
LEMMA NodeRefused ==
  ASSUME CapsInv, NEW a \in NodeAttrs, NodeWithin(a),
         failed \cap {"GENERAL", "PARSE_GRAPH_NODE"} = {}, Len(a.in_arcs) = 1, ~ModesDiffer(a)
  PROVE  /\ HeaderSupported(a) /\ SamplesSupported(a) /\ a.in_arcs # << >>
         /\ a.in_arcs[1] \in m_external_hca_caps.node.caps.node_in
<1> DEFINE c == dev["PARSE_GRAPH_NODE"]
<1>1. m_external_hca_caps.node.caps = c
  BY ReportFacts
<1>2. m_external_hca_caps.node.supported
  <2>1. m_external_hca_caps.node.supported = dev["GENERAL"].parse_graph_node
    BY ReportFacts, Zenon
  <2>2. QED
    BY <2>1 DEF NodeWithin
<1>3. a.in_arcs # << >> /\ 1 \in DOMAIN a.in_arcs
  <2>1. a.in_arcs \in Seq(Arc)
    BY CapsAssumption
  <2>2. QED
    BY <2>1
<1>4. \A i \in Enabled(a) : a.samples[i].offset_mode \in c.header_length_mode
  BY DEF ModesDiffer, NodeWithin
<1>5. a.mask = {} \/ a.mask \cap MaskBits(c.mask_width) # {}
  BY DEF NodeWithin
<1> HIDE DEF c
<1>6. QED
  BY <1>1, <1>2, <1>3, <1>4, <1>5 DEF NodeWithin, HeaderSupported, SamplesSupported, c

(* What the last call says of the capabilities. *)
LastHonest ==
  /\ last.ret = "DPCP_OK" =>
       /\ last.op = "create_dek" => dev["GENERAL"].encryption_key
       /\ last.op = "create_flow_table" => TableWithin(last.attr)
       /\ last.op = "create_parser_graph_node" =>
            NodeWithin(last.attr) \/ ModesDiffer(last.attr) \/ MaskTooWide(last.attr)
  /\ RefusedOnlyBeyondCaps

(* A call on a flow table or a parser graph node is honest. *)
LEMMA CapsStep ==
  ASSUME CapsInv, CapsNext
  PROVE  LastHonest'
<1>0. UNCHANGED <<dev, failed, m_external_hca_caps>>
  BY DEF CapsNext, create_flow_table, create_parser_graph_node, query, delete_node, unchangedAdapter
<1>1. ASSUME NEW a \in TableAttrs, create_flow_table(a) PROVE LastHonest'
  <2>1. PICK r : Returns("create_flow_table", a, r) /\
                 (r = "DPCP_OK" => a.level # 0 /\ verify_flow_table_receive_attr(a) = "DPCP_OK")
    BY <1>1 DEF create_flow_table
  <2>2. last'.ret = "DPCP_OK" => TableWithin(a)
    BY <2>1, TableGranted DEF Returns
  <2>3. TableWithin(a) => TableWithin(last.attr)'
    BY <2>1, <1>0 DEF Returns, TableWithin
  <2>4. last'.op = "create_flow_table"
    BY <2>1 DEF Returns
  <2>5. QED
    BY <2>2, <2>3, <2>4 DEF LastHonest, RefusedOnlyBeyondCaps
<1>2. ASSUME NEW a \in NodeAttrs, create_parser_graph_node(a) PROVE LastHonest'
  <2>0. /\ NodeWithin(a)' = NodeWithin(a) /\ ModesDiffer(a)' = ModesDiffer(a)
        /\ MaskTooWide(a)' = MaskTooWide(a) /\ failed' = failed
    BY <1>0 DEF NodeWithin, ModesDiffer, MaskTooWide
  <2>1. PICK r : Returns("create_parser_graph_node", a, r)
    BY <1>2 DEF create_parser_graph_node, create_without_arc, create_node
  <2>2. last'.op = "create_parser_graph_node" /\ last'.attr = a /\ last'.ret = r
    BY <2>1 DEF Returns
  <2>3. ASSUME r = "DPCP_OK" PROVE NodeWithin(a) \/ ModesDiffer(a) \/ MaskTooWide(a)
    <3>1. /\ HeaderSupported(a) /\ a.in_arcs # << >> /\ SamplesSupported(a)
          /\ a.in_arcs[1] \in m_external_hca_caps.node.caps.node_in
      BY <1>2, <2>2, <2>3 DEF create_parser_graph_node, create_without_arc, Returns
    <3>2. QED
      BY <3>1, NodeGranted
  <2>4. ASSUME r = "DPCP_ERR_NO_SUPPORT"
        PROVE  \/ ~NodeWithin(a) \/ failed \cap {"GENERAL", "PARSE_GRAPH_NODE"} # {}
               \/ Len(a.in_arcs) # 1 \/ ModesDiffer(a)
    <3>1. \/ ~HeaderSupported(a) \/ ~SamplesSupported(a) \/ a.in_arcs = << >>
          \/ a.in_arcs[1] \notin m_external_hca_caps.node.caps.node_in
      BY <1>2, <2>2, <2>4 DEF create_parser_graph_node, create_node, Returns
    <3>2. QED
      BY <3>1, NodeRefused
  <2>5. QED
    BY <2>0, <2>2, <2>3, <2>4 DEF LastHonest, RefusedOnlyBeyondCaps
<1>3. ASSUME query \/ delete_node PROVE LastHonest'
  BY <1>3 DEF query, delete_node, Returns, LastHonest, RefusedOnlyBeyondCaps
<1>4. QED
  BY <1>1, <1>2, <1>3 DEF CapsNext

(* So is a call on a TIR, TIS, key or tag buffer table: a key is created   *)
(* only on a device that has keys.                                         *)
LEMMA ObjectsStep ==
  ASSUME CapsInv, ObjectsNext
  PROVE  LastHonest' /\ UNCHANGED <<dev, failed, m_external_hca_caps>>
<1> DEFINE Result == LastHonest' /\ UNCHANGED <<dev, failed, m_external_hca_caps>>
<1>1. ASSUME NEW op, NEW t, Do(op, Nothing, t),
             op \notin {"create_flow_table", "create_parser_graph_node"},
             op = "create_dek" /\ t.ret = "DPCP_OK" => m_external_hca_caps.general.encryption_key
      PROVE  Result
  <2>1. last'.op = op /\ last'.ret = t.ret /\ UNCHANGED <<dev, failed, m_external_hca_caps>>
    BY <1>1 DEF Do, unchangedAdapter
  <2>2. m_external_hca_caps.general.encryption_key => dev["GENERAL"].encryption_key
    <3>1. m_external_hca_caps.general.encryption_key =
            IF "GENERAL" \in failed THEN FALSE ELSE dev["GENERAL"].encryption_key
      BY ReportFacts, Zenon
    <3>2. QED
      BY <3>1, Zenon
  <2>3. QED
    BY <1>1, <2>1, <2>2 DEF LastHonest, RefusedOnlyBeyondCaps
<1> HIDE DEF Result
<1>2. ASSUME NEW op, NEW kind, NEW a, adapter_create(op, kind, a),
             op \notin {"create_flow_table", "create_parser_graph_node"},
             op = "create_dek" => m_external_hca_caps.general.encryption_key
      PROVE  Result
  <2>1. \E t : Do(op, Nothing, t)
    BY <1>2, Zenon DEF adapter_create, Created
  <2>2. QED
    BY <1>1, <1>2, <2>1
<1>3. ASSUME NEW kind, NEW a, create_dek(kind, a) PROVE Result
  <2>1. CASE m_external_hca_caps.general.encryption_key /\ adapter_create("create_dek", kind, a)
    BY <1>2, <2>1
  <2>2. CASE Created("create_dek", Ret(Now, "DPCP_ERR_NO_SUPPORT"))
    <3>1. Ret(Now, "DPCP_ERR_NO_SUPPORT").ret = "DPCP_ERR_NO_SUPPORT"
      BY DEF Ret, Now
    <3>2. QED
      BY <1>1, <2>2, <3>1 DEF Created
  <2>3. QED
    BY <1>3, <2>1, <2>2 DEF create_dek
<1>4. ASSUME NEW a, create_tir(a) \/ create_tis(a) \/ create_tag_buffer_table_obj(a) PROVE Result
  BY <1>2, <1>4 DEF create_tir, create_tis, create_tag_buffer_table_obj
<1>5. ASSUME NEW a, create_tls_dek(a) \/ create_ipsec_dek(a) \/ create_aes_xts_dek(a) PROVE Result
  BY <1>3, <1>5 DEF create_tls_dek, create_ipsec_dek, create_aes_xts_dek
<1>6. ASSUME NEW kind, construct(kind) PROVE Result
  BY <1>1, <1>6 DEF construct
<1>7. ASSUME NEW a, create_object(a) \/ modify_object(a) PROVE Result
  <2>1. \E op \in {"create", "modify"} : \E t : Do(op, Nothing, t)
    BY <1>7, Zenon DEF create_object, modify_object
  <2>2. QED
    BY <1>1, <2>1
<1>8. ASSUME query_it \/ destroy_it \/ delete_it PROVE Result
  <2>1. \E op \in {"query_object", "destroy", "delete"} : \E t : Do(op, Nothing, t)
    BY <1>8 DEF query_it, destroy_it, delete_it
  <2>2. QED
    BY <1>1, <2>1
<1>9. QED
  BY <1>4, <1>5, <1>6, <1>7, <1>8 DEF ObjectsNext, Result

(* The report and the answers to requests, in every state. *)
THEOREM CapsInvariance == ObjectsSpec => [](CapsInv /\ LastHonest)
<1>1. ObjectsInit => CapsInv /\ LastHonest
  BY DEF ObjectsInit, CapsInit, CapsInv, LastHonest, RefusedOnlyBeyondCaps
<1>2. CapsInv /\ LastHonest /\ [(CapsNext /\ UNCHANGED objVars) \/ ObjectsNext]_<<capsVars, objVars>>
        => (CapsInv /\ LastHonest)'
  <2> SUFFICES ASSUME CapsInv, LastHonest,
                      [(CapsNext /\ UNCHANGED objVars) \/ ObjectsNext]_<<capsVars, objVars>>
               PROVE  CapsInv' /\ LastHonest'
    OBVIOUS
  <2>1. CASE CapsNext
    <3>1. UNCHANGED <<dev, failed, m_external_hca_caps>>
      BY <2>1 DEF CapsNext, create_flow_table, create_parser_graph_node, query, delete_node,
                  unchangedAdapter
    <3>2. QED
      BY <2>1, <3>1, CapsStep DEF CapsInv
  <2>2. CASE ObjectsNext
    BY <2>2, ObjectsStep, Zenon DEF CapsInv
  <2>3. CASE UNCHANGED <<capsVars, objVars>>
    BY <2>3 DEF capsVars, CapsInv, LastHonest, RefusedOnlyBeyondCaps, TableWithin, NodeWithin,
                ModesDiffer, MaskTooWide
  <2>4. QED
    BY <2>1, <2>2, <2>3
<1>3. QED
  BY <1>1, <1>2, PTL DEF ObjectsSpec

(* Whatever queries failed when the adapter was constructed, it reports    *)
(* nothing the device lacks, and a key, table or node it creates is within *)
(* the capabilities of the device, but for the two known checks.           *)
THEOREM NothingOverstatedHolds == ObjectsSpec => []NothingOverstated
<1>1. CapsInv /\ LastHonest => NothingOverstated
  BY ReportHonest DEF LastHonest, NothingOverstated
<1>2. QED
  BY <1>1, CapsInvariance, PTL

(* create_parser_graph_node refuses as not supported only what is beyond   *)
(* the capabilities, or what its own peculiar checks refuse.               *)
THEOREM RefusedOnlyBeyondCapsHolds == ObjectsSpec => []RefusedOnlyBeyondCaps
<1>1. LastHonest => RefusedOnlyBeyondCaps
  BY DEF LastHonest
<1>2. QED
  BY <1>1, CapsInvariance, PTL

----------------------------------------------------------------------------
(* Mailboxes, and what modifying an object leaves in them. *)

Box == SUBSET Nat

(* The attributes and the mailbox an object has after it was modified. *)
LroIn(x, v)       == [x EXCEPT !.lro = v]
LroAsked(was, a)  == [was EXCEPT !.lro = a.lro, !.flags = @ \cup {"LRO"}]
KeyAsked(was, a)  == [a EXCEPT !.pd_id = was.pd_id]
LroBox(b, a)      == (b \ LroBits) \cup lro_context(a.lro)
KeyBox(kind, b, a) == KeyModified(b, key_context(get_key_params(kind, a), a))


----------------------------------------------------------------------------
(* Fields of a mailbox. *)

(* DEVX_SET writes inside its field. *)
LEMMA SetBits ==
  ASSUME NEW at \in Nat, NEW w \in Nat, NEW v
  PROVE  DEVX_SET(F(at, w), v) \subseteq at .. (at + w - 1)
BY DEF DEVX_SET, Place, F

(* DEVX_GET looks at nothing but its field. *)
LEMMA GetSame ==
  ASSUME NEW at \in Nat, NEW w \in Nat, NEW b, NEW c,
         b \cap (at .. (at + w - 1)) = c \cap (at .. (at + w - 1))
  PROVE  DEVX_GET(F(at, w), b) = DEVX_GET(F(at, w), c)
<1>1. \A i \in 0 .. (w - 1) : at + w - 1 - i \in at .. (at + w - 1)
  OBVIOUS
<1>2. \A i \in 0 .. (w - 1) : (at + w - 1 - i \in b) <=> (at + w - 1 - i \in c)
  BY <1>1
<1>3. QED
  BY <1>2 DEF DEVX_GET, Place, F

(* DEVX_GET reads back what DEVX_SET wrote, cut to the width of the field. *)
LEMMA GetSet ==
  ASSUME NEW at \in Nat, NEW w \in Nat, NEW v, NEW b,
         b \cap (at .. (at + w - 1)) = DEVX_SET(F(at, w), v)
  PROVE  DEVX_GET(F(at, w), b) = v \cap 0 .. (w - 1)
<1>1. \A i \in 0 .. (w - 1) : at + w - 1 - i \in at .. (at + w - 1)
  OBVIOUS
<1>2. \A i \in 0 .. (w - 1) : (at + w - 1 - i \in DEVX_SET(F(at, w), v)) <=> i \in v
  <2> SUFFICES ASSUME NEW i \in 0 .. (w - 1)
               PROVE  (at + w - 1 - i \in DEVX_SET(F(at, w), v)) <=> i \in v
    OBVIOUS
  <2>1. DEVX_SET(F(at, w), v) = {at + w - 1 - j : j \in v \cap 0 .. (w - 1)}
    BY DEF DEVX_SET, Place, F
  <2>2. ASSUME at + w - 1 - i \in DEVX_SET(F(at, w), v) PROVE i \in v
    <3>1. PICK j \in v \cap 0 .. (w - 1) : at + w - 1 - i = at + w - 1 - j
      BY <2>1, <2>2
    <3>2. i = j
      BY <3>1
    <3>3. QED
      BY <3>1, <3>2
  <2>3. ASSUME i \in v PROVE at + w - 1 - i \in DEVX_SET(F(at, w), v)
    BY <2>1, <2>3
  <2>4. QED
    BY <2>2, <2>3
<1>3. \A i \in 0 .. (w - 1) : (at + w - 1 - i \in b) <=> i \in v
  BY <1>1, <1>2
<1>4. DEVX_GET(F(at, w), b) = {i \in 0 .. (w - 1) : at + w - 1 - i \in b}
  BY DEF DEVX_GET, Place, F
<1>5. QED
  BY <1>3, <1>4

(* DEVX_GET of a field that holds no one is zero. *)
LEMMA GetZero ==
  ASSUME NEW at \in Nat, NEW w \in Nat, NEW b, b \cap (at .. (at + w - 1)) = {}
  PROVE  DEVX_GET(F(at, w), b) = {}
<1>1. \A i \in 0 .. (w - 1) : at + w - 1 - i \in at .. (at + w - 1)
  OBVIOUS
<1>2. \A i \in 0 .. (w - 1) : at + w - 1 - i \notin b
  BY <1>1
<1>3. QED
  BY <1>2 DEF DEVX_GET, Place, F

(* A field written among others. *)
LEMMA GetAmong ==
  ASSUME NEW at \in Nat, NEW w \in Nat, NEW v \in SUBSET (0 .. (w - 1)), NEW b,
         \A x \in at .. (at + w - 1) : x \in b <=> x \in DEVX_SET(F(at, w), v)
  PROVE  DEVX_GET(F(at, w), b) = v
<1>1. b \cap (at .. (at + w - 1)) = DEVX_SET(F(at, w), v)
  BY SetBits
<1>2. DEVX_GET(F(at, w), b) = v \cap 0 .. (w - 1)
  BY <1>1, GetSet
<1>3. QED
  BY <1>2, Zenon

(* In the bits from at to hi, b is what DEVX_SET writes of v if e is in E. *)
Written(at, hi, w, v, e, E, b) ==
  \A x \in at .. hi : x \in b <=> (e \in E /\ x \in DEVX_SET(F(at, w), v))

(* A value of w bits. *)
Fits(v, w) == v \in SUBSET (0 .. (w - 1))

(* The bits at to hi are a field of w bits. *)
Span(at, hi, w) == at \in Nat /\ w \in Nat /\ hi \in Int /\ hi = at + w - 1

(* The fields of the contexts. *)
LEMMA Spans ==
  /\ Span(132, 147, 16) /\ Span(148, 151, 4) /\ Span(152, 159, 8) /\ Span(36, 36, 1)
  /\ Span(37, 37, 1) /\ Span(38, 38, 1) /\ Span(1, 1, 1) /\ Span(88, 88, 1)
  /\ Span(232, 255, 24) /\ Span(296, 319, 24) /\ Span(360, 383, 24) /\ Span(104, 127, 24)
  /\ Span(704, 735, 32) /\ Span(123, 127, 5) /\ Span(84, 87, 4) /\ Span(92, 95, 4)
  /\ Span(384, 447, 64)
BY DEF Span

(* A field written under a condition, among others. *)
LEMMA GetField ==
  ASSUME NEW at, NEW hi, NEW w, Span(at, hi, w),
         NEW v, Fits(v, w), NEW e, NEW E, NEW b, Written(at, hi, w, v, e, E, b)
  PROVE  DEVX_GET(F(at, w), b) = IF e \in E THEN v ELSE {}
<1> USE DEF Span
<1>1. CASE e \in E
  <2>1. \A x \in at .. (at + w - 1) : x \in b <=> x \in DEVX_SET(F(at, w), v)
    BY <1>1 DEF Written
  <2>2. QED
    BY <1>1, <2>1, GetAmong DEF Fits
<1>2. CASE e \notin E
  <2>1. b \cap (at .. (at + w - 1)) = {}
    BY <1>2, Zenon DEF Written
  <2>2. QED
    BY <1>2, <2>1, GetZero
<1>3. QED
  BY <1>1, <1>2

(* The places of the fields of a TIR. *)
LEMMA TirPlaces ==
  /\ tirc.lro_timeout_period_usecs = F(132, 16) /\ tirc.lro_enable_mask = F(148, 4)
  /\ tirc.lro_max_ip_payload_size = F(152, 8) /\ tirc.tls_en = F(36, 1)
  /\ tirc.inline_rqn = F(232, 24) /\ tirc.transport_domain = F(296, 24)
  /\ tirc.nvmeotcp_zerocopy_en = F(37, 1) /\ tirc.nvmeotcp_tag_buffer_table_id = F(704, 32)
  /\ tirc.nvmeotcp_crc_en = F(38, 1) /\ tirc.self_lb_block = F(294, 2)
BY DEF tirc

(* What a TIR was created with is what its fields say: each field's bits   *)
(* of the mailbox are the ones its own DEVX_SET wrote.                     *)
LEMMA TirContext ==
  ASSUME NEW a \in tir_attr
  PROVE  tir_read(tir_context(a), tir_flags) = Tir(a) /\ tir_context(a) \in Box
<1> DEFINE box == tir_context(a)
           T1 == DEVX_SET(F(132, 16), a.lro.timeout_period_usecs)
           T2 == DEVX_SET(F(148, 4), a.lro.enable_mask)
           T3 == DEVX_SET(F(152, 8), a.lro.max_msg_sz)
           T4 == DEVX_SET(F(36, 1), a.tls_en)
           T5 == DEVX_SET(F(232, 24), a.inline_rqn)
           T6 == DEVX_SET(F(296, 24), a.transport_domain)
           T7 == DEVX_SET(F(37, 1), a.zerocopy_en)
           T8 == DEVX_SET(F(704, 32), a.tag_buffer_table_id)
           T9 == DEVX_SET(F(38, 1), a.crc_en)
           TB == DEVX_SET(F(294, 2), {0, 1})
           On(f) == f \in a.flags
<1>1. /\ Fits(a.lro.timeout_period_usecs, 16) /\ Fits(a.lro.enable_mask, 4)
      /\ Fits(a.lro.max_msg_sz, 8) /\ Fits(a.tls_en, 1) /\ Fits(a.inline_rqn, 24)
      /\ Fits(a.transport_domain, 24) /\ Fits(a.zerocopy_en, 1)
      /\ Fits(a.tag_buffer_table_id, 32) /\ Fits(a.crc_en, 1)
  BY DEF tir_attr, Word, One, Fits
<1>2. /\ T1 \subseteq 132 .. 147 /\ T2 \subseteq 148 .. 151 /\ T3 \subseteq 152 .. 159
      /\ T4 \subseteq 36 .. 36 /\ T5 \subseteq 232 .. 255 /\ T6 \subseteq 296 .. 319
      /\ T7 \subseteq 37 .. 37 /\ T8 \subseteq 704 .. 735 /\ T9 \subseteq 38 .. 38
      /\ TB \subseteq 294 .. 295
  <2> DEFINE Inside(at, w, v) == DEVX_SET(F(at, w), v) \subseteq at .. (at + w - 1)
  <2>1. \A at \in Nat, w \in Nat : \A v : Inside(at, w, v)
    BY SetBits
  <2>2. /\ Inside(132, 16, a.lro.timeout_period_usecs) /\ Inside(148, 4, a.lro.enable_mask)
        /\ Inside(152, 8, a.lro.max_msg_sz) /\ Inside(36, 1, a.tls_en)
        /\ Inside(232, 24, a.inline_rqn) /\ Inside(296, 24, a.transport_domain)
        /\ Inside(37, 1, a.zerocopy_en) /\ Inside(704, 32, a.tag_buffer_table_id)
        /\ Inside(38, 1, a.crc_en) /\ Inside(294, 2, {0, 1})
    <3> HIDE DEF Inside
    <3>1. QED
      BY <2>1
  <2>3. QED
    BY <2>2
<1>3. box = When(On("LRO"), T1 \cup T2 \cup T3) \cup When(On("TLS"), TB \cup T4)
              \cup When(On("INLINE_RQN"), T5) \cup When(On("TRANSPORT_DOMAIN"), T6)
              \cup When(On("NVMEOTCP_ZERO_COPY"), TB \cup T7 \cup T8)
              \cup When(On("NVMEOTCP_CRC"), TB \cup T9)
  BY TirPlaces DEF tir_context, lro_context, self_lb
<1> HIDE DEF box, T1, T2, T3, T4, T5, T6, T7, T8, T9, TB
<1>4. \A x : x \in box <=> \/ On("LRO") /\ (x \in T1 \/ x \in T2 \/ x \in T3)
                           \/ On("TLS") /\ (x \in TB \/ x \in T4)
                           \/ On("INLINE_RQN") /\ x \in T5
                           \/ On("TRANSPORT_DOMAIN") /\ x \in T6
                           \/ On("NVMEOTCP_ZERO_COPY") /\ (x \in TB \/ x \in T7 \/ x \in T8)
                           \/ On("NVMEOTCP_CRC") /\ (x \in TB \/ x \in T9)
  BY <1>3 DEF When
<1>5. DEVX_GET(tirc.lro_timeout_period_usecs, box) = IF On("LRO") THEN a.lro.timeout_period_usecs ELSE {}
  <2>1. Written(132, 147, 16, a.lro.timeout_period_usecs, "LRO", a.flags, box)
    BY <1>2, <1>4 DEF T1, Written
  <2>2. DEVX_GET(F(132, 16), box) = IF "LRO" \in a.flags THEN a.lro.timeout_period_usecs ELSE {}
    BY <2>1, <1>1, Spans, GetField
  <2>3. QED
    BY <2>2, TirPlaces, Zenon
<1>6. DEVX_GET(tirc.lro_enable_mask, box) = IF On("LRO") THEN a.lro.enable_mask ELSE {}
  <2>1. Written(148, 151, 4, a.lro.enable_mask, "LRO", a.flags, box)
    BY <1>2, <1>4 DEF T2, Written
  <2>2. DEVX_GET(F(148, 4), box) = IF "LRO" \in a.flags THEN a.lro.enable_mask ELSE {}
    BY <2>1, <1>1, Spans, GetField
  <2>3. QED
    BY <2>2, TirPlaces, Zenon
<1>7. DEVX_GET(tirc.lro_max_ip_payload_size, box) = IF On("LRO") THEN a.lro.max_msg_sz ELSE {}
  <2>1. Written(152, 159, 8, a.lro.max_msg_sz, "LRO", a.flags, box)
    BY <1>2, <1>4 DEF T3, Written
  <2>2. DEVX_GET(F(152, 8), box) = IF "LRO" \in a.flags THEN a.lro.max_msg_sz ELSE {}
    BY <2>1, <1>1, Spans, GetField
  <2>3. QED
    BY <2>2, TirPlaces, Zenon
<1>8. DEVX_GET(tirc.tls_en, box) = IF On("TLS") THEN a.tls_en ELSE {}
  <2>1. Written(36, 36, 1, a.tls_en, "TLS", a.flags, box)
    BY <1>2, <1>4 DEF T4, Written
  <2>2. DEVX_GET(F(36, 1), box) = IF "TLS" \in a.flags THEN a.tls_en ELSE {}
    BY <2>1, <1>1, Spans, GetField
  <2>3. QED
    BY <2>2, TirPlaces, Zenon
<1>9. DEVX_GET(tirc.inline_rqn, box) = IF On("INLINE_RQN") THEN a.inline_rqn ELSE {}
  <2>1. Written(232, 255, 24, a.inline_rqn, "INLINE_RQN", a.flags, box)
    BY <1>2, <1>4 DEF T5, Written
  <2>2. DEVX_GET(F(232, 24), box) = IF "INLINE_RQN" \in a.flags THEN a.inline_rqn ELSE {}
    BY <2>1, <1>1, Spans, GetField
  <2>3. QED
    BY <2>2, TirPlaces, Zenon
<1>10. DEVX_GET(tirc.transport_domain, box) = IF On("TRANSPORT_DOMAIN") THEN a.transport_domain ELSE {}
  <2>1. Written(296, 319, 24, a.transport_domain, "TRANSPORT_DOMAIN", a.flags, box)
    BY <1>2, <1>4 DEF T6, Written
  <2>2. DEVX_GET(F(296, 24), box) = IF "TRANSPORT_DOMAIN" \in a.flags THEN a.transport_domain ELSE {}
    BY <2>1, <1>1, Spans, GetField
  <2>3. QED
    BY <2>2, TirPlaces, Zenon
<1>11. DEVX_GET(tirc.nvmeotcp_zerocopy_en, box) = IF On("NVMEOTCP_ZERO_COPY") THEN a.zerocopy_en ELSE {}
  <2>1. Written(37, 37, 1, a.zerocopy_en, "NVMEOTCP_ZERO_COPY", a.flags, box)
    BY <1>2, <1>4 DEF T7, Written
  <2>2. DEVX_GET(F(37, 1), box) = IF "NVMEOTCP_ZERO_COPY" \in a.flags THEN a.zerocopy_en ELSE {}
    BY <2>1, <1>1, Spans, GetField
  <2>3. QED
    BY <2>2, TirPlaces, Zenon
<1>12. DEVX_GET(tirc.nvmeotcp_tag_buffer_table_id, box) = IF On("NVMEOTCP_ZERO_COPY") THEN a.tag_buffer_table_id ELSE {}
  <2>1. Written(704, 735, 32, a.tag_buffer_table_id, "NVMEOTCP_ZERO_COPY", a.flags, box)
    BY <1>2, <1>4 DEF T8, Written
  <2>2. DEVX_GET(F(704, 32), box) = IF "NVMEOTCP_ZERO_COPY" \in a.flags THEN a.tag_buffer_table_id ELSE {}
    BY <2>1, <1>1, Spans, GetField
  <2>3. QED
    BY <2>2, TirPlaces, Zenon
<1>13. DEVX_GET(tirc.nvmeotcp_crc_en, box) = IF On("NVMEOTCP_CRC") THEN a.crc_en ELSE {}
  <2>1. Written(38, 38, 1, a.crc_en, "NVMEOTCP_CRC", a.flags, box)
    BY <1>2, <1>4 DEF T9, Written
  <2>2. DEVX_GET(F(38, 1), box) = IF "NVMEOTCP_CRC" \in a.flags THEN a.crc_en ELSE {}
    BY <2>1, <1>1, Spans, GetField
  <2>3. QED
    BY <2>2, TirPlaces, Zenon
<1>14. Tir(a).lro = [timeout_period_usecs |-> IF On("LRO") THEN a.lro.timeout_period_usecs ELSE {},
                    enable_mask |-> IF On("LRO") THEN a.lro.enable_mask ELSE {},
                    max_msg_sz |-> IF On("LRO") THEN a.lro.max_msg_sz ELSE {}]
  <2>1. a.lro = [timeout_period_usecs |-> a.lro.timeout_period_usecs,
                 enable_mask |-> a.lro.enable_mask, max_msg_sz |-> a.lro.max_msg_sz]
    BY DEF tir_attr
  <2>2. QED
    BY <2>1, Zenon DEF Tir
<1>15. box \in Box
  <2>1. /\ T1 \subseteq Nat /\ T2 \subseteq Nat /\ T3 \subseteq Nat /\ T4 \subseteq Nat
        /\ T5 \subseteq Nat /\ T6 \subseteq Nat /\ T7 \subseteq Nat /\ T8 \subseteq Nat
        /\ T9 \subseteq Nat /\ TB \subseteq Nat
    BY <1>2
  <2>2. \A x \in box : x \in Nat
    BY <2>1, <1>4, Zenon
  <2>3. QED
    BY <2>2 DEF Box
<1>16. QED
  BY <1>5, <1>6, <1>7, <1>8, <1>9, <1>10, <1>11, <1>12, <1>13, <1>14, <1>15, Zenon DEF Tir, tir_read, box

(* In the bits from at to hi, b is what DEVX_SET writes of v. *)
Holds(at, hi, w, v, b) == \A x \in at .. hi : x \in b <=> x \in DEVX_SET(F(at, w), v)

(* A field written among others reads as its value, cut to its width. *)
LEMMA GetCut ==
  ASSUME NEW at, NEW hi, NEW w, Span(at, hi, w), NEW v, NEW b, Holds(at, hi, w, v, b)
  PROVE  DEVX_GET(F(at, w), b) = v \cap (0 .. (w - 1))
<1> USE DEF Span
<1>1. b \cap (at .. (at + w - 1)) = DEVX_SET(F(at, w), v)
  BY SetBits DEF Holds
<1>2. QED
  BY <1>1, GetSet

(* The places a value is written to, as an interval. *)
LEMMA SetWithin ==
  ASSUME NEW at \in Nat, NEW w \in Nat, NEW hi \in Int, hi = at + w - 1, NEW v
  PROVE  DEVX_SET(F(at, w), v) \subseteq at .. hi
BY SetBits, Zenon

(* What a TIS was created with is what its fields say. *)
LEMMA TisContext ==
  ASSUME NEW a \in tis_attr
  PROVE  /\ tis_read(tis_context(a), tis_flags \ {"NVMEOTCP"}) = Tis(a)
         /\ tis_context(a) \in Box
<1> DEFINE box == tis_context(a)
           T1 == DEVX_SET(F(296, 24), a.transport_domain)
           T2 == DEVX_SET(F(1, 1), a.tls_en)
           T3 == DEVX_SET(F(360, 24), a.pd)
           T4 == DEVX_SET(F(2, 1), a.nvmeotcp)
           On(f) == f \in a.flags
<1>1. Fits(a.transport_domain, 24) /\ Fits(a.tls_en, 1) /\ Fits(a.pd, 24)
  BY DEF tis_attr, Word, One, Fits
<1>2. /\ tisc.transport_domain = F(296, 24) /\ tisc.tls_en = F(1, 1)
      /\ tisc.pd = F(360, 24) /\ tisc.nvmeotcp_en = F(2, 1)
  BY Zenon DEF tisc
<1>3. box = When(On("TRANSPORT_DOMAIN"), T1) \cup When(On("TLS"), T2) \cup When(On("PD"), T3)
              \cup When(On("NVMEOTCP"), T4)
  BY <1>2 DEF tis_context
<1>4. /\ T1 \subseteq 296 .. 319 /\ T2 \subseteq 1 .. 1 /\ T3 \subseteq 360 .. 383 /\ T4 \subseteq 2 .. 2
  <2> DEFINE Inside(at, w, v) == DEVX_SET(F(at, w), v) \subseteq at .. (at + w - 1)
  <2>1. \A at \in Nat, w \in Nat : \A v : Inside(at, w, v)
    BY SetBits
  <2>2. /\ Inside(296, 24, a.transport_domain) /\ Inside(1, 1, a.tls_en)
        /\ Inside(360, 24, a.pd) /\ Inside(2, 1, a.nvmeotcp)
    <3> HIDE DEF Inside
    <3>1. QED
      BY <2>1
  <2>3. QED
    BY <2>2
<1> HIDE DEF box, T1, T2, T3, T4
<1>5. \A x : x \in box <=> \/ On("TRANSPORT_DOMAIN") /\ x \in T1
                           \/ On("TLS") /\ x \in T2
                           \/ On("PD") /\ x \in T3
                           \/ On("NVMEOTCP") /\ x \in T4
  BY <1>3 DEF When
<1>6. DEVX_GET(tisc.transport_domain, box) = IF On("TRANSPORT_DOMAIN") THEN a.transport_domain ELSE {}
  <2>1. Written(296, 319, 24, a.transport_domain, "TRANSPORT_DOMAIN", a.flags, box)
    BY <1>4, <1>5 DEF T1, Written
  <2>2. DEVX_GET(F(296, 24), box) = IF "TRANSPORT_DOMAIN" \in a.flags THEN a.transport_domain ELSE {}
    BY <2>1, <1>1, Spans, GetField
  <2>3. QED
    BY <2>2, <1>2, Zenon
<1>7. DEVX_GET(tisc.tls_en, box) = IF On("TLS") THEN a.tls_en ELSE {}
  <2>1. Written(1, 1, 1, a.tls_en, "TLS", a.flags, box)
    BY <1>4, <1>5 DEF T2, Written
  <2>2. DEVX_GET(F(1, 1), box) = IF "TLS" \in a.flags THEN a.tls_en ELSE {}
    BY <2>1, <1>1, Spans, GetField
  <2>3. QED
    BY <2>2, <1>2, Zenon
<1>8. DEVX_GET(tisc.pd, box) = IF On("PD") THEN a.pd ELSE {}
  <2>1. Written(360, 383, 24, a.pd, "PD", a.flags, box)
    BY <1>4, <1>5 DEF T3, Written
  <2>2. DEVX_GET(F(360, 24), box) = IF "PD" \in a.flags THEN a.pd ELSE {}
    BY <2>1, <1>1, Spans, GetField
  <2>3. QED
    BY <2>2, <1>2, Zenon
<1>9. box \in Box
  <2>1. /\ T1 \subseteq Nat /\ T2 \subseteq Nat /\ T3 \subseteq Nat /\ T4 \subseteq Nat
    BY <1>4
  <2>2. \A x \in box : x \in Nat
    BY <2>1, <1>5, Zenon
  <2>3. QED
    BY <2>2 DEF Box
<1>10. QED
  BY <1>6, <1>7, <1>8, <1>9 DEF Tis, tis_read, box

(* What a tag buffer table was created with is what its field says. *)
LEMMA TableContext ==
  ASSUME NEW v
  PROVE  LET box == DEVX_SET(tag_buffer_table_obj.log_tag_buffer_table_size, v)
         IN  /\ DEVX_GET(tag_buffer_table_obj.log_tag_buffer_table_size, box) = v \cap Word(5)
             /\ box \in Box
<1> DEFINE box == DEVX_SET(F(123, 5), v)
<1>1. tag_buffer_table_obj.log_tag_buffer_table_size = F(123, 5)
  BY DEF tag_buffer_table_obj
<1>2. box \subseteq 123 .. 127
  BY SetWithin
<1>3. Holds(123, 127, 5, v, box)
  BY DEF Holds
<1> HIDE DEF box
<1>4. DEVX_GET(F(123, 5), box) = v \cap (0 .. (5 - 1))
  BY <1>3, Spans, GetCut
<1>5. box \in Box
  <2>1. \A x \in box : x \in Nat
    BY <1>2
  <2>2. QED
    BY <2>1 DEF Box
<1>6. QED
  BY <1>1, <1>4, <1>5 DEF Word, box

(* A mailbox whose LRO bits are replaced: the other fields stay ... *)
LEMMA LroOthers ==
  ASSUME NEW box, NEW lro, NEW at \in Nat, NEW w \in Nat, NEW hi \in Int, hi = at + w - 1,
         hi < 132 \/ at > 159
  PROVE  DEVX_GET(F(at, w), (box \ LroBits) \cup lro_context(lro)) = DEVX_GET(F(at, w), box)
<1> DEFINE new == (box \ LroBits) \cup lro_context(lro)
<1>1. \A l : lro_context(l) \subseteq 132 .. 159
  <2> TAKE l
  <2>1. /\ DEVX_SET(F(132, 16), l.timeout_period_usecs) \subseteq 132 .. 147
        /\ DEVX_SET(F(148, 4), l.enable_mask) \subseteq 148 .. 151
        /\ DEVX_SET(F(152, 8), l.max_msg_sz) \subseteq 152 .. 159
    BY SetWithin
  <2>2. lro_context(l) = DEVX_SET(F(132, 16), l.timeout_period_usecs)
                           \cup DEVX_SET(F(148, 4), l.enable_mask)
                           \cup DEVX_SET(F(152, 8), l.max_msg_sz)
    BY TirPlaces DEF lro_context
  <2>3. QED
    BY <2>1, <2>2
<1>2. \A x \in at .. hi : x \notin 132 .. 159
  OBVIOUS
<1>3. LroBits \subseteq 132 .. 159 /\ lro_context(lro) \subseteq 132 .. 159
  BY <1>1 DEF LroBits
<1>4. new \cap (at .. (at + w - 1)) = box \cap (at .. (at + w - 1))
  BY <1>2, <1>3
<1> HIDE DEF new
<1>5. QED
  BY <1>4, GetSame DEF new

(* ... and those of LRO are the new ones. *)
LEMMA LroFields ==
  ASSUME NEW a \in tir_attr, NEW box \in Box
  PROVE  LET new == (box \ LroBits) \cup lro_context(a.lro)
         IN  /\ DEVX_GET(F(132, 16), new) = a.lro.timeout_period_usecs
             /\ DEVX_GET(F(148, 4), new) = a.lro.enable_mask
             /\ DEVX_GET(F(152, 8), new) = a.lro.max_msg_sz
             /\ new \in Box
<1> DEFINE new == (box \ LroBits) \cup lro_context(a.lro)
           T1 == DEVX_SET(F(132, 16), a.lro.timeout_period_usecs)
           T2 == DEVX_SET(F(148, 4), a.lro.enable_mask)
           T3 == DEVX_SET(F(152, 8), a.lro.max_msg_sz)
<1>1. T1 \subseteq 132 .. 147 /\ T2 \subseteq 148 .. 151 /\ T3 \subseteq 152 .. 159
  BY SetWithin
<1>2. lro_context(a.lro) = T1 \cup T2 \cup T3
  BY TirPlaces DEF lro_context
<1>3. 132 .. 159 \subseteq LroBits
  <2>1. LroBits = DEVX_SET(F(132, 16), Word(16)) \cup DEVX_SET(F(148, 4), Word(4))
                    \cup DEVX_SET(F(152, 8), Word(8))
    BY TirPlaces DEF LroBits, lro_context
  <2>2. \A at \in Nat, w \in Nat : \A x \in at .. (at + w - 1) : x \in DEVX_SET(F(at, w), Word(w))
    <3> TAKE at \in Nat, w \in Nat
    <3> TAKE x \in at .. (at + w - 1)
    <3>1. at + w - 1 - x \in 0 .. (w - 1) /\ x = at + w - 1 - (at + w - 1 - x)
      OBVIOUS
    <3>2. QED
      BY <3>1 DEF DEVX_SET, Word, Place, F
  <2>3. /\ \A x \in 132 .. (132 + 16 - 1) : x \in DEVX_SET(F(132, 16), Word(16))
        /\ \A x \in 148 .. (148 + 4 - 1) : x \in DEVX_SET(F(148, 4), Word(4))
        /\ \A x \in 152 .. (152 + 8 - 1) : x \in DEVX_SET(F(152, 8), Word(8))
    BY <2>2
  <2>4. QED
    BY <2>1, <2>3
<1> HIDE DEF T1, T2, T3
<1>4. \A x \in 132 .. 159 : x \in new <=> (x \in T1 \/ x \in T2 \/ x \in T3)
  BY <1>2, <1>3
<1>5. new \in Box
  <2>1. \A x \in new : x \in Nat
    BY <1>1, <1>2 DEF Box
  <2>2. QED
    BY <2>1, Zenon DEF Box
<1> HIDE DEF new
<1>6. /\ Holds(132, 147, 16, a.lro.timeout_period_usecs, new)
      /\ Holds(148, 151, 4, a.lro.enable_mask, new) /\ Holds(152, 159, 8, a.lro.max_msg_sz, new)
  BY <1>1, <1>4 DEF Holds, T1, T2, T3
<1>7. /\ DEVX_GET(F(132, 16), new) = a.lro.timeout_period_usecs \cap (0 .. (16 - 1))
      /\ DEVX_GET(F(148, 4), new) = a.lro.enable_mask \cap (0 .. (4 - 1))
      /\ DEVX_GET(F(152, 8), new) = a.lro.max_msg_sz \cap (0 .. (8 - 1))
  <2>1. DEVX_GET(F(132, 16), new) = a.lro.timeout_period_usecs \cap (0 .. (16 - 1))
    BY <1>6, Spans, GetCut
  <2>2. DEVX_GET(F(148, 4), new) = a.lro.enable_mask \cap (0 .. (4 - 1))
    BY <1>6, Spans, GetCut
  <2>3. DEVX_GET(F(152, 8), new) = a.lro.max_msg_sz \cap (0 .. (8 - 1))
    BY <1>6, Spans, GetCut
  <2>4. QED
    BY <2>1, <2>2, <2>3, Zenon
<1>8. /\ a.lro.timeout_period_usecs \subseteq 0 .. 15 /\ a.lro.enable_mask \subseteq 0 .. 3
      /\ a.lro.max_msg_sz \subseteq 0 .. 7
  BY DEF tir_attr, Word
<1>9. /\ DEVX_GET(F(132, 16), new) = a.lro.timeout_period_usecs
      /\ DEVX_GET(F(148, 4), new) = a.lro.enable_mask
      /\ DEVX_GET(F(152, 8), new) = a.lro.max_msg_sz
  BY <1>7, <1>8
<1>10. QED
  BY <1>5, <1>9, Zenon DEF new

(* A TIR modified: LRO is what was asked for, the rest stays. *)
LEMMA TirModifiedSays ==
  ASSUME NEW a \in tir_attr, NEW was \in tir_attr, NEW old \in Box,
         tir_read(old, tir_flags) = Tir(was)
  PROVE  LET box == (old \ LroBits) \cup lro_context(a.lro)
             now == LroAsked(was, a)
         IN  /\ box \in Box /\ tir_read(box, tir_flags) = Tir(now) /\ now \in tir_attr
             /\ Tir(now) = LroIn(Tir(was), a.lro)
<1> DEFINE b   == (old \ LroBits) \cup lro_context(a.lro)
           now == [was EXCEPT !.lro = a.lro, !.flags = @ \cup {"LRO"}]
<1>1. /\ DEVX_GET(F(132, 16), b) = a.lro.timeout_period_usecs
      /\ DEVX_GET(F(148, 4), b) = a.lro.enable_mask
      /\ DEVX_GET(F(152, 8), b) = a.lro.max_msg_sz
      /\ b \in Box
  BY LroFields, Zenon
<1>2. /\ DEVX_GET(F(36, 1), b) = DEVX_GET(F(36, 1), old)
      /\ DEVX_GET(F(37, 1), b) = DEVX_GET(F(37, 1), old)
      /\ DEVX_GET(F(38, 1), b) = DEVX_GET(F(38, 1), old)
      /\ DEVX_GET(F(232, 24), b) = DEVX_GET(F(232, 24), old)
      /\ DEVX_GET(F(296, 24), b) = DEVX_GET(F(296, 24), old)
      /\ DEVX_GET(F(704, 32), b) = DEVX_GET(F(704, 32), old)
  <2> DEFINE Same(at, w) == DEVX_GET(F(at, w), b) = DEVX_GET(F(at, w), old)
  <2>1. \A at \in Nat, w \in Nat : at + w - 1 < 132 \/ at > 159 => Same(at, w)
    BY LroOthers
  <2> HIDE DEF Same
  <2>2. Same(36, 1) /\ Same(37, 1) /\ Same(38, 1) /\ Same(232, 24) /\ Same(296, 24) /\ Same(704, 32)
    BY <2>1
  <2>3. QED
    BY <2>2, Zenon DEF Same
<1>3. /\ now \in tir_attr /\ now.lro = a.lro /\ now.flags = was.flags \cup {"LRO"}
      /\ now.inline_rqn = was.inline_rqn /\ now.transport_domain = was.transport_domain
      /\ now.tls_en = was.tls_en /\ now.zerocopy_en = was.zerocopy_en /\ now.crc_en = was.crc_en
      /\ now.tag_buffer_table_id = was.tag_buffer_table_id
  BY Zenon DEF tir_attr, tir_flags
<1>4. a.lro = [timeout_period_usecs |-> a.lro.timeout_period_usecs,
               enable_mask |-> a.lro.enable_mask, max_msg_sz |-> a.lro.max_msg_sz]
  BY Zenon DEF tir_attr
<1> HIDE DEF b, now
<1>5. /\ Tir(now).lro = a.lro /\ Tir(now).flags = tir_flags
      /\ Tir(now).inline_rqn = Tir(was).inline_rqn
      /\ Tir(now).transport_domain = Tir(was).transport_domain
      /\ Tir(now).tls_en = Tir(was).tls_en /\ Tir(now).zerocopy_en = Tir(was).zerocopy_en
      /\ Tir(now).crc_en = Tir(was).crc_en
      /\ Tir(now).tag_buffer_table_id = Tir(was).tag_buffer_table_id
  <2>1. Tir(now).lro = a.lro
    <3>1. "LRO" \in now.flags
      BY <1>3, Zenon
    <3>2. Tir(now).lro = [k \in DOMAIN now.lro |-> now.lro[k]]
      BY <3>1, Zenon DEF Tir
    <3>3. QED
      BY <1>3, <1>4, <3>2, Zenon
  <2>2. \A f : f # "LRO" => (f \in now.flags <=> f \in was.flags)
    BY <1>3, Zenon
  <2>3. QED
    BY <1>3, <2>1, <2>2, Zenon DEF Tir
<1>6. /\ DEVX_GET(tirc.tls_en, old) = Tir(was).tls_en
      /\ DEVX_GET(tirc.nvmeotcp_zerocopy_en, old) = Tir(was).zerocopy_en
      /\ DEVX_GET(tirc.nvmeotcp_crc_en, old) = Tir(was).crc_en
      /\ DEVX_GET(tirc.inline_rqn, old) = Tir(was).inline_rqn
      /\ DEVX_GET(tirc.transport_domain, old) = Tir(was).transport_domain
      /\ DEVX_GET(tirc.nvmeotcp_tag_buffer_table_id, old) = Tir(was).tag_buffer_table_id
  BY DEF tir_read
<1>a. /\ DEVX_GET(tirc.tls_en, b) = DEVX_GET(tirc.tls_en, old)
      /\ DEVX_GET(tirc.nvmeotcp_zerocopy_en, b) = DEVX_GET(tirc.nvmeotcp_zerocopy_en, old)
      /\ DEVX_GET(tirc.nvmeotcp_crc_en, b) = DEVX_GET(tirc.nvmeotcp_crc_en, old)
      /\ DEVX_GET(tirc.inline_rqn, b) = DEVX_GET(tirc.inline_rqn, old)
      /\ DEVX_GET(tirc.transport_domain, b) = DEVX_GET(tirc.transport_domain, old)
      /\ DEVX_GET(tirc.nvmeotcp_tag_buffer_table_id, b) = DEVX_GET(tirc.nvmeotcp_tag_buffer_table_id, old)
  BY <1>2, TirPlaces, Zenon
<1>b. /\ DEVX_GET(tirc.lro_timeout_period_usecs, b) = a.lro.timeout_period_usecs
      /\ DEVX_GET(tirc.lro_enable_mask, b) = a.lro.enable_mask
      /\ DEVX_GET(tirc.lro_max_ip_payload_size, b) = a.lro.max_msg_sz
  BY <1>1, TirPlaces, Zenon
<1>7. tir_read(b, tir_flags) =
        [flags |-> tir_flags, lro |-> a.lro, inline_rqn |-> Tir(was).inline_rqn,
         transport_domain |-> Tir(was).transport_domain, tls_en |-> Tir(was).tls_en,
         zerocopy_en |-> Tir(was).zerocopy_en, crc_en |-> Tir(was).crc_en,
         tag_buffer_table_id |-> Tir(was).tag_buffer_table_id]
  BY <1>4, <1>6, <1>a, <1>b, Zenon DEF tir_read
<1>8. \A x : Tir(x) = [flags |-> Tir(x).flags, lro |-> Tir(x).lro, inline_rqn |-> Tir(x).inline_rqn,
                       transport_domain |-> Tir(x).transport_domain, tls_en |-> Tir(x).tls_en,
                       zerocopy_en |-> Tir(x).zerocopy_en, crc_en |-> Tir(x).crc_en,
                       tag_buffer_table_id |-> Tir(x).tag_buffer_table_id]
  BY Zenon DEF Tir
<1>9. tir_read(b, tir_flags) = Tir(now)
  BY <1>5, <1>7, <1>8, Zenon
<1>10. Tir(now) = [Tir(was) EXCEPT !.lro = a.lro]
  <2>1. Tir(was).flags = tir_flags
    BY Zenon DEF Tir
  <2>2. QED
    BY <1>5, <1>8, <2>1, Zenon
<1>11. QED
  BY <1>1, <1>3, <1>9, <1>10, Zenon DEF b, now, LroAsked, LroIn

----------------------------------------------------------------------------
(* Keys. *)

(* The places of the fields of a key. *)
LEMMA KeyPlaces ==
  /\ encryption_key_obj.key_size = F(84, 4) /\ encryption_key_obj.has_keytag = F(88, 1)
  /\ encryption_key_obj.key_type = F(92, 4) /\ encryption_key_obj.pd = F(104, 24)
  /\ encryption_key_obj.opaque = F(384, 64) /\ encryption_key_obj.key.at = 512
  /\ encryption_key_obj.key.width = 256
BY Zenon DEF encryption_key_obj, F

(* What a modification of a key keeps. *)
LEMMA KeptPlaces == Kept = (92 .. 95) \cup (104 .. 127)
<1>1. Bits(F(92, 4)) = 92 .. 95 /\ Bits(F(104, 24)) = 104 .. 127
  BY DEF Bits, F
<1>2. QED
  BY <1>1, KeyPlaces, Zenon DEF Kept

(* The tag an XTS blob has, and where a key begins. *)
Tagged(kind, a) == kind = "aes_xts_dek" /\ a.key_blob_size = 2 * a.key_size + 8
KeyAt(kind, a)  == IF kind = "aes_xts_dek" THEN 512 ELSE 768 - 8 * a.key_size

(* The parameters of an XTS key that are found valid are those of the      *)
(* request.                                                                *)
LEMMA XtsParams ==
  ASSUME NEW blob \in Nat, NEW size \in Nat, NEW kind, xts_key_params(kind, blob, size).valid
  PROVE  LET p == xts_key_params(kind, blob, size)
         IN  /\ size \in {16, 32}
             /\ p.type = get_key_type(kind) /\ p.size = IF size = 32 THEN {0} ELSE {}
             /\ p.has_keytag = IF blob = 2 * size + 8 THEN {0} ELSE {}
             /\ p.offset = 0
<1> DEFINE known == {k \in {16, 32} \X BOOLEAN : key_size_to_blob_size(k[1], k[2]) = blob}
           p == CHOOSE k \in known : TRUE
<1>1. xts_key_params(kind, blob, size) =
        IF known = {} THEN Params(FALSE, kind, 0, FALSE, 0)
        ELSE Params(key_size_to_blob_size(size, p[2]) = blob, kind, p[1], p[2], 0)
  BY Zenon DEF xts_key_params
<1> HIDE DEF known, p
<1>2. known # {}
  <2>1. SUFFICES ASSUME known = {} PROVE FALSE
    OBVIOUS
  <2>2. xts_key_params(kind, blob, size) = Params(FALSE, kind, 0, FALSE, 0)
    BY <1>1, <2>1, Zenon
  <2>3. QED
    BY <2>2 DEF Params
<1>3. p \in known
  BY <1>2, Zenon DEF p
<1>4. p[1] \in {16, 32} /\ p[2] \in BOOLEAN /\ key_size_to_blob_size(p[1], p[2]) = blob
  BY <1>3 DEF known
<1>5. key_size_to_blob_size(size, p[2]) = blob
  <2>1. SUFFICES ASSUME key_size_to_blob_size(size, p[2]) # blob PROVE FALSE
    OBVIOUS
  <2>2. xts_key_params(kind, blob, size) = Params(FALSE, kind, p[1], p[2], 0)
    BY <1>1, <1>2, <2>1, Zenon
  <2>3. QED
    BY <2>2 DEF Params
<1>6. CASE p[2] = TRUE
  <2>1. 2 * p[1] + 8 = blob /\ 2 * size + 8 = blob
    BY <1>4, <1>5, <1>6 DEF key_size_to_blob_size
  <2>2. p[1] = size
    BY <1>4, <2>1
  <2>3. xts_key_params(kind, blob, size) = Params(TRUE, kind, size, TRUE, 0)
    BY <1>1, <1>2, <1>5, <1>6, <2>2, Zenon DEF Params
  <2>4. blob = 2 * size + 8
    BY <2>1, Zenon
  <2>5. QED
    BY <1>4, <2>2, <2>3, <2>4 DEF Params
<1>7. CASE p[2] = FALSE
  <2>1. 2 * p[1] + 0 = blob /\ 2 * size + 0 = blob
    BY <1>4, <1>5, <1>7, Zenon DEF key_size_to_blob_size
  <2>2. p[1] = size
    BY <1>4, <2>1
  <2>3. xts_key_params(kind, blob, size) = Params(TRUE, kind, size, FALSE, 0)
    BY <1>1, <1>2, <1>5, <1>7, <2>2, Zenon DEF Params
  <2>4. blob # 2 * size + 8
    BY <2>1
  <2>5. QED
    BY <1>4, <2>2, <2>3, <2>4 DEF Params
<1>8. QED
  BY <1>4, <1>6, <1>7, Zenon

(* The parameters of a request that are found valid. *)
LEMMA KeyParams ==
  ASSUME NEW kind \in DekKind, NEW a \in dek_attr, get_key_params(kind, a).valid
  PROVE  LET p == get_key_params(kind, a)
         IN  /\ a.key_size \in {16, 32}
             /\ p.type = get_key_type(kind)
             /\ p.size = IF a.key_size = 32 THEN {0} ELSE {}
             /\ p.has_keytag = IF Tagged(kind, a) THEN {0} ELSE {}
             /\ p.offset \in Nat /\ 512 + 8 * p.offset = KeyAt(kind, a)
             /\ kind # "aes_xts_dek" => a.key_blob_size = a.key_size
<1>1. a.key_blob_size \in Nat /\ a.key_size \in Nat
  BY Zenon DEF dek_attr
<1>2. CASE kind = "aes_xts_dek"
  <2>1. get_key_params(kind, a) = xts_key_params(kind, a.key_blob_size, a.key_size)
    BY <1>2, Zenon DEF get_key_params
  <2>2. /\ a.key_size \in {16, 32}
        /\ get_key_params(kind, a).type = get_key_type(kind)
        /\ get_key_params(kind, a).size = IF a.key_size = 32 THEN {0} ELSE {}
        /\ get_key_params(kind, a).has_keytag =
             IF a.key_blob_size = 2 * a.key_size + 8 THEN {0} ELSE {}
        /\ get_key_params(kind, a).offset = 0
    BY <1>1, <2>1, XtsParams
  <2>3. QED
    BY <1>2, <2>2 DEF KeyAt, Tagged
<1>3. CASE kind # "aes_xts_dek"
  <2>1. get_key_params(kind, a) = plain_key_params(kind, a.key_blob_size, a.key_size)
    BY <1>3, Zenon DEF get_key_params
  <2>2. a.key_blob_size = a.key_size /\ a.key_size \in {16, 32}
    <3>1. SUFFICES ASSUME ~(a.key_blob_size = a.key_size /\ a.key_size \in {16, 32}) PROVE FALSE
      OBVIOUS
    <3>2. get_key_params(kind, a) =
            Params(FALSE, kind, a.key_size, FALSE, IF a.key_size = 16 THEN 16 ELSE 0)
      BY <2>1, <3>1, Zenon DEF plain_key_params
    <3>3. QED
      BY <3>2 DEF Params
  <2>3. get_key_params(kind, a) =
          Params(TRUE, kind, a.key_size, FALSE, IF a.key_size = 16 THEN 16 ELSE 0)
    BY <2>1, <2>2, Zenon DEF plain_key_params
  <2>4. /\ get_key_params(kind, a).type = get_key_type(kind)
        /\ get_key_params(kind, a).size = IF a.key_size = 32 THEN {0} ELSE {}
        /\ get_key_params(kind, a).offset = IF a.key_size = 16 THEN 16 ELSE 0
        /\ get_key_params(kind, a).has_keytag = {}
    BY <2>3 DEF Params
  <2>5. ~Tagged(kind, a)
    BY <1>3 DEF Tagged
  <2>6. QED
    BY <1>3, <2>2, <2>4, <2>5 DEF KeyAt
<1>4. QED
  BY <1>2, <1>3

(* What a mailbox says of a key: the blob at its place with zeroes around  *)
(* it, and the other fields.                                               *)
KeySays(kind, box, a) ==
  /\ DEVX_GET(F(KeyAt(kind, a), 8 * a.key_blob_size), box) = a.key_blob
  /\ \A x \in box : x >= 512 => x \in KeyAt(kind, a) .. (KeyAt(kind, a) + 8 * a.key_blob_size - 1)
  /\ DEVX_GET(F(84, 4), box) = IF a.key_size = 32 THEN {0} ELSE {}
  /\ DEVX_GET(F(92, 4), box) = get_key_type(kind)
  /\ DEVX_GET(F(104, 24), box) = a.pd_id \cap Word(24)
  /\ DEVX_GET(F(384, 64), box) = a.opaque
  /\ a.key_size \in {16, 32} /\ a.key_blob_size \in Nat
TagSays(kind, box, a) == DEVX_GET(F(88, 1), box) = IF Tagged(kind, a) THEN {0} ELSE {}

KeyW(a)           == 8 * a.key_blob_size
SizeFlag(a)       == IF a.key_size = 32 THEN {0} ELSE {}
BlobFits(a)       == a.key_blob # Nothing /\ a.key_blob \subseteq Word(8 * a.key_blob_size)
BlobBits(kind, a) == DEVX_SET(F(KeyAt(kind, a), KeyW(a)), a.key_blob)

(* A mailbox C with a blob K of w bits at At and the fields S1 to S4. *)
KeyShape(C, K, S1, S2, S3, S4, At, w) ==
  /\ C = K \cup S1 \cup S2 \cup S3 \cup S4 /\ At \in Nat /\ w \in Nat /\ At >= 512
  /\ K \subseteq At .. (At + w - 1) /\ S1 \subseteq 84 .. 87 /\ S2 \subseteq 92 .. 95
  /\ S3 \subseteq 104 .. 127 /\ S4 \subseteq 384 .. 447

(* The bits of a key's mailbox. *)
LEMMA KeyBits ==
  ASSUME NEW kind \in DekKind, NEW a \in dek_attr, get_key_params(kind, a).valid,
         BlobFits(a)
  PROVE  KeyShape(key_context(get_key_params(kind, a), a), BlobBits(kind, a),
                  DEVX_SET(F(84, 4), SizeFlag(a)), DEVX_SET(F(92, 4), get_key_type(kind)),
                  DEVX_SET(F(104, 24), a.pd_id), DEVX_SET(F(384, 64), a.opaque),
                  KeyAt(kind, a), KeyW(a))
<1> DEFINE p  == get_key_params(kind, a)
           At == KeyAt(kind, a)
           w  == KeyW(a)
           Sz == SizeFlag(a)
<1>1. /\ a.key_size \in {16, 32} /\ p.type = get_key_type(kind) /\ p.size = Sz
      /\ p.offset \in Nat /\ 512 + 8 * p.offset = At
  BY KeyParams DEF SizeFlag
<1>2. a.key_blob_size \in Nat /\ w = 8 * a.key_blob_size
  BY DEF dek_attr, KeyW
<1>3. At \in Nat /\ w \in Nat /\ At >= 512
  BY <1>1, <1>2
<1> HIDE DEF p, At, Sz
<1>4. KeyBytes(p, a) = DEVX_SET(F(At, w), a.key_blob)
  <2>1. KeyBytes(p, a) = {At + w - 1 - i : i \in a.key_blob}
    BY <1>1, <1>2, KeyPlaces DEF KeyBytes
  <2>2. a.key_blob \cap (0 .. (w - 1)) = a.key_blob
    BY <1>2, Zenon DEF Word, BlobFits
  <2>3. QED
    BY <2>1, <2>2, Zenon DEF DEVX_SET, Place, F
<1> HIDE DEF w
<1>5. key_context(p, a) = DEVX_SET(F(At, w), a.key_blob) \cup DEVX_SET(F(84, 4), Sz)
                            \cup DEVX_SET(F(92, 4), get_key_type(kind))
                            \cup DEVX_SET(F(104, 24), a.pd_id)
                            \cup DEVX_SET(F(384, 64), a.opaque)
  BY <1>1, <1>4, KeyPlaces, Zenon DEF key_context
<1>6. /\ DEVX_SET(F(84, 4), Sz) \subseteq 84 .. 87
      /\ DEVX_SET(F(92, 4), get_key_type(kind)) \subseteq 92 .. 95
      /\ DEVX_SET(F(104, 24), a.pd_id) \subseteq 104 .. 127
      /\ DEVX_SET(F(384, 64), a.opaque) \subseteq 384 .. 447
  <2>1. DEVX_SET(F(84, 4), Sz) \subseteq 84 .. 87
    <3>1. \A v : DEVX_SET(F(84, 4), v) \subseteq 84 .. 87
      BY SetWithin
    <3>2. QED
      BY <3>1, Zenon
  <2>2. DEVX_SET(F(92, 4), get_key_type(kind)) \subseteq 92 .. 95
    BY SetWithin
  <2>3. DEVX_SET(F(104, 24), a.pd_id) \subseteq 104 .. 127
    BY SetWithin
  <2>4. DEVX_SET(F(384, 64), a.opaque) \subseteq 384 .. 447
    BY SetWithin
  <2>5. QED
    BY <2>1, <2>2, <2>3, <2>4
<1>7. DEVX_SET(F(At, w), a.key_blob) \subseteq At .. (At + w - 1)
  BY <1>3, SetBits
<1>8. QED
  BY <1>3, <1>5, <1>6, <1>7, Zenon DEF p, At, w, Sz, BlobBits, KeyShape

(* A mailbox written for a key, except for its tag bit and what is kept. *)
WrittenFor(kind, a, b) ==
  \A x : x \notin Kept /\ x # 88 => (x \in b <=> x \in key_context(get_key_params(kind, a), a))

(* What a mailbox written for a key says of it, except in its tag bit and  *)
(* the fields a modification keeps.                                        *)
LEMMA KeyPart ==
  ASSUME NEW kind \in DekKind, NEW a \in dek_attr, get_key_params(kind, a).valid,
         BlobFits(a), NEW b \in Box,
         WrittenFor(kind, a, b)
  PROVE  LET At == KeyAt(kind, a)
             w  == 8 * a.key_blob_size
         IN  /\ DEVX_GET(F(At, w), b) = a.key_blob
             /\ \A x \in b : x >= 512 => x \in At .. (At + w - 1)
             /\ DEVX_GET(F(84, 4), b) = IF a.key_size = 32 THEN {0} ELSE {}
             /\ DEVX_GET(F(384, 64), b) = a.opaque
             /\ a.key_size \in {16, 32} /\ a.key_blob_size \in Nat
<1> DEFINE At == KeyAt(kind, a)
           w  == KeyW(a)
           Sz == SizeFlag(a)
           K  == BlobBits(kind, a)
           S1 == DEVX_SET(F(84, 4), Sz)
           S2 == DEVX_SET(F(92, 4), get_key_type(kind))
           S3 == DEVX_SET(F(104, 24), a.pd_id)
           S4 == DEVX_SET(F(384, 64), a.opaque)
           C  == key_context(get_key_params(kind, a), a)
<1>0. KeyShape(C, K, S1, S2, S3, S4, At, w)
  BY KeyBits, Zenon
<1>2. a.key_size \in {16, 32} /\ a.key_blob_size \in Nat /\ a.opaque \subseteq 0 .. 63
  BY KeyParams DEF dek_attr, Word
<1> HIDE DEF C, K, S1, S2, S3, S4, At, w, Sz
<1>1. /\ C = K \cup S1 \cup S2 \cup S3 \cup S4 /\ At \in Nat /\ w \in Nat /\ At >= 512
      /\ K \subseteq At .. (At + w - 1) /\ S1 \subseteq 84 .. 87 /\ S2 \subseteq 92 .. 95
      /\ S3 \subseteq 104 .. 127 /\ S4 \subseteq 384 .. 447
  BY <1>0, Zenon DEF KeyShape
<1>3. \A x : x \notin Kept /\ x # 88 => (x \in b <=> x \in K \cup S1 \cup S2 \cup S3 \cup S4)
  BY <1>1 DEF C, WrittenFor
<1>4. /\ \A x \in Int : x >= 512 => x \notin Kept /\ x # 88
      /\ \A x \in 84 .. 87 : x \notin Kept /\ x # 88
      /\ \A x \in 384 .. 447 : x \notin Kept /\ x # 88
  BY KeptPlaces
<1>5. Holds(At, At + w - 1, w, a.key_blob, b)
  <2>1. \A x \in At .. (At + w - 1) : x \in b <=> x \in K
    BY <1>1, <1>3, <1>4
  <2>2. QED
    BY <2>1 DEF Holds, K, BlobBits, At, w
<1>6. DEVX_GET(F(At, w), b) = a.key_blob
  <2>1. Span(At, At + w - 1, w)
    BY <1>1 DEF Span
  <2>2. DEVX_GET(F(At, w), b) = a.key_blob \cap (0 .. (w - 1))
    BY <1>5, <2>1, GetCut
  <2>3. QED
    BY <2>2, Zenon DEF Word, w, KeyW, BlobFits
<1>7. \A x \in b : x >= 512 => x \in At .. (At + w - 1)
  <2>1. \A x \in b : x \in Int
    BY DEF Box
  <2>2. QED
    BY <1>1, <1>3, <1>4, <2>1
<1>8. DEVX_GET(F(84, 4), b) = Sz
  <2>1. Holds(84, 87, 4, Sz, b)
    BY <1>1, <1>3, <1>4 DEF Holds, S1
  <2>2. DEVX_GET(F(84, 4), b) = Sz \cap (0 .. (4 - 1))
    BY <2>1, Spans, GetCut
  <2>3. QED
    BY <2>2 DEF Sz, SizeFlag
<1>9. DEVX_GET(F(384, 64), b) = a.opaque
  <2>1. Holds(384, 447, 64, a.opaque, b)
    BY <1>1, <1>3, <1>4 DEF Holds, S4
  <2>2. DEVX_GET(F(384, 64), b) = a.opaque \cap (0 .. (64 - 1))
    BY <2>1, Spans, GetCut
  <2>3. a.opaque \cap (0 .. (64 - 1)) = a.opaque
    BY <1>2
  <2>4. QED
    BY <2>2, <2>3, Zenon
<1>10. QED
  BY <1>2, <1>6, <1>7, <1>8, <1>9, Zenon DEF At, w, Sz, KeyW, SizeFlag

(* A key created: its mailbox says what was asked for. *)
LEMMA KeyCreated ==
  ASSUME NEW kind \in DekKind, NEW a \in dek_attr, get_key_params(kind, a).valid, BlobFits(a)
  PROVE  LET p   == get_key_params(kind, a)
             box == key_context(p, a) \cup DEVX_SET(encryption_key_obj.has_keytag, p.has_keytag)
         IN  box \in Box /\ KeySays(kind, box, a) /\ TagSays(kind, box, a)
<1> DEFINE p  == get_key_params(kind, a)
           C  == key_context(p, a)
           TG == DEVX_SET(F(88, 1), p.has_keytag)
           b  == C \cup TG
           K  == BlobBits(kind, a)
           S1 == DEVX_SET(F(84, 4), SizeFlag(a))
           S2 == DEVX_SET(F(92, 4), get_key_type(kind))
           S3 == DEVX_SET(F(104, 24), a.pd_id)
           S4 == DEVX_SET(F(384, 64), a.opaque)
           At == KeyAt(kind, a)
           w  == KeyW(a)
<1>0. KeyShape(C, K, S1, S2, S3, S4, At, w)
  BY KeyBits, Zenon
<1>2. TG \subseteq 88 .. 88
  BY SetWithin
<1>3. p.has_keytag = IF Tagged(kind, a) THEN {0} ELSE {}
  BY KeyParams
<1>4. get_key_type(kind) \subseteq 0 .. 3
  BY DEF get_key_type, DekKind
<1> HIDE DEF p, C, TG, K, S1, S2, S3, S4, At, w
<1>1. /\ C = K \cup S1 \cup S2 \cup S3 \cup S4 /\ At \in Nat /\ w \in Nat /\ At >= 512
      /\ K \subseteq At .. (At + w - 1) /\ S1 \subseteq 84 .. 87 /\ S2 \subseteq 92 .. 95
      /\ S3 \subseteq 104 .. 127 /\ S4 \subseteq 384 .. 447
  BY <1>0, Zenon DEF KeyShape
<1>5. b \in Box
  <2>1. /\ K \subseteq Nat /\ S1 \subseteq Nat /\ S2 \subseteq Nat /\ S3 \subseteq Nat
        /\ S4 \subseteq Nat /\ TG \subseteq Nat
    BY <1>1, <1>2
  <2>2. QED
    BY <1>1, <2>1 DEF Box
<1>6. WrittenFor(kind, a, b)
  <2>1. \A x : x # 88 => x \notin TG
    <3>1. \A x \in 88 .. 88 : x = 88
      OBVIOUS
    <3>2. QED
      BY <1>2, <3>1, Zenon
  <2>2. QED
    BY <2>1, Zenon DEF WrittenFor, C, p
<1>7. \A x : x \in b <=> (x \in K \/ x \in S1 \/ x \in S2 \/ x \in S3 \/ x \in S4 \/ x \in TG)
  BY <1>1
<1> HIDE DEF b
<1>8. Holds(92, 95, 4, get_key_type(kind), b) /\ Holds(104, 127, 24, a.pd_id, b)
  BY <1>1, <1>2, <1>7 DEF Holds, S2, S3
<1>9. Holds(88, 88, 1, p.has_keytag, b)
  BY <1>1, <1>2, <1>7 DEF Holds, TG
<1>10. DEVX_GET(F(92, 4), b) = get_key_type(kind)
  <2>1. DEVX_GET(F(92, 4), b) = get_key_type(kind) \cap (0 .. (4 - 1))
    BY <1>8, Spans, GetCut
  <2>2. QED
    BY <2>1, <1>4
<1>11. DEVX_GET(F(104, 24), b) = a.pd_id \cap Word(24)
  <2>1. DEVX_GET(F(104, 24), b) = a.pd_id \cap (0 .. (24 - 1))
    BY <1>8, Spans, GetCut
  <2>2. QED
    BY <2>1, Zenon DEF Word
<1>12. TagSays(kind, b, a)
  <2>1. DEVX_GET(F(88, 1), b) = p.has_keytag \cap (0 .. (1 - 1))
    BY <1>9, Spans, GetCut
  <2>2. QED
    BY <2>1, <1>3 DEF TagSays
<1>13. KeySays(kind, b, a)
  <2>1. /\ DEVX_GET(F(KeyAt(kind, a), 8 * a.key_blob_size), b) = a.key_blob
        /\ \A x \in b : x >= 512 => x \in KeyAt(kind, a) .. (KeyAt(kind, a) + 8 * a.key_blob_size - 1)
        /\ DEVX_GET(F(84, 4), b) = IF a.key_size = 32 THEN {0} ELSE {}
        /\ DEVX_GET(F(384, 64), b) = a.opaque
        /\ a.key_size \in {16, 32} /\ a.key_blob_size \in Nat
    BY <1>5, <1>6, KeyPart, Zenon
  <2>2. QED
    BY <1>10, <1>11, <2>1, Zenon DEF KeySays
<1>14. QED
  BY <1>5, <1>12, <1>13, KeyPlaces, Zenon DEF b, C, TG, p

(* A key modified: type and PD stay, the rest is what was asked for. *)
LEMMA KeyModifiedSays ==
  ASSUME NEW kind \in DekKind, NEW a \in dek_attr, get_key_params(kind, a).valid, BlobFits(a),
         NEW was \in dek_attr, NEW old \in Box, KeySays(kind, old, was)
  PROVE  LET box == KeyModified(old, key_context(get_key_params(kind, a), a))
             now == KeyAsked(was, a)
         IN  box \in Box /\ KeySays(kind, box, now) /\ now \in dek_attr
<1> DEFINE C   == key_context(get_key_params(kind, a), a)
           b   == KeyModified(old, C)
           now == [a EXCEPT !.pd_id = was.pd_id]
<1>1. C \in Box
  <2> DEFINE p  == get_key_params(kind, a)
             TG == DEVX_SET(encryption_key_obj.has_keytag, p.has_keytag)
  <2>1. C \cup TG \in Box
    BY KeyCreated, Zenon
  <2> HIDE DEF C, TG
  <2>2. QED
    BY <2>1 DEF Box
<1> HIDE DEF C
<1>2. b \in Box
  BY <1>1, Zenon DEF KeyModified, Box
<1>3. WrittenFor(kind, a, b)
  BY DEF WrittenFor, KeyModified, C
<1>4. \A x \in Kept : x \in b <=> x \in old
  BY DEF KeyModified
<1>5. /\ now \in dek_attr /\ now.pd_id = was.pd_id /\ now.key_blob = a.key_blob
      /\ now.key_blob_size = a.key_blob_size /\ now.key_size = a.key_size /\ now.opaque = a.opaque
  BY DEF dek_attr
<1> HIDE DEF b, now
<1>6. b \cap (92 .. (92 + 4 - 1)) = old \cap (92 .. (92 + 4 - 1))
  BY <1>4, KeptPlaces
<1>7. b \cap (104 .. (104 + 24 - 1)) = old \cap (104 .. (104 + 24 - 1))
  BY <1>4, KeptPlaces
<1>8. DEVX_GET(F(92, 4), b) = DEVX_GET(F(92, 4), old)
  BY <1>6, GetSame
<1>9. DEVX_GET(F(104, 24), b) = DEVX_GET(F(104, 24), old)
  BY <1>7, GetSame
<1>10. KeyAt(kind, now) = KeyAt(kind, a)
  BY <1>5 DEF KeyAt
<1>11. KeySays(kind, b, now)
  <2>1. /\ DEVX_GET(F(KeyAt(kind, a), 8 * a.key_blob_size), b) = a.key_blob
        /\ \A x \in b : x >= 512 => x \in KeyAt(kind, a) .. (KeyAt(kind, a) + 8 * a.key_blob_size - 1)
        /\ DEVX_GET(F(84, 4), b) = IF a.key_size = 32 THEN {0} ELSE {}
        /\ DEVX_GET(F(384, 64), b) = a.opaque
        /\ a.key_size \in {16, 32} /\ a.key_blob_size \in Nat
    BY <1>2, <1>3, KeyPart, Zenon
  <2>2. /\ DEVX_GET(F(92, 4), b) = get_key_type(kind)
        /\ DEVX_GET(F(104, 24), b) = was.pd_id \cap Word(24)
    BY <1>8, <1>9, Zenon DEF KeySays
  <2>3. DEVX_GET(F(KeyAt(kind, now), 8 * now.key_blob_size), b) = now.key_blob
    BY <1>5, <1>10, <2>1, Zenon
  <2>4. \A x \in b : x >= 512 => x \in KeyAt(kind, now) .. (KeyAt(kind, now) + 8 * now.key_blob_size - 1)
    BY <1>5, <1>10, <2>1, Zenon
  <2>5. /\ DEVX_GET(F(84, 4), b) = IF now.key_size = 32 THEN {0} ELSE {}
        /\ DEVX_GET(F(384, 64), b) = now.opaque
        /\ now.key_size \in {16, 32} /\ now.key_blob_size \in Nat
    BY <1>5, <2>1, Zenon
  <2>6. DEVX_GET(F(104, 24), b) = now.pd_id \cap Word(24)
    BY <1>5, <2>2, Zenon
  <2>7. QED
    BY <2>2, <2>3, <2>4, <2>5, <2>6, Zenon DEF KeySays
<1>12. QED
  BY <1>2, <1>5, <1>11, Zenon DEF b, C, now, KeyAsked

----------------------------------------------------------------------------
(* The state of a queue and its packet pacing, for any number of pacing    *)
(* entries and any sequence of calls, refusals and device errors.          *)

(* The inductive invariant holds of a queue just created. *)
LEMMA InitQueueState == Init => IInv
  BY NoneAssumption, Zenon DEF Init, IInv, TypeOK, PacingInv, StateInv, ErrInv, State

(* Every step of modify_state, pp_sq::modify, the destructor and the       *)
(* device preserves it.                                                    *)
LEMMA StepQueueState == IInv /\ [Next]_vars => IInv'
<1> SUFFICES ASSUME IInv, [Next]_vars PROVE IInv'
  OBVIOUS
<1> USE NoneAssumption DEF IInv, TypeOK, State
<1>1. ASSUME NEW s \in State, modify_state(s) PROVE IInv'
  <2>1. CASE ModifyRefused(s) \/ ModifyFails(s)
    BY <2>1 DEF ModifyRefused, ModifyFails, stateVars, pacingVars, PacingInv, StateInv, ErrInv
  <2>2. CASE ModifySucceeds(s)
    <3>1. TypeOK' /\ PacingInv' /\ StateInv'
      BY <2>2 DEF ModifySucceeds, pacingVars, PacingInv, StateInv
    <3>2. ErrInv'
      BY <2>2, Zenon DEF ModifySucceeds, Forbidden, ErrInv
    <3>3. QED
      BY <3>1, <3>2
  <2>3. QED
    BY <1>1, <2>1, <2>2 DEF modify_state
<1>2. CASE QuerySucceeds
  BY <1>2, Zenon DEF QuerySucceeds, pacingVars, PacingInv, StateInv, ErrInv
<1>3. CASE QueryFails
  BY <1>3 DEF QueryFails, pacingVars, PacingInv, StateInv, ErrInv
<1>4. CASE DeviceError
  BY <1>4 DEF DeviceError, PacingInv, StateInv, ErrInv
<1>5. CASE PacingEntry # {} /\ PacingAllocated
  <2>1. PICK e \in (PacingEntry \ allocated) \cup {None} :
          pp' = e /\ allocated' = (allocated \cup {e}) \ {None}
    BY <1>5 DEF PacingAllocated
  <2>2. TypeOK' /\ StateInv' /\ ErrInv'
    BY <1>5, <2>1 DEF PacingAllocated, stateVars, StateInv, ErrInv
  <2>3. PacingInv'
    BY <1>5, <2>1 DEF PacingAllocated, stateVars, PacingInv
  <2>4. QED
    BY <2>2, <2>3
<1>6. CASE PacingRefused
  BY <1>6 DEF PacingRefused, stateVars, pacingVars, PacingInv, StateInv, ErrInv
<1>7. CASE PacingSucceeds
  BY <1>7 DEF PacingSucceeds, stateVars, PacingInv, StateInv, ErrInv
<1>8. CASE PacingFails
  BY <1>8 DEF PacingFails, stateVars, PacingInv, StateInv, ErrInv
<1>9. CASE PacingSwap
  BY <1>9 DEF PacingSwap, stateVars, PacingInv, StateInv, ErrInv
<1>10. CASE DeletePacing
  BY <1>10 DEF DeletePacing, stateVars, PacingInv, StateInv, ErrInv
<1>11. CASE DestroyQueue
  <2>1. TypeOK' /\ StateInv' /\ ErrInv'
    BY <1>11 DEF DestroyQueue, stateVars, pacingVars, StateInv, ErrInv
  <2>2. PacingInv'
    BY <1>11 DEF DestroyQueue, stateVars, pacingVars, PacingInv
  <2>3. QED
    BY <2>1, <2>2
<1>12. CASE UNCHANGED vars
  BY <1>12 DEF vars, PacingInv, StateInv, ErrInv
<1>13. QED
  BY <1>1, <1>2, <1>3, <1>4, <1>5, <1>6, <1>7, <1>8, <1>9, <1>10, <1>11, <1>12, Zenon DEF Next

(* What the object, the device and the pacing table hold at each point of  *)
(* modify_state, modify and the destructor.                                *)
THEOREM QueueStateInvariance == Spec => []IInv
  BY InitQueueState, StepQueueState, PTL DEF Spec

(* Between calls m_state is the state of the queue, unless the device      *)
(* changed it or reading it back failed.                                   *)
THEOREM SyncedHolds == Spec => []SyncedUnlessLost
<1>1. IInv => SyncedUnlessLost
  BY DEF IInv, StateInv, SyncedUnlessLost
<1>2. QED
  BY <1>1, QueueStateInvariance, PTL

(* pp_sq::modify never lets the device apply an entry that is freed, and   *)
(* keeps the object and the device on the same entry, none left behind.    *)
THEOREM PacingHolds == Spec => []PacingSound
<1>1. IInv => PacingSound
  BY DEF IInv, TypeOK, PacingInv, PacingSound
<1>2. QED
  BY <1>1, QueueStateInvariance, PTL

(* A queue whose state the object is wrong about stays so: no later        *)
(* modify_state is accepted, and the state is not read again.              *)
THEOREM StaleForGoodHolds == Spec => StaleForGood
<1> DEFINE Stale == pc # "query" /\ m_state # hwState
<1>1. ASSUME IInv, Next, Stale PROVE m_state' # hwState' /\ pc' # "query"
  <2>1. ASSUME NEW s \in State, modify_state(s) PROVE m_state' # hwState' /\ pc' # "query"
    BY <1>1, <2>1, Zenon DEF modify_state, ModifyRefused, ModifySucceeds, ModifyFails, stateVars
  <2>2. CASE QuerySucceeds \/ QueryFails
    BY <1>1, <2>2, Zenon DEF QuerySucceeds, QueryFails
  <2>3. CASE DeviceError
    BY <1>1, <2>3, Zenon DEF DeviceError, IInv, ErrInv
  <2>4. CASE PacingAllocated \/ PacingRefused
    BY <1>1, <2>4, Zenon DEF PacingAllocated, PacingRefused, stateVars
  <2>5. CASE PacingSucceeds \/ PacingFails \/ PacingSwap
    BY <1>1, <2>5, Zenon DEF PacingSucceeds, PacingFails, PacingSwap, stateVars
  <2>6. CASE DeletePacing \/ DestroyQueue
    BY <1>1, <2>6, Zenon DEF DeletePacing, DestroyQueue, stateVars
  <2>7. QED
    BY <1>1, <2>1, <2>2, <2>3, <2>4, <2>5, <2>6, Zenon DEF Next
<1>2. IInv /\ [Next]_vars => [Stale => m_state' # hwState' /\ pc' # "query"]_vars
  BY <1>1, Zenon
<1>3. QED
  BY <1>2, QueueStateInvariance, PTL DEF Spec, StaleForGood

----------------------------------------------------------------------------
(* Induction, for a property given as the set of the numbers that have it. *)

(* A set of numbers that is not empty has a least one. *)
LEMMA LeastNatural ==
  ASSUME NEW T, T \subseteq Nat, T # {}
  PROVE  \E x \in T : \A y \in T : x <= y
<1>1. PICK x \in T : \A y \in T : ~(<<y, x>> \in OpToRel(<, Nat))
  BY NatLessThanWellFounded, WFMin, Zenon
<1>2. \A y \in T : ~(y < x)
  BY <1>1, Zenon DEF OpToRel
<1>3. ASSUME NEW y \in T PROVE x <= y
  <2>1. x \in Nat /\ y \in Nat
    OBVIOUS
  <2>2. QED
    BY <1>2, <2>1
<1>4. QED
  BY <1>3

(* A set with 0 that is closed under successor has every number. *)
LEMMA Induction ==
  ASSUME NEW T, 0 \in T, \A n \in Nat : n \in T => n + 1 \in T
  PROVE  Nat \subseteq T
<1>1. SUFFICES ASSUME Nat \ T # {} PROVE FALSE
  OBVIOUS
<1>2. PICK x \in Nat \ T : \A y \in Nat \ T : x <= y
  <2>1. Nat \ T \subseteq Nat
    OBVIOUS
  <2>2. QED
    BY <1>1, <2>1, LeastNatural, Zenon
<1>3. x # 0 /\ x - 1 \in Nat
  BY <1>2
<1>4. x - 1 \in T
  BY <1>2, <1>3
<1>5. QED
  BY <1>2, <1>3, <1>4

(* g is the recursion that collects the ids of the enabled samples E. *)
IdsUpTo(g, E, L) ==
  g[0] = <<>> /\ \A n \in 1 .. L : g[n] = IF n \in E THEN Append(g[n - 1], n) ELSE g[n - 1]

(* The ids of the samples up to one of them exist, ... *)
LEMMA IdsExist ==
  ASSUME NEW L \in Nat, NEW E
  PROVE  \E g \in [0 .. L -> Seq(Nat)] : IdsUpTo(g, E, L)
<1> DEFINE T == {m \in Nat : \E g \in [0 .. m -> Seq(Nat)] : IdsUpTo(g, E, m)}
<1>1. 0 \in T
  <2>1. [n \in 0 .. 0 |-> <<>>] \in [0 .. 0 -> Seq(Nat)] /\ IdsUpTo([n \in 0 .. 0 |-> <<>>], E, 0)
    BY DEF IdsUpTo
  <2>2. QED
    BY <2>1
<1>2. ASSUME NEW m \in Nat, m \in T PROVE m + 1 \in T
  <2>1. PICK g \in [0 .. m -> Seq(Nat)] : IdsUpTo(g, E, m)
    BY <1>2
  <2> DEFINE v == IF m + 1 \in E THEN Append(g[m], m + 1) ELSE g[m]
             h == [n \in 0 .. m + 1 |-> IF n <= m THEN g[n] ELSE v]
  <2>2. g[m] \in Seq(Nat) /\ v \in Seq(Nat)
    OBVIOUS
  <2> HIDE DEF v
  <2>3. h \in [0 .. m + 1 -> Seq(Nat)]
    BY <2>2
  <2>4. ASSUME NEW n \in 1 .. m + 1
        PROVE  h[n] = IF n \in E THEN Append(h[n - 1], n) ELSE h[n - 1]
    <3>1. CASE n <= m
      <4>1. n \in 1 .. m /\ h[n] = g[n] /\ h[n - 1] = g[n - 1]
        BY <3>1
      <4>2. QED
        BY <2>1, <4>1, Zenon DEF IdsUpTo
    <3>2. CASE n = m + 1
      <4>1. h[n] = v /\ h[n - 1] = g[m]
        BY <3>2
      <4>2. QED
        BY <3>2, <4>1 DEF v
    <3>3. QED
      BY <3>1, <3>2
  <2>5. h[0] = <<>>
    BY <2>1 DEF IdsUpTo
  <2> HIDE DEF h
  <2>6. IdsUpTo(h, E, m + 1)
    BY <2>4, <2>5 DEF IdsUpTo
  <2>7. QED
    BY <2>3, <2>6
<1>3. Nat \subseteq T
  <2> HIDE DEF T
  <2>1. QED
    BY <1>1, <1>2, Induction
<1>4. QED
  BY <1>3, Zenon

(* ... are sequences of numbers, and are as many as the samples when all   *)
(* of them are enabled.                                                    *)
LEMMA IdsFacts ==
  ASSUME NEW L \in Nat, NEW E, NEW g, IdsUpTo(g, E, L)
  PROVE  /\ \A n \in 0 .. L : g[n] \in Seq(Nat)
         /\ 1 .. L \subseteq E => \A n \in 0 .. L : Len(g[n]) = n
<1> DEFINE T == {n \in Nat : n <= L => g[n] \in Seq(Nat)
                                       /\ (1 .. L \subseteq E => Len(g[n]) = n)}
<1>1. 0 \in T
  <2>1. g[0] = <<>>
    BY DEF IdsUpTo
  <2>2. <<>> \in Seq(Nat) /\ Len(<<>>) = 0
    OBVIOUS
  <2>3. QED
    BY <2>1, <2>2, Zenon
<1>2. ASSUME NEW n \in Nat, n \in T PROVE n + 1 \in T
  <2>1. SUFFICES ASSUME n + 1 <= L
                 PROVE  g[n + 1] \in Seq(Nat) /\ (1 .. L \subseteq E => Len(g[n + 1]) = n + 1)
    OBVIOUS
  <2>2. n + 1 \in 1 .. L /\ (n + 1) - 1 = n
    BY <2>1
  <2>3. g[n] \in Seq(Nat) /\ (1 .. L \subseteq E => Len(g[n]) = n)
    BY <1>2, <2>1
  <2>4. g[n + 1] = IF n + 1 \in E THEN Append(g[n], n + 1) ELSE g[n]
    BY <2>2 DEF IdsUpTo
  <2>5. QED
    BY <2>2, <2>3, <2>4
<1>3. Nat \subseteq T
  <2> HIDE DEF T
  <2>1. QED
    BY <1>1, <1>2, Induction
<1>4. QED
  BY <1>3

(* What the device answers when a parser graph node is queried. *)
LEMMA DeviceIdsFacts ==
  ASSUME NEW a \in NodeAttrs
  PROVE  /\ DeviceIds(a) \in Seq(Nat) /\ Len(a.samples) \in Nat
         /\ Enabled(a) = DOMAIN a.samples => Len(DeviceIds(a)) = Len(a.samples)
<1> DEFINE L == Len(a.samples)
           E == Enabled(a)
           Step(g) == [n \in 0 .. L |-> IF n = 0 THEN <<>>
                                        ELSE IF a.samples[n].enabled THEN Append(g[n - 1], n)
                                        ELSE g[n - 1]]
           s == CHOOSE g : g = Step(g)
<1>1. L \in Nat /\ DOMAIN a.samples = 1 .. L
  BY CapsAssumption
<1>2. \A n \in 1 .. L : a.samples[n].enabled <=> n \in E
  BY <1>1 DEF Enabled
<1>3. DeviceIds(a) = s[L]
  BY DEF DeviceIds
<1> HIDE DEF L, E
<1>4. PICK e \in [0 .. L -> Seq(Nat)] : IdsUpTo(e, E, L)
  BY <1>1, IdsExist, Zenon
<1>5. e = Step(e)
  <2>1. ASSUME NEW n \in 0 .. L
        PROVE  e[n] = IF n = 0 THEN <<>> ELSE IF a.samples[n].enabled THEN Append(e[n - 1], n)
                                         ELSE e[n - 1]
    <3>1. CASE n = 0
      BY <1>4, <3>1 DEF IdsUpTo
    <3>2. CASE n # 0
      <4>1. n \in 1 .. L
        BY <1>1, <3>2
      <4>2. e[n] = IF n \in E THEN Append(e[n - 1], n) ELSE e[n - 1]
        BY <1>4, <4>1, Zenon DEF IdsUpTo
      <4>3. QED
        BY <1>2, <3>2, <4>1, <4>2
    <3>3. QED
      BY <3>1, <3>2
  <2>2. QED
    BY <2>1
<1>6. s = Step(s)
  BY <1>5, Zenon
<1> HIDE DEF s
<1>7. IdsUpTo(s, E, L)
  <2>1. s[0] = <<>>
    <3>1. 0 \in 0 .. L
      BY <1>1
    <3>2. QED
      BY <1>6, <3>1
  <2>2. ASSUME NEW n \in 1 .. L
        PROVE  s[n] = IF n \in E THEN Append(s[n - 1], n) ELSE s[n - 1]
    <3>1. n \in 0 .. L /\ n # 0
      BY <1>1
    <3>2. s[n] = IF a.samples[n].enabled THEN Append(s[n - 1], n) ELSE s[n - 1]
      BY <1>6, <3>1, Zenon
    <3>3. QED
      BY <1>2, <3>2
  <2>3. QED
    BY <2>1, <2>2 DEF IdsUpTo
<1>8. L \in 0 .. L
  BY <1>1
<1>9. s[L] \in Seq(Nat) /\ (1 .. L \subseteq E => Len(s[L]) = L)
  BY <1>1, <1>7, <1>8, IdsFacts, Zenon
<1>10. QED
  BY <1>1, <1>3, <1>9 DEF L, E


----------------------------------------------------------------------------
(* The objects.  A state in its parts, and what replacing parts gives.     *)

St(o, H, L, r, u) == [obj |-> o, hw |-> H, lost |-> L, ret |-> r, out |-> u]

WithObj(s, v)              == [s EXCEPT !.obj = v]
WithRet(s, r)              == [s EXCEPT !.ret = r]
WithBox(s, h, v)           == [s EXCEPT !.hw[h] = v]
WithBoxRet(s, h, v, r)     == [s EXCEPT !.hw[h] = v, !.ret = r]
WithHandleOnly(s, g)       == [s EXCEPT !.obj.handle = g]
WithCopyOnly(s, v)         == [s EXCEPT !.obj.m_attr = v]
WithMod(s, m)              == [s EXCEPT !.obj.modified = m]
WithHandle(s, g, r)        == [s EXCEPT !.obj.handle = g, !.ret = r]
WithHandleBox(s, g, v, r)  == [s EXCEPT !.obj.handle = g, !.hw[g] = v, !.ret = r]
WithOut(s, v)              == [s EXCEPT !.out = v]
WithOutRet(s, v, r)        == [s EXCEPT !.out = v, !.ret = r]
WithCopy(s, v)             == [s EXCEPT !.obj.m_attr = v, !.out = v]
WithLro(s, v)              == [s EXCEPT !.obj.m_attr.lro = v]
WithAsked(s, v)            == [s EXCEPT !.obj.asked = v]
WithAskedMod(s, v, m)      == [s EXCEPT !.obj.asked = v, !.obj.modified = m]

Handled(o, g)     == [o EXCEPT !.handle = g]
Copied(o, v)      == [o EXCEPT !.m_attr = v]
LroCopied(o, v)   == [o EXCEPT !.m_attr.lro = v]
Asked(o, v)       == [o EXCEPT !.asked = v]
Modified(o, m)    == [o EXCEPT !.modified = m]
AskedMod(o, v, m) == [o EXCEPT !.asked = v, !.modified = m]
BoxAt(H, h, v)    == [H EXCEPT ![h] = v]

(* What a request that creates or modifies makes of the state and object. *)
Noted(t, a)       == Accepted(t, a, FALSE)
Changed(t, a)     == Accepted(t, a, TRUE)
Made(o, v)        == AskedMod(o, v, FALSE)
Remade(o, v)      == AskedMod(o, v, TRUE)

(* The parts of a state. *)
LEMMA Parts ==
  ASSUME NEW o, NEW H, NEW L, NEW r, NEW u
  PROVE  /\ St(o, H, L, r, u).obj = o /\ St(o, H, L, r, u).hw = H /\ St(o, H, L, r, u).lost = L
         /\ St(o, H, L, r, u).ret = r /\ St(o, H, L, r, u).out = u
BY DEF St

(* The object replaced. *)
LEMMA PutObj ==
  ASSUME NEW o, NEW H, NEW L, NEW r, NEW u, NEW v
  PROVE  WithObj(St(o, H, L, r, u), v) = St(v, H, L, r, u)
BY DEF St, WithObj

(* The status replaced. *)
LEMMA PutRet ==
  ASSUME NEW o, NEW H, NEW L, NEW r, NEW u, NEW v
  PROVE  WithRet(St(o, H, L, r, u), v) = St(o, H, L, v, u)
BY DEF St, WithRet

(* The answer replaced. *)
LEMMA PutOut ==
  ASSUME NEW o, NEW H, NEW L, NEW r, NEW u, NEW v
  PROVE  WithOut(St(o, H, L, r, u), v) = St(o, H, L, r, v)
BY DEF St, WithOut

(* The copy of the LRO attributes replaced. *)
LEMMA PutLro ==
  ASSUME NEW o, NEW H, NEW L, NEW r, NEW u, NEW v
  PROVE  WithLro(St(o, H, L, r, u), v) = St(LroCopied(o, v), H, L, r, u)
BY DEF St, WithLro, LroCopied

(* What was asked for replaced. *)
LEMMA PutAsked ==
  ASSUME NEW o, NEW H, NEW L, NEW r, NEW u, NEW v
  PROVE  WithAsked(St(o, H, L, r, u), v) = St(Asked(o, v), H, L, r, u)
BY DEF St, WithAsked, Asked

(* Whether it was modified replaced. *)
LEMMA PutMod ==
  ASSUME NEW o, NEW H, NEW L, NEW r, NEW u, NEW v
  PROVE  WithMod(St(o, H, L, r, u), v) = St(Modified(o, v), H, L, r, u)
BY DEF St, WithMod, Modified

(* The handle replaced. *)
LEMMA PutHandleOnly ==
  ASSUME NEW o, NEW H, NEW L, NEW r, NEW u, NEW v
  PROVE  WithHandleOnly(St(o, H, L, r, u), v) = St(Handled(o, v), H, L, r, u)
BY DEF St, WithHandleOnly, Handled

(* The copy of the attributes replaced. *)
LEMMA PutCopyOnly ==
  ASSUME NEW o, NEW H, NEW L, NEW r, NEW u, NEW v
  PROVE  WithCopyOnly(St(o, H, L, r, u), v) = St(Copied(o, v), H, L, r, u)
BY DEF St, WithCopyOnly, Copied

(* A mailbox of the device replaced. *)
LEMMA PutBox ==
  ASSUME NEW o, NEW H, NEW L, NEW r, NEW u, NEW h, NEW v
  PROVE  WithBox(St(o, H, L, r, u), h, v) = St(o, BoxAt(H, h, v), L, r, u)
BY DEF St, WithBox, BoxAt

(* A mailbox and the status. *)
LEMMA PutBoxRet ==
  ASSUME NEW o, NEW H, NEW L, NEW r, NEW u, NEW h, NEW v, NEW w
  PROVE  WithBoxRet(St(o, H, L, r, u), h, v, w) = St(o, BoxAt(H, h, v), L, w, u)
<1> DEFINE s == St(o, H, L, r, u)
<1>1. WithBoxRet(s, h, v, w) = WithRet(WithBox(s, h, v), w)
  BY DEF WithBoxRet, WithRet, WithBox
<1>2. WithBox(s, h, v) = St(o, BoxAt(H, h, v), L, r, u)
  BY PutBox
<1> HIDE DEF s
<1>3. QED
  BY <1>1, <1>2, PutRet DEF s

(* The handle and the status. *)
LEMMA PutHandle ==
  ASSUME NEW o, NEW H, NEW L, NEW r, NEW u, NEW g, NEW w
  PROVE  WithHandle(St(o, H, L, r, u), g, w) = St(Handled(o, g), H, L, w, u)
<1> DEFINE s == St(o, H, L, r, u)
<1>1. WithHandle(s, g, w) = WithRet(WithHandleOnly(s, g), w)
  BY DEF WithHandle, WithRet, WithHandleOnly
<1>2. WithHandleOnly(s, g) = St(Handled(o, g), H, L, r, u)
  BY PutHandleOnly
<1> HIDE DEF s
<1>3. QED
  BY <1>1, <1>2, PutRet DEF s

(* The handle, its mailbox and the status. *)
LEMMA PutHandleBox ==
  ASSUME NEW o, NEW H, NEW L, NEW r, NEW u, NEW g, NEW v, NEW w
  PROVE  WithHandleBox(St(o, H, L, r, u), g, v, w) = St(Handled(o, g), BoxAt(H, g, v), L, w, u)
<1> DEFINE s == St(o, H, L, r, u)
<1>1. WithHandleBox(s, g, v, w) = WithBoxRet(WithHandleOnly(s, g), g, v, w)
  BY Zenon DEF WithHandleBox, WithBoxRet, WithHandleOnly
<1>2. WithHandleOnly(s, g) = St(Handled(o, g), H, L, r, u)
  BY PutHandleOnly
<1> HIDE DEF s
<1>3. QED
  BY <1>1, <1>2, PutBoxRet DEF s

(* The answer and the status. *)
LEMMA PutOutRet ==
  ASSUME NEW o, NEW H, NEW L, NEW r, NEW u, NEW v, NEW w
  PROVE  WithOutRet(St(o, H, L, r, u), v, w) = St(o, H, L, w, v)
<1> DEFINE s == St(o, H, L, r, u)
<1>1. WithOutRet(s, v, w) = WithRet(WithOut(s, v), w)
  BY DEF WithOutRet, WithRet, WithOut
<1>2. WithOut(s, v) = St(o, H, L, r, v)
  BY PutOut
<1> HIDE DEF s
<1>3. QED
  BY <1>1, <1>2, PutRet DEF s

(* The copy of the attributes and the answer. *)
LEMMA PutCopy ==
  ASSUME NEW o, NEW H, NEW L, NEW r, NEW u, NEW v
  PROVE  WithCopy(St(o, H, L, r, u), v) = St(Copied(o, v), H, L, r, v)
<1> DEFINE s == St(o, H, L, r, u)
<1>1. WithCopy(s, v) = WithOut(WithCopyOnly(s, v), v)
  BY Zenon DEF WithCopy, WithOut, WithCopyOnly
<1>2. WithCopyOnly(s, v) = St(Copied(o, v), H, L, r, u)
  BY PutCopyOnly
<1> HIDE DEF s
<1>3. QED
  BY <1>1, <1>2, PutOut DEF s

(* The history of what was asked for. *)
LEMMA PutAskedMod ==
  ASSUME NEW o, NEW H, NEW L, NEW r, NEW u, NEW v, NEW m
  PROVE  WithAskedMod(St(o, H, L, r, u), v, m) = St(AskedMod(o, v, m), H, L, r, u)
<1> DEFINE s == St(o, H, L, r, u)
<1>1. WithAskedMod(s, v, m) = WithMod(WithAsked(s, v), m)
  BY DEF WithAskedMod, WithMod, WithAsked
<1>2. WithAsked(s, v) = St(Asked(o, v), H, L, r, u)
  BY PutAsked
<1>3. AskedMod(o, v, m) = Modified(Asked(o, v), m)
  BY DEF AskedMod, Modified, Asked
<1> HIDE DEF s
<1>4. QED
  BY <1>1, <1>2, <1>3, PutMod DEF s

----------------------------------------------------------------------------
(* The functions of an object, by the parts of the state. *)

Mailbox   == {Free, Unreachable} \cup Box
Own(o)    == IF o = Nothing THEN {} ELSE {o.handle} \cap Handle
LostHw(o, H) == [h \in Handle |-> IF h \in Own(o) THEN Unreachable ELSE H[h]]
LostTo(o, L, how) == L \cup {[h |-> h, how |-> how] : h \in Own(o)}

(* A free handle is told from the others. *)
LEMMA FreeFacts == Free # Unreachable /\ \A b \in Box : b # Free
<1>1. -1 \in Free /\ -1 \notin Unreachable
  BY DEF Free, Unreachable
<1>2. \A b \in Box : -1 \notin b
  BY DEF Box
<1>3. QED
  BY <1>1, <1>2

(* The handle an object of the application has is the one it owns. *)
LEMMA HeldForm ==
  ASSUME NEW o \in Object, NEW H, NEW L, NEW r, NEW u
  PROVE  Held(St(o, H, L, r, u)) = Own(o)
BY NothingAssumption DEF Own, Held, St

(* Lose. *)
LEMMA LoseForm ==
  ASSUME NEW o \in Object, NEW H, NEW L, NEW r, NEW u, NEW how
  PROVE  Lose(St(o, H, L, r, u), how) = St(o, LostHw(o, H), LostTo(o, L, how), r, u)
<1> DEFINE s == St(o, H, L, r, u)
           X == [h \in Handle |-> IF h \in Held(s) THEN Unreachable ELSE s.hw[h]]
           Y == s.lost \cup {[h |-> h, how |-> how] : h \in Held(s)}
<1>1. Lose(s, how) = [s EXCEPT !.lost = Y, !.hw = X]
  BY Zenon DEF Lose
<1>2. X = LostHw(o, H) /\ Y = LostTo(o, L, how)
  <2>1. s.hw = H /\ s.lost = L /\ Held(s) = Own(o)
    BY Parts, HeldForm
  <2> HIDE DEF s
  <2>2. QED
    BY <2>1, Zenon DEF LostHw, LostTo
<1> HIDE DEF X, Y
<1>3. [s EXCEPT !.lost = Y, !.hw = X] = [[s EXCEPT !.lost = Y] EXCEPT !.hw = X]
  OBVIOUS
<1>4. [s EXCEPT !.lost = Y] = St(o, H, Y, r, u)
  BY DEF St
<1> DEFINE l == St(o, H, Y, r, u)
<1>5. [l EXCEPT !.hw = X] = St(o, X, Y, r, u)
  BY DEF St
<1> HIDE DEF s, l
<1>6. Lose(s, how) = St(o, X, Y, r, u)
  BY <1>1, <1>3, <1>4, <1>5, Zenon DEF l
<1>7. QED
  BY <1>2, <1>6, Zenon DEF s

(* obj::create. *)
LEMMA CreateForm ==
  ASSUME NEW o \in Object, NEW H, NEW L, NEW r, NEW u, NEW box,
         NEW t \in obj_create(St(o, H, L, r, u), box)
  PROVE  \/ t = St(Handled(o, NoHandle), LostHw(o, H), LostTo(o, L, o.kind), "DPCP_ERR_CREATE", u)
         \/ \E h \in Handle :
              /\ H[h] = Free
              /\ t = St(Handled(o, h), BoxAt(LostHw(o, H), h, box), LostTo(o, L, o.kind),
                        "DPCP_OK", u)
<1> DEFINE s == St(o, H, L, r, u)
           l == St(o, LostHw(o, H), LostTo(o, L, o.kind), r, u)
<1>1. s.obj = o /\ s.hw = H
  BY Parts
<1>2. Lose(s, o.kind) = l
  BY LoseForm
<1> HIDE DEF s, l
<1>3. \/ t = WithHandle(Lose(s, s.obj.kind), NoHandle, "DPCP_ERR_CREATE")
      \/ \E h \in {f \in Handle : s.hw[f] = Free} :
           t = WithHandleBox(Lose(s, s.obj.kind), h, box, "DPCP_OK")
  BY Zenon DEF obj_create, s, WithHandle, WithHandleBox
<1>4. \/ t = WithHandle(l, NoHandle, "DPCP_ERR_CREATE")
      \/ \E h \in Handle : H[h] = Free /\ t = WithHandleBox(l, h, box, "DPCP_OK")
  BY <1>1, <1>2, <1>3, Zenon
<1>5. QED
  BY <1>4, PutHandle, PutHandleBox DEF l


(* obj::destroy. *)
LEMMA DestroyForm ==
  ASSUME NEW o \in Object, NEW H, NEW L, NEW r, NEW u, NEW t \in obj_destroy(St(o, H, L, r, u))
  PROVE  LET p == Handled(o, IF o.handle = NoHandle THEN NoHandle ELSE Gone)
         IN  \/ t = St(p, LostHw(o, H), LostTo(o, L, "refused"), "DPCP_OK", u)
             \/ \E h \in Own(o) : t = St(p, BoxAt(H, h, Free), L, "DPCP_OK", u)
<1> DEFINE s == St(o, H, L, r, u)
           g == IF o.handle = NoHandle THEN NoHandle ELSE Gone
<1>1. Lose(s, "refused") = St(o, LostHw(o, H), LostTo(o, L, "refused"), r, u)
  BY LoseForm
<1>2. \A h : WithBox(s, h, Free) = St(o, BoxAt(H, h, Free), L, r, u)
  BY PutBox
<1>3. Held(s) = Own(o)
  BY HeldForm
<1> HIDE DEF s
<1>4. PICK q \in {Lose(s, "refused")} \cup {WithBox(s, h, Free) : h \in Held(s)} :
        t = WithHandle(q, IF q.obj.handle = NoHandle THEN NoHandle ELSE Gone, "DPCP_OK")
  BY Zenon DEF obj_destroy, s, WithBox, WithHandle
<1>5. \E G, M : /\ q = St(o, G, M, r, u)
                /\ \/ G = LostHw(o, H) /\ M = LostTo(o, L, "refused")
                   \/ \E h \in Own(o) : G = BoxAt(H, h, Free) /\ M = L
  BY <1>1, <1>2, <1>3, <1>4, Zenon
<1>6. PICK G, M : /\ q = St(o, G, M, r, u)
                  /\ \/ G = LostHw(o, H) /\ M = LostTo(o, L, "refused")
                     \/ \E h \in Own(o) : G = BoxAt(H, h, Free) /\ M = L
  BY <1>5, Zenon
<1>7. q.obj = o
  BY <1>6, Parts
<1>8. t = St(Handled(o, g), G, M, "DPCP_OK", u)
  BY <1>4, <1>6, <1>7, PutHandle
<1> HIDE DEF g
<1>9. QED
  BY <1>6, <1>8, Zenon DEF g

=============================================================================
