--------------------------- MODULE MCDeviceObjects --------------------------
(* An adapter of one of several devices, what it lets its application      *)
(* create, and a queue beside it.  Devices differ from a full one in their *)
(* yes-or-no capabilities or in one capability of parser graph nodes,      *)
(* requests from a plain one in one attribute.                             *)
EXTENDS DeviceObjects, QueueState, TLC

CONSTANT MaxFailed   \* bound on the capability queries that fail

FullNode ==
  [node_in |-> {1}, header_length_mode |-> {0, 1}, sample_offset_mode |-> {0, 1},
   mask_width |-> 1, max_base |-> 1, max_arc_in |-> 2, max_sample |-> 2,
   max_sample_base |-> 1, sample_id_in_out |-> TRUE]

MCNodeCaps ==
  {FullNode,
   [FullNode EXCEPT !.node_in = {2}],
   [FullNode EXCEPT !.header_length_mode = {0}],
   [FullNode EXCEPT !.sample_offset_mode = {0}],
   [FullNode EXCEPT !.mask_width = 0],
   [FullNode EXCEPT !.max_base = 0],
   [FullNode EXCEPT !.max_arc_in = 0],
   [FullNode EXCEPT !.max_sample = 1],
   [FullNode EXCEPT !.max_sample_base = 0],
   [FullNode EXCEPT !.sample_id_in_out = FALSE]}

Device(k, g, v, f, n) ==
  [t \in CapType |->
     CASE t = "GENERAL" -> [value |-> 1, encryption_key |-> k, parse_graph_node |-> g,
                            nvmeotcp |-> v]
       [] t = "PARSE_GRAPH_NODE" -> n
       [] t = "FLOW_TABLE" -> [value |-> 1, ft_support |-> f, max_log_size |-> 1, max_level |-> 2]
       [] t = "NVMEOTCP" -> [zerocopy |-> TRUE]
       [] OTHER -> [value |-> 1]]
FullDevice == Device(TRUE, TRUE, TRUE, TRUE, FullNode)

MCDeviceCaps ==
  {Device(k, g, v, f, FullNode) : k \in BOOLEAN, g \in BOOLEAN, v \in BOOLEAN, f \in BOOLEAN}
    \cup {Device(TRUE, TRUE, TRUE, TRUE, n) : n \in MCNodeCaps}

MCFailureSets == {f \in SUBSET CapType : Cardinality(f) <= MaxFailed}

Sample(e, b, m, i) == [enabled |-> e, base |-> b, offset_mode |-> m, field_id |-> i]
Plain == Sample(TRUE, 1, 0, 0)
PlainNode ==
  [header_length_mode |-> 0, mask |-> {}, base |-> 1, in_arcs |-> <<1>>,
   samples |-> <<Plain, Plain>>]

MCNodeAttrs ==
  {PlainNode,
   [PlainNode EXCEPT !.header_length_mode = 1],
   [PlainNode EXCEPT !.in_arcs = <<>>],
   [PlainNode EXCEPT !.in_arcs = <<1, 1>>],
   [PlainNode EXCEPT !.base = 2],
   [PlainNode EXCEPT !.samples = <<>>]}
  \cup {[PlainNode EXCEPT !.mask = b] : b \in {{0}, {1}, {0, 1}}}
  \cup {[PlainNode EXCEPT !.samples = <<Plain, s>>]
          : s \in {Sample(FALSE, 2, 2, 1), Sample(TRUE, 2, 0, 0), Sample(TRUE, 1, 1, 0),
                   Sample(TRUE, 1, 0, 1)}}

MCTableAttrs ==
  [type : {"FT_RX"}, level : 0 .. 3, log_size : {1, 2}]
    \cup [type : {"FT_TX"}, level : {1}, log_size : {1}]

(* Numbers with their lowest and their highest bit, one bit too wide where *)
(* the attribute is wider than the field of the device.                    *)
NoLro == [timeout_period_usecs |-> {}, enable_mask |-> {}, max_msg_sz |-> {}]
Lro1  == [timeout_period_usecs |-> {0, 15}, enable_mask |-> {0}, max_msg_sz |-> {7}]
Lro2  == [timeout_period_usecs |-> {3}, enable_mask |-> {3}, max_msg_sz |-> {0}]
TirOf(set, lro) ==
  [flags |-> set, lro |-> lro, inline_rqn |-> {0, 23}, transport_domain |-> {1, 22},
   tls_en |-> One, zerocopy_en |-> One, crc_en |-> One, tag_buffer_table_id |-> {2, 23}]
MCTirAttrs ==
  {TirOf(tir_flags, Lro1), TirOf({"LRO"}, Lro2), TirOf({"INLINE_RQN", "TLS"}, NoLro)}
MCTisAttrs ==
  {[flags |-> f, tls_en |-> One, nvmeotcp |-> One, transport_domain |-> {0, 23}, pd |-> {5, 22}]
     : f \in {tis_flags, {"PD"}, {"TLS", "TRANSPORT_DOMAIN"}}}
Dek(blob, bytes, size, pd) ==
  [key_blob |-> blob, key_blob_size |-> bytes, key_size |-> size, pd_id |-> pd,
   opaque |-> {0, 63}]
MCDekAttrs ==
  {Dek({0, 127}, 16, 16, {0}), Dek({1, 255}, 32, 32, {1, 24}), Dek({0, 200}, 32, 16, {2}),
   Dek({3, 319}, 40, 16, {3}), Dek({7, 511}, 64, 32, {4}), Dek({0, 575}, 72, 32, {5}),
   Dek({0}, 24, 24, {6}), Dek(Nothing, 16, 16, {7}), Dek({1}, 16, 16, {})}
MCTableAttrsOfTags == [log_tag_buffer_table_size : {{0, 4}, {1, 5}}]

(* Nothing of the parser graph node, the object and the queue looks at the *)
(* state of another, and of the device objects only look at whether it has *)
(* keys: each is used by itself, on the devices that matter to it.         *)
KeyDevices == {FullDevice, [FullDevice EXCEPT !["GENERAL"].encryption_key = FALSE]}
ObjectsUsed == node = Nothing /\ failed \in {{}, {"GENERAL"}} /\ dev \in KeyDevices
QueueUsed   == last.op = "adapter" /\ failed = {} /\ dev = FullDevice /\ obj = Nothing
QueueUnused == pc = "idle" /\ m_state = "RST" /\ hwState = "RST" /\ ret = "DPCP_OK" /\ hwPp = None

MCVars == <<capsVars, objVars, vars>>
MCInit == ObjectsInit /\ Init
MCNext ==
  \/ QueueUnused /\ obj = Nothing /\ lost = {} /\ CapsNext /\ UNCHANGED <<objVars, vars>>
  \/ QueueUnused /\ ObjectsUsed /\ ObjectsNext /\ UNCHANGED vars
  \/ QueueUsed /\ Next /\ UNCHANGED <<capsVars, objVars>>
MCSpec == MCInit /\ [][MCNext]_MCVars

Symmetry == Permutations(Handle)
=============================================================================
