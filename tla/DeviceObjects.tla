--------------------------- MODULE DeviceObjects ---------------------------
(***************************************************************************)
(* TIRs, TISs, encryption keys and tag buffer tables (tir.cpp, tis.cpp,    *)
(* dek.cpp, tag_buffer_table_obj.cpp over obj of dpcp_obj.cpp): created    *)
(* by the adapter or constructed and created by the application, modified, *)
(* queried, destroyed, created again and deleted, on a device that may     *)
(* refuse any command and has a few objects only.  The contexts are the    *)
(* mailboxes of Layouts, so that what a query returns has gone through the *)
(* fields of the device; TIR and TIS answer from a copy once they have one.*)
(*                                                                         *)
(* A function of an object takes a state s = [obj, hw, lost, ret, out] and *)
(* gives the set of states it may leave.                                   *)
(***************************************************************************)
EXTENDS Capabilities, Layouts

CONSTANTS
  Handle,       \* objects the device can hold
  TirAttrs, TisAttrs, DekAttrs, TableAttrsOfTags   \* attributes of requests

VARIABLES
  obj,    \* the object the application has, or Nothing
  hw,     \* what the device holds under a handle, or Free
  lost    \* history: objects of the device that nobody can release: [h, how]

objVars == <<obj, hw, lost>>

(* m_obj_handle is null, or names a dcmd::obj whose own handle is null     *)
(* after destroy().                                                        *)
NoHandle == "nullptr"
Gone     == "destroyed"

(* What the device holds under a handle that names no object, or one that  *)
(* nobody can reach: no mailbox has a bit at these places.                 *)
Free        == {-1}
Unreachable == {-2}

DekKind  == {"tls_dek", "ipsec_dek", "aes_xts_dek"}

(* Attributes; a number is the set of its bits. *)
tir_flags == {"LRO", "INLINE_RQN", "TRANSPORT_DOMAIN", "TLS", "NVMEOTCP_ZERO_COPY", "NVMEOTCP_CRC"}
tir_attr ==
  [flags : SUBSET tir_flags,
   lro : [timeout_period_usecs : SUBSET Word(16), enable_mask : SUBSET Word(4),
          max_msg_sz : SUBSET Word(8)],
   inline_rqn : SUBSET Word(24), transport_domain : SUBSET Word(24), tls_en : SUBSET One,
   zerocopy_en : SUBSET One, crc_en : SUBSET One, tag_buffer_table_id : SUBSET Word(32)]
tis_flags == {"TRANSPORT_DOMAIN", "TLS", "PD", "NVMEOTCP"}
tis_attr ==
  [flags : SUBSET tis_flags, tls_en : SUBSET One, nvmeotcp : SUBSET One,
   transport_domain : SUBSET Word(24), pd : SUBSET Word(24)]
dek_attr ==
  [key_blob : {Nothing} \cup SUBSET Word(576), key_blob_size : Nat, key_size : Nat,
   pd_id : SUBSET Word(32), opaque : SUBSET Word(64)]
tag_buffer_table_attr == [log_tag_buffer_table_size : SUBSET Word(32)]

ASSUME ObjectsAssumption ==
  /\ TirAttrs \subseteq tir_attr /\ TisAttrs \subseteq tis_attr
  /\ DekAttrs \subseteq dek_attr /\ TableAttrsOfTags \subseteq tag_buffer_table_attr
  /\ {NoHandle, Gone} \cap Handle = {}
  /\ \A a \in DekAttrs : a.key_blob # Nothing => a.key_blob \subseteq Word(8 * a.key_blob_size)

(* An object.  Nothing is neither an object nor attributes. *)
Kind == DekKind \cup {"tir", "tis", "table"}
Object ==
  [kind : Kind, handle : Handle \cup {NoHandle, Gone},
   asked : {Nothing} \cup tir_attr \cup tis_attr \cup dek_attr \cup tag_buffer_table_attr,
   modified : BOOLEAN, m_attr : {Nothing} \cup tir_attr \cup tis_attr]

ASSUME NothingAssumption ==
  Nothing \notin Object \cup tir_attr \cup tis_attr \cup dek_attr \cup tag_buffer_table_attr

----------------------------------------------------------------------------
(* obj *)
Ret(s, r)     == [s EXCEPT !.ret = r]
Crash(s)      == [s EXCEPT !.ret = "crash"]
Held(s)       == {s.obj.handle} \cap Handle

(* The object loses its handle and the device keeps what nobody can reach. *)
Lose(s, how) ==
  [s EXCEPT !.lost = @ \cup {[h |-> h, how |-> how] : h \in Held(s)},
            !.hw = [h \in Handle |-> IF h \in Held(s) THEN Unreachable ELSE @[h]]]

(* obj::create overwrites the handle, with null when the device refuses. *)
obj_create(s, box) ==
  LET t == Lose(s, s.obj.kind)
  IN  {[t EXCEPT !.obj.handle = NoHandle, !.ret = "DPCP_ERR_CREATE"]}
        \cup {[t EXCEPT !.obj.handle = h, !.hw[h] = box, !.ret = "DPCP_OK"]
                 : h \in {f \in Handle : s.hw[f] = Free}}

(* obj::modify; new maps what the device holds to what it holds after it. *)
obj_modify(s, new(_)) ==
  IF s.obj.handle = Gone THEN {Crash(s)}
  ELSE {Ret(s, "DPCP_ERR_MODIFY")}
         \cup {[s EXCEPT !.hw[h] = new(s.hw[h]), !.ret = "DPCP_OK"] : h \in Held(s)}

(* obj::query, with what the caller makes of the answer of the device *)
obj_query(s, answer(_, _)) ==
  IF s.obj.handle = Gone THEN {Crash(s)}
  ELSE {Ret(s, "DPCP_ERR_QUERY")} \cup {Ret(answer(s, s.hw[h]), "DPCP_OK") : h \in Held(s)}

(* obj::destroy keeps the dcmd::obj and says DPCP_OK; dcmd::obj::destroy   *)
(* forgets its handle, also when the device refuses.                       *)
obj_destroy(s) ==
  {[t EXCEPT !.obj.handle = IF @ = NoHandle THEN NoHandle ELSE Gone, !.ret = "DPCP_OK"]
     : t \in {Lose(s, "refused")} \cup {[s EXCEPT !.hw[h] = Free] : h \in Held(s)}}

(* obj::~obj *)
obj_delete(s) == {[t EXCEPT !.obj = Nothing] : t \in obj_destroy(s)}

----------------------------------------------------------------------------
(* TIR *)
lro_context(lro) ==
  DEVX_SET(tirc.lro_timeout_period_usecs, lro.timeout_period_usecs)
    \cup DEVX_SET(tirc.lro_enable_mask, lro.enable_mask)
    \cup DEVX_SET(tirc.lro_max_ip_payload_size, lro.max_msg_sz)
LroBits == lro_context([timeout_period_usecs |-> Word(16), enable_mask |-> Word(4),
                        max_msg_sz |-> Word(8)])
self_lb == DEVX_SET(tirc.self_lb_block, {0, 1})

tir_context(a) ==
  When("LRO" \in a.flags, lro_context(a.lro))
    \cup When("TLS" \in a.flags, self_lb \cup DEVX_SET(tirc.tls_en, a.tls_en))
    \cup When("INLINE_RQN" \in a.flags, DEVX_SET(tirc.inline_rqn, a.inline_rqn))
    \cup When("TRANSPORT_DOMAIN" \in a.flags, DEVX_SET(tirc.transport_domain, a.transport_domain))
    \cup When("NVMEOTCP_ZERO_COPY" \in a.flags,
              self_lb \cup DEVX_SET(tirc.nvmeotcp_zerocopy_en, a.zerocopy_en)
                \cup DEVX_SET(tirc.nvmeotcp_tag_buffer_table_id, a.tag_buffer_table_id))
    \cup When("NVMEOTCP_CRC" \in a.flags, self_lb \cup DEVX_SET(tirc.nvmeotcp_crc_en, a.crc_en))

tir_read(box, set) ==
  [flags |-> set,
   lro |-> [timeout_period_usecs |-> DEVX_GET(tirc.lro_timeout_period_usecs, box),
            enable_mask |-> DEVX_GET(tirc.lro_enable_mask, box),
            max_msg_sz |-> DEVX_GET(tirc.lro_max_ip_payload_size, box)],
   inline_rqn |-> DEVX_GET(tirc.inline_rqn, box),
   transport_domain |-> DEVX_GET(tirc.transport_domain, box),
   tls_en |-> DEVX_GET(tirc.tls_en, box), zerocopy_en |-> DEVX_GET(tirc.nvmeotcp_zerocopy_en, box),
   crc_en |-> DEVX_GET(tirc.nvmeotcp_crc_en, box),
   tag_buffer_table_id |-> DEVX_GET(tirc.nvmeotcp_tag_buffer_table_id, box)]

(* tir::query and tis::query: from the device the first time, then from    *)
(* m_attr, whose flags tell.                                               *)
cached_query(s, read(_)) ==
  CASE s.obj.handle = NoHandle -> {Ret(s, "DPCP_ERR_INVALID_PARAM")}
    [] s.obj.handle # NoHandle /\ s.obj.m_attr.flags # {}
         -> {[s EXCEPT !.out = s.obj.m_attr, !.ret = "DPCP_OK"]}
    [] OTHER -> obj_query(s, LAMBDA t, box : [t EXCEPT !.obj.m_attr = read(box), !.out = read(box)])

tir_query(s) == cached_query(s, LAMBDA box : tir_read(box, tir_flags))

(* tir::create and tis::create: an object that was created, destroyed or   *)
(* not, is refused; a new one is queried for its attributes.               *)
guarded_create(s, box, query_of(_)) ==
  IF s.obj.handle # NoHandle THEN {Ret(s, "DPCP_ERR_INVALID_PARAM")}
  ELSE UNION {IF t.ret = "DPCP_OK" THEN query_of(t) ELSE {t} : t \in obj_create(s, box)}

(* Variant with a slip: the test for an existing TIR is left out. *)
tir_create_Again(s, a) ==
  UNION {IF t.ret = "DPCP_OK" THEN tir_query(t) ELSE {t} : t \in obj_create(s, tir_context(a))}

tir_create(s, a) == guarded_create(s, tir_context(a), tir_query)

(* Variant with a slip: the copy is not brought up to date. *)
tir_modify_Stale(s, a) ==
  IF s.obj.handle = NoHandle THEN {Ret(s, "DPCP_ERR_INVALID_PARAM")}
  ELSE obj_modify(s, LAMBDA box : IF "LRO" \in a.flags THEN (box \ LroBits) \cup lro_context(a.lro)
                                  ELSE box)

(* tir::modify: of the attributes only LRO can be modified. *)
tir_modify(s, a) ==
  IF s.obj.handle = NoHandle THEN {Ret(s, "DPCP_ERR_INVALID_PARAM")}
  ELSE {IF t.ret = "DPCP_OK" /\ "LRO" \in a.flags THEN [t EXCEPT !.obj.m_attr.lro = a.lro] ELSE t
          : t \in obj_modify(s, LAMBDA box : IF "LRO" \in a.flags
                                             THEN (box \ LroBits) \cup lro_context(a.lro)
                                             ELSE box)}

----------------------------------------------------------------------------
(* TIS; the query does not read nvmeotcp_en. *)
tis_context(a) ==
  When("TRANSPORT_DOMAIN" \in a.flags, DEVX_SET(tisc.transport_domain, a.transport_domain))
    \cup When("TLS" \in a.flags, DEVX_SET(tisc.tls_en, a.tls_en))
    \cup When("PD" \in a.flags, DEVX_SET(tisc.pd, a.pd))
    \cup When("NVMEOTCP" \in a.flags, DEVX_SET(tisc.nvmeotcp_en, a.nvmeotcp))

tis_read(box, set) ==
  [flags |-> set, transport_domain |-> DEVX_GET(tisc.transport_domain, box),
   tls_en |-> DEVX_GET(tisc.tls_en, box), pd |-> DEVX_GET(tisc.pd, box), nvmeotcp |-> {}]

tis_query(s)     == cached_query(s, LAMBDA box : tis_read(box, tis_flags \ {"NVMEOTCP"}))
tis_create(s, a) == guarded_create(s, tis_context(a), tis_query)

----------------------------------------------------------------------------
(* Encryption keys.  A blob of n bytes is a number of 8 * n bits. *)
verify_attr(a) ==
  a.pd_id # {} /\ a.key_blob # Nothing /\ a.key_blob_size # 0 /\ a.key_size # 0

get_key_type(kind) ==
  CASE kind = "tls_dek" -> {0} [] kind = "ipsec_dek" -> {1} [] kind = "aes_xts_dek" -> {0, 1}

Params(valid, kind, bytes, tag, at) ==
  [valid |-> valid, type |-> get_key_type(kind), size |-> IF bytes = 32 THEN {0} ELSE {},
   has_keytag |-> IF tag THEN {0} ELSE {}, offset |-> at]

(* Variant with a slip: a short key is not moved to the end of its field. *)
plain_key_params_Front(kind, blob, size) ==
  Params(blob = size /\ size \in {16, 32}, kind, size, FALSE, 0)

(* dek::get_key_params *)
plain_key_params(kind, blob, size) ==
  Params(blob = size /\ size \in {16, 32}, kind, size, FALSE, IF size = 16 THEN 16 ELSE 0)

(* aes_xts_dek::get_key_params: two keys and perhaps a tag of eight bytes *)
key_size_to_blob_size(size, tag) == 2 * size + (IF tag THEN 8 ELSE 0)
xts_key_params(kind, blob, size) ==
  LET known == {k \in {16, 32} \X BOOLEAN : key_size_to_blob_size(k[1], k[2]) = blob}
  IN  IF known = {} THEN Params(FALSE, kind, 0, FALSE, 0)
      ELSE LET p == CHOOSE k \in known : TRUE
           IN  Params(key_size_to_blob_size(size, p[2]) = blob, kind, p[1], p[2], 0)

get_key_params(kind, a) ==
  IF kind = "aes_xts_dek" THEN xts_key_params(kind, a.key_blob_size, a.key_size)
  ELSE plain_key_params(kind, a.key_blob_size, a.key_size)

(* memcpy of the blob into the key, from the byte the parameters name *)
KeyBytes(p, a) ==
  {encryption_key_obj.key.at + 8 * p.offset + 8 * a.key_blob_size - 1 - i : i \in a.key_blob}

key_context(p, a) ==
  KeyBytes(p, a) \cup DEVX_SET(encryption_key_obj.key_size, p.size)
    \cup DEVX_SET(encryption_key_obj.key_type, p.type) \cup DEVX_SET(encryption_key_obj.pd, a.pd_id)
    \cup DEVX_SET(encryption_key_obj.opaque, a.opaque)

(* dek::create has no test for an existing key. *)
dek_create(s, a) ==
  LET p == get_key_params(s.obj.kind, a)
  IN  IF ~verify_attr(a) \/ ~p.valid THEN {Ret(s, "DPCP_ERR_INVALID_PARAM")}
      ELSE obj_create(s, key_context(p, a) \cup DEVX_SET(encryption_key_obj.has_keytag, p.has_keytag))

(* What a modified key is: "From PRM - can't be changed" are type and PD. *)
Kept == Bits(encryption_key_obj.key_type) \cup Bits(encryption_key_obj.pd)
KeyModified(old, new) == (old \cap Kept) \cup (new \ Kept)

(* dek::modify does not set has_keytag. *)
dek_modify(s, a) ==
  LET p == get_key_params(s.obj.kind, a)
  IN  IF ~verify_attr(a) \/ s.obj.handle = NoHandle \/ ~p.valid
      THEN {Ret(s, "DPCP_ERR_INVALID_PARAM")}
      ELSE obj_modify(s, LAMBDA box : KeyModified(box, key_context(p, a)))

key_size_flag_to_bytes_size(flag) == CASE flag = {} -> 16 [] flag = {0} -> 32 [] OTHER -> 0

dek_query(s) ==
  IF s.obj.handle = NoHandle THEN {Ret(s, "DPCP_ERR_INVALID_PARAM")}
  ELSE obj_query(s, LAMBDA t, box :
         [t EXCEPT !.out = [key_size |-> key_size_flag_to_bytes_size(DEVX_GET(encryption_key_obj.key_size, box)),
                            pd_id |-> DEVX_GET(encryption_key_obj.pd, box),
                            opaque |-> DEVX_GET(encryption_key_obj.opaque, box)]])

----------------------------------------------------------------------------
(* Tag buffer tables; create has no test for an existing one. *)
table_create(s, a) ==
  obj_create(s, DEVX_SET(tag_buffer_table_obj.log_tag_buffer_table_size, a.log_tag_buffer_table_size))
table_query(s) ==
  IF s.obj.handle = NoHandle THEN {Ret(s, "DPCP_ERR_INVALID_PARAM")}
  ELSE obj_query(s, LAMBDA t, box :
         [t EXCEPT !.out = [log_tag_buffer_table_size |->
                              DEVX_GET(tag_buffer_table_obj.log_tag_buffer_table_size, box)]])

----------------------------------------------------------------------------
(* The virtual functions, by the class of the object. *)
create(s, a) ==
  CASE s.obj.kind = "tir" -> tir_create(s, a)
    [] s.obj.kind = "tis" -> tis_create(s, a)
    [] s.obj.kind = "table" -> table_create(s, a)
    [] OTHER -> dek_create(s, a)
modify(s, a) == IF s.obj.kind = "tir" THEN tir_modify(s, a) ELSE dek_modify(s, a)
query_object(s) ==
  CASE s.obj.kind = "tir" -> tir_query(s)
    [] s.obj.kind = "tis" -> tis_query(s)
    [] s.obj.kind = "table" -> table_query(s)
    [] OTHER -> dek_query(s)

Requests(kind) ==
  CASE kind = "tir" -> TirAttrs [] kind = "tis" -> TisAttrs [] kind = "table" -> TableAttrsOfTags
    [] OTHER -> DekAttrs

(* The constructors; asked is a history of what the device accepted. *)
Constructed(kind) ==
  [kind |-> kind, handle |-> NoHandle, asked |-> Nothing, modified |-> FALSE,
   m_attr |-> CASE kind = "tir" -> tir_read({}, {}) [] kind = "tis" -> tis_read({}, {})
                [] OTHER -> Nothing]

Now == [obj |-> obj, hw |-> hw, lost |-> lost, ret |-> "none", out |-> Nothing]

Do(op, a, t) ==
  /\ obj' = t.obj /\ hw' = t.hw /\ lost' = t.lost
  /\ crashed' = (t.ret = "crash")
  /\ last' = [op |-> op, attr |-> a, ret |-> t.ret, out |-> t.out]
  /\ unchangedAdapter /\ UNCHANGED <<node, m_sample_ids>>

(* What the object stands for after the device accepted a request. *)
Accepted(t, a, mod) ==
  LET was == t.obj.asked
      lro == [was EXCEPT !.lro = a.lro, !.flags = @ \cup {"LRO"}]
      now == CASE ~mod -> a
               [] mod /\ t.obj.kind = "tir" -> IF "LRO" \in a.flags THEN lro ELSE was
               [] OTHER -> [a EXCEPT !.pd_id = was.pd_id]
  IN  IF t.ret = "DPCP_OK" THEN [t EXCEPT !.obj.asked = now, !.obj.modified = mod] ELSE t

(* The creating functions of the adapter construct and create an object,   *)
(* and delete what could not be created.                                   *)
Created(op, t) == Do(op, Nothing, t)
adapter_create(op, kind, a) ==
  /\ ~crashed /\ obj = Nothing /\ node = Nothing
  /\ \/ Created(op, Ret(Now, "DPCP_ERR_NO_MEMORY"))
     \/ \E t \in create([Now EXCEPT !.obj = Constructed(kind)], a) :
          IF t.ret = "DPCP_OK" THEN Created(op, Accepted(t, a, FALSE))
          ELSE \E d \in obj_delete(t) : Created(op, Ret(d, "DPCP_ERR_CREATE"))

(* Those of keys ask the capabilities first. *)
create_dek(kind, a) ==
  \/ /\ ~m_external_hca_caps.general.encryption_key
     /\ ~crashed /\ obj = Nothing /\ node = Nothing
     /\ Created("create_dek", Ret(Now, "DPCP_ERR_NO_SUPPORT"))
  \/ m_external_hca_caps.general.encryption_key /\ adapter_create("create_dek", kind, a)

create_tir(a)         == adapter_create("create_tir", "tir", a)
create_tis(a)         == adapter_create("create_tis", "tis", a)
create_tls_dek(a)     == create_dek("tls_dek", a)
create_ipsec_dek(a)   == create_dek("ipsec_dek", a)
create_aes_xts_dek(a) == create_dek("aes_xts_dek", a)
create_tag_buffer_table_obj(a) == adapter_create("create_tag_buffer_table_obj", "table", a)

(* The application constructs an object itself ... *)
construct(kind) ==
  /\ ~crashed /\ obj = Nothing /\ node = Nothing
  /\ Do("construct", Nothing, [Now EXCEPT !.obj = Constructed(kind)])

(* ... and calls its functions in any order. *)
create_object(a) ==
  /\ ~crashed /\ obj # Nothing /\ a \in Requests(obj.kind)
  /\ \E t \in create(Now, a) :
       Do("create", Nothing, IF t.ret = "DPCP_ERR_QUERY" THEN [t EXCEPT !.obj.asked = a] ELSE Accepted(t, a, FALSE))
modify_object(a) ==
  /\ ~crashed /\ obj # Nothing /\ obj.kind \in DekKind \cup {"tir"} /\ a \in Requests(obj.kind)
  /\ \E t \in modify(Now, a) : Do("modify", Nothing, Accepted(t, a, TRUE))
query_it   == ~crashed /\ obj # Nothing /\ \E t \in query_object(Now) : Do("query_object", Nothing, t)
destroy_it == ~crashed /\ obj # Nothing /\ \E t \in obj_destroy(Now) : Do("destroy", Nothing, t)
delete_it  == ~crashed /\ obj # Nothing /\ \E t \in obj_delete(Now) : Do("delete", Nothing, t)

ObjectsInit == CapsInit /\ obj = Nothing /\ hw = [h \in Handle |-> Free] /\ lost = {}
ObjectsNext ==
  \/ \E a \in TirAttrs : create_tir(a)
  \/ \E a \in TisAttrs : create_tis(a)
  \/ \E a \in DekAttrs : create_tls_dek(a) \/ create_ipsec_dek(a) \/ create_aes_xts_dek(a)
  \/ \E a \in TableAttrsOfTags : create_tag_buffer_table_obj(a)
  \/ \E kind \in Kind : construct(kind)
  \/ \E a \in TirAttrs \cup TisAttrs \cup DekAttrs \cup TableAttrsOfTags :
       create_object(a) \/ modify_object(a)
  \/ query_it \/ destroy_it \/ delete_it

ObjectsSpec ==
  ObjectsInit /\ [][(CapsNext /\ UNCHANGED objVars) \/ ObjectsNext]_<<capsVars, objVars>>

----------------------------------------------------------------------------
(* The attributes an object was asked to have, as a query reports them. *)
Tir(a) ==
  LET Of(f, v) == IF f \in a.flags THEN v ELSE {}
  IN  [flags |-> tir_flags,
       lro |-> [k \in DOMAIN a.lro |-> Of("LRO", a.lro[k])],
       inline_rqn |-> Of("INLINE_RQN", a.inline_rqn),
       transport_domain |-> Of("TRANSPORT_DOMAIN", a.transport_domain),
       tls_en |-> Of("TLS", a.tls_en), zerocopy_en |-> Of("NVMEOTCP_ZERO_COPY", a.zerocopy_en),
       crc_en |-> Of("NVMEOTCP_CRC", a.crc_en),
       tag_buffer_table_id |-> Of("NVMEOTCP_ZERO_COPY", a.tag_buffer_table_id)]
Tis(a) ==
  LET Of(f, v) == IF f \in a.flags THEN v ELSE {}
  IN  [flags |-> tis_flags \ {"NVMEOTCP"}, transport_domain |-> Of("TRANSPORT_DOMAIN", a.transport_domain),
       tls_en |-> Of("TLS", a.tls_en), pd |-> Of("PD", a.pd), nvmeotcp |-> {}]

(* A successful query tells what the device last accepted, whatever was    *)
(* refused, modified, queried and cached before: all attributes of a TIR,  *)
(* those of a TIS but NVMe/TCP, the size, PD and metadata of a key, the    *)
(* size of a tag buffer table; a value beyond the width of its field is    *)
(* cut.  When a parser graph node is queried it has exactly the ids of its *)
(* samples, once each; only a node with a disabled sample can have         *)
(* collected repetitions.                                                  *)
QueryTells ==
  /\ last.op = "query_object" /\ last.ret = "DPCP_OK" =>
       CASE obj.kind = "tir" -> last.out = Tir(obj.asked)
         [] obj.kind = "tis" -> last.out = Tis(obj.asked)
         [] obj.kind = "table" -> last.out.log_tag_buffer_table_size =
                                    obj.asked.log_tag_buffer_table_size \cap Word(5)
         [] OTHER -> /\ last.out.key_size = obj.asked.key_size
                     /\ last.out.pd_id = obj.asked.pd_id \cap Word(24)
                     /\ last.out.opaque = obj.asked.opaque
  /\ last.op = "query" /\ last.ret = "DPCP_OK" =>
       \/ m_sample_ids = DeviceIds(node)
       \/ Enabled(node) # DOMAIN node.samples /\ Len(m_sample_ids) > Len(DeviceIds(node))

(* The device holds exactly the object the application can release and     *)
(* those that were lost: because the device refused to destroy them, or    *)
(* because a key or a table was created again.  A TIR or TIS never loses   *)
(* its device object that way, not even when its creation failed half way. *)
ObjectsAccounted ==
  /\ {h \in Handle : hw[h] # Free} =
       (IF obj = Nothing THEN {} ELSE {obj.handle} \cap Handle) \cup {l.h : l \in lost}
  /\ obj # Nothing => \A l \in lost : l.h # obj.handle
  /\ \A l \in lost : l.how \notin {"tir", "tis"}

(* The key in the device is the one last accepted: a TLS or IPsec key ends *)
(* where the key field ends, with zeroes before it, an XTS key begins with *)
(* the field, and neither touches what the other fields say; the tag bit   *)
(* tells whether the blob has a tag, unless the key was modified.          *)
KeyAsAsked ==
  obj # Nothing /\ obj.handle \in Handle /\ obj.kind \in DekKind =>
    LET box  == hw[obj.handle]
        a    == obj.asked
        key  == encryption_key_obj.key
        blob == F(IF obj.kind = "aes_xts_dek" THEN key.at ELSE key.at + key.width - 8 * a.key_size,
                  8 * a.key_blob_size)
        tag  == obj.kind = "aes_xts_dek" /\ a.key_blob_size = 2 * a.key_size + 8
    IN  /\ DEVX_GET(blob, box) = a.key_blob
        /\ (box \ Bits(blob)) \cap {p \in box : p >= key.at} = {}
        /\ DEVX_GET(encryption_key_obj.key_size, box) = (IF a.key_size = 32 THEN {0} ELSE {})
        /\ DEVX_GET(encryption_key_obj.key_type, box) = get_key_type(obj.kind)
        /\ obj.modified \/ DEVX_GET(encryption_key_obj.has_keytag, box) = (IF tag THEN {0} ELSE {})
=============================================================================
