--------------------------- MODULE QueueContexts ---------------------------
(***************************************************************************)
(* What the device is told of a queue besides the size of its ring: the    *)
(* contexts of completion, receive and send queues as cq::create,          *)
(* striding_rq::create, regular_rq::create, ibq_rq::create and             *)
(* pp_sq::create fill them from the attributes, and the context by which   *)
(* sq::modify_state changes a state.  Values and contexts are sets of bits *)
(* as in Layouts.                                                          *)
(***************************************************************************)
EXTENDS Calls, Layouts, FiniteSets

CONSTANTS CqAttrs, RqAttrs, IbqAttrs, SqAttrs, States   \* attributes that are tried

(* The attributes, in the widths they have in the interface. *)
cq_attr_use   == {"CQ_SIZE", "CQ_EQ_NUM", "CQ_MODERATION", "CQ_FLAGS"}
cq_flags      == {"CQE_COLLAPSED", "BREAK_MODERATION_EN", "OVERRUN_IGNORE", "PERIOD_MODE"}
cq_attr       == [eq_num : SUBSET Word(32), cq_period : SUBSET Word(32), cq_max_cnt : SUBSET Word(32),
                  flags : SUBSET cq_flags, use : SUBSET cq_attr_use]
rq_attr       == [user_index : SUBSET Word(32), cqn : SUBSET Word(32), ts_format : SUBSET Word(8)]
dpcp_ibq_protocol == {{}, {0}, {2}}   \* 2110, 2110_EXT, ORAN_ECPRI
ibq_attr      == [user_index : SUBSET Word(32), cqn : SUBSET Word(32), ts_format : SUBSET Word(8),
                  protocol : dpcp_ibq_protocol, buf_stride_sz : SUBSET Word(64),
                  ibq_scatter_offset : SUBSET Word(8)]
sq_attr       == [user_index : SUBSET Word(32), cqn : SUBSET Word(32), tis_num : SUBSET Word(32)]

ASSUME AttrAssumption ==
  /\ CqAttrs \subseteq cq_attr /\ RqAttrs \subseteq rq_attr
  /\ IbqAttrs \subseteq ibq_attr /\ SqAttrs \subseteq sq_attr
  /\ States \subseteq {{}, {0}, {0, 1}}     \* sq_state: RST, RDY, ERR

(* The resources a queue was given before its context is filled; all       *)
(* differ, so that one in the place of another shows.                      *)
WqBuffer == {0, 30}
Doorbell == {1, 30}
UarPage  == {2, 20}
PdId     == {3, 20}
PpIdx    == {4, 15}
MkeyId   == {5, 31}

MEMORY_RQ_INLINE   == {}
MEMORY_RQ_IBQ      == {1}
WQ_CYCLIC          == {0}
CYCLIC_STRIDING_WQ == {0, 1}
RST                == {}
TS_DEFAULT         == {0}

(* A variant with a slip: the user index at the place of the CQ number. *)
UserIndex_AtCqn(attr) == DEVX_SET(rqc.cqn, attr.user_index \cap Word(24))
Moderation_Always(attr) ==
  DEVX_SET(cqc.cq_period, attr.cq_period) \cup DEVX_SET(cqc.cq_max_count, attr.cq_max_cnt)

(* cq::create.  Moderation only when cq_attr_use says so, the flags        *)
(* whether it says so or not; ATTR_CQ_PERIOD_MODE_FLAG is never looked at. *)
Moderation(attr) ==
  When("CQ_MODERATION" \in attr.use,
       DEVX_SET(cqc.cq_period, attr.cq_period) \cup DEVX_SET(cqc.cq_max_count, attr.cq_max_cnt))

cq_context(attr) ==
  DEVX_SET(cqc.c_eqn, attr.eq_num) \cup DEVX_SET(cqc.dbr_umem_id, Doorbell)
  \cup DEVX_SET(cqc.uar_page, UarPage) \cup Moderation(attr)
  \cup When("CQE_COLLAPSED" \in attr.flags, DEVX_SET(cqc.cc, One))
  \cup When("BREAK_MODERATION_EN" \in attr.flags, DEVX_SET(cqc.scqe_break_moderation_en, One))
  \cup When("OVERRUN_IGNORE" \in attr.flags, DEVX_SET(cqc.oi, One))

(* adapter::create_cq refuses attributes without a size or event queue. *)
create_cq_context(attr) ==
  Call("cq_context", attr, IF {"CQ_SIZE", "CQ_EQ_NUM"} \subseteq attr.use
                   THEN [ret |-> "DPCP_OK", ctx |-> cq_context(attr)]
                   ELSE [ret |-> "DPCP_ERR_INVALID_PARAM"])

(* m_attr.user_index & 0xFFFFFF; pp_sq::create uses the layout of a        *)
(* receive queue for it too.                                               *)
UserIndex(attr) == DEVX_SET(rqc.user_index, attr.user_index \cap Word(24))

work_queue(type, uar) ==
  DEVX_SET(wq.wq_type, type) \cup DEVX_SET(wq.pd, PdId \cap Word(24)) \cup DEVX_SET(wq.uar_page, uar)
  \cup DEVX_SET(wq.dbr_umem_valid, One) \cup DEVX_SET(wq.wq_umem_valid, One)
  \cup DEVX_SET(wq.dbr_umem_id, Doorbell) \cup DEVX_SET(wq.wq_umem_id, WqBuffer)

rq_common(attr, mem_type) ==
  DEVX_SET(rqc.vlan_strip_disable, One) \cup DEVX_SET(rqc.mem_rq_type, mem_type)
  \cup DEVX_SET(rqc.state, RST) \cup DEVX_SET(rqc.ts_format, attr.ts_format)
  \cup UserIndex(attr) \cup DEVX_SET(rqc.cqn, attr.cqn)

rq_context(attr, type) ==
  rq_common(attr, MEMORY_RQ_INLINE) \cup DEVX_SET(rqc.flush_in_error_en, One)
  \cup DEVX_ADDR_OF(rqc.wq, work_queue(type, {}))

ibq_context(attr) ==
  rq_common(attr, MEMORY_RQ_IBQ)
  \cup DEVX_SET(rqc.ibq_wire_protocol, attr.protocol) \cup DEVX_SET(rqc.ibq_segment_size, attr.buf_stride_sz)
  \cup DEVX_SET(rqc.ibq_scatter_offset, attr.ibq_scatter_offset) \cup DEVX_SET(rqc.ibq_mkey, MkeyId)
  \cup DEVX_ADDR_OF(rqc.wq, DEVX_SET(wq.pd, PdId \cap Word(24)))

sq_context(attr) ==
  DEVX_SET(sqc.flush_in_error_en, One) \cup DEVX_SET(sqc.allow_multi_pkt_send_wqe, One)
  \cup DEVX_SET(sqc.state, RST) \cup DEVX_SET(sqc.ts_format, TS_DEFAULT)
  \cup UserIndex(attr) \cup DEVX_SET(sqc.cqn, attr.cqn)
  \cup DEVX_SET(sqc.packet_pacing_rate_limit_index, PpIdx \cap Word(16))
  \cup DEVX_SET(sqc.tis_lst_sz, One) \cup DEVX_SET(sqc.tis_num_0, attr.tis_num \cap Word(24))
  \cup DEVX_ADDR_OF(sqc.wq, work_queue(WQ_CYCLIC, UarPage \cap Word(24)))

Filled(op, attr, ctx) == Call(op, attr, [ret |-> "DPCP_OK", ctx |-> ctx])

(* sq::modify_state finds the context where create_sq_in has it. *)
modify_sq(from, to) ==
  Call("modify_sq", [from |-> from, to |-> to],
       [ret |-> "DPCP_OK",
        ctx |-> DEVX_SET(modify_sq_in.sq_state, from) \cup DEVX_SET(modify_sq_in.sqn, {0, 23})
                \cup DEVX_ADDR_OF(create_sq_in.ctx, DEVX_SET(sqc.state, to))])

ContextsNext ==
  \/ \E attr \in CqAttrs : create_cq_context(attr)
  \/ \E attr \in RqAttrs : \/ Filled("rq_context", attr, rq_context(attr, CYCLIC_STRIDING_WQ))
                           \/ Filled("rq_context", attr, rq_context(attr, WQ_CYCLIC))
  \/ \E attr \in IbqAttrs : Filled("ibq_context", attr, ibq_context(attr))
  \/ \E attr \in SqAttrs : Filled("sq_context", attr, sq_context(attr))
  \/ \E from, to \in States : modify_sq(from, to)

ContextsSpec == CallsInit /\ [][ContextsNext \/ Return]_last

----------------------------------------------------------------------------
Is(op)   == last.op = op /\ last.out.ret = "DPCP_OK"
Has(f)   == DEVX_GET(f, last.out.ctx)
WqHas(f) == DEVX_GET(f, PartOf(rqc.wq, last.out.ctx))
Flag(name) == IF name \in last.in.flags THEN One ELSE {}

(* The device reads from the context of a CQ what the attributes that are  *)
(* in use say, of the flags the three cq::create looks at, and moderates   *)
(* nothing if that is not in use; the doorbell record and the page are the *)
(* queue's.  Of the event queue 8 bits arrive, of the period 12, of the    *)
(* count 16.  What becomes of the other flags, and of flags that are not   *)
(* in use, is the subject of CqFlagsAsMarked.                              *)
CqAsAsked ==
  Is("cq_context") =>
    LET moderates(v, n) == IF "CQ_MODERATION" \in last.in.use THEN v \cap Word(n) ELSE {}
    IN  /\ Has(cqc.c_eqn) = last.in.eq_num \cap Word(8)
        /\ Has(cqc.cq_period) = moderates(last.in.cq_period, 12)
        /\ Has(cqc.cq_max_count) = moderates(last.in.cq_max_cnt, 16)
        /\ "CQ_FLAGS" \in last.in.use =>
             /\ Has(cqc.cc) = Flag("CQE_COLLAPSED") /\ Has(cqc.oi) = Flag("OVERRUN_IGNORE")
             /\ Has(cqc.scqe_break_moderation_en) = Flag("BREAK_MODERATION_EN")
        /\ Has(cqc.dbr_umem_id) = Doorbell /\ Has(cqc.uar_page) = UarPage

(* What the interface says of the flags of a CQ: cq_attr_use has the       *)
(* attributes "which should be applied and use", CQ_FLAGS stands for the   *)
(* flags, and each flag is a bit of the context.  cq::create looks at      *)
(* three flags whether they are in use or not, and never at the fourth.    *)
CqFlagsAsMarked ==
  Is("cq_context") =>
    LET marked(name) == IF "CQ_FLAGS" \in last.in.use THEN Flag(name) ELSE {}
    IN  /\ Has(cqc.cc) = marked("CQE_COLLAPSED") /\ Has(cqc.oi) = marked("OVERRUN_IGNORE")
        /\ Has(cqc.scqe_break_moderation_en) = marked("BREAK_MODERATION_EN")
        /\ Has(cqc.cq_period_mode) = marked("PERIOD_MODE")

(* The device reads from the context of a receive or send queue the CQ,    *)
(* user index, format, TIS and key its attributes name, the memory and the *)
(* protection domain it was given, and from the command of modify_state    *)
(* the state that is asked for: no field is written over another, although *)
(* layouts of other structures are used to find them.                      *)
WqAsAsked ==
  /\ Is("rq_context") \/ Is("ibq_context") =>
       /\ Has(rqc.user_index) = last.in.user_index \cap Word(24) /\ Has(rqc.cqn) = last.in.cqn \cap Word(24)
       /\ Has(rqc.ts_format) = last.in.ts_format \cap Word(2) /\ Has(rqc.state) = RST
  /\ Is("ibq_context") => /\ Has(rqc.ibq_mkey) = MkeyId /\ Has(rqc.mem_rq_type) = MEMORY_RQ_IBQ
                  /\ Has(rqc.ibq_segment_size) = last.in.buf_stride_sz \cap Word(16)
                  /\ Has(rqc.ibq_wire_protocol) = last.in.protocol
                  /\ Has(rqc.ibq_scatter_offset) = last.in.ibq_scatter_offset
  /\ Is("sq_context") =>
       /\ Has(sqc.user_index) = last.in.user_index \cap Word(24) /\ Has(sqc.cqn) = last.in.cqn \cap Word(24)
       /\ Has(sqc.tis_num_0) = last.in.tis_num \cap Word(24) /\ Has(sqc.tis_lst_sz) = One
       /\ Has(sqc.packet_pacing_rate_limit_index) = PpIdx /\ Has(sqc.state) = RST
       /\ WqHas(wq.uar_page) = UarPage
  /\ Is("rq_context") \/ Is("sq_context") => WqHas(wq.wq_umem_id) = WqBuffer /\ WqHas(wq.dbr_umem_id) = Doorbell
  /\ Is("rq_context") \/ Is("ibq_context") \/ Is("sq_context") => WqHas(wq.pd) = PdId
  /\ Is("modify_sq") => /\ DEVX_GET(sqc.state, PartOf(modify_sq_in.ctx, last.out.ctx)) = last.in.to
                        /\ Has(modify_sq_in.sq_state) = last.in.from
=============================================================================
