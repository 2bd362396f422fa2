----------------------------- MODULE RingSizes -----------------------------
(***************************************************************************)
(* The numbers a queue is created with: the bytes of the buffer that is    *)
(* allocated and registered, computed from the attributes in 32 bits, and  *)
(* the logarithms of entry size and entry count that the device is told,   *)
(* in fields of a few bits (cq.cpp, rq.cpp, sq.cpp, ilog2 of internal.h).  *)
(* The device addresses 2^log_stride * 2^log_num bytes of the buffer.      *)
(* Widths are parameters so that the overflows happen at numbers that can  *)
(* be enumerated.                                                          *)
(***************************************************************************)
EXTENDS Calls, Integers

CONSTANTS
  W,            \* bits of uint32_t and of int
  StrideField,  \* 2^bits of wq.log_wq_stride
  NumField,     \* 2^bits of wq.log_wq_sz and cqc.log_cq_size
  MAX_CQ_SZ,
  Page,         \* get_page_size()
  NumArg, SzArg, StrideNumArg, StrideSzArg, LogArg,  \* arguments tried
  Hangs         \* ilog2 does not return

ASSUME RingAssumption ==
  /\ W \in Nat /\ W > 4 /\ StrideField \in 1..W /\ NumField \in Nat /\ NumField >= W
  /\ MAX_CQ_SZ \in Nat /\ 64 * MAX_CQ_SZ < 2^W
  /\ \A args \in {NumArg, SzArg, StrideNumArg, StrideSzArg} : \A x \in args : x \in Nat /\ x < 2^W
  /\ LogArg \subseteq Int
  /\ Page \in Nat \ {0} /\ Hangs \notin Int

U32(x)      == x % 2^W
AsInt(x)    == IF U32(x) >= 2^(W - 1) THEN U32(x) - 2^W ELSE U32(x)
Field(x, m) == x % m          \* DEVX_SET keeps the bits of the field
IsPow2(x)   == \E e \in 0..W : x = 2^e

(* Variant with a slip: an empty buffer is registered. *)
Registrable_Always(buf) == TRUE

(* while ((1 << e) < n) ++e.  1 << (W - 1) is negative and what comes      *)
(* after it is below n again: the loop has no end.                         *)
ilog2(n) ==
  LET loop[e \in 0..(W - 1)] ==
        IF e = W - 1 THEN Hangs ELSE IF 2^e < n THEN loop[e + 1] ELSE e
  IN  IF n <= 0 THEN -1 ELSE loop[0]

(* reg_mem refuses a buffer of no bytes. *)
Registrable(buf) == buf # 0

(* The range of the logarithms of the strides of a striding RQ. *)
InRange(log, min, max) == min <= log /\ log <= max

(* m_wq_buf_sz_bytes, in basic_rq::basic_rq and pp_sq::pp_sq *)
WqBytes(num, sz) == U32(16 * sz * num)

(* The bytes that are allocated for a buffer: allocate_cq_buf and the      *)
(* allocate_wq_buf of a send queue take what they are told, that of a      *)
(* receive queue whole pages.                                              *)
CqAllocated(buf) == buf
SqAllocated(buf) == buf
RqAllocated(buf) == ((buf + Page - 1) \div Page) * Page

Refused == [ret |-> "error"]
Hung    == [ret |-> "hangs"]
Ring(buf, alloc, stride, num) ==
  [ret |-> "DPCP_OK", buf |-> buf, alloc |-> alloc, log_stride |-> Field(stride, StrideField),
   log_num |-> Field(num, NumField)]
Strided(ring, log_sn, log_ss) ==
  [ret |-> ring.ret, buf |-> ring.buf, alloc |-> ring.alloc, log_stride |-> ring.log_stride,
   log_num |-> ring.log_num, log_sn |-> log_sn, log_ss |-> log_ss]

(* The outcome of a creation that computes the logarithms of logs. *)
Unless(logs, outcome) == IF Hangs \in logs THEN Hung ELSE outcome

RingCall(op, n, sz, outcome) == Call(op, [num |-> n, sz |-> sz], outcome)

----------------------------------------------------------------------------
(* adapter::create_cq, cq::cq, cq::init and cq::create *)
create_cq(n) ==
  LET buf == U32(64 * n)
  IN  RingCall("cq", n, 64,
           IF n = 0 \/ ~Registrable(buf) \/ n > MAX_CQ_SZ THEN Refused
           ELSE Unless({ilog2(AsInt(n))}, Ring(buf, CqAllocated(buf), 6, ilog2(AsInt(n)))))

(* striding_rq::create: wqe_sz counts data segments of 16 bytes, its       *)
(* logarithm is the stride the device uses.                                *)
create_striding(n, sz, sn, ss) ==
  LET buf    == WqBytes(n, sz)
      log_sn == ilog2(AsInt(sn))
      log_ss == ilog2(AsInt(ss))
  IN  RingCall("striding_rq", n, sz,
           IF ~Registrable(buf) THEN Refused
           ELSE Unless({ilog2(AsInt(sz)), ilog2(AsInt(n)), log_sn},
                  IF ~InRange(log_sn, 9, 16) THEN Refused
                  ELSE Unless({log_ss},
                         IF ~InRange(log_ss, 6, 13) THEN Refused
                         ELSE Strided(Ring(buf, RqAllocated(buf), ilog2(AsInt(sz)), ilog2(AsInt(n))),
                                      log_sn - 9, log_ss - 6))))

(* basic_rq::get_wq_stride_sz, which regular_rq::create uses *)
RegularStride(sz) == U32(16 * sz)

(* regular_rq::create *)
create_regular(n, sz) ==
  LET buf  == WqBytes(n, sz)
      logs == {ilog2(AsInt(RegularStride(sz))), ilog2(AsInt(n))}
  IN  RingCall("regular_rq", n, sz,
           IF ~Registrable(buf) THEN Refused
           ELSE Unless(logs, Ring(buf, RqAllocated(buf), ilog2(AsInt(RegularStride(sz))), ilog2(AsInt(n)))))

(* pp_sq::create *)
create_sq(n, sz) ==
  LET buf  == WqBytes(n, sz)
      logs == {ilog2(AsInt(sz)), ilog2(AsInt(n))}
  IN  RingCall("pp_sq", n, sz,
           IF ~Registrable(buf) THEN Refused
           ELSE Unless(logs, Ring(buf, SqAllocated(buf), ilog2(AsInt(sz)), ilog2(AsInt(n)))))

log2(n) == RingCall("ilog2", n, 0, [ret |-> ilog2(n)])

RingNext ==
  \/ \E n \in NumArg : create_cq(n)
  \/ \E n \in NumArg, sz \in SzArg :
       \/ create_regular(n, sz)
       \/ create_sq(n, sz)
       \/ \E sn \in StrideNumArg, ss \in StrideSzArg : create_striding(n, sz, sn, ss)
  \/ \E n \in LogArg : log2(n)

RingSpec == CallsInit /\ [][RingNext \/ Return]_last

----------------------------------------------------------------------------
Created(op) == last.op = op /\ last.out.ret = "DPCP_OK"
IsRing      == last.op \in {"cq", "striding_rq", "regular_rq", "pp_sq"} /\ last.out.ret = "DPCP_OK"

(* The attributes are powers of two, as the comments on them demand: then  *)
(* everything the device addresses lies in the buffer that was registered, *)
(* also when the number of bytes does not fit in 32 bits; what is          *)
(* registered lies in what was allocated; the strides of a striding RQ fit *)
(* the fields of 4 and 3 bits, neither negative nor cut off; and ilog2, by *)
(* which all are computed, is the least e with n <= 2^e for every n up to  *)
(* 2^(W-2), a quarter of the range of uint32_t, from where on its loop has *)
(* no end.                                                                 *)
RingFits ==
  /\ IsRing /\ IsPow2(last.in.num) /\ IsPow2(last.in.sz) =>
       \E b \in 0..W : 2^b <= last.out.buf /\ last.out.log_stride + last.out.log_num <= b
  /\ IsRing => last.out.buf <= last.out.alloc
  /\ Created("striding_rq") => last.out.log_sn \in 0..15 /\ last.out.log_ss \in 0..7
  /\ last.op = "ilog2" /\ last.in.num > 0 =>
       IF last.in.num > 2^(W - 2)
       THEN last.out.ret = Hangs
       ELSE /\ last.out.ret \in 0..(W - 2) /\ last.in.num <= 2^last.out.ret
            /\ \A e \in 0..(W - 2) : last.in.num <= 2^e => last.out.ret <= e
=============================================================================
