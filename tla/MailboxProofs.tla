---------------------------- MODULE MailboxProofs ----------------------------
(***************************************************************************)
(* What the library writes in its mailboxes is what was asked for.  An     *)
(* entry of a flow table selects the packets its criteria and values       *)
(* describe, on a root table and on the others; a flow_rule selects those  *)
(* its values describe; the context of a queue says what its attributes    *)
(* ask for.  For any criteria, values, packets and attributes.             *)
(***************************************************************************)
EXTENDS QueueContexts, FlowMatch, TLAPS

----------------------------------------------------------------------------
(* Fields of a mailbox. *)

(* The bits at to hi are a field of w bits. *)
Span(at, hi, w) == at \in Nat /\ w \in Nat /\ hi \in Int /\ hi = at + w - 1

(* In the bits from at to hi, b is what DEVX_SET writes of v. *)
Holds(at, hi, w, v, b) == \A x \in at .. hi : x \in b <=> x \in DEVX_SET(F(at, w), v)

(* A value or a structure of w bits. *)
Fits(v, w) == v \subseteq 0 .. (w - 1)

(* In the bits from at to hi, b is the structure part. *)
Carries(at, hi, w, part, b) == \A x \in at .. hi : x \in b <=> x \in DEVX_ADDR_OF(F(at, w), part)

(* DEVX_SET writes inside its field. *)
LEMMA SetWithin ==
  ASSUME NEW at, NEW hi, NEW w, Span(at, hi, w), NEW v
  PROVE  DEVX_SET(F(at, w), v) \subseteq at .. hi
BY DEF DEVX_SET, Place, F, Span

(* A bit of a value is at its place in the field. *)
LEMMA SetPlace ==
  ASSUME NEW at \in Nat, NEW w \in Nat, NEW v, NEW i \in 0 .. (w - 1)
  PROVE  (at + w - 1 - i \in DEVX_SET(F(at, w), v)) <=> i \in v
<1>1. DEVX_SET(F(at, w), v) = {at + w - 1 - j : j \in v \cap 0 .. (w - 1)}
  BY DEF DEVX_SET, Place, F
<1>2. ASSUME at + w - 1 - i \in DEVX_SET(F(at, w), v) PROVE i \in v
  <2>1. PICK j \in v \cap 0 .. (w - 1) : at + w - 1 - i = at + w - 1 - j
    BY <1>1, <1>2
  <2>2. i = j
    BY <2>1
  <2>3. QED
    BY <2>1, <2>2
<1>3. ASSUME i \in v PROVE at + w - 1 - i \in DEVX_SET(F(at, w), v)
  BY <1>1, <1>3
<1>4. QED
  BY <1>2, <1>3

(* A field written among others reads as its value, cut to its width. *)
LEMMA GetCut ==
  ASSUME NEW at, NEW hi, NEW w, Span(at, hi, w), NEW v, NEW b, Holds(at, hi, w, v, b)
  PROVE  DEVX_GET(F(at, w), b) = v \cap (0 .. (w - 1))
<1> USE DEF Span
<1>1. DEVX_GET(F(at, w), b) = {i \in 0 .. (w - 1) : at + w - 1 - i \in b}
  BY DEF DEVX_GET, Place, F
<1>2. \A i \in 0 .. (w - 1) : (at + w - 1 - i \in b) <=> i \in v
  <2> SUFFICES ASSUME NEW i \in 0 .. (w - 1) PROVE (at + w - 1 - i \in b) <=> i \in v
    OBVIOUS
  <2>1. at + w - 1 - i \in at .. hi
    OBVIOUS
  <2>2. (at + w - 1 - i \in b) <=> (at + w - 1 - i \in DEVX_SET(F(at, w), v))
    BY <2>1 DEF Holds
  <2>3. QED
    BY <2>2, SetPlace, Zenon
<1>3. QED
  BY <1>1, <1>2

(* A structure at an offset of another is read back from there. *)
LEMMA PartBack ==
  ASSUME NEW at, NEW hi, NEW w, Span(at, hi, w), NEW part, Fits(part, w), NEW b,
         Carries(at, hi, w, part, b)
  PROVE  PartOf(F(at, w), b) = part
<1> USE DEF Span, Fits, Carries
<1>1. DEVX_ADDR_OF(F(at, w), part) = {at + p : p \in part}
  BY DEF DEVX_ADDR_OF, F
<1>2. PartOf(F(at, w), b) = {p - at : p \in b \cap (at .. hi)}
  BY DEF PartOf, Bits, F
<1>3. \A p \in part : p \in PartOf(F(at, w), b)
  <2> SUFFICES ASSUME NEW p \in part PROVE p \in PartOf(F(at, w), b)
    OBVIOUS
  <2>1. at + p \in at .. hi /\ (at + p) - at = p
    OBVIOUS
  <2>2. at + p \in b
    BY <1>1, <2>1
  <2>3. QED
    BY <1>2, <2>1, <2>2
<1>4. \A q \in PartOf(F(at, w), b) : q \in part
  <2> SUFFICES ASSUME NEW x \in b \cap (at .. hi) PROVE x - at \in part
    BY <1>2
  <2>1. PICK p \in part : x = at + p
    BY <1>1
  <2>2. x - at = p
    BY <2>1
  <2>3. QED
    BY <2>1, <2>2
<1>5. QED
  BY <1>3, <1>4, Zenon

(* A part lies where its offset and its width say. *)
LEMMA PartWithin ==
  ASSUME NEW at, NEW hi, NEW w, Span(at, hi, w), NEW part, Fits(part, w)
  PROVE  DEVX_ADDR_OF(F(at, w), part) \subseteq at .. hi
BY DEF DEVX_ADDR_OF, F, Span, Fits

----------------------------------------------------------------------------
(* Contexts of queues. *)

(* None of the bits from lo to top is in b. *)
Clear(lo, top, b) == \A x \in lo .. top : x \notin b

(* A field that holds a value reads as it, whatever name it goes by. *)
LEMMA FieldRead ==
  ASSUME NEW at, NEW hi, NEW w, Span(at, hi, w), NEW v, NEW b, Holds(at, hi, w, v, b), NEW f, f = F(at, w)
  PROVE  DEVX_GET(f, b) = v \cap Word(w)
BY GetCut DEF Word

(* A structure carried in another is found there by its name. *)
LEMMA PartRead ==
  ASSUME NEW at, NEW hi, NEW w, Span(at, hi, w), NEW part, Fits(part, w), NEW b,
         Carries(at, hi, w, part, b), NEW f, f = F(at, w)
  PROVE  PartOf(f, b) = part
BY PartBack

(* A field that ends before a structure does fits in it. *)
LEMMA SetFits ==
  ASSUME NEW at, NEW hi, NEW w, Span(at, hi, w), NEW v, NEW n \in Int, hi < n
  PROVE  Fits(DEVX_SET(F(at, w), v), n)
<1>1. DEVX_SET(F(at, w), v) \subseteq at .. hi
  BY SetWithin
<1> DEFINE S == DEVX_SET(F(at, w), v)
<1> HIDE DEF S
<1>2. S \subseteq at .. hi
  BY <1>1 DEF S
<1>3. Fits(S, n)
  BY <1>2 DEF Fits, Span
<1>4. QED
  BY <1>3 DEF S

(* A field leaves the bits behind it as they are. *)
LEMMA SetClear ==
  ASSUME NEW at, NEW hi, NEW w, Span(at, hi, w), NEW v, NEW lo \in Int, hi < lo, NEW top \in Int
  PROVE  Clear(lo, top, DEVX_SET(F(at, w), v))
<1>1. DEVX_SET(F(at, w), v) \subseteq at .. hi
  BY SetWithin
<1> DEFINE S == DEVX_SET(F(at, w), v)
<1> HIDE DEF S
<1>2. S \subseteq at .. hi
  BY <1>1 DEF S
<1>3. Clear(lo, top, S)
  BY <1>2 DEF Clear, Span
<1>4. QED
  BY <1>3 DEF S

(* What an attribute that is used only under a condition gives a field. *)
Used(name, names, value) == IF name \in names THEN value ELSE {}

(* Writing a value under a condition is writing it or zero. *)
LEMMA WhenUsed ==
  ASSUME NEW f, NEW name, NEW names, NEW v
  PROVE  DEVX_SET(f, Used(name, names, v)) = IF name \in names THEN DEVX_SET(f, v) ELSE {}
BY Zenon DEF DEVX_SET, Used

(* What cq::create writes is what the fields of a CQ's context read as:    *)
(* moderation and flags only if they are in use.                           *)
LEMMA CqContext ==
  ASSUME NEW a
  PROVE  /\ DEVX_GET(cqc.c_eqn, cq_context(a)) = a.eq_num \cap Word(8)
         /\ DEVX_GET(cqc.dbr_umem_id, cq_context(a)) = Doorbell \cap Word(32)
         /\ DEVX_GET(cqc.uar_page, cq_context(a)) = UarPage \cap Word(24)
         /\ DEVX_GET(cqc.cq_period, cq_context(a)) = (Used("CQ_MODERATION", a.use, a.cq_period)) \cap Word(12)
         /\ DEVX_GET(cqc.cq_max_count, cq_context(a)) = (Used("CQ_MODERATION", a.use, a.cq_max_cnt)) \cap Word(16)
         /\ DEVX_GET(cqc.cc, cq_context(a)) = (Used("CQE_COLLAPSED", a.flags, One)) \cap Word(1)
         /\ DEVX_GET(cqc.scqe_break_moderation_en, cq_context(a)) = (Used("BREAK_MODERATION_EN", a.flags, One)) \cap Word(1)
         /\ DEVX_GET(cqc.oi, cq_context(a)) = (Used("OVERRUN_IGNORE", a.flags, One)) \cap Word(1)
<1>1. /\ cqc.c_eqn = F(184, 8)
      /\ cqc.dbr_umem_id = F(32, 32)
      /\ cqc.uar_page = F(104, 24)
      /\ cqc.cq_period = F(132, 12)
      /\ cqc.cq_max_count = F(144, 16)
      /\ cqc.cc = F(11, 1)
      /\ cqc.scqe_break_moderation_en = F(13, 1)
      /\ cqc.oi = F(14, 1)
  BY Zenon DEF cqc
<1>2. /\ Span(11, 11, 1)
      /\ Span(13, 13, 1)
      /\ Span(14, 14, 1)
      /\ Span(32, 63, 32)
      /\ Span(104, 127, 24)
      /\ Span(132, 143, 12)
      /\ Span(144, 159, 16)
      /\ Span(184, 191, 8)
  BY DEF Span
<1> DEFINE T1 == DEVX_SET(F(184, 8), a.eq_num)
           T2 == DEVX_SET(F(32, 32), Doorbell)
           T3 == DEVX_SET(F(104, 24), UarPage)
           T4 == DEVX_SET(F(132, 12), Used("CQ_MODERATION", a.use, a.cq_period))
           T5 == DEVX_SET(F(144, 16), Used("CQ_MODERATION", a.use, a.cq_max_cnt))
           T6 == DEVX_SET(F(11, 1), Used("CQE_COLLAPSED", a.flags, One))
           T7 == DEVX_SET(F(13, 1), Used("BREAK_MODERATION_EN", a.flags, One))
           T8 == DEVX_SET(F(14, 1), Used("OVERRUN_IGNORE", a.flags, One))
           box == cq_context(a)
<1>3. box = T1 \cup T2 \cup T3 \cup T4 \cup T5 \cup T6 \cup T7 \cup T8
  BY <1>1, WhenUsed DEF cq_context, Moderation, When
<1>4. /\ T1 \subseteq 184 .. 191
      /\ T2 \subseteq 32 .. 63
      /\ T3 \subseteq 104 .. 127
      /\ T4 \subseteq 132 .. 143
      /\ T5 \subseteq 144 .. 159
      /\ T6 \subseteq 11 .. 11
      /\ T7 \subseteq 13 .. 13
      /\ T8 \subseteq 14 .. 14
  BY <1>2, SetWithin
<1> HIDE DEF box, T1, T2, T3, T4, T5, T6, T7, T8
<1>5. /\ T1 \subseteq 184 .. 191
      /\ T2 \subseteq 32 .. 63
      /\ T3 \subseteq 104 .. 127
      /\ T4 \subseteq 132 .. 143
      /\ T5 \subseteq 144 .. 159
      /\ T6 \subseteq 11 .. 11
      /\ T7 \subseteq 13 .. 13
      /\ T8 \subseteq 14 .. 14
      /\ \A x : x \in box <=> x \in T1 \/ x \in T2 \/ x \in T3 \/ x \in T4 \/ x \in T5 \/ x \in T6 \/ x \in T7 \/ x \in T8
  BY <1>3, <1>4
<1>6. Holds(184, 191, 8, a.eq_num, box)
  BY <1>5 DEF T1, Holds
<1>7. Holds(32, 63, 32, Doorbell, box)
  BY <1>5 DEF T2, Holds
<1>8. Holds(104, 127, 24, UarPage, box)
  BY <1>5 DEF T3, Holds
<1>9. Holds(132, 143, 12, Used("CQ_MODERATION", a.use, a.cq_period), box)
  BY <1>5 DEF T4, Holds
<1>10. Holds(144, 159, 16, Used("CQ_MODERATION", a.use, a.cq_max_cnt), box)
  BY <1>5 DEF T5, Holds
<1>11. Holds(11, 11, 1, Used("CQE_COLLAPSED", a.flags, One), box)
  BY <1>5 DEF T6, Holds
<1>12. Holds(13, 13, 1, Used("BREAK_MODERATION_EN", a.flags, One), box)
  BY <1>5 DEF T7, Holds
<1>13. Holds(14, 14, 1, Used("OVERRUN_IGNORE", a.flags, One), box)
  BY <1>5 DEF T8, Holds
<1>14. /\ DEVX_GET(cqc.c_eqn, box) = a.eq_num \cap Word(8)
       /\ DEVX_GET(cqc.dbr_umem_id, box) = Doorbell \cap Word(32)
  BY <1>1, <1>2, <1>6, <1>7, FieldRead
<1>15. /\ DEVX_GET(cqc.uar_page, box) = UarPage \cap Word(24)
       /\ DEVX_GET(cqc.cq_period, box) = (Used("CQ_MODERATION", a.use, a.cq_period)) \cap Word(12)
  BY <1>1, <1>2, <1>8, <1>9, FieldRead
<1>16. /\ DEVX_GET(cqc.cq_max_count, box) = (Used("CQ_MODERATION", a.use, a.cq_max_cnt)) \cap Word(16)
       /\ DEVX_GET(cqc.cc, box) = (Used("CQE_COLLAPSED", a.flags, One)) \cap Word(1)
  BY <1>1, <1>2, <1>10, <1>11, FieldRead
<1>17. /\ DEVX_GET(cqc.scqe_break_moderation_en, box) = (Used("BREAK_MODERATION_EN", a.flags, One)) \cap Word(1)
       /\ DEVX_GET(cqc.oi, box) = (Used("OVERRUN_IGNORE", a.flags, One)) \cap Word(1)
  BY <1>1, <1>2, <1>12, <1>13, FieldRead
<1>18. QED
  BY <1>14, <1>15, <1>16, <1>17 DEF box

(* The part of a context that describes the ring. *)
LEMMA WorkQueue ==
  ASSUME NEW type, NEW uar
  PROVE  /\ DEVX_GET(wq.pd, work_queue(type, uar)) = ((PdId \cap Word(24))) \cap Word(24)
         /\ DEVX_GET(wq.uar_page, work_queue(type, uar)) = uar \cap Word(24)
         /\ DEVX_GET(wq.dbr_umem_id, work_queue(type, uar)) = Doorbell \cap Word(32)
         /\ DEVX_GET(wq.wq_umem_id, work_queue(type, uar)) = WqBuffer \cap Word(32)
         /\ Fits(work_queue(type, uar), 1536)
<1>1. /\ wq.wq_type = F(0, 4)
      /\ wq.pd = F(72, 24)
      /\ wq.uar_page = F(104, 24)
      /\ wq.dbr_umem_valid = F(288, 1)
      /\ wq.wq_umem_valid = F(289, 1)
      /\ wq.dbr_umem_id = F(320, 32)
      /\ wq.wq_umem_id = F(352, 32)
  BY Zenon DEF wq
<1>2. /\ Span(0, 3, 4)
      /\ Span(72, 95, 24)
      /\ Span(104, 127, 24)
      /\ Span(288, 288, 1)
      /\ Span(289, 289, 1)
      /\ Span(320, 351, 32)
      /\ Span(352, 383, 32)
  BY DEF Span
<1> DEFINE pd == PdId \cap Word(24)
<1> DEFINE T1 == DEVX_SET(F(0, 4), type)
           T2 == DEVX_SET(F(72, 24), pd)
           T3 == DEVX_SET(F(104, 24), uar)
           T4 == DEVX_SET(F(288, 1), One)
           T5 == DEVX_SET(F(289, 1), One)
           T6 == DEVX_SET(F(320, 32), Doorbell)
           T7 == DEVX_SET(F(352, 32), WqBuffer)
           box == work_queue(type, uar)
<1> HIDE DEF pd
<1>3. box = T1 \cup T2 \cup T3 \cup T4 \cup T5 \cup T6 \cup T7
  BY <1>1 DEF pd, work_queue
<1>4. /\ T1 \subseteq 0 .. 3
      /\ T2 \subseteq 72 .. 95
      /\ T3 \subseteq 104 .. 127
      /\ T4 \subseteq 288 .. 288
      /\ T5 \subseteq 289 .. 289
      /\ T6 \subseteq 320 .. 351
      /\ T7 \subseteq 352 .. 383
  BY <1>2, SetWithin
<1> HIDE DEF box, T1, T2, T3, T4, T5, T6, T7
<1>5. /\ T1 \subseteq 0 .. 3
      /\ T2 \subseteq 72 .. 95
      /\ T3 \subseteq 104 .. 127
      /\ T4 \subseteq 288 .. 288
      /\ T5 \subseteq 289 .. 289
      /\ T6 \subseteq 320 .. 351
      /\ T7 \subseteq 352 .. 383
      /\ \A x : x \in box <=> x \in T1 \/ x \in T2 \/ x \in T3 \/ x \in T4 \/ x \in T5 \/ x \in T6 \/ x \in T7
  BY <1>3, <1>4
<1>6. Holds(72, 95, 24, pd, box)
  BY <1>5 DEF T2, Holds
<1>7. Holds(104, 127, 24, uar, box)
  BY <1>5 DEF T3, Holds
<1>8. Holds(320, 351, 32, Doorbell, box)
  BY <1>5 DEF T6, Holds
<1>9. Holds(352, 383, 32, WqBuffer, box)
  BY <1>5 DEF T7, Holds
<1>10. /\ DEVX_GET(wq.pd, box) = pd \cap Word(24)
       /\ DEVX_GET(wq.uar_page, box) = uar \cap Word(24)
  BY <1>1, <1>2, <1>6, <1>7, FieldRead
<1>11. /\ DEVX_GET(wq.dbr_umem_id, box) = Doorbell \cap Word(32)
       /\ DEVX_GET(wq.wq_umem_id, box) = WqBuffer \cap Word(32)
  BY <1>1, <1>2, <1>8, <1>9, FieldRead
<1>12. Fits(box, 1536)
  <2>1. Fits(T1, 1536) /\ Fits(T2, 1536) /\ Fits(T3, 1536) /\ Fits(T4, 1536) /\ Fits(T5, 1536) /\ Fits(T6, 1536)
        /\ Fits(T7, 1536)
    BY <1>2, SetFits DEF T1, T2, T3, T4, T5, T6, T7
  <2> DEFINE n == 1536
  <2>2. Fits(T1, n) /\ Fits(T2, n) /\ Fits(T3, n) /\ Fits(T4, n) /\ Fits(T5, n) /\ Fits(T6, n) /\ Fits(T7, n)
    BY <2>1
  <2> HIDE DEF n
  <2>3. Fits(box, n)
    BY <2>2, <1>3, Zenon DEF Fits
  <2>4. QED
    BY <2>3 DEF n
<1>13. QED
  BY <1>10, <1>11, <1>12 DEF box, pd

(* The context of a striding or regular receive queue. *)
LEMMA RqContext ==
  ASSUME NEW a, NEW type
  PROVE  /\ DEVX_GET(rqc.state, rq_context(a, type)) = RST \cap Word(4)
         /\ DEVX_GET(rqc.ts_format, rq_context(a, type)) = a.ts_format \cap Word(2)
         /\ DEVX_GET(rqc.user_index, rq_context(a, type)) = ((a.user_index \cap Word(24))) \cap Word(24)
         /\ DEVX_GET(rqc.cqn, rq_context(a, type)) = a.cqn \cap Word(24)
         /\ PartOf(rqc.wq, rq_context(a, type)) = work_queue(type, {})
<1>1. /\ rqc.vlan_strip_disable = F(3, 1)
      /\ rqc.mem_rq_type = F(4, 4)
      /\ rqc.state = F(8, 4)
      /\ rqc.ts_format = F(26, 2)
      /\ rqc.user_index = F(40, 24)
      /\ rqc.cqn = F(72, 24)
      /\ rqc.flush_in_error_en = F(13, 1)
      /\ rqc.wq = F(384, 1536)
  BY Zenon DEF rqc
<1>2. /\ Span(3, 3, 1)
      /\ Span(4, 7, 4)
      /\ Span(8, 11, 4)
      /\ Span(13, 13, 1)
      /\ Span(26, 27, 2)
      /\ Span(40, 63, 24)
      /\ Span(72, 95, 24)
      /\ Span(384, 1919, 1536)
  BY DEF Span
<1> DEFINE user == a.user_index \cap Word(24)
<1> DEFINE T1 == DEVX_SET(F(3, 1), One)
           T2 == DEVX_SET(F(4, 4), MEMORY_RQ_INLINE)
           T3 == DEVX_SET(F(8, 4), RST)
           T4 == DEVX_SET(F(26, 2), a.ts_format)
           T5 == DEVX_SET(F(40, 24), user)
           T6 == DEVX_SET(F(72, 24), a.cqn)
           T7 == DEVX_SET(F(13, 1), One)
           Q == work_queue(type, {})
           P == DEVX_ADDR_OF(F(384, 1536), Q)
           box == rq_context(a, type)
<1> HIDE DEF user
<1>3. box = T1 \cup T2 \cup T3 \cup T4 \cup T5 \cup T6 \cup T7 \cup P
  <2>1. /\ DEVX_SET(rqc.vlan_strip_disable, One) = T1
        /\ DEVX_SET(rqc.mem_rq_type, MEMORY_RQ_INLINE) = T2
        /\ DEVX_SET(rqc.state, RST) = T3
        /\ DEVX_SET(rqc.ts_format, a.ts_format) = T4
        /\ UserIndex(a) = T5
        /\ DEVX_SET(rqc.cqn, a.cqn) = T6
        /\ DEVX_SET(rqc.flush_in_error_en, One) = T7
        /\ DEVX_ADDR_OF(rqc.wq, work_queue(type, {})) = P
    BY <1>1 DEF user, UserIndex
  <2> HIDE DEF T1, T2, T3, T4, T5, T6, T7, P
  <2>2. QED
    BY <2>1, Zenon DEF rq_context, rq_common
<1>4. /\ T1 \subseteq 3 .. 3
      /\ T2 \subseteq 4 .. 7
      /\ T3 \subseteq 8 .. 11
      /\ T4 \subseteq 26 .. 27
      /\ T5 \subseteq 40 .. 63
      /\ T6 \subseteq 72 .. 95
      /\ T7 \subseteq 13 .. 13
  BY <1>2, SetWithin
<1>5. Fits(Q, 1536)
  BY WorkQueue
<1> HIDE DEF Q
<1>6. P \subseteq 384 .. 1919
  BY <1>5, <1>2, PartWithin
<1> HIDE DEF box, T1, T2, T3, T4, T5, T6, T7, P
<1>7. \A x : x \in box <=> x \in T1 \/ x \in T2 \/ x \in T3 \/ x \in T4 \/ x \in T5 \/ x \in T6 \/ x \in T7 \/ x \in P
  BY <1>3
<1>8. /\ T1 \subseteq 3 .. 3
      /\ T2 \subseteq 4 .. 7
      /\ T3 \subseteq 8 .. 11
      /\ T4 \subseteq 26 .. 27
      /\ T5 \subseteq 40 .. 63
      /\ T6 \subseteq 72 .. 95
      /\ T7 \subseteq 13 .. 13
      /\ P \subseteq 384 .. 1919
      /\ \A x : x \in box <=> x \in T1 \/ x \in T2 \/ x \in T3 \/ x \in T4 \/ x \in T5 \/ x \in T6 \/ x \in T7 \/ x \in P
  BY <1>7, <1>4, <1>6
<1>9. Holds(8, 11, 4, RST, box)
  BY <1>8 DEF T3, Holds
<1>10. Holds(26, 27, 2, a.ts_format, box)
  BY <1>8 DEF T4, Holds
<1>11. Holds(40, 63, 24, user, box)
  BY <1>8 DEF T5, Holds
<1>12. Holds(72, 95, 24, a.cqn, box)
  BY <1>8 DEF T6, Holds
<1>13. /\ DEVX_GET(rqc.state, box) = RST \cap Word(4)
       /\ DEVX_GET(rqc.ts_format, box) = a.ts_format \cap Word(2)
  BY <1>1, <1>2, <1>9, <1>10, FieldRead
<1>14. /\ DEVX_GET(rqc.user_index, box) = user \cap Word(24)
       /\ DEVX_GET(rqc.cqn, box) = a.cqn \cap Word(24)
  BY <1>1, <1>2, <1>11, <1>12, FieldRead
<1>15. PartOf(rqc.wq, box) = Q
  <2>1. Carries(384, 1919, 1536, Q, box)
    <3> DEFINE lo == 384
               hi == 1919
               wd == 1536
    <3>1. /\ Clear(384, 1919, T1)
          /\ Clear(384, 1919, T2)
          /\ Clear(384, 1919, T3)
          /\ Clear(384, 1919, T4)
          /\ Clear(384, 1919, T5)
          /\ Clear(384, 1919, T6)
          /\ Clear(384, 1919, T7)
      BY <1>2, SetClear DEF T1, T2, T3, T4, T5, T6, T7
    <3>2. Clear(lo, hi, T1) /\ Clear(lo, hi, T2) /\ Clear(lo, hi, T3) /\ Clear(lo, hi, T4) /\ Clear(lo, hi, T5) /\ Clear(lo, hi, T6) /\ Clear(lo, hi, T7)
      BY <3>1
    <3>3. P = DEVX_ADDR_OF(F(lo, wd), Q)
      BY DEF P
    <3> HIDE DEF lo, hi, wd
    <3>4. Carries(lo, hi, wd, Q, box)
      BY <3>2, <3>3, <1>7, Zenon DEF Clear, Carries
    <3>5. QED
      BY <3>4 DEF lo, hi, wd
  <2>2. QED
    BY <1>1, <1>2, <1>5, <2>1, PartRead
<1>16. QED
  BY <1>13, <1>14, <1>15, Zenon DEF box, Q, user

(* An in-band queue describes no ring: of the part only the PD is set. *)
LEMMA IbqPart ==
  /\ Fits(DEVX_SET(wq.pd, PdId \cap Word(24)), 1536)
  /\ DEVX_GET(wq.pd, DEVX_SET(wq.pd, PdId \cap Word(24))) = PdId \cap Word(24)
<1> DEFINE v == PdId \cap Word(24)
           S == DEVX_SET(F(72, 24), v)
<1>1. v \subseteq 0 .. (24 - 1)
  BY Zenon DEF Word
<1>2. wq.pd = F(72, 24)
  BY DEF wq
<1> HIDE DEF v
<1>3. Span(72, 95, 24)
  BY DEF Span
<1>4. S \subseteq 72 .. 95
  BY <1>3, SetWithin
<1>5. Holds(72, 95, 24, v, S)
  BY DEF Holds
<1> HIDE DEF S
<1>6. Fits(S, 1536)
  BY <1>4 DEF Fits
<1>7. DEVX_GET(F(72, 24), S) = v \cap (0 .. (24 - 1))
  BY <1>3, <1>5, GetCut
<1>8. DEVX_GET(F(72, 24), S) = v
  BY <1>1, <1>7, Zenon
<1>9. QED
  BY <1>2, <1>6, <1>8 DEF S, v

(* The context of a receive queue with an in-band queue's memory. *)
LEMMA IbqContext ==
  ASSUME NEW a
  PROVE  /\ DEVX_GET(rqc.mem_rq_type, ibq_context(a)) = MEMORY_RQ_IBQ \cap Word(4)
         /\ DEVX_GET(rqc.state, ibq_context(a)) = RST \cap Word(4)
         /\ DEVX_GET(rqc.ts_format, ibq_context(a)) = a.ts_format \cap Word(2)
         /\ DEVX_GET(rqc.user_index, ibq_context(a)) = ((a.user_index \cap Word(24))) \cap Word(24)
         /\ DEVX_GET(rqc.cqn, ibq_context(a)) = a.cqn \cap Word(24)
         /\ DEVX_GET(rqc.ibq_wire_protocol, ibq_context(a)) = a.protocol \cap Word(8)
         /\ DEVX_GET(rqc.ibq_segment_size, ibq_context(a)) = a.buf_stride_sz \cap Word(16)
         /\ DEVX_GET(rqc.ibq_scatter_offset, ibq_context(a)) = a.ibq_scatter_offset \cap Word(8)
         /\ DEVX_GET(rqc.ibq_mkey, ibq_context(a)) = MkeyId \cap Word(32)
         /\ PartOf(rqc.wq, ibq_context(a)) = DEVX_SET(wq.pd, PdId \cap Word(24))
<1>1. /\ rqc.vlan_strip_disable = F(3, 1)
      /\ rqc.mem_rq_type = F(4, 4)
      /\ rqc.state = F(8, 4)
      /\ rqc.ts_format = F(26, 2)
      /\ rqc.user_index = F(40, 24)
      /\ rqc.cqn = F(72, 24)
      /\ rqc.ibq_wire_protocol = F(160, 8)
      /\ rqc.ibq_segment_size = F(192, 16)
      /\ rqc.ibq_scatter_offset = F(272, 8)
      /\ rqc.ibq_mkey = F(224, 32)
      /\ rqc.wq = F(384, 1536)
  BY Zenon DEF rqc
<1>2. /\ Span(3, 3, 1)
      /\ Span(4, 7, 4)
      /\ Span(8, 11, 4)
      /\ Span(26, 27, 2)
      /\ Span(40, 63, 24)
      /\ Span(72, 95, 24)
      /\ Span(160, 167, 8)
      /\ Span(192, 207, 16)
      /\ Span(224, 255, 32)
      /\ Span(272, 279, 8)
      /\ Span(384, 1919, 1536)
  BY DEF Span
<1> DEFINE user == a.user_index \cap Word(24)
<1> DEFINE T1 == DEVX_SET(F(3, 1), One)
           T2 == DEVX_SET(F(4, 4), MEMORY_RQ_IBQ)
           T3 == DEVX_SET(F(8, 4), RST)
           T4 == DEVX_SET(F(26, 2), a.ts_format)
           T5 == DEVX_SET(F(40, 24), user)
           T6 == DEVX_SET(F(72, 24), a.cqn)
           T7 == DEVX_SET(F(160, 8), a.protocol)
           T8 == DEVX_SET(F(192, 16), a.buf_stride_sz)
           T9 == DEVX_SET(F(272, 8), a.ibq_scatter_offset)
           T10 == DEVX_SET(F(224, 32), MkeyId)
           Q == DEVX_SET(wq.pd, PdId \cap Word(24))
           P == DEVX_ADDR_OF(F(384, 1536), Q)
           box == ibq_context(a)
<1> HIDE DEF user
<1>3. box = T1 \cup T2 \cup T3 \cup T4 \cup T5 \cup T6 \cup T7 \cup T8 \cup T9 \cup T10 \cup P
  <2>1. /\ DEVX_SET(rqc.vlan_strip_disable, One) = T1
        /\ DEVX_SET(rqc.mem_rq_type, MEMORY_RQ_IBQ) = T2
        /\ DEVX_SET(rqc.state, RST) = T3
        /\ DEVX_SET(rqc.ts_format, a.ts_format) = T4
        /\ UserIndex(a) = T5
        /\ DEVX_SET(rqc.cqn, a.cqn) = T6
        /\ DEVX_SET(rqc.ibq_wire_protocol, a.protocol) = T7
        /\ DEVX_SET(rqc.ibq_segment_size, a.buf_stride_sz) = T8
        /\ DEVX_SET(rqc.ibq_scatter_offset, a.ibq_scatter_offset) = T9
        /\ DEVX_SET(rqc.ibq_mkey, MkeyId) = T10
        /\ DEVX_ADDR_OF(rqc.wq, DEVX_SET(wq.pd, PdId \cap Word(24))) = P
    BY <1>1 DEF user, UserIndex
  <2> HIDE DEF T1, T2, T3, T4, T5, T6, T7, T8, T9, T10, P
  <2>2. QED
    BY <2>1, Zenon DEF ibq_context, rq_common
<1>4. /\ T1 \subseteq 3 .. 3
      /\ T2 \subseteq 4 .. 7
      /\ T3 \subseteq 8 .. 11
      /\ T4 \subseteq 26 .. 27
      /\ T5 \subseteq 40 .. 63
      /\ T6 \subseteq 72 .. 95
      /\ T7 \subseteq 160 .. 167
      /\ T8 \subseteq 192 .. 207
      /\ T9 \subseteq 272 .. 279
      /\ T10 \subseteq 224 .. 255
  BY <1>2, SetWithin
<1>5. Fits(Q, 1536)
  BY IbqPart
<1> HIDE DEF Q
<1>6. P \subseteq 384 .. 1919
  BY <1>5, <1>2, PartWithin
<1> HIDE DEF box, T1, T2, T3, T4, T5, T6, T7, T8, T9, T10, P
<1>7. \A x : x \in box <=> x \in T1 \/ x \in T2 \/ x \in T3 \/ x \in T4 \/ x \in T5 \/ x \in T6 \/ x \in T7 \/ x \in T8 \/ x \in T9 \/ x \in T10 \/ x \in P
  BY <1>3
<1>8. /\ T1 \subseteq 3 .. 3
      /\ T2 \subseteq 4 .. 7
      /\ T3 \subseteq 8 .. 11
      /\ T4 \subseteq 26 .. 27
      /\ T5 \subseteq 40 .. 63
      /\ T6 \subseteq 72 .. 95
      /\ T7 \subseteq 160 .. 167
      /\ T8 \subseteq 192 .. 207
      /\ T9 \subseteq 272 .. 279
      /\ T10 \subseteq 224 .. 255
      /\ P \subseteq 384 .. 1919
      /\ \A x : x \in box <=> x \in T1 \/ x \in T2 \/ x \in T3 \/ x \in T4 \/ x \in T5 \/ x \in T6 \/ x \in T7 \/ x \in T8 \/ x \in T9 \/ x \in T10 \/ x \in P
  BY <1>7, <1>4, <1>6
<1>9. Holds(4, 7, 4, MEMORY_RQ_IBQ, box)
  BY <1>8 DEF T2, Holds
<1>10. Holds(8, 11, 4, RST, box)
  BY <1>8 DEF T3, Holds
<1>11. Holds(26, 27, 2, a.ts_format, box)
  BY <1>8 DEF T4, Holds
<1>12. Holds(40, 63, 24, user, box)
  BY <1>8 DEF T5, Holds
<1>13. Holds(72, 95, 24, a.cqn, box)
  BY <1>8 DEF T6, Holds
<1>14. Holds(160, 167, 8, a.protocol, box)
  BY <1>8 DEF T7, Holds
<1>15. Holds(192, 207, 16, a.buf_stride_sz, box)
  BY <1>8 DEF T8, Holds
<1>16. Holds(272, 279, 8, a.ibq_scatter_offset, box)
  BY <1>8 DEF T9, Holds
<1>17. Holds(224, 255, 32, MkeyId, box)
  BY <1>8 DEF T10, Holds
<1>18. /\ DEVX_GET(rqc.mem_rq_type, box) = MEMORY_RQ_IBQ \cap Word(4)
       /\ DEVX_GET(rqc.state, box) = RST \cap Word(4)
  BY <1>1, <1>2, <1>9, <1>10, FieldRead
<1>19. /\ DEVX_GET(rqc.ts_format, box) = a.ts_format \cap Word(2)
       /\ DEVX_GET(rqc.user_index, box) = user \cap Word(24)
  BY <1>1, <1>2, <1>11, <1>12, FieldRead
<1>20. /\ DEVX_GET(rqc.cqn, box) = a.cqn \cap Word(24)
  BY <1>1, <1>2, <1>13, FieldRead
<1>21. /\ DEVX_GET(rqc.ibq_wire_protocol, box) = a.protocol \cap Word(8)
       /\ DEVX_GET(rqc.ibq_segment_size, box) = a.buf_stride_sz \cap Word(16)
  BY <1>1, <1>2, <1>14, <1>15, FieldRead
<1>22. /\ DEVX_GET(rqc.ibq_scatter_offset, box) = a.ibq_scatter_offset \cap Word(8)
       /\ DEVX_GET(rqc.ibq_mkey, box) = MkeyId \cap Word(32)
  BY <1>1, <1>2, <1>16, <1>17, FieldRead
<1>23. PartOf(rqc.wq, box) = Q
  <2>1. Carries(384, 1919, 1536, Q, box)
    <3> DEFINE lo == 384
               hi == 1919
               wd == 1536
    <3>1. /\ Clear(384, 1919, T1)
          /\ Clear(384, 1919, T2)
          /\ Clear(384, 1919, T3)
          /\ Clear(384, 1919, T4)
          /\ Clear(384, 1919, T5)
          /\ Clear(384, 1919, T6)
          /\ Clear(384, 1919, T7)
          /\ Clear(384, 1919, T8)
          /\ Clear(384, 1919, T9)
          /\ Clear(384, 1919, T10)
      BY <1>2, SetClear DEF T1, T2, T3, T4, T5, T6, T7, T8, T9, T10
    <3>2. Clear(lo, hi, T1) /\ Clear(lo, hi, T2) /\ Clear(lo, hi, T3) /\ Clear(lo, hi, T4) /\ Clear(lo, hi, T5) /\ Clear(lo, hi, T6) /\ Clear(lo, hi, T7) /\ Clear(lo, hi, T8) /\ Clear(lo, hi, T9) /\ Clear(lo, hi, T10)
      BY <3>1
    <3>3. P = DEVX_ADDR_OF(F(lo, wd), Q)
      BY DEF P
    <3> HIDE DEF lo, hi, wd
    <3>4. Carries(lo, hi, wd, Q, box)
      BY <3>2, <3>3, <1>7, Zenon DEF Clear, Carries
    <3>5. QED
      BY <3>4 DEF lo, hi, wd
  <2>2. QED
    BY <1>1, <1>2, <1>5, <2>1, PartRead
<1>24. QED
  BY <1>18, <1>19, <1>20, <1>21, <1>22, <1>23, Zenon DEF box, Q, user

(* The context of a send queue, whose user index is written through the    *)
(* layout of a receive queue.                                              *)
LEMMA SqContext ==
  ASSUME NEW a
  PROVE  /\ DEVX_GET(sqc.state, sq_context(a)) = RST \cap Word(4)
         /\ DEVX_GET(sqc.user_index, sq_context(a)) = ((a.user_index \cap Word(24))) \cap Word(24)
         /\ DEVX_GET(sqc.cqn, sq_context(a)) = a.cqn \cap Word(24)
         /\ DEVX_GET(sqc.packet_pacing_rate_limit_index, sq_context(a)) = ((PpIdx \cap Word(16))) \cap Word(16)
         /\ DEVX_GET(sqc.tis_lst_sz, sq_context(a)) = One \cap Word(16)
         /\ DEVX_GET(sqc.tis_num_0, sq_context(a)) = ((a.tis_num \cap Word(24))) \cap Word(24)
         /\ PartOf(sqc.wq, sq_context(a)) = work_queue(WQ_CYCLIC, UarPage \cap Word(24))
<1>1. /\ sqc.flush_in_error_en = F(3, 1)
      /\ sqc.allow_multi_pkt_send_wqe = F(4, 1)
      /\ sqc.state = F(8, 4)
      /\ sqc.ts_format = F(26, 2)
      /\ sqc.user_index = F(40, 24)
      /\ sqc.cqn = F(72, 24)
      /\ sqc.packet_pacing_rate_limit_index = F(240, 16)
      /\ sqc.tis_lst_sz = F(256, 16)
      /\ sqc.tis_num_0 = F(360, 24)
      /\ sqc.wq = F(384, 1536)
      /\ rqc.user_index = F(40, 24)
  BY Zenon DEF sqc, rqc
<1>2. /\ Span(3, 3, 1)
      /\ Span(4, 4, 1)
      /\ Span(8, 11, 4)
      /\ Span(26, 27, 2)
      /\ Span(40, 63, 24)
      /\ Span(72, 95, 24)
      /\ Span(240, 255, 16)
      /\ Span(256, 271, 16)
      /\ Span(360, 383, 24)
      /\ Span(384, 1919, 1536)
  BY DEF Span
<1> DEFINE user == a.user_index \cap Word(24)
           pp == PpIdx \cap Word(16)
           tis == a.tis_num \cap Word(24)
<1> DEFINE T1 == DEVX_SET(F(3, 1), One)
           T2 == DEVX_SET(F(4, 1), One)
           T3 == DEVX_SET(F(8, 4), RST)
           T4 == DEVX_SET(F(26, 2), TS_DEFAULT)
           T5 == DEVX_SET(F(40, 24), user)
           T6 == DEVX_SET(F(72, 24), a.cqn)
           T7 == DEVX_SET(F(240, 16), pp)
           T8 == DEVX_SET(F(256, 16), One)
           T9 == DEVX_SET(F(360, 24), tis)
           Q == work_queue(WQ_CYCLIC, UarPage \cap Word(24))
           P == DEVX_ADDR_OF(F(384, 1536), Q)
           box == sq_context(a)
<1> HIDE DEF user, pp, tis
<1>3. box = T1 \cup T2 \cup T3 \cup T4 \cup T5 \cup T6 \cup T7 \cup T8 \cup T9 \cup P
  <2>1. /\ DEVX_SET(sqc.flush_in_error_en, One) = T1
        /\ DEVX_SET(sqc.allow_multi_pkt_send_wqe, One) = T2
        /\ DEVX_SET(sqc.state, RST) = T3
        /\ DEVX_SET(sqc.ts_format, TS_DEFAULT) = T4
        /\ UserIndex(a) = T5
        /\ DEVX_SET(sqc.cqn, a.cqn) = T6
        /\ DEVX_SET(sqc.packet_pacing_rate_limit_index, PpIdx \cap Word(16)) = T7
        /\ DEVX_SET(sqc.tis_lst_sz, One) = T8
        /\ DEVX_SET(sqc.tis_num_0, a.tis_num \cap Word(24)) = T9
        /\ DEVX_ADDR_OF(sqc.wq, work_queue(WQ_CYCLIC, UarPage \cap Word(24))) = P
    BY <1>1 DEF user, pp, tis, UserIndex
  <2> HIDE DEF T1, T2, T3, T4, T5, T6, T7, T8, T9, P
  <2>2. QED
    BY <2>1, Zenon DEF sq_context
<1>4. /\ T1 \subseteq 3 .. 3
      /\ T2 \subseteq 4 .. 4
      /\ T3 \subseteq 8 .. 11
      /\ T4 \subseteq 26 .. 27
      /\ T5 \subseteq 40 .. 63
      /\ T6 \subseteq 72 .. 95
      /\ T7 \subseteq 240 .. 255
      /\ T8 \subseteq 256 .. 271
      /\ T9 \subseteq 360 .. 383
  BY <1>2, SetWithin
<1>5. Fits(Q, 1536)
  BY WorkQueue
<1> HIDE DEF Q
<1>6. P \subseteq 384 .. 1919
  BY <1>5, <1>2, PartWithin
<1> HIDE DEF box, T1, T2, T3, T4, T5, T6, T7, T8, T9, P
<1>7. \A x : x \in box <=> x \in T1 \/ x \in T2 \/ x \in T3 \/ x \in T4 \/ x \in T5 \/ x \in T6 \/ x \in T7 \/ x \in T8 \/ x \in T9 \/ x \in P
  BY <1>3
<1>8. /\ T1 \subseteq 3 .. 3
      /\ T2 \subseteq 4 .. 4
      /\ T3 \subseteq 8 .. 11
      /\ T4 \subseteq 26 .. 27
      /\ T5 \subseteq 40 .. 63
      /\ T6 \subseteq 72 .. 95
      /\ T7 \subseteq 240 .. 255
      /\ T8 \subseteq 256 .. 271
      /\ T9 \subseteq 360 .. 383
      /\ P \subseteq 384 .. 1919
      /\ \A x : x \in box <=> x \in T1 \/ x \in T2 \/ x \in T3 \/ x \in T4 \/ x \in T5 \/ x \in T6 \/ x \in T7 \/ x \in T8 \/ x \in T9 \/ x \in P
  BY <1>7, <1>4, <1>6
<1>9. Holds(8, 11, 4, RST, box)
  BY <1>8 DEF T3, Holds
<1>10. Holds(40, 63, 24, user, box)
  BY <1>8 DEF T5, Holds
<1>11. Holds(72, 95, 24, a.cqn, box)
  BY <1>8 DEF T6, Holds
<1>12. Holds(240, 255, 16, pp, box)
  BY <1>8 DEF T7, Holds
<1>13. Holds(256, 271, 16, One, box)
  BY <1>8 DEF T8, Holds
<1>14. Holds(360, 383, 24, tis, box)
  BY <1>8 DEF T9, Holds
<1>15. /\ DEVX_GET(sqc.state, box) = RST \cap Word(4)
       /\ DEVX_GET(sqc.user_index, box) = user \cap Word(24)
  BY <1>1, <1>2, <1>9, <1>10, FieldRead
<1>16. /\ DEVX_GET(sqc.cqn, box) = a.cqn \cap Word(24)
  BY <1>1, <1>2, <1>11, FieldRead
<1>17. /\ DEVX_GET(sqc.packet_pacing_rate_limit_index, box) = pp \cap Word(16)
       /\ DEVX_GET(sqc.tis_lst_sz, box) = One \cap Word(16)
  BY <1>1, <1>2, <1>12, <1>13, FieldRead
<1>18. /\ DEVX_GET(sqc.tis_num_0, box) = tis \cap Word(24)
  BY <1>1, <1>2, <1>14, FieldRead
<1>19. PartOf(sqc.wq, box) = Q
  <2>1. Carries(384, 1919, 1536, Q, box)
    <3> DEFINE lo == 384
               hi == 1919
               wd == 1536
    <3>1. /\ Clear(384, 1919, T1)
          /\ Clear(384, 1919, T2)
          /\ Clear(384, 1919, T3)
          /\ Clear(384, 1919, T4)
          /\ Clear(384, 1919, T5)
          /\ Clear(384, 1919, T6)
          /\ Clear(384, 1919, T7)
          /\ Clear(384, 1919, T8)
          /\ Clear(384, 1919, T9)
      BY <1>2, SetClear DEF T1, T2, T3, T4, T5, T6, T7, T8, T9
    <3>2. Clear(lo, hi, T1) /\ Clear(lo, hi, T2) /\ Clear(lo, hi, T3) /\ Clear(lo, hi, T4) /\ Clear(lo, hi, T5) /\ Clear(lo, hi, T6) /\ Clear(lo, hi, T7) /\ Clear(lo, hi, T8) /\ Clear(lo, hi, T9)
      BY <3>1
    <3>3. P = DEVX_ADDR_OF(F(lo, wd), Q)
      BY DEF P
    <3> HIDE DEF lo, hi, wd
    <3>4. Carries(lo, hi, wd, Q, box)
      BY <3>2, <3>3, <1>7, Zenon DEF Clear, Carries
    <3>5. QED
      BY <3>4 DEF lo, hi, wd
  <2>2. QED
    BY <1>1, <1>2, <1>5, <2>1, PartRead
<1>20. QED
  BY <1>15, <1>16, <1>17, <1>18, <1>19, Zenon DEF box, Q, user, pp, tis

(* The context by which a send queue's state is changed has nothing else. *)
LEMMA StatePart ==
  ASSUME NEW to, to \in {{}, {0}, {0, 1}}
  PROVE  /\ Fits(DEVX_SET(sqc.state, to), 1920)
         /\ DEVX_GET(sqc.state, DEVX_SET(sqc.state, to)) = to
<1> DEFINE S == DEVX_SET(F(8, 4), to)
<1>1. to \subseteq 0 .. (4 - 1)
  OBVIOUS
<1>2. sqc.state = F(8, 4)
  BY DEF sqc
<1>3. Span(8, 11, 4)
  BY DEF Span
<1>4. S \subseteq 8 .. 11
  BY <1>3, SetWithin
<1>5. Holds(8, 11, 4, to, S)
  BY DEF Holds
<1> HIDE DEF S
<1>6. Fits(S, 1920)
  BY <1>4 DEF Fits
<1>7. DEVX_GET(F(8, 4), S) = to \cap (0 .. (4 - 1))
  BY <1>3, <1>5, GetCut
<1>8. DEVX_GET(F(8, 4), S) = to
  BY <1>1, <1>7, Zenon
<1>9. QED
  BY <1>2, <1>6, <1>8 DEF S

(* The command of sq::modify_state. *)
ModifySq(from, to) ==
  DEVX_SET(modify_sq_in.sq_state, from) \cup DEVX_SET(modify_sq_in.sqn, {0, 23})
  \cup DEVX_ADDR_OF(create_sq_in.ctx, DEVX_SET(sqc.state, to))

(* The device reads from it the state before and the context. *)
LEMMA ModifyContext ==
  ASSUME NEW from, NEW to, to \in {{}, {0}, {0, 1}}
  PROVE  /\ DEVX_GET(modify_sq_in.sq_state, ModifySq(from, to)) = from \cap Word(4)
         /\ PartOf(modify_sq_in.ctx, ModifySq(from, to)) = DEVX_SET(sqc.state, to)
<1>1. /\ modify_sq_in.sq_state = F(64, 4)
      /\ modify_sq_in.sqn = F(72, 24)
      /\ modify_sq_in.ctx = F(256, 1920)
  BY Zenon DEF modify_sq_in
<1>2. /\ Span(64, 67, 4)
      /\ Span(72, 95, 24)
      /\ Span(256, 2175, 1920)
  BY DEF Span
<1> DEFINE T1 == DEVX_SET(F(64, 4), from)
           T2 == DEVX_SET(F(72, 24), {0, 23})
           Q == DEVX_SET(sqc.state, to)
           P == DEVX_ADDR_OF(F(256, 1920), Q)
           box == ModifySq(from, to)
<1>3. box = T1 \cup T2 \cup P
  BY <1>1 DEF ModifySq, create_sq_in
<1>4. /\ T1 \subseteq 64 .. 67
      /\ T2 \subseteq 72 .. 95
  BY <1>2, SetWithin
<1>5. Fits(Q, 1920)
  BY StatePart
<1> HIDE DEF Q
<1>6. P \subseteq 256 .. 2175
  BY <1>5, <1>2, PartWithin
<1> HIDE DEF box, T1, T2, P
<1>7. \A x : x \in box <=> x \in T1 \/ x \in T2 \/ x \in P
  BY <1>3
<1>8. /\ T1 \subseteq 64 .. 67
      /\ T2 \subseteq 72 .. 95
      /\ P \subseteq 256 .. 2175
      /\ \A x : x \in box <=> x \in T1 \/ x \in T2 \/ x \in P
  BY <1>7, <1>4, <1>6
<1>9. DEVX_GET(modify_sq_in.sq_state, box) = from \cap Word(4)
  <2>1. Holds(64, 67, 4, from, box)
    BY <1>8 DEF T1, Holds
  <2>2. QED
    BY <1>1, <1>2, <2>1, FieldRead
<1>10. PartOf(modify_sq_in.ctx, box) = Q
  <2>1. Carries(256, 2175, 1920, Q, box)
    <3> DEFINE lo == 256
               hi == 2175
               wd == 1920
    <3>1. /\ Clear(256, 2175, T1)
          /\ Clear(256, 2175, T2)
      BY <1>2, SetClear DEF T1, T2
    <3>2. Clear(lo, hi, T1) /\ Clear(lo, hi, T2)
      BY <3>1
    <3>3. P = DEVX_ADDR_OF(F(lo, wd), Q)
      BY DEF P
    <3> HIDE DEF lo, hi, wd
    <3>4. Carries(lo, hi, wd, Q, box)
      BY <3>2, <3>3, <1>7, Zenon DEF Clear, Carries
    <3>5. QED
      BY <3>4 DEF lo, hi, wd
  <2>2. QED
    BY <1>1, <1>2, <1>5, <2>1, PartRead
<1>11. QED
  BY <1>9, <1>10, Zenon DEF box, Q

----------------------------------------------------------------------------
(* What was last created is described as asked. *)

(* A call that returns leaves nothing to be read. *)
LEMMA NothingTold ==
  (last = NoCall => CqAsAsked /\ WqAsAsked) /\ (Return => CqAsAsked' /\ WqAsAsked')
<1>1. last = NoCall => /\ ~Is("cq_context") /\ ~Is("rq_context") /\ ~Is("ibq_context")
                       /\ ~Is("sq_context") /\ ~Is("modify_sq")
  BY DEF NoCall, Is
<1>2. Return => /\ ~Is("cq_context")' /\ ~Is("rq_context")' /\ ~Is("ibq_context")'
                /\ ~Is("sq_context")' /\ ~Is("modify_sq")'
  BY DEF NoCall, Return, Is
<1>3. QED
  BY <1>1, <1>2, Zenon DEF CqAsAsked, WqAsAsked

(* cq::create: what the context of a CQ reads as. *)
LEMMA CqTold ==
  ASSUME NEW attr \in CqAttrs, create_cq_context(attr)
  PROVE  CqAsAsked' /\ WqAsAsked'
<1>1. last'.op = "cq_context" /\ last'.in = attr
  BY DEF create_cq_context, Call
<1>2. WqAsAsked'
  BY <1>1, Zenon DEF WqAsAsked, Is
<1>3. CASE last'.out.ret # "DPCP_OK"
  BY <1>2, <1>3 DEF CqAsAsked, Is
<1>4. CASE last'.out.ret = "DPCP_OK"
  <2>1. last'.out.ctx = cq_context(attr)
    BY <1>4 DEF create_cq_context, Call
  <2> DEFINE c == cq_context(attr)
  <2>2. /\ DEVX_GET(cqc.c_eqn, c) = attr.eq_num \cap Word(8)
        /\ DEVX_GET(cqc.dbr_umem_id, c) = Doorbell \cap Word(32)
        /\ DEVX_GET(cqc.uar_page, c) = UarPage \cap Word(24)
        /\ DEVX_GET(cqc.cq_period, c) = Used("CQ_MODERATION", attr.use, attr.cq_period) \cap Word(12)
        /\ DEVX_GET(cqc.cq_max_count, c) = Used("CQ_MODERATION", attr.use, attr.cq_max_cnt) \cap Word(16)
        /\ DEVX_GET(cqc.cc, c) = Used("CQE_COLLAPSED", attr.flags, One) \cap Word(1)
        /\ DEVX_GET(cqc.oi, c) = Used("OVERRUN_IGNORE", attr.flags, One) \cap Word(1)
        /\ DEVX_GET(cqc.scqe_break_moderation_en, c) = Used("BREAK_MODERATION_EN", attr.flags, One) \cap Word(1)
    BY CqContext, Zenon
  <2> HIDE DEF c
  <2>3. Doorbell \cap Word(32) = Doorbell /\ UarPage \cap Word(24) = UarPage
    BY DEF Doorbell, UarPage, Word
  <2>4. \A name : Used(name, attr.flags, One) \cap Word(1) = IF name \in attr.flags THEN One ELSE {}
    BY DEF Used, One, Word
  <2>5. /\ Used("CQ_MODERATION", attr.use, attr.cq_period) \cap Word(12)
           = IF "CQ_MODERATION" \in attr.use THEN attr.cq_period \cap Word(12) ELSE {}
        /\ Used("CQ_MODERATION", attr.use, attr.cq_max_cnt) \cap Word(16)
           = IF "CQ_MODERATION" \in attr.use THEN attr.cq_max_cnt \cap Word(16) ELSE {}
    BY DEF Used
  <2>6. \A f : Has(f)' = DEVX_GET(f, c)
    BY <2>1, Zenon DEF Has, c
  <2>7. \A name : Flag(name)' = IF name \in attr.flags THEN One ELSE {}
    BY <1>1, Zenon DEF Flag
  <2>8. CqAsAsked'
    <3>1. /\ Has(cqc.c_eqn)' = last'.in.eq_num \cap Word(8)
          /\ Has(cqc.cc)' = Flag("CQE_COLLAPSED")' /\ Has(cqc.oi)' = Flag("OVERRUN_IGNORE")'
          /\ Has(cqc.scqe_break_moderation_en)' = Flag("BREAK_MODERATION_EN")'
          /\ Has(cqc.dbr_umem_id)' = Doorbell /\ Has(cqc.uar_page)' = UarPage
      BY <1>1, <2>2, <2>3, <2>4, <2>6, <2>7, Zenon
    <3>2. /\ Has(cqc.cq_period)' = IF "CQ_MODERATION" \in last'.in.use
                                   THEN last'.in.cq_period \cap Word(12) ELSE {}
          /\ Has(cqc.cq_max_count)' = IF "CQ_MODERATION" \in last'.in.use
                                      THEN last'.in.cq_max_cnt \cap Word(16) ELSE {}
      BY <1>1, <2>2, <2>5, <2>6, Zenon
    <3>3. QED
      BY <3>1, <3>2 DEF CqAsAsked
  <2>9. QED
    BY <2>8, <1>2, Zenon
<1>5. QED
  BY <1>2, <1>3, <1>4, Zenon

(* The PD and the memory of a ring, as the device reads them. *)
LEMMA RingTold ==
  ASSUME NEW type, NEW uar
  PROVE  /\ DEVX_GET(wq.pd, work_queue(type, uar)) = PdId
         /\ DEVX_GET(wq.wq_umem_id, work_queue(type, uar)) = WqBuffer
         /\ DEVX_GET(wq.dbr_umem_id, work_queue(type, uar)) = Doorbell
         /\ DEVX_GET(wq.uar_page, work_queue(type, uar)) = uar \cap Word(24)
<1>1. /\ (PdId \cap Word(24)) \cap Word(24) = PdId
      /\ WqBuffer \cap Word(32) = WqBuffer /\ Doorbell \cap Word(32) = Doorbell
  BY DEF PdId, WqBuffer, Doorbell, Word
<1>2. /\ DEVX_GET(wq.pd, work_queue(type, uar)) = (PdId \cap Word(24)) \cap Word(24)
      /\ DEVX_GET(wq.wq_umem_id, work_queue(type, uar)) = WqBuffer \cap Word(32)
      /\ DEVX_GET(wq.dbr_umem_id, work_queue(type, uar)) = Doorbell \cap Word(32)
      /\ DEVX_GET(wq.uar_page, work_queue(type, uar)) = uar \cap Word(24)
  BY WorkQueue
<1>3. QED
  BY <1>1, <1>2, Zenon

(* striding_rq::create and regular_rq::create. *)
LEMMA RqTold ==
  ASSUME NEW attr \in RqAttrs, NEW type, Filled("rq_context", attr, rq_context(attr, type))
  PROVE  CqAsAsked' /\ WqAsAsked'
<1> DEFINE c == rq_context(attr, type)
           ring == work_queue(type, {})
<1>1. last'.op = "rq_context" /\ last'.in = attr /\ last'.out.ctx = c
  BY DEF Filled, Call
<1>2. /\ DEVX_GET(rqc.state, c) = RST \cap Word(4)
      /\ DEVX_GET(rqc.ts_format, c) = attr.ts_format \cap Word(2)
      /\ DEVX_GET(rqc.user_index, c) = (attr.user_index \cap Word(24)) \cap Word(24)
      /\ DEVX_GET(rqc.cqn, c) = attr.cqn \cap Word(24)
      /\ PartOf(rqc.wq, c) = ring
  BY RqContext, Zenon
<1>3. /\ DEVX_GET(wq.pd, ring) = PdId /\ DEVX_GET(wq.wq_umem_id, ring) = WqBuffer
      /\ DEVX_GET(wq.dbr_umem_id, ring) = Doorbell
  BY RingTold, Zenon
<1> HIDE DEF c, ring
<1>4. RST \cap Word(4) = RST /\ (attr.user_index \cap Word(24)) \cap Word(24) = attr.user_index \cap Word(24)
  BY DEF RST
<1>5. /\ \A f : Has(f)' = DEVX_GET(f, c)
      /\ \A f : WqHas(f)' = DEVX_GET(f, ring)
  BY <1>1, <1>2, Zenon DEF Has, WqHas
<1>6. ~Is("cq_context")' /\ ~Is("ibq_context")' /\ ~Is("sq_context")' /\ ~Is("modify_sq")'
  BY <1>1 DEF Is
<1>7. QED
  BY <1>1, <1>2, <1>3, <1>4, <1>5, <1>6, Zenon DEF CqAsAsked, WqAsAsked

(* ibq_rq::create. *)
LEMMA IbqTold ==
  ASSUME NEW attr \in IbqAttrs, Filled("ibq_context", attr, ibq_context(attr))
  PROVE  CqAsAsked' /\ WqAsAsked'
<1> DEFINE c == ibq_context(attr)
           ring == DEVX_SET(wq.pd, PdId \cap Word(24))
<1>1. last'.op = "ibq_context" /\ last'.in = attr /\ last'.out.ctx = c
  BY DEF Filled, Call
<1>2. /\ DEVX_GET(rqc.mem_rq_type, c) = MEMORY_RQ_IBQ \cap Word(4)
      /\ DEVX_GET(rqc.state, c) = RST \cap Word(4)
      /\ DEVX_GET(rqc.ts_format, c) = attr.ts_format \cap Word(2)
      /\ DEVX_GET(rqc.user_index, c) = (attr.user_index \cap Word(24)) \cap Word(24)
      /\ DEVX_GET(rqc.cqn, c) = attr.cqn \cap Word(24)
      /\ DEVX_GET(rqc.ibq_wire_protocol, c) = attr.protocol \cap Word(8)
      /\ DEVX_GET(rqc.ibq_segment_size, c) = attr.buf_stride_sz \cap Word(16)
      /\ DEVX_GET(rqc.ibq_scatter_offset, c) = attr.ibq_scatter_offset \cap Word(8)
      /\ DEVX_GET(rqc.ibq_mkey, c) = MkeyId \cap Word(32)
      /\ PartOf(rqc.wq, c) = ring
  BY IbqContext, Zenon
<1>3. DEVX_GET(wq.pd, ring) = PdId
  <2>1. PdId \cap Word(24) = PdId
    BY DEF PdId, Word
  <2>2. DEVX_GET(wq.pd, DEVX_SET(wq.pd, PdId \cap Word(24))) = PdId \cap Word(24)
    BY IbqPart
  <2>3. QED
    BY <2>1, <2>2, Zenon
<1> HIDE DEF c, ring
<1>4. /\ RST \cap Word(4) = RST /\ MEMORY_RQ_IBQ \cap Word(4) = MEMORY_RQ_IBQ
      /\ MkeyId \cap Word(32) = MkeyId
      /\ (attr.user_index \cap Word(24)) \cap Word(24) = attr.user_index \cap Word(24)
  BY DEF RST, MEMORY_RQ_IBQ, MkeyId, Word
<1>5. attr.protocol \cap Word(8) = attr.protocol /\ attr.ibq_scatter_offset \cap Word(8) = attr.ibq_scatter_offset
  <2>1. attr.protocol \in {{}, {0}, {2}} /\ attr.ibq_scatter_offset \subseteq Word(8)
    BY AttrAssumption DEF ibq_attr, dpcp_ibq_protocol
  <2>2. QED
    BY <2>1 DEF Word
<1>6. /\ \A f : Has(f)' = DEVX_GET(f, c)
      /\ \A f : WqHas(f)' = DEVX_GET(f, ring)
  BY <1>1, <1>2, Zenon DEF Has, WqHas
<1>7. ~Is("cq_context")' /\ ~Is("rq_context")' /\ ~Is("sq_context")' /\ ~Is("modify_sq")'
  BY <1>1 DEF Is
<1>8. QED
  BY <1>1, <1>2, <1>3, <1>4, <1>5, <1>6, <1>7, Zenon DEF CqAsAsked, WqAsAsked

(* pp_sq::create. *)
LEMMA SqTold ==
  ASSUME NEW attr \in SqAttrs, Filled("sq_context", attr, sq_context(attr))
  PROVE  CqAsAsked' /\ WqAsAsked'
<1> DEFINE c == sq_context(attr)
           page == UarPage \cap Word(24)
           ring == work_queue(WQ_CYCLIC, UarPage \cap Word(24))
<1>1. last'.op = "sq_context" /\ last'.in = attr /\ last'.out.ctx = c
  BY DEF Filled, Call
<1>2. /\ DEVX_GET(sqc.state, c) = RST \cap Word(4)
      /\ DEVX_GET(sqc.user_index, c) = (attr.user_index \cap Word(24)) \cap Word(24)
      /\ DEVX_GET(sqc.cqn, c) = attr.cqn \cap Word(24)
      /\ DEVX_GET(sqc.packet_pacing_rate_limit_index, c) = (PpIdx \cap Word(16)) \cap Word(16)
      /\ DEVX_GET(sqc.tis_lst_sz, c) = One \cap Word(16)
      /\ DEVX_GET(sqc.tis_num_0, c) = (attr.tis_num \cap Word(24)) \cap Word(24)
      /\ PartOf(sqc.wq, c) = ring
  BY SqContext, Zenon
<1>3. /\ DEVX_GET(wq.pd, ring) = PdId /\ DEVX_GET(wq.wq_umem_id, ring) = WqBuffer
      /\ DEVX_GET(wq.dbr_umem_id, ring) = Doorbell /\ DEVX_GET(wq.uar_page, ring) = UarPage
  <2> HIDE DEF page
  <2>1. ring = work_queue(WQ_CYCLIC, page)
    BY DEF page
  <2> HIDE DEF ring
  <2>2. /\ DEVX_GET(wq.pd, ring) = PdId /\ DEVX_GET(wq.wq_umem_id, ring) = WqBuffer
        /\ DEVX_GET(wq.dbr_umem_id, ring) = Doorbell /\ DEVX_GET(wq.uar_page, ring) = page \cap Word(24)
    BY <2>1, RingTold, Zenon
  <2>3. page \cap Word(24) = UarPage
    BY DEF page, UarPage, Word
  <2>4. QED
    BY <2>2, <2>3
<1> HIDE DEF c, ring
<1>4. /\ RST \cap Word(4) = RST /\ One \cap Word(16) = One
      /\ (PpIdx \cap Word(16)) \cap Word(16) = PpIdx
      /\ (attr.user_index \cap Word(24)) \cap Word(24) = attr.user_index \cap Word(24)
      /\ (attr.tis_num \cap Word(24)) \cap Word(24) = attr.tis_num \cap Word(24)
  BY DEF RST, One, PpIdx, Word
<1>5. rqc.wq = sqc.wq
  <2>1. rqc.wq = F(384, 1536) /\ sqc.wq = F(384, 1536)
    BY Zenon DEF rqc, sqc
  <2>2. QED
    BY <2>1
<1>6. /\ \A f : Has(f)' = DEVX_GET(f, c)
      /\ \A f : WqHas(f)' = DEVX_GET(f, ring)
  BY <1>1, <1>2, <1>5, Zenon DEF Has, WqHas
<1>7. ~Is("cq_context")' /\ ~Is("rq_context")' /\ ~Is("ibq_context")' /\ ~Is("modify_sq")'
  BY <1>1 DEF Is
<1>8. QED
  BY <1>1, <1>2, <1>3, <1>4, <1>6, <1>7, Zenon DEF CqAsAsked, WqAsAsked

(* sq::modify_state. *)
LEMMA ModifyTold ==
  ASSUME NEW from \in States, NEW to \in States, modify_sq(from, to)
  PROVE  CqAsAsked' /\ WqAsAsked'
<1> DEFINE c == ModifySq(from, to)
<1>1. /\ last'.op = "modify_sq" /\ last'.in.from = from /\ last'.in.to = to /\ last'.out.ctx = c
  BY DEF modify_sq, Call, ModifySq
<1>2. from \in {{}, {0}, {0, 1}} /\ to \in {{}, {0}, {0, 1}}
  BY AttrAssumption
<1>3. /\ DEVX_GET(modify_sq_in.sq_state, c) = from \cap Word(4)
      /\ PartOf(modify_sq_in.ctx, c) = DEVX_SET(sqc.state, to)
  BY <1>2, ModifyContext
<1>4. DEVX_GET(sqc.state, DEVX_SET(sqc.state, to)) = to
  BY <1>2, StatePart
<1> HIDE DEF c
<1>5. from \cap Word(4) = from
  BY <1>2 DEF Word
<1>6. \A f : Has(f)' = DEVX_GET(f, c)
  BY <1>1, Zenon DEF Has
<1>7. ~Is("cq_context")' /\ ~Is("rq_context")' /\ ~Is("ibq_context")' /\ ~Is("sq_context")'
  BY <1>1 DEF Is
<1>8. QED
  BY <1>1, <1>3, <1>4, <1>5, <1>6, <1>7, Zenon DEF CqAsAsked, WqAsAsked

(* Every call leaves a context that says what was asked. *)
LEMMA ContextsStep ==
  ASSUME [ContextsNext \/ Return]_last, CqAsAsked, WqAsAsked
  PROVE  CqAsAsked' /\ WqAsAsked'
<1>1. CASE UNCHANGED last
  BY <1>1, Zenon DEF CqAsAsked, WqAsAsked, Is, Has, WqHas, Flag
<1>2. CASE Return
  BY <1>2, NothingTold, Zenon
<1>3. CASE ContextsNext
  BY <1>3, CqTold, RqTold, IbqTold, SqTold, ModifyTold, Zenon DEF ContextsNext
<1>4. QED
  BY <1>1, <1>2, <1>3

(* From the context of a CQ, whatever its attributes, the device reads     *)
(* what those of them that are in use say: no field is written over        *)
(* another, and what does not fit its field is cut.                        *)
THEOREM CqAsAskedHolds == ContextsSpec => []CqAsAsked
<1>1. CallsInit => CqAsAsked /\ WqAsAsked
  BY NothingTold DEF CallsInit
<1>2. (CqAsAsked /\ WqAsAsked) /\ [ContextsNext \/ Return]_last => (CqAsAsked /\ WqAsAsked)'
  BY ContextsStep
<1>3. QED
  BY <1>1, <1>2, PTL DEF ContextsSpec

(* From the context of a receive or send queue, whatever its attributes,   *)
(* the device reads the CQ, user index, format, TIS, key, memory and PD    *)
(* the queue is to have, and from the command of modify_state the states,  *)
(* although some are written through the layout of another structure.      *)
THEOREM WqAsAskedHolds == ContextsSpec => []WqAsAsked
<1>1. CallsInit => CqAsAsked /\ WqAsAsked
  BY NothingTold DEF CallsInit
<1>2. (CqAsAsked /\ WqAsAsked) /\ [ContextsNext \/ Return]_last => (CqAsAsked /\ WqAsAsked)'
  BY ContextsStep
<1>3. QED
  BY <1>1, <1>2, PTL DEF ContextsSpec

----------------------------------------------------------------------------
(* What a packet is compared with. *)

(* The outer headers with their fields, addresses in 128 bits. *)
Header(h) ==
  DEVX_SET(F(0, 48), h.smac)
  \cup DEVX_SET(F(48, 16), h.ethertype)
  \cup DEVX_SET(F(64, 48), h.dmac)
  \cup DEVX_SET(F(116, 12), h.vid)
  \cup DEVX_SET(F(128, 8), h.proto)
  \cup DEVX_SET(F(144, 1), h.tag)
  \cup DEVX_SET(F(147, 4), h.ver)
  \cup DEVX_SET(F(160, 16), h.tcps)
  \cup DEVX_SET(F(176, 16), h.tcpd)
  \cup DEVX_SET(F(224, 16), h.udps)
  \cup DEVX_SET(F(240, 16), h.udpd)
  \cup DEVX_SET(F(256, 128), h.src)
  \cup DEVX_SET(F(384, 128), h.dst)

(* In the bits of m, v and p are the same. *)
Alike(m, v, p) == \A x \in m : x \in v <=> x \in p

(* In the w bits of a field that are set in c, v and p are the same. *)
Agree(w, c, v, p) == \A i \in 0 .. (w - 1) : i \in c => (i \in v <=> i \in p)

(* Comparing a field of two boxes is comparing its values. *)
LEMMA FieldAlike ==
  ASSUME NEW at, NEW hi, NEW w, Span(at, hi, w), NEW c, NEW v, NEW p, NEW V, NEW P,
         Holds(at, hi, w, v, V), Holds(at, hi, w, p, P)
  PROVE  Alike(DEVX_SET(F(at, w), c), V, P) <=> Agree(w, c, v, p)
<1> DEFINE T == DEVX_SET(F(at, w), c)
<1>1. at \in Nat /\ w \in Nat /\ hi = at + w - 1
  BY DEF Span
<1>2. T = {at + w - 1 - i : i \in c \cap 0 .. (w - 1)}
  BY DEF DEVX_SET, Place, F
<1>3. ASSUME NEW i \in 0 .. (w - 1)
      PROVE  /\ (at + w - 1 - i \in V <=> i \in v) /\ (at + w - 1 - i \in P <=> i \in p)
  <2>1. at + w - 1 - i \in at .. hi
    BY <1>1
  <2>2. /\ (at + w - 1 - i \in V) <=> (at + w - 1 - i \in DEVX_SET(F(at, w), v))
        /\ (at + w - 1 - i \in P) <=> (at + w - 1 - i \in DEVX_SET(F(at, w), p))
    BY <2>1 DEF Holds
  <2>3. QED
    BY <1>1, <2>2, SetPlace, Zenon
<1>4. ASSUME Agree(w, c, v, p) PROVE Alike(T, V, P)
  <2> SUFFICES ASSUME NEW i \in c \cap 0 .. (w - 1)
               PROVE  (at + w - 1 - i \in V) <=> (at + w - 1 - i \in P)
    BY <1>2 DEF Alike
  <2>1. QED
    BY <1>3, <1>4 DEF Agree
<1>5. ASSUME Alike(T, V, P) PROVE Agree(w, c, v, p)
  <2> SUFFICES ASSUME NEW i \in 0 .. (w - 1), i \in c PROVE i \in v <=> i \in p
    BY DEF Agree
  <2>1. at + w - 1 - i \in T
    BY <1>2
  <2> HIDE DEF T
  <2>2. (at + w - 1 - i \in V) <=> (at + w - 1 - i \in P)
    BY <2>1, <1>5 DEF Alike
  <2>3. QED
    BY <1>3, <2>2
<1>6. QED
  BY <1>4, <1>5

(* Each header has its bits for itself. *)
LEMMA HeaderHolds ==
  ASSUME NEW h
  PROVE  /\ Holds(0, 47, 48, h.smac, Header(h))
         /\ Holds(48, 63, 16, h.ethertype, Header(h))
         /\ Holds(64, 111, 48, h.dmac, Header(h))
         /\ Holds(116, 127, 12, h.vid, Header(h))
         /\ Holds(128, 135, 8, h.proto, Header(h))
         /\ Holds(144, 144, 1, h.tag, Header(h))
         /\ Holds(147, 150, 4, h.ver, Header(h))
         /\ Holds(160, 175, 16, h.tcps, Header(h))
         /\ Holds(176, 191, 16, h.tcpd, Header(h))
         /\ Holds(224, 239, 16, h.udps, Header(h))
         /\ Holds(240, 255, 16, h.udpd, Header(h))
         /\ Holds(256, 383, 128, h.src, Header(h))
         /\ Holds(384, 511, 128, h.dst, Header(h))
         /\ Fits(Header(h), 512)
<1> DEFINE T1 == DEVX_SET(F(0, 48), h.smac)
           T2 == DEVX_SET(F(48, 16), h.ethertype)
           T3 == DEVX_SET(F(64, 48), h.dmac)
           T4 == DEVX_SET(F(116, 12), h.vid)
           T5 == DEVX_SET(F(128, 8), h.proto)
           T6 == DEVX_SET(F(144, 1), h.tag)
           T7 == DEVX_SET(F(147, 4), h.ver)
           T8 == DEVX_SET(F(160, 16), h.tcps)
           T9 == DEVX_SET(F(176, 16), h.tcpd)
           T10 == DEVX_SET(F(224, 16), h.udps)
           T11 == DEVX_SET(F(240, 16), h.udpd)
           T12 == DEVX_SET(F(256, 128), h.src)
           T13 == DEVX_SET(F(384, 128), h.dst)
           box == Header(h)
<1>1. box = T1 \cup T2 \cup T3 \cup T4 \cup T5 \cup T6 \cup T7 \cup T8 \cup T9 \cup T10 \cup T11 \cup T12 \cup T13
  BY DEF Header
<1>2. /\ Span(0, 47, 48)
      /\ Span(48, 63, 16)
      /\ Span(64, 111, 48)
      /\ Span(116, 127, 12)
      /\ Span(128, 135, 8)
      /\ Span(144, 144, 1)
      /\ Span(147, 150, 4)
      /\ Span(160, 175, 16)
      /\ Span(176, 191, 16)
      /\ Span(224, 239, 16)
      /\ Span(240, 255, 16)
      /\ Span(256, 383, 128)
      /\ Span(384, 511, 128)
  BY DEF Span
<1>3. /\ T1 \subseteq 0 .. 47
      /\ T2 \subseteq 48 .. 63
      /\ T3 \subseteq 64 .. 111
      /\ T4 \subseteq 116 .. 127
      /\ T5 \subseteq 128 .. 135
      /\ T6 \subseteq 144 .. 144
      /\ T7 \subseteq 147 .. 150
      /\ T8 \subseteq 160 .. 175
      /\ T9 \subseteq 176 .. 191
      /\ T10 \subseteq 224 .. 239
      /\ T11 \subseteq 240 .. 255
      /\ T12 \subseteq 256 .. 383
      /\ T13 \subseteq 384 .. 511
  BY <1>2, SetWithin
<1> HIDE DEF box, T1, T2, T3, T4, T5, T6, T7, T8, T9, T10, T11, T12, T13
<1>4. \A x : x \in box <=> x \in T1 \/ x \in T2 \/ x \in T3 \/ x \in T4 \/ x \in T5 \/ x \in T6 \/ x \in T7 \/ x \in T8 \/ x \in T9 \/ x \in T10 \/ x \in T11 \/ x \in T12 \/ x \in T13
  BY <1>1
<1>5. Holds(0, 47, 48, h.smac, box)
  BY <1>3, <1>4 DEF T1, Holds
<1>6. Holds(48, 63, 16, h.ethertype, box)
  BY <1>3, <1>4 DEF T2, Holds
<1>7. Holds(64, 111, 48, h.dmac, box)
  BY <1>3, <1>4 DEF T3, Holds
<1>8. Holds(116, 127, 12, h.vid, box)
  BY <1>3, <1>4 DEF T4, Holds
<1>9. Holds(128, 135, 8, h.proto, box)
  BY <1>3, <1>4 DEF T5, Holds
<1>10. Holds(144, 144, 1, h.tag, box)
  BY <1>3, <1>4 DEF T6, Holds
<1>11. Holds(147, 150, 4, h.ver, box)
  BY <1>3, <1>4 DEF T7, Holds
<1>12. Holds(160, 175, 16, h.tcps, box)
  BY <1>3, <1>4 DEF T8, Holds
<1>13. Holds(176, 191, 16, h.tcpd, box)
  BY <1>3, <1>4 DEF T9, Holds
<1>14. Holds(224, 239, 16, h.udps, box)
  BY <1>3, <1>4 DEF T10, Holds
<1>15. Holds(240, 255, 16, h.udpd, box)
  BY <1>3, <1>4 DEF T11, Holds
<1>16. Holds(256, 383, 128, h.src, box)
  BY <1>3, <1>4 DEF T12, Holds
<1>17. Holds(384, 511, 128, h.dst, box)
  BY <1>3, <1>4 DEF T13, Holds
<1>18. Fits(box, 512)
  <2> DEFINE S == 0 .. 511
  <2>1. T1 \subseteq S /\ T2 \subseteq S /\ T3 \subseteq S /\ T4 \subseteq S /\ T5 \subseteq S /\ T6 \subseteq S /\ T7 \subseteq S /\ T8 \subseteq S /\ T9 \subseteq S /\ T10 \subseteq S /\ T11 \subseteq S /\ T12 \subseteq S /\ T13 \subseteq S
    BY <1>3
  <2> HIDE DEF S
  <2>2. box \subseteq S
    BY <2>1, <1>4, Zenon
  <2>3. QED
    BY <2>2 DEF S, Fits
<1>19. QED
  BY <1>5, <1>6, <1>7, <1>8, <1>9, <1>10, <1>11, <1>12, <1>13, <1>14, <1>15, <1>16, <1>17, <1>18 DEF box

(* They fit in the structure of the headers. *)
LEMMA HeaderFits ==
  ASSUME NEW h
  PROVE  Fits(Header(h), 512)
BY HeaderHolds

(* All the fields of the headers agree. *)
FieldsAgree(c, v, p) ==
  /\ Agree(48, c.smac, v.smac, p.smac)
  /\ Agree(16, c.ethertype, v.ethertype, p.ethertype)
  /\ Agree(48, c.dmac, v.dmac, p.dmac)
  /\ Agree(12, c.vid, v.vid, p.vid)
  /\ Agree(8, c.proto, v.proto, p.proto)
  /\ Agree(1, c.tag, v.tag, p.tag)
  /\ Agree(4, c.ver, v.ver, p.ver)
  /\ Agree(16, c.tcps, v.tcps, p.tcps)
  /\ Agree(16, c.tcpd, v.tcpd, p.tcpd)
  /\ Agree(16, c.udps, v.udps, p.udps)
  /\ Agree(16, c.udpd, v.udpd, p.udpd)
  /\ Agree(128, c.src, v.src, p.src)
  /\ Agree(128, c.dst, v.dst, p.dst)

(* Headers are alike where a mask is set when all their fields are. *)
LEMMA HeaderAlike ==
  ASSUME NEW c, NEW v, NEW p
  PROVE  Alike(Header(c), Header(v), Header(p)) <=> FieldsAgree(c, v, p)
<1> DEFINE T1 == DEVX_SET(F(0, 48), c.smac)
           T2 == DEVX_SET(F(48, 16), c.ethertype)
           T3 == DEVX_SET(F(64, 48), c.dmac)
           T4 == DEVX_SET(F(116, 12), c.vid)
           T5 == DEVX_SET(F(128, 8), c.proto)
           T6 == DEVX_SET(F(144, 1), c.tag)
           T7 == DEVX_SET(F(147, 4), c.ver)
           T8 == DEVX_SET(F(160, 16), c.tcps)
           T9 == DEVX_SET(F(176, 16), c.tcpd)
           T10 == DEVX_SET(F(224, 16), c.udps)
           T11 == DEVX_SET(F(240, 16), c.udpd)
           T12 == DEVX_SET(F(256, 128), c.src)
           T13 == DEVX_SET(F(384, 128), c.dst)
           V == Header(v)
           P == Header(p)
<1>1. Header(c) = T1 \cup T2 \cup T3 \cup T4 \cup T5 \cup T6 \cup T7 \cup T8 \cup T9 \cup T10 \cup T11 \cup T12 \cup T13
  BY DEF Header
<1>2. Alike(T1, V, P) <=> Agree(48, c.smac, v.smac, p.smac)
  <2>1. Span(0, 47, 48)
    BY DEF Span
  <2>2. Holds(0, 47, 48, v.smac, V) /\ Holds(0, 47, 48, p.smac, P)
    BY HeaderHolds
  <2> HIDE DEF V, P
  <2>3. QED
    BY <2>1, <2>2, FieldAlike
<1>3. Alike(T2, V, P) <=> Agree(16, c.ethertype, v.ethertype, p.ethertype)
  <2>1. Span(48, 63, 16)
    BY DEF Span
  <2>2. Holds(48, 63, 16, v.ethertype, V) /\ Holds(48, 63, 16, p.ethertype, P)
    BY HeaderHolds
  <2> HIDE DEF V, P
  <2>3. QED
    BY <2>1, <2>2, FieldAlike
<1>4. Alike(T3, V, P) <=> Agree(48, c.dmac, v.dmac, p.dmac)
  <2>1. Span(64, 111, 48)
    BY DEF Span
  <2>2. Holds(64, 111, 48, v.dmac, V) /\ Holds(64, 111, 48, p.dmac, P)
    BY HeaderHolds
  <2> HIDE DEF V, P
  <2>3. QED
    BY <2>1, <2>2, FieldAlike
<1>5. Alike(T4, V, P) <=> Agree(12, c.vid, v.vid, p.vid)
  <2>1. Span(116, 127, 12)
    BY DEF Span
  <2>2. Holds(116, 127, 12, v.vid, V) /\ Holds(116, 127, 12, p.vid, P)
    BY HeaderHolds
  <2> HIDE DEF V, P
  <2>3. QED
    BY <2>1, <2>2, FieldAlike
<1>6. Alike(T5, V, P) <=> Agree(8, c.proto, v.proto, p.proto)
  <2>1. Span(128, 135, 8)
    BY DEF Span
  <2>2. Holds(128, 135, 8, v.proto, V) /\ Holds(128, 135, 8, p.proto, P)
    BY HeaderHolds
  <2> HIDE DEF V, P
  <2>3. QED
    BY <2>1, <2>2, FieldAlike
<1>7. Alike(T6, V, P) <=> Agree(1, c.tag, v.tag, p.tag)
  <2>1. Span(144, 144, 1)
    BY DEF Span
  <2>2. Holds(144, 144, 1, v.tag, V) /\ Holds(144, 144, 1, p.tag, P)
    BY HeaderHolds
  <2> HIDE DEF V, P
  <2>3. QED
    BY <2>1, <2>2, FieldAlike
<1>8. Alike(T7, V, P) <=> Agree(4, c.ver, v.ver, p.ver)
  <2>1. Span(147, 150, 4)
    BY DEF Span
  <2>2. Holds(147, 150, 4, v.ver, V) /\ Holds(147, 150, 4, p.ver, P)
    BY HeaderHolds
  <2> HIDE DEF V, P
  <2>3. QED
    BY <2>1, <2>2, FieldAlike
<1>9. Alike(T8, V, P) <=> Agree(16, c.tcps, v.tcps, p.tcps)
  <2>1. Span(160, 175, 16)
    BY DEF Span
  <2>2. Holds(160, 175, 16, v.tcps, V) /\ Holds(160, 175, 16, p.tcps, P)
    BY HeaderHolds
  <2> HIDE DEF V, P
  <2>3. QED
    BY <2>1, <2>2, FieldAlike
<1>10. Alike(T9, V, P) <=> Agree(16, c.tcpd, v.tcpd, p.tcpd)
  <2>1. Span(176, 191, 16)
    BY DEF Span
  <2>2. Holds(176, 191, 16, v.tcpd, V) /\ Holds(176, 191, 16, p.tcpd, P)
    BY HeaderHolds
  <2> HIDE DEF V, P
  <2>3. QED
    BY <2>1, <2>2, FieldAlike
<1>11. Alike(T10, V, P) <=> Agree(16, c.udps, v.udps, p.udps)
  <2>1. Span(224, 239, 16)
    BY DEF Span
  <2>2. Holds(224, 239, 16, v.udps, V) /\ Holds(224, 239, 16, p.udps, P)
    BY HeaderHolds
  <2> HIDE DEF V, P
  <2>3. QED
    BY <2>1, <2>2, FieldAlike
<1>12. Alike(T11, V, P) <=> Agree(16, c.udpd, v.udpd, p.udpd)
  <2>1. Span(240, 255, 16)
    BY DEF Span
  <2>2. Holds(240, 255, 16, v.udpd, V) /\ Holds(240, 255, 16, p.udpd, P)
    BY HeaderHolds
  <2> HIDE DEF V, P
  <2>3. QED
    BY <2>1, <2>2, FieldAlike
<1>13. Alike(T12, V, P) <=> Agree(128, c.src, v.src, p.src)
  <2>1. Span(256, 383, 128)
    BY DEF Span
  <2>2. Holds(256, 383, 128, v.src, V) /\ Holds(256, 383, 128, p.src, P)
    BY HeaderHolds
  <2> HIDE DEF V, P
  <2>3. QED
    BY <2>1, <2>2, FieldAlike
<1>14. Alike(T13, V, P) <=> Agree(128, c.dst, v.dst, p.dst)
  <2>1. Span(384, 511, 128)
    BY DEF Span
  <2>2. Holds(384, 511, 128, v.dst, V) /\ Holds(384, 511, 128, p.dst, P)
    BY HeaderHolds
  <2> HIDE DEF V, P
  <2>3. QED
    BY <2>1, <2>2, FieldAlike
<1> HIDE DEF V, P, T1, T2, T3, T4, T5, T6, T7, T8, T9, T10, T11, T12, T13
<1>15. \A x : x \in Header(c) <=> x \in T1 \/ x \in T2 \/ x \in T3 \/ x \in T4 \/ x \in T5 \/ x \in T6 \/ x \in T7 \/ x \in T8 \/ x \in T9 \/ x \in T10 \/ x \in T11 \/ x \in T12 \/ x \in T13
  BY <1>1
<1>16. Alike(Header(c), V, P) <=> Alike(T1, V, P) /\ Alike(T2, V, P) /\ Alike(T3, V, P) /\ Alike(T4, V, P) /\ Alike(T5, V, P) /\ Alike(T6, V, P) /\ Alike(T7, V, P) /\ Alike(T8, V, P) /\ Alike(T9, V, P) /\ Alike(T10, V, P) /\ Alike(T11, V, P) /\ Alike(T12, V, P) /\ Alike(T13, V, P)
  BY <1>15, Zenon DEF Alike
<1>17. QED
  BY <1>2, <1>3, <1>4, <1>5, <1>6, <1>7, <1>8, <1>9, <1>10, <1>11, <1>12, <1>13, <1>14, <1>16, Zenon
     DEF V, P, FieldsAgree

(* A value that counts where a criterion is set, and an IPv4 address. *)
Cond(g, v) == IF g # {} THEN v ELSE {}
Low(a)     == a \cap Word(32)

(* A value that counts for a type only. *)
Typed(type, name, v) == IF type = name THEN v ELSE {}

(* Writing nothing writes nothing. *)
LEMMA SetNothing ==
  ASSUME NEW f PROVE DEVX_SET(f, {}) = {}
BY DEF DEVX_SET

(* Writing where a criterion is set is writing a value that counts there. *)
LEMMA SetCond ==
  ASSUME NEW f, NEW g, NEW v
  PROVE  DEVX_SET(f, Cond(g, v)) = IF g # {} THEN DEVX_SET(f, v) ELSE {}
BY SetNothing DEF Cond

(* An IPv4 address is the end of an address of 128 bits. *)
LEMMA AddressFour ==
  ASSUME NEW at \in Nat, NEW a
  PROVE  ipv4(F(at, 128), a) = DEVX_SET(F(at, 128), Low(a))
<1>1. DEVX_SET(F(96, 32), a) = {127 - i : i \in a \cap 0 .. 31}
  BY DEF DEVX_SET, Place, F
<1>2. ipv4(F(at, 128), a) = {at + (127 - i) : i \in a \cap 0 .. 31}
  BY <1>1 DEF ipv4, ipv4_layout, DEVX_ADDR_OF, F
<1>3. DEVX_SET(F(at, 128), Low(a)) = {at + 127 - i : i \in a \cap 0 .. 31}
  BY DEF DEVX_SET, Place, F, Low, Word
<1>4. \A i \in a \cap 0 .. 31 : at + (127 - i) = at + 127 - i
  OBVIOUS
<1>5. QED
  BY <1>2, <1>3, <1>4

(* An IPv6 address fills it. *)
LEMMA AddressSix ==
  ASSUME NEW at \in Nat, NEW a
  PROVE  ipv6(F(at, 128), a) = DEVX_SET(F(at, 128), a)
<1>1. DEVX_SET(F(0, 128), a) = {127 - i : i \in a \cap 0 .. 127}
  BY DEF DEVX_SET, Place, F
<1>2. ipv6(F(at, 128), a) = {at + (127 - i) : i \in a \cap 0 .. 127}
  BY <1>1 DEF ipv6, ipv6_layout, DEVX_ADDR_OF, F
<1>3. DEVX_SET(F(at, 128), a) = {at + 127 - i : i \in a \cap 0 .. 127}
  BY DEF DEVX_SET, Place, F
<1>4. \A i \in a \cap 0 .. 127 : at + (127 - i) = at + 127 - i
  OBVIOUS
<1>5. QED
  BY <1>2, <1>3, <1>4

(* Where the headers are. *)
LEMMA OuterPlaces ==
  /\ outer.smac = F(0, 48) /\ outer.ethertype = F(48, 16) /\ outer.dmac = F(64, 48)
  /\ outer.first_vid = F(116, 12) /\ outer.ip_protocol = F(128, 8) /\ outer.cvlan_tag = F(144, 1)
  /\ outer.ip_version = F(147, 4) /\ outer.tcp_sport = F(160, 16) /\ outer.tcp_dport = F(176, 16)
  /\ outer.udp_sport = F(224, 16) /\ outer.udp_dport = F(240, 16)
  /\ outer.src_ipv4_src_ipv6 = F(256, 128) /\ outer.dst_ipv4_dst_ipv6 = F(384, 128)
BY DEF outer, fte_match_set_lyr_2_4

(* The addresses apply_settings writes of m, the mask or the value. *)
Four(mask, value) == Pinned(mask, value, Ethertype4, Version4)
Six(mask, value)  == Pinned(mask, value, Ethertype6, Version6)
RuleSrc(mask, value, m) == IF Four(mask, value) THEN Low(Choose4(m).src)
                           ELSE IF Six(mask, value) THEN m.src ELSE {}
RuleDst(mask, value, m) == IF Four(mask, value) THEN Low(Choose4(m).dst)
                           ELSE IF Six(mask, value) THEN m.dst ELSE {}

(* It writes them where the headers have their addresses. *)
LEMMA RuleAddresses ==
  ASSUME NEW mask, NEW value, NEW m
  PROVE  DEVX_SET(F(256, 128), RuleSrc(mask, value, m)) \cup DEVX_SET(F(384, 128), RuleDst(mask, value, m))
         = Addresses(mask, value, m)
<1> DEFINE a == Choose4(m)
<1>1. ~(Four(mask, value) /\ Six(mask, value))
  BY DEF Four, Six, Pinned, Version4, Version6
<1>2. Addresses(mask, value, m) =
        When(Four(mask, value), ipv4(F(256, 128), a.src) \cup ipv4(F(384, 128), a.dst))
        \cup When(Six(mask, value), ipv6(F(256, 128), m.src) \cup ipv6(F(384, 128), m.dst))
  BY OuterPlaces DEF Addresses, Four, Six
<1>3. /\ ipv4(F(256, 128), a.src) = DEVX_SET(F(256, 128), Low(a.src))
      /\ ipv4(F(384, 128), a.dst) = DEVX_SET(F(384, 128), Low(a.dst))
  BY AddressFour
<1>4. /\ ipv6(F(256, 128), m.src) = DEVX_SET(F(256, 128), m.src)
      /\ ipv6(F(384, 128), m.dst) = DEVX_SET(F(384, 128), m.dst)
  BY AddressSix
<1>5. CASE Four(mask, value)
  BY <1>1, <1>2, <1>3, <1>5 DEF RuleSrc, RuleDst, When
<1>6. CASE ~Four(mask, value) /\ Six(mask, value)
  BY <1>2, <1>4, <1>6 DEF RuleSrc, RuleDst, When
<1>7. CASE ~Four(mask, value) /\ ~Six(mask, value)
  BY <1>2, <1>7, SetNothing DEF RuleSrc, RuleDst, When
<1>8. QED
  BY <1>5, <1>6, <1>7

(* What flow_matcher writes of a value x where the criteria c are set. *)
CritHeader(c, x) ==
  [smac |-> Cond(c.src_mac, x.src_mac), ethertype |-> Cond(c.ethertype, x.ethertype),
   dmac |-> Cond(c.dst_mac, x.dst_mac), vid |-> Cond(c.first_vlan_id, x.first_vlan_id),
   proto |-> Cond(c.ip_protocol, x.ip_protocol), tag |-> Cond(c.first_vlan_id, One),
   ver |-> Cond(c.ip_version, x.ip_version),
   tcps |-> Typed(c.type, "TCP", Cond(c.src_port, x.src_port)),
   tcpd |-> Typed(c.type, "TCP", Cond(c.dst_port, x.dst_port)),
   udps |-> Typed(c.type, "UDP", Cond(c.src_port, x.src_port)),
   udpd |-> Typed(c.type, "UDP", Cond(c.dst_port, x.dst_port)),
   src |-> Cond(c.src_ip, Low(x.src_ip)), dst |-> Cond(c.dst_ip, Low(x.dst_ip))]

(* The three layers of flow_matcher write these headers. *)
LEMMA CritBox ==
  ASSUME NEW c, NEW x, c.type \in {"NONE", "TCP", "UDP"}
  PROVE  /\ set_outer_header_lyr_4_fields(c, x).ret = "DPCP_OK"
         /\ set_outer_header_lyr_2_fields(c, x) \cup set_outer_header_lyr_3_fields(c, x)
            \cup set_outer_header_lyr_4_fields(c, x).box = Header(CritHeader(c, x))
<1> DEFINE T1 == DEVX_SET(F(0, 48), Cond(c.src_mac, x.src_mac))
           T2 == DEVX_SET(F(48, 16), Cond(c.ethertype, x.ethertype))
           T3 == DEVX_SET(F(64, 48), Cond(c.dst_mac, x.dst_mac))
           T4 == DEVX_SET(F(116, 12), Cond(c.first_vlan_id, x.first_vlan_id))
           T5 == DEVX_SET(F(128, 8), Cond(c.ip_protocol, x.ip_protocol))
           T6 == DEVX_SET(F(144, 1), Cond(c.first_vlan_id, One))
           T7 == DEVX_SET(F(147, 4), Cond(c.ip_version, x.ip_version))
           T8 == DEVX_SET(F(160, 16), Typed(c.type, "TCP", Cond(c.src_port, x.src_port)))
           T9 == DEVX_SET(F(176, 16), Typed(c.type, "TCP", Cond(c.dst_port, x.dst_port)))
           T10 == DEVX_SET(F(224, 16), Typed(c.type, "UDP", Cond(c.src_port, x.src_port)))
           T11 == DEVX_SET(F(240, 16), Typed(c.type, "UDP", Cond(c.dst_port, x.dst_port)))
           T12 == DEVX_SET(F(256, 128), Cond(c.src_ip, Low(x.src_ip)))
           T13 == DEVX_SET(F(384, 128), Cond(c.dst_ip, Low(x.dst_ip)))
           L2 == set_outer_header_lyr_2_fields(c, x)
           L3 == set_outer_header_lyr_3_fields(c, x)
           L4 == set_outer_header_lyr_4_fields(c, x).box
<1>1. L2 = T3 \cup T1 \cup T2 \cup (T4 \cup T6)
  <2>1. T3 = When(c.dst_mac # {}, copy_ether_mac(outer.dmac, x.dst_mac))
    BY OuterPlaces, SetCond DEF When, copy_ether_mac
  <2>2. T1 = When(c.src_mac # {}, copy_ether_mac(outer.smac, x.src_mac))
    BY OuterPlaces, SetCond DEF When, copy_ether_mac
  <2>3. T2 = When(c.ethertype # {}, DEVX_SET(outer.ethertype, x.ethertype))
    BY OuterPlaces, SetCond DEF When
  <2>4. T4 \cup T6 = When(c.first_vlan_id # {},
                          DEVX_SET(outer.first_vid, x.first_vlan_id) \cup DEVX_SET(outer.cvlan_tag, One))
    BY OuterPlaces, SetCond DEF When
  <2> HIDE DEF T1, T2, T3, T4, T5, T6, T7, T8, T9, T10, T11, T12, T13
  <2>5. QED
    BY <2>1, <2>2, <2>3, <2>4 DEF set_outer_header_lyr_2_fields
<1>2. L3 = T13 \cup T12 \cup T5 \cup T7
  <2>1. T13 = When(c.dst_ip # {}, ipv4(outer.dst_ipv4_dst_ipv6, x.dst_ip))
    BY OuterPlaces, SetCond, AddressFour DEF When
  <2>2. T12 = When(c.src_ip # {}, ipv4(outer.src_ipv4_src_ipv6, x.src_ip))
    BY OuterPlaces, SetCond, AddressFour DEF When
  <2>3. T5 = When(c.ip_protocol # {}, DEVX_SET(outer.ip_protocol, x.ip_protocol))
    BY OuterPlaces, SetCond DEF When
  <2>4. T7 = When(c.ip_version # {}, DEVX_SET(outer.ip_version, x.ip_version))
    BY OuterPlaces, SetCond DEF When
  <2> HIDE DEF T1, T2, T3, T4, T5, T6, T7, T8, T9, T10, T11, T12, T13
  <2>5. QED
    BY <2>1, <2>2, <2>3, <2>4 DEF set_outer_header_lyr_3_fields
<1>3. set_outer_header_lyr_4_fields(c, x).ret = "DPCP_OK" /\ L4 = T8 \cup T9 \cup T10 \cup T11
  <2>1. c.type # "TCP" => T8 = {} /\ T9 = {}
    BY SetNothing DEF Typed
  <2>2. c.type # "UDP" => T10 = {} /\ T11 = {}
    BY SetNothing DEF Typed
  <2>3. c.type = "TCP" => T9 \cup T8 = Ports(c, x, outer.tcp_dport, outer.tcp_sport)
    BY OuterPlaces, SetCond DEF When, Ports, Typed
  <2>4. c.type = "UDP" => T11 \cup T10 = Ports(c, x, outer.udp_dport, outer.udp_sport)
    BY OuterPlaces, SetCond DEF When, Ports, Typed
  <2> HIDE DEF T8, T9, T10, T11
  <2>5. CASE c.type = "NONE"
    BY <2>1, <2>2, <2>5 DEF set_outer_header_lyr_4_fields, Ok
  <2>6. CASE c.type = "TCP"
    BY <2>2, <2>3, <2>6 DEF set_outer_header_lyr_4_fields, Ok
  <2>7. CASE c.type = "UDP"
    BY <2>1, <2>4, <2>7 DEF set_outer_header_lyr_4_fields, Ok
  <2>8. QED
    BY <2>5, <2>6, <2>7
<1>4. Header(CritHeader(c, x)) = T1 \cup T2 \cup T3 \cup T4 \cup T5 \cup T6 \cup T7 \cup T8 \cup T9 \cup T10
                  \cup T11 \cup T12 \cup T13
  <2> DEFINE h == CritHeader(c, x)
  <2>1. /\ h.smac = Cond(c.src_mac, x.src_mac) /\ h.ethertype = Cond(c.ethertype, x.ethertype)
      /\ h.dmac = Cond(c.dst_mac, x.dst_mac) /\ h.vid = Cond(c.first_vlan_id, x.first_vlan_id)
      /\ h.proto = Cond(c.ip_protocol, x.ip_protocol) /\ h.tag = Cond(c.first_vlan_id, One)
      /\ h.ver = Cond(c.ip_version, x.ip_version)
      /\ h.tcps = Typed(c.type, "TCP", Cond(c.src_port, x.src_port))
      /\ h.tcpd = Typed(c.type, "TCP", Cond(c.dst_port, x.dst_port))
      /\ h.udps = Typed(c.type, "UDP", Cond(c.src_port, x.src_port))
      /\ h.udpd = Typed(c.type, "UDP", Cond(c.dst_port, x.dst_port))
      /\ h.src = Cond(c.src_ip, Low(x.src_ip)) /\ h.dst = Cond(c.dst_ip, Low(x.dst_ip))
    BY Zenon DEF CritHeader
  <2> HIDE DEF h
  <2>2. /\ T1 = DEVX_SET(F(0, 48), h.smac) /\ T2 = DEVX_SET(F(48, 16), h.ethertype)
        /\ T3 = DEVX_SET(F(64, 48), h.dmac) /\ T4 = DEVX_SET(F(116, 12), h.vid)
        /\ T5 = DEVX_SET(F(128, 8), h.proto) /\ T6 = DEVX_SET(F(144, 1), h.tag)
        /\ T7 = DEVX_SET(F(147, 4), h.ver) /\ T8 = DEVX_SET(F(160, 16), h.tcps)
        /\ T9 = DEVX_SET(F(176, 16), h.tcpd) /\ T10 = DEVX_SET(F(224, 16), h.udps)
        /\ T11 = DEVX_SET(F(240, 16), h.udpd) /\ T12 = DEVX_SET(F(256, 128), h.src)
        /\ T13 = DEVX_SET(F(384, 128), h.dst)
    BY <2>1, Zenon
  <2> HIDE DEF T1, T2, T3, T4, T5, T6, T7, T8, T9, T10, T11, T12, T13
  <2>3. Header(h) = T1 \cup T2 \cup T3 \cup T4 \cup T5 \cup T6 \cup T7 \cup T8 \cup T9 \cup T10
                    \cup T11 \cup T12 \cup T13
    BY <2>2 DEF Header
  <2>4. QED
    BY <2>3, Zenon DEF h
<1> HIDE DEF T1, T2, T3, T4, T5, T6, T7, T8, T9, T10, T11, T12, T13, L2, L3, L4
<1>5. L2 \cup L3 \cup L4 = Header(CritHeader(c, x))
  BY <1>1, <1>2, <1>3, <1>4
<1>6. QED
  BY <1>3, <1>5 DEF L2, L3, L4

(* What the parser presents of a packet. *)
PacketHeader(p) ==
  [smac |-> p.src_mac, ethertype |-> p.ethertype, dmac |-> p.dst_mac, vid |-> p.vid,
   proto |-> p.ip_protocol, tag |-> p.tag, ver |-> p.ip_version,
   tcps |-> Port(p, "TCP", p.src_port), tcpd |-> Port(p, "TCP", p.dst_port),
   udps |-> Port(p, "UDP", p.src_port), udpd |-> Port(p, "UDP", p.dst_port),
   src |-> IF p.ip_version = Version6 THEN p.src_ip ELSE Low(p.src_ip),
   dst |-> IF p.ip_version = Version6 THEN p.dst_ip ELSE Low(p.dst_ip)]

(* It presents these headers. *)
LEMMA PacketBox ==
  ASSUME NEW p
  PROVE  Headers(p) = Header(PacketHeader(p))
<1> DEFINE T1 == DEVX_SET(F(0, 48), p.src_mac)
           T2 == DEVX_SET(F(48, 16), p.ethertype)
           T3 == DEVX_SET(F(64, 48), p.dst_mac)
           T4 == DEVX_SET(F(116, 12), p.vid)
           T5 == DEVX_SET(F(128, 8), p.ip_protocol)
           T6 == DEVX_SET(F(144, 1), p.tag)
           T7 == DEVX_SET(F(147, 4), p.ip_version)
           T8 == DEVX_SET(F(160, 16), Port(p, "TCP", p.src_port))
           T9 == DEVX_SET(F(176, 16), Port(p, "TCP", p.dst_port))
           T10 == DEVX_SET(F(224, 16), Port(p, "UDP", p.src_port))
           T11 == DEVX_SET(F(240, 16), Port(p, "UDP", p.dst_port))
           T12 == DEVX_SET(F(256, 128), IF p.ip_version = Version6 THEN p.src_ip ELSE Low(p.src_ip))
           T13 == DEVX_SET(F(384, 128), IF p.ip_version = Version6 THEN p.dst_ip ELSE Low(p.dst_ip))
<1>1. T12 = ParsedAddress(p, outer.src_ipv4_src_ipv6, p.src_ip)
  BY OuterPlaces, AddressFour, AddressSix DEF ParsedAddress
<1>2. T13 = ParsedAddress(p, outer.dst_ipv4_dst_ipv6, p.dst_ip)
  BY OuterPlaces, AddressFour, AddressSix DEF ParsedAddress
<1>3. /\ T1 = DEVX_SET(outer.smac, p.src_mac) /\ T3 = DEVX_SET(outer.dmac, p.dst_mac)
      /\ T2 = DEVX_SET(outer.ethertype, p.ethertype) /\ T6 = DEVX_SET(outer.cvlan_tag, p.tag)
      /\ T4 = DEVX_SET(outer.first_vid, p.vid) /\ T5 = DEVX_SET(outer.ip_protocol, p.ip_protocol)
      /\ T7 = DEVX_SET(outer.ip_version, p.ip_version)
      /\ T8 = DEVX_SET(outer.tcp_sport, Port(p, "TCP", p.src_port))
      /\ T9 = DEVX_SET(outer.tcp_dport, Port(p, "TCP", p.dst_port))
      /\ T10 = DEVX_SET(outer.udp_sport, Port(p, "UDP", p.src_port))
      /\ T11 = DEVX_SET(outer.udp_dport, Port(p, "UDP", p.dst_port))
  BY OuterPlaces
<1>4. Header(PacketHeader(p)) = T1 \cup T2 \cup T3 \cup T4 \cup T5 \cup T6 \cup T7 \cup T8 \cup T9 \cup T10
                  \cup T11 \cup T12 \cup T13
  <2> DEFINE h == PacketHeader(p)
  <2>1. /\ h.smac = p.src_mac /\ h.ethertype = p.ethertype /\ h.dmac = p.dst_mac /\ h.vid = p.vid
      /\ h.proto = p.ip_protocol /\ h.tag = p.tag /\ h.ver = p.ip_version
      /\ h.tcps = Port(p, "TCP", p.src_port) /\ h.tcpd = Port(p, "TCP", p.dst_port)
      /\ h.udps = Port(p, "UDP", p.src_port) /\ h.udpd = Port(p, "UDP", p.dst_port)
      /\ h.src = (IF p.ip_version = Version6 THEN p.src_ip ELSE Low(p.src_ip))
      /\ h.dst = (IF p.ip_version = Version6 THEN p.dst_ip ELSE Low(p.dst_ip))
    BY Zenon DEF PacketHeader
  <2> HIDE DEF h
  <2>2. /\ T1 = DEVX_SET(F(0, 48), h.smac) /\ T2 = DEVX_SET(F(48, 16), h.ethertype)
        /\ T3 = DEVX_SET(F(64, 48), h.dmac) /\ T4 = DEVX_SET(F(116, 12), h.vid)
        /\ T5 = DEVX_SET(F(128, 8), h.proto) /\ T6 = DEVX_SET(F(144, 1), h.tag)
        /\ T7 = DEVX_SET(F(147, 4), h.ver) /\ T8 = DEVX_SET(F(160, 16), h.tcps)
        /\ T9 = DEVX_SET(F(176, 16), h.tcpd) /\ T10 = DEVX_SET(F(224, 16), h.udps)
        /\ T11 = DEVX_SET(F(240, 16), h.udpd) /\ T12 = DEVX_SET(F(256, 128), h.src)
        /\ T13 = DEVX_SET(F(384, 128), h.dst)
    BY <2>1, Zenon
  <2> HIDE DEF T1, T2, T3, T4, T5, T6, T7, T8, T9, T10, T11, T12, T13
  <2>3. Header(h) = T1 \cup T2 \cup T3 \cup T4 \cup T5 \cup T6 \cup T7 \cup T8 \cup T9 \cup T10
                    \cup T11 \cup T12 \cup T13
    BY <2>2 DEF Header
  <2>4. QED
    BY <2>3, Zenon DEF h
<1> HIDE DEF T1, T2, T3, T4, T5, T6, T7, T8, T9, T10, T11, T12, T13
<1>5. Headers(p) = T1 \cup T3 \cup T2 \cup T6 \cup T4 \cup T5 \cup T7 \cup T12 \cup T13 \cup T8
                   \cup T9 \cup T10 \cup T11
  BY <1>1, <1>2, <1>3, Zenon DEF Headers
<1>6. QED
  BY <1>4, <1>5

(* Comparing a field where a criterion is set, in its bits or all of it. *)
LEMMA AgreeCond ==
  ASSUME NEW w, NEW c, NEW v, NEW p
  PROVE  Agree(w, Cond(c, c), Cond(c, v), p) <=> v \cap (c \cap Word(w)) = p \cap (c \cap Word(w))
BY DEF Agree, Cond, Word

(* A criterion no wider than its field is compared in full. *)
LEMMA AgreeSame ==
  ASSUME NEW w, NEW c, NEW v, NEW p, Fits(c, w)
  PROVE  Agree(w, Cond(c, c), Cond(c, v), p) <=> v \cap c = p \cap c
BY Zenon DEF Agree, Cond, Fits

(* A value that has no more bits than its field where the criterion has. *)
Short(w, c, v, p) == c \cap v \subseteq 0 .. (w - 1) /\ p \subseteq 0 .. (w - 1)

(* So is one where value and packet are no wider. *)
LEMMA AgreeShort ==
  ASSUME NEW w, NEW c, NEW v, NEW p, Short(w, c, v, p)
  PROVE  Agree(w, Cond(c, c), Cond(c, v), p) <=> v \cap c = p \cap c
BY Zenon DEF Agree, Cond, Short

(* An IPv4 address is compared in 32 bits. *)
LEMMA AgreeLow ==
  ASSUME NEW c, NEW v, NEW p, NEW q, Fits(c, 32), q = p \/ q = Low(p)
  PROVE  Agree(128, Cond(c, Low(c)), Cond(c, Low(v)), q) <=> v \cap c = p \cap c
<1>1. \A i \in c : i \in 0 .. 127 /\ i \in Low(c) /\ (i \in Low(v) <=> i \in v) /\ (i \in q <=> i \in p)
  BY DEF Fits, Low, Word
<1>2. Agree(128, Cond(c, Low(c)), Cond(c, Low(v)), q) <=> \A i \in c : i \in v <=> i \in p
  <2>1. CASE c = {}
    BY <2>1 DEF Agree, Cond
  <2>2. CASE c # {}
    <3>1. Cond(c, Low(c)) = Low(c) /\ Cond(c, Low(v)) = Low(v)
      BY <2>2 DEF Cond
    <3>2. Low(c) = c
      BY <1>1 DEF Low
    <3>3. QED
      BY <1>1, <3>1, <3>2 DEF Agree
  <2>3. QED
    BY <2>1, <2>2
<1>3. QED
  BY <1>2

(* The tag is compared when a VLAN id is. *)
LEMMA AgreeTag ==
  ASSUME NEW c, NEW t, t \in {{}, One}
  PROVE  Agree(1, Cond(c, One), Cond(c, One), t) <=> (c # {} => t = One)
BY DEF Agree, Cond, One

(* A port is compared for the type of the criteria only. *)
LEMMA AgreePort ==
  ASSUME NEW type, NEW name, NEW c, NEW v, NEW p, Fits(c, 16)
  PROVE  Agree(16, Typed(type, name, Cond(c, c)), Typed(type, name, Cond(c, v)), p)
         <=> (type = name => v \cap c = p \cap c)
<1>1. CASE type = name
  BY <1>1, AgreeSame DEF Typed
<1>2. CASE type # name
  BY <1>2 DEF Agree, Typed
<1>3. QED
  BY <1>1, <1>2

(* What the criteria and values of a group and a rule ask of headers. *)
HeadersAsked(c, v, p) ==
  /\ Same(c.src_mac \cap Word(48), v.src_mac, p.src_mac)
  /\ Same(c.dst_mac \cap Word(48), v.dst_mac, p.dst_mac)
  /\ Same(c.ethertype, v.ethertype, p.ethertype)
  /\ c.first_vlan_id # {} => p.tag = One /\ Same(c.first_vlan_id, v.first_vlan_id, p.vid)
  /\ Same(c.src_ip, v.src_ip, p.src_ip) /\ Same(c.dst_ip, v.dst_ip, p.dst_ip)
  /\ Same(c.ip_protocol, v.ip_protocol, p.ip_protocol)
  /\ Same(c.ip_version, v.ip_version, p.ip_version)
  /\ c.type # "NONE" => /\ Same(c.src_port, v.src_port, Port(p, c.type, p.src_port))
                        /\ Same(c.dst_port, v.dst_port, Port(p, c.type, p.dst_port))

(* The bits of the headers that are compared say exactly that. *)
LEMMA HeadersAgree ==
  ASSUME NEW c, c \in match_params_ex_type, NEW v, NEW p, c.type \in {"NONE", "TCP", "UDP"},
         p.tag \in {{}, One}, p.vid \subseteq Word(12),
         c.first_vlan_id \cap v.first_vlan_id \subseteq Word(12)
  PROVE  Alike(Header(CritHeader(c, c)), Header(CritHeader(c, v)), Header(PacketHeader(p)))
         <=> HeadersAsked(c, v, p)
<1> DEFINE C == CritHeader(c, c)
           V == CritHeader(c, v)
           P == PacketHeader(p)
<1>1. /\ Fits(c.ethertype, 16) /\ Fits(c.src_ip, 32) /\ Fits(c.dst_ip, 32) /\ Fits(c.ip_protocol, 8)
      /\ Fits(c.ip_version, 4) /\ Fits(c.src_port, 16) /\ Fits(c.dst_port, 16)
  BY DEF match_params_ex_type, Word, Fits
<1> HIDE DEF C, V, P
<1>2. Agree(48, C.smac, V.smac, P.smac) <=> Same(c.src_mac \cap Word(48), v.src_mac, p.src_mac)
  <2>1. /\ C.smac = Cond(c.src_mac, c.src_mac)
        /\ V.smac = Cond(c.src_mac, v.src_mac)
        /\ P.smac = p.src_mac
    BY Zenon DEF C, V, P, CritHeader, PacketHeader
  <2>2. QED
    BY <2>1, AgreeCond DEF Same
<1>3. Agree(16, C.ethertype, V.ethertype, P.ethertype) <=> Same(c.ethertype, v.ethertype, p.ethertype)
  <2>1. /\ C.ethertype = Cond(c.ethertype, c.ethertype)
        /\ V.ethertype = Cond(c.ethertype, v.ethertype)
        /\ P.ethertype = p.ethertype
    BY Zenon DEF C, V, P, CritHeader, PacketHeader
  <2>2. QED
    BY <2>1, <1>1, AgreeSame DEF Same
<1>4. Agree(48, C.dmac, V.dmac, P.dmac) <=> Same(c.dst_mac \cap Word(48), v.dst_mac, p.dst_mac)
  <2>1. /\ C.dmac = Cond(c.dst_mac, c.dst_mac)
        /\ V.dmac = Cond(c.dst_mac, v.dst_mac)
        /\ P.dmac = p.dst_mac
    BY Zenon DEF C, V, P, CritHeader, PacketHeader
  <2>2. QED
    BY <2>1, AgreeCond DEF Same
<1>5. Agree(12, C.vid, V.vid, P.vid) <=> Same(c.first_vlan_id, v.first_vlan_id, p.vid)
  <2>1. /\ C.vid = Cond(c.first_vlan_id, c.first_vlan_id)
        /\ V.vid = Cond(c.first_vlan_id, v.first_vlan_id)
        /\ P.vid = p.vid
    BY Zenon DEF C, V, P, CritHeader, PacketHeader
  <2>2. Short(12, c.first_vlan_id, v.first_vlan_id, p.vid)
    BY DEF Short, Word
  <2>3. QED
    BY <2>1, <2>2, AgreeShort DEF Same
<1>6. Agree(8, C.proto, V.proto, P.proto) <=> Same(c.ip_protocol, v.ip_protocol, p.ip_protocol)
  <2>1. /\ C.proto = Cond(c.ip_protocol, c.ip_protocol)
        /\ V.proto = Cond(c.ip_protocol, v.ip_protocol)
        /\ P.proto = p.ip_protocol
    BY Zenon DEF C, V, P, CritHeader, PacketHeader
  <2>2. QED
    BY <2>1, <1>1, AgreeSame DEF Same
<1>7. Agree(1, C.tag, V.tag, P.tag) <=> (c.first_vlan_id # {} => p.tag = One)
  <2>1. /\ C.tag = Cond(c.first_vlan_id, One)
        /\ V.tag = Cond(c.first_vlan_id, One)
        /\ P.tag = p.tag
    BY Zenon DEF C, V, P, CritHeader, PacketHeader
  <2>2. QED
    BY <2>1, AgreeTag
<1>8. Agree(4, C.ver, V.ver, P.ver) <=> Same(c.ip_version, v.ip_version, p.ip_version)
  <2>1. /\ C.ver = Cond(c.ip_version, c.ip_version)
        /\ V.ver = Cond(c.ip_version, v.ip_version)
        /\ P.ver = p.ip_version
    BY Zenon DEF C, V, P, CritHeader, PacketHeader
  <2>2. QED
    BY <2>1, <1>1, AgreeSame DEF Same
<1>9. Agree(16, C.tcps, V.tcps, P.tcps) <=> (c.type = "TCP" => Same(c.src_port, v.src_port, Port(p, "TCP", p.src_port)))
  <2>1. /\ C.tcps = Typed(c.type, "TCP", Cond(c.src_port, c.src_port))
        /\ V.tcps = Typed(c.type, "TCP", Cond(c.src_port, v.src_port))
        /\ P.tcps = Port(p, "TCP", p.src_port)
    BY Zenon DEF C, V, P, CritHeader, PacketHeader
  <2>2. QED
    BY <2>1, <1>1, AgreePort DEF Same
<1>10. Agree(16, C.tcpd, V.tcpd, P.tcpd) <=> (c.type = "TCP" => Same(c.dst_port, v.dst_port, Port(p, "TCP", p.dst_port)))
  <2>1. /\ C.tcpd = Typed(c.type, "TCP", Cond(c.dst_port, c.dst_port))
        /\ V.tcpd = Typed(c.type, "TCP", Cond(c.dst_port, v.dst_port))
        /\ P.tcpd = Port(p, "TCP", p.dst_port)
    BY Zenon DEF C, V, P, CritHeader, PacketHeader
  <2>2. QED
    BY <2>1, <1>1, AgreePort DEF Same
<1>11. Agree(16, C.udps, V.udps, P.udps) <=> (c.type = "UDP" => Same(c.src_port, v.src_port, Port(p, "UDP", p.src_port)))
  <2>1. /\ C.udps = Typed(c.type, "UDP", Cond(c.src_port, c.src_port))
        /\ V.udps = Typed(c.type, "UDP", Cond(c.src_port, v.src_port))
        /\ P.udps = Port(p, "UDP", p.src_port)
    BY Zenon DEF C, V, P, CritHeader, PacketHeader
  <2>2. QED
    BY <2>1, <1>1, AgreePort DEF Same
<1>12. Agree(16, C.udpd, V.udpd, P.udpd) <=> (c.type = "UDP" => Same(c.dst_port, v.dst_port, Port(p, "UDP", p.dst_port)))
  <2>1. /\ C.udpd = Typed(c.type, "UDP", Cond(c.dst_port, c.dst_port))
        /\ V.udpd = Typed(c.type, "UDP", Cond(c.dst_port, v.dst_port))
        /\ P.udpd = Port(p, "UDP", p.dst_port)
    BY Zenon DEF C, V, P, CritHeader, PacketHeader
  <2>2. QED
    BY <2>1, <1>1, AgreePort DEF Same
<1>13. Agree(128, C.src, V.src, P.src) <=> Same(c.src_ip, v.src_ip, p.src_ip)
  <2>1. /\ C.src = Cond(c.src_ip, Low(c.src_ip))
        /\ V.src = Cond(c.src_ip, Low(v.src_ip))
        /\ (P.src = p.src_ip \/ P.src = Low(p.src_ip))
    BY Zenon DEF C, V, P, CritHeader, PacketHeader
  <2>2. Agree(128, Cond(c.src_ip, Low(c.src_ip)), Cond(c.src_ip, Low(v.src_ip)), P.src)
        <=> v.src_ip \cap c.src_ip = p.src_ip \cap c.src_ip
    BY <2>1, <1>1, AgreeLow, Zenon
  <2>3. QED
    BY <2>1, <2>2, Zenon DEF Same
<1>14. Agree(128, C.dst, V.dst, P.dst) <=> Same(c.dst_ip, v.dst_ip, p.dst_ip)
  <2>1. /\ C.dst = Cond(c.dst_ip, Low(c.dst_ip))
        /\ V.dst = Cond(c.dst_ip, Low(v.dst_ip))
        /\ (P.dst = p.dst_ip \/ P.dst = Low(p.dst_ip))
    BY Zenon DEF C, V, P, CritHeader, PacketHeader
  <2>2. Agree(128, Cond(c.dst_ip, Low(c.dst_ip)), Cond(c.dst_ip, Low(v.dst_ip)), P.dst)
        <=> v.dst_ip \cap c.dst_ip = p.dst_ip \cap c.dst_ip
    BY <2>1, <1>1, AgreeLow, Zenon
  <2>3. QED
    BY <2>1, <2>2, Zenon DEF Same
<1>15. c.first_vlan_id = {} => Same(c.first_vlan_id, v.first_vlan_id, p.vid)
  BY DEF Same
<1>16. Alike(Header(C), Header(V), Header(P)) <=> FieldsAgree(C, V, P)
  BY HeaderAlike, Zenon
<1>17. Alike(Header(C), Header(V), Header(P)) <=> HeadersAsked(c, v, p)
  BY <1>2, <1>3, <1>4, <1>5, <1>6, <1>7, <1>8, <1>9, <1>10, <1>11, <1>12, <1>13, <1>14, <1>15, <1>16, Zenon
     DEF HeadersAsked, FieldsAgree
<1>18. QED
  BY <1>17 DEF C, V, P

----------------------------------------------------------------------------
(* Samples of a parser graph node and the metadata register. *)

(* The first n samples of s, each with its value and its id. *)
Slot(i, s)  == DEVX_SET(F(64 * i, 32), s[i + 1].val) \cup DEVX_SET(F(64 * i + 32, 32), s[i + 1].id)
Slots(n, s) == UNION {Slot(i, s) : i \in 0 .. (n - 1)}

(* A sample writes its own two fields. *)
LEMMA SlotWithin ==
  ASSUME NEW i \in Nat, NEW s
  PROVE  /\ DEVX_SET(F(64 * i, 32), s[i + 1].val) \subseteq (64 * i) .. (64 * i + 31)
         /\ DEVX_SET(F(64 * i + 32, 32), s[i + 1].id) \subseteq (64 * i + 32) .. (64 * i + 63)
<1>1. Span(64 * i, 64 * i + 31, 32) /\ Span(64 * i + 32, 64 * i + 63, 32)
  BY DEF Span
<1>2. QED
  BY <1>1, SetWithin

(* Each sample has its bits for itself. *)
LEMMA SlotHolds ==
  ASSUME NEW n \in Nat, NEW s, NEW i \in 0 .. (n - 1)
  PROVE  /\ Holds(64 * i, 64 * i + 31, 32, s[i + 1].val, Slots(n, s))
         /\ Holds(64 * i + 32, 64 * i + 63, 32, s[i + 1].id, Slots(n, s))
<1> DEFINE A(j) == DEVX_SET(F(64 * j, 32), s[j + 1].val)
           B(j) == DEVX_SET(F(64 * j + 32, 32), s[j + 1].id)
<1>1. \A x : x \in Slots(n, s) <=> \E j \in 0 .. (n - 1) : x \in A(j) \/ x \in B(j)
  BY DEF Slots, Slot
<1>2. \A j \in 0 .. (n - 1) : A(j) \subseteq (64 * j) .. (64 * j + 31) /\ B(j) \subseteq (64 * j + 32) .. (64 * j + 63)
  BY SlotWithin
<1> HIDE DEF A, B
<1>3. \A x \in (64 * i) .. (64 * i + 31) : x \in Slots(n, s) <=> x \in A(i)
  <2> SUFFICES ASSUME NEW x \in (64 * i) .. (64 * i + 31), x \in Slots(n, s) PROVE x \in A(i)
    BY <1>1
  <2>1. PICK j \in 0 .. (n - 1) : x \in A(j) \/ x \in B(j)
    BY <1>1
  <2>2. x \in (64 * j) .. (64 * j + 31) \/ x \in (64 * j + 32) .. (64 * j + 63)
    BY <1>2, <2>1
  <2>3. j = i /\ x \notin (64 * j + 32) .. (64 * j + 63)
    BY <2>2
  <2>4. QED
    BY <1>2, <2>1, <2>3
<1>4. \A x \in (64 * i + 32) .. (64 * i + 63) : x \in Slots(n, s) <=> x \in B(i)
  <2> SUFFICES ASSUME NEW x \in (64 * i + 32) .. (64 * i + 63), x \in Slots(n, s) PROVE x \in B(i)
    BY <1>1
  <2>1. PICK j \in 0 .. (n - 1) : x \in A(j) \/ x \in B(j)
    BY <1>1
  <2>2. x \in (64 * j) .. (64 * j + 31) \/ x \in (64 * j + 32) .. (64 * j + 63)
    BY <1>2, <2>1
  <2>3. j = i /\ x \notin (64 * j) .. (64 * j + 31)
    BY <2>2
  <2>4. QED
    BY <1>2, <2>1, <2>3
<1>5. QED
  BY <1>3, <1>4 DEF Holds, A, B

(* Eight samples fit their part. *)
LEMMA SlotsFit ==
  ASSUME NEW n \in 0 .. 8, NEW s
  PROVE  Fits(Slots(n, s), 512)
<1> SUFFICES ASSUME NEW x \in Slots(n, s) PROVE x \in 0 .. 511
  BY DEF Fits
<1>1. PICK i \in 0 .. (n - 1) : x \in Slot(i, s)
  BY DEF Slots
<1>2. x \in (64 * i) .. (64 * i + 31) \/ x \in (64 * i + 32) .. (64 * i + 63)
  BY <1>1, SlotWithin DEF Slot
<1>3. QED
  BY <1>2

(* Samples are alike where those of c are set when each is. *)
LEMMA SlotsAlike ==
  ASSUME NEW n \in 0 .. 8, NEW c, NEW v, NEW q
  PROVE  Alike(Slots(n, c), Slots(n, v), Slots(8, q)) <=>
         \A i \in 0 .. (n - 1) : /\ Agree(32, c[i + 1].val, v[i + 1].val, q[i + 1].val)
                                 /\ Agree(32, c[i + 1].id, v[i + 1].id, q[i + 1].id)
<1> DEFINE V == Slots(n, v)
           P == Slots(8, q)
           A(j) == DEVX_SET(F(64 * j, 32), c[j + 1].val)
           B(j) == DEVX_SET(F(64 * j + 32, 32), c[j + 1].id)
<1>1. \A x : x \in Slots(n, c) <=> \E j \in 0 .. (n - 1) : x \in A(j) \/ x \in B(j)
  BY DEF Slots, Slot
<1>2. ASSUME NEW i \in 0 .. (n - 1)
      PROVE  /\ Alike(A(i), V, P) <=> Agree(32, c[i + 1].val, v[i + 1].val, q[i + 1].val)
             /\ Alike(B(i), V, P) <=> Agree(32, c[i + 1].id, v[i + 1].id, q[i + 1].id)
  <2>1. i \in 0 .. (8 - 1) /\ i \in Nat /\ n \in Nat
    OBVIOUS
  <2>2. Holds(64 * i, 64 * i + 31, 32, v[i + 1].val, V) /\ Holds(64 * i + 32, 64 * i + 63, 32, v[i + 1].id, V)
    BY <2>1, SlotHolds
  <2>3. Holds(64 * i, 64 * i + 31, 32, q[i + 1].val, P) /\ Holds(64 * i + 32, 64 * i + 63, 32, q[i + 1].id, P)
    BY <2>1, SlotHolds
  <2>4. Span(64 * i, 64 * i + 31, 32) /\ Span(64 * i + 32, 64 * i + 63, 32)
    BY <2>1 DEF Span
  <2> HIDE DEF V, P
  <2>5. QED
    BY <2>2, <2>3, <2>4, FieldAlike
<1> HIDE DEF V, P, A, B
<1>3. Alike(Slots(n, c), V, P) <=> \A i \in 0 .. (n - 1) : Alike(A(i), V, P) /\ Alike(B(i), V, P)
  BY <1>1, Zenon DEF Alike
<1>4. QED
  BY <1>2, <1>3, Zenon DEF V, P

(* What the parser presents of samples: those whose ids an entry names. *)
Named(b, i)    == DEVX_GET(F(64 * i + 32, 32), b)
SampleOf(p, b, i) == [val |-> p.sample[Named(b, i)], id |-> Named(b, i)]
Seen(p, b)     == [j \in 1 .. 8 |-> SampleOf(p, b, j - 1)]

(* It presents these samples. *)
LEMMA SamplesBox ==
  ASSUME NEW p, NEW b
  PROVE  Samples(p, b) = Slots(8, Seen(p, b))
<1> DEFINE m == fte_match_set_misc4
           slot(i) == DEVX_SET(m.prog_sample_field_id[i], DEVX_GET(m.prog_sample_field_id[i], b))
                      \cup DEVX_SET(m.prog_sample_field_value[i],
                                    p.sample[DEVX_GET(m.prog_sample_field_id[i], b)])
<1>1. Samples(p, b) = UNION {slot(i) : i \in 0 .. 7}
  BY DEF Samples
<1>2. ASSUME NEW i \in 0 .. 7 PROVE slot(i) = Slot(i, Seen(p, b))
  <2>1. m.prog_sample_field_id[i] = F(64 * i + 32, 32) /\ m.prog_sample_field_value[i] = F(64 * i, 32)
    BY DEF fte_match_set_misc4
  <2>2. Seen(p, b)[i + 1] = SampleOf(p, b, i)
    BY DEF Seen
  <2>3. Seen(p, b)[i + 1].val = p.sample[Named(b, i)] /\ Seen(p, b)[i + 1].id = Named(b, i)
    BY <2>2 DEF SampleOf
  <2> HIDE DEF m
  <2>4. QED
    BY <2>1, <2>3 DEF Slot, Named
<1> HIDE DEF slot
<1>3. Slots(8, Seen(p, b)) = UNION {Slot(i, Seen(p, b)) : i \in 0 .. 7}
  BY DEF Slots
<1>4. QED
  BY <1>1, <1>2, <1>3

(* The samples of an entry select by the values of the samples it names. *)
LEMMA SamplesAgree ==
  ASSUME NEW n \in 0 .. 8, NEW c, NEW v, NEW p,
         \A i \in 1 .. n : Fits(c[i].val, 32) /\ Fits(v[i].id, 32)
  PROVE  Alike(Slots(n, c), Slots(n, v), Samples(p, Slots(n, v))) <=>
         \A i \in 1 .. n : Same(c[i].val, v[i].val, p.sample[v[i].id])
<1> DEFINE b == Slots(n, v)
           q == Seen(p, b)
<1>1. Samples(p, b) = Slots(8, q)
  BY SamplesBox
<1>2. ASSUME NEW i \in 0 .. (n - 1) PROVE q[i + 1].id = v[i + 1].id /\ q[i + 1].val = p.sample[v[i + 1].id]
  <2>1. Holds(64 * i + 32, 64 * i + 63, 32, v[i + 1].id, b) /\ Span(64 * i + 32, 64 * i + 63, 32)
    BY SlotHolds DEF Span
  <2> HIDE DEF b
  <2>2. Named(b, i) = v[i + 1].id \cap (0 .. (32 - 1))
    <3>1. DEVX_GET(F(64 * i + 32, 32), b) = v[i + 1].id \cap (0 .. (32 - 1))
      BY <2>1, GetCut
    <3>2. QED
      BY <3>1 DEF Named
  <2>3. Fits(v[i + 1].id, 32)
    OBVIOUS
  <2>4. Named(b, i) = v[i + 1].id
    BY <2>2, <2>3 DEF Fits
  <2>5. q[i + 1] = SampleOf(p, b, i)
    BY DEF Seen
  <2> HIDE DEF q
  <2>6. QED
    BY <2>4, <2>5 DEF SampleOf
<1> HIDE DEF b, q
<1>3. Alike(Slots(n, c), b, Slots(8, q)) <=>
      \A i \in 0 .. (n - 1) : /\ Agree(32, c[i + 1].val, v[i + 1].val, q[i + 1].val)
                              /\ Agree(32, c[i + 1].id, v[i + 1].id, q[i + 1].id)
  BY SlotsAlike, Zenon DEF b
<1>4. ASSUME NEW i \in 0 .. (n - 1)
      PROVE  /\ Agree(32, c[i + 1].val, v[i + 1].val, q[i + 1].val)
                <=> Same(c[i + 1].val, v[i + 1].val, p.sample[v[i + 1].id])
             /\ Agree(32, c[i + 1].id, v[i + 1].id, q[i + 1].id)
  <2>1. Fits(c[i + 1].val, 32)
    OBVIOUS
  <2>2. QED
    BY <1>2, <2>1, Zenon DEF Agree, Fits, Same
<1>5. Alike(Slots(n, c), b, Slots(8, q)) <=>
      \A i \in 0 .. (n - 1) : Same(c[i + 1].val, v[i + 1].val, p.sample[v[i + 1].id])
  BY <1>3, <1>4, Zenon
<1>6. (\A i \in 0 .. (n - 1) : Same(c[i + 1].val, v[i + 1].val, p.sample[v[i + 1].id]))
      <=> \A i \in 1 .. n : Same(c[i].val, v[i].val, p.sample[v[i].id])
  <2>1. ASSUME NEW i \in 1 .. n, \A j \in 0 .. (n - 1) : Same(c[j + 1].val, v[j + 1].val, p.sample[v[j + 1].id])
        PROVE  Same(c[i].val, v[i].val, p.sample[v[i].id])
    <3>1. i - 1 \in 0 .. (n - 1) /\ (i - 1) + 1 = i
      OBVIOUS
    <3>2. Same(c[(i - 1) + 1].val, v[(i - 1) + 1].val, p.sample[v[(i - 1) + 1].id])
      BY <2>1, <3>1, Zenon
    <3>3. QED
      BY <3>1, <3>2, Zenon
  <2>2. ASSUME NEW j \in 0 .. (n - 1), \A i \in 1 .. n : Same(c[i].val, v[i].val, p.sample[v[i].id])
        PROVE  Same(c[j + 1].val, v[j + 1].val, p.sample[v[j + 1].id])
    <3>1. j + 1 \in 1 .. n
      OBVIOUS
    <3>2. QED
      BY <2>2, <3>1, Zenon
  <2>3. QED
    BY <2>1, <2>2, Zenon
<1>7. QED
  BY <1>1, <1>5, <1>6 DEF b

----------------------------------------------------------------------------
(* Entries: headers, metadata and samples together. *)

(* A field of a part is a field of the whole. *)
LEMMA SetInPart ==
  ASSUME NEW a \in Nat, NEW k, NEW b \in Nat, NEW w \in Nat, NEW v
  PROVE  DEVX_ADDR_OF(F(a, k), DEVX_SET(F(b, w), v)) = DEVX_SET(F(a + b, w), v)
<1>1. DEVX_SET(F(b, w), v) = {b + w - 1 - i : i \in v \cap 0 .. (w - 1)}
  BY DEF DEVX_SET, Place, F
<1>2. DEVX_ADDR_OF(F(a, k), DEVX_SET(F(b, w), v)) = {a + (b + w - 1 - i) : i \in v \cap 0 .. (w - 1)}
  BY <1>1 DEF DEVX_ADDR_OF, F
<1>3. DEVX_SET(F(a + b, w), v) = {(a + b) + w - 1 - i : i \in v \cap 0 .. (w - 1)}
  BY DEF DEVX_SET, Place, F
<1>4. \A i \in v \cap 0 .. (w - 1) : a + (b + w - 1 - i) = (a + b) + w - 1 - i
  OBVIOUS
<1>5. QED
  BY <1>2, <1>3, <1>4

(* Parts at one place are alike when they are. *)
LEMMA PartAlike ==
  ASSUME NEW at \in Nat, NEW w \in Nat, NEW m, NEW v, NEW p, Fits(m, w), Fits(v, w), Fits(p, w)
  PROVE  Alike(DEVX_ADDR_OF(F(at, w), m), DEVX_ADDR_OF(F(at, w), v), DEVX_ADDR_OF(F(at, w), p))
         <=> Alike(m, v, p)
<1> DEFINE M == DEVX_ADDR_OF(F(at, w), m)
           V == DEVX_ADDR_OF(F(at, w), v)
           P == DEVX_ADDR_OF(F(at, w), p)
<1>1. M = {at + x : x \in m} /\ V = {at + x : x \in v} /\ P = {at + x : x \in p}
  BY DEF DEVX_ADDR_OF, F
<1>2. m \subseteq Int /\ v \subseteq Int /\ p \subseteq Int
  BY DEF Fits
<1>3. ASSUME NEW x \in Int PROVE (at + x \in V <=> x \in v) /\ (at + x \in P <=> x \in p)
  <2>1. \A y \in Int : at + y = at + x => y = x
    OBVIOUS
  <2>2. QED
    BY <1>1, <1>2, <2>1
<1>4. ASSUME Alike(m, v, p) PROVE Alike(M, V, P)
  <2> SUFFICES ASSUME NEW x \in m PROVE (at + x \in V) <=> (at + x \in P)
    BY <1>1 DEF Alike
  <2>1. QED
    BY <1>2, <1>3, <1>4 DEF Alike
<1>5. ASSUME Alike(M, V, P) PROVE Alike(m, v, p)
  <2> SUFFICES ASSUME NEW x \in m PROVE x \in v <=> x \in p
    BY DEF Alike
  <2>1. at + x \in M
    BY <1>1
  <2> HIDE DEF M, V, P
  <2>2. at + x \in V <=> at + x \in P
    BY <2>1, <1>5 DEF Alike
  <2>3. QED
    BY <1>2, <1>3, <2>2
<1>6. QED
  BY <1>4, <1>5

(* The three parts of an entry that are used, and boxes that lie in them. *)
HeaderBits == 0 .. 511
MetaBits   == 1536 .. 2047
SampleBits == 2560 .. 3071
In(h, g, s) == h \subseteq HeaderBits /\ g \subseteq MetaBits /\ s \subseteq SampleBits

(* Intervals of which one ends before the other begins. *)
LEMMA IntervalsApart ==
  ASSUME NEW a \in Int, NEW b \in Int, NEW c \in Int, NEW d \in Int, b < c
  PROVE  (\A x \in a .. b : x \notin c .. d) /\ (\A x \in c .. d : x \notin a .. b)
OBVIOUS

(* The three parts are apart. *)
LEMMA PartsApart ==
  /\ \A x \in HeaderBits : x \notin MetaBits /\ x \notin SampleBits
  /\ \A x \in MetaBits : x \notin HeaderBits /\ x \notin SampleBits
  /\ \A x \in SampleBits : x \notin HeaderBits /\ x \notin MetaBits
<1> DEFINE a == 0
           b == 511
           c == 1536
           d == 2047
           e == 2560
           f == 3071
<1>1. /\ a \in Int /\ b \in Int /\ c \in Int /\ d \in Int /\ e \in Int /\ f \in Int
      /\ b < c /\ d < e /\ b < e
  OBVIOUS
<1>2. HeaderBits = a .. b /\ MetaBits = c .. d /\ SampleBits = e .. f
  BY DEF HeaderBits, MetaBits, SampleBits
<1> HIDE DEF a, b, c, d, e, f
<1>3. /\ \A x \in a .. b : x \notin c .. d
      /\ \A x \in c .. d : x \notin a .. b
  BY <1>1, IntervalsApart
<1>4. /\ \A x \in a .. b : x \notin e .. f
      /\ \A x \in e .. f : x \notin a .. b
  BY <1>1, IntervalsApart
<1>5. /\ \A x \in c .. d : x \notin e .. f
      /\ \A x \in e .. f : x \notin c .. d
  BY <1>1, IntervalsApart
<1>6. QED
  BY <1>2, <1>3, <1>4, <1>5, Zenon

(* A mailbox made of a header, a register and samples, each in its place. *)
Made(b, h, g, s) == In(h, g, s) /\ b = h \cup g \cup s

(* Entries are alike when their parts are. *)
LEMMA ThreeAlike ==
  ASSUME NEW mh, NEW mg, NEW ms, NEW m, Made(m, mh, mg, ms), NEW vh, NEW vg, NEW vs, NEW v, Made(v, vh, vg, vs),
         NEW ph, NEW pg, NEW ps, NEW p, Made(p, ph, pg, ps)
  PROVE  Alike(m, v, p) <=> Alike(mh, vh, ph) /\ Alike(mg, vg, pg) /\ Alike(ms, vs, ps)
<1>1. \A x \in mh : (x \in v <=> x \in vh) /\ (x \in p <=> x \in ph)
  BY PartsApart, Zenon DEF In, Made
<1>2. \A x \in mg : (x \in v <=> x \in vg) /\ (x \in p <=> x \in pg)
  BY PartsApart, Zenon DEF In, Made
<1>3. \A x \in ms : (x \in v <=> x \in vs) /\ (x \in p <=> x \in ps)
  BY PartsApart, Zenon DEF In, Made
<1>4. \A x : x \in m <=> x \in mh \/ x \in ms \/ x \in mg
  BY DEF Made
<1>5. QED
  BY <1>1, <1>2, <1>3, <1>4, Zenon DEF Alike

(* Comparing a packet with an entry. *)
LEMMA SelectsAlike ==
  ASSUME NEW e, NEW p
  PROVE  Selects(e, p) <=> Alike(e.mask \cap EnabledBits(e.enable), e.value, Parsed(p, e))
BY DEF Selects, Alike

(* The metadata register as a field of an entry. *)
Meta(y) == DEVX_SET(F(1888, 32), y)

(* Metadata is compared in its 32 bits. *)
LEMMA MetaAlike ==
  ASSUME NEW c, NEW v, NEW p
  PROVE  /\ Alike(Meta(c), Meta(v), Meta(p)) <=> Agree(32, c, v, p)
         /\ Meta(p) \subseteq MetaBits
<1>1. Span(1888, 1919, 32)
  BY DEF Span
<1>2. Holds(1888, 1919, 32, v, Meta(v)) /\ Holds(1888, 1919, 32, p, Meta(p))
  BY DEF Holds, Meta
<1>3. Meta(p) \subseteq 1888 .. 1919
  BY <1>1, SetWithin DEF Meta
<1>4. Alike(DEVX_SET(F(1888, 32), c), Meta(v), Meta(p)) <=> Agree(32, c, v, p)
  BY <1>1, <1>2, FieldAlike
<1>5. 1888 .. 1919 \subseteq MetaBits
  BY DEF MetaBits
<1>6. QED
  BY <1>3, <1>4, <1>5 DEF Meta

(* Where the parts are. *)
LEMMA PartPlaces ==
  /\ fte_match_param.outer_headers = F(0, 512) /\ fte_match_param.misc_parameters_2 = F(1536, 512)
  /\ fte_match_param.misc_parameters_4 = F(2560, 512)
  /\ Bits(F(0, 512)) = HeaderBits /\ Bits(F(1536, 512)) = MetaBits /\ Bits(F(2560, 512)) = SampleBits
<1>1. /\ fte_match_param.outer_headers = F(0, 512) /\ fte_match_param.misc_parameters_2 = F(1536, 512)
      /\ fte_match_param.misc_parameters_4 = F(2560, 512)
  BY DEF fte_match_param
<1>2. Bits(F(0, 512)) = HeaderBits
  BY DEF Bits, F, HeaderBits
<1>3. Bits(F(1536, 512)) = MetaBits
  BY DEF Bits, F, MetaBits
<1>4. Bits(F(2560, 512)) = SampleBits
  BY DEF Bits, F, SampleBits
<1>5. QED
  BY <1>1, <1>2, <1>3, <1>4

(* The headers are at the front of an entry. *)
LEMMA FrontPart ==
  ASSUME NEW b, Fits(b, 512)
  PROVE  DEVX_ADDR_OF(F(0, 512), b) = b
<1>1. \A x \in b : 0 + x = x
  BY DEF Fits
<1>2. QED
  BY <1>1 DEF DEVX_ADDR_OF, F

(* Samples are at the end of it. *)
Tail4(b) == DEVX_ADDR_OF(F(2560, 512), b)

(* The samples lie in the last part of an entry. *)
LEMMA TailPart ==
  ASSUME NEW b, Fits(b, 512)
  PROVE  Tail4(b) \subseteq SampleBits
<1>1. Span(2560, 3071, 512)
  BY DEF Span
<1>2. DEVX_ADDR_OF(F(2560, 512), b) \subseteq 2560 .. 3071
  BY <1>1, PartWithin
<1>3. QED
  BY <1>2 DEF Tail4, SampleBits

(* What the parser presents, part by part. *)
ParsedSamples(p, e) == Tail4(Samples(p, PartOf(F(2560, 512), e.value)))

(* What is parsed of a packet, in three parts. *)
LEMMA ParsedParts ==
  ASSUME NEW p, NEW e
  PROVE  /\ Parsed(p, e) = Header(PacketHeader(p)) \cup Meta(p.metadata_reg_c_0) \cup ParsedSamples(p, e)
         /\ In(Header(PacketHeader(p)), Meta(p.metadata_reg_c_0), ParsedSamples(p, e))
<1> DEFINE ph == Header(PacketHeader(p))
           pg == Meta(p.metadata_reg_c_0)
           b  == Samples(p, PartOf(F(2560, 512), e.value))
           ps == Tail4(b)
<1>1. Headers(p) = ph /\ Fits(ph, 512)
  BY PacketBox, HeaderHolds
<1>2. DEVX_ADDR_OF(F(0, 512), Headers(p)) = ph
  <2> HIDE DEF ph
  <2>1. QED
    BY <1>1, FrontPart
<1>3. DEVX_ADDR_OF(F(1536, 512), DEVX_SET(fte_match_set_misc2.metadata_reg_c_0, p.metadata_reg_c_0)) = pg
  <2>1. fte_match_set_misc2.metadata_reg_c_0 = F(352, 32)
    BY DEF fte_match_set_misc2
  <2>2. DEVX_ADDR_OF(F(1536, 512), DEVX_SET(F(352, 32), p.metadata_reg_c_0)) = DEVX_SET(F(1536 + 352, 32), p.metadata_reg_c_0)
    BY SetInPart
  <2>3. QED
    BY <2>1, <2>2 DEF Meta
<1>4. Fits(b, 512)
  BY SamplesBox, SlotsFit
<1>5. In(ph, pg, ps)
  <2>1. pg \subseteq MetaBits
    BY MetaAlike
  <2> HIDE DEF b
  <2>2. ps \subseteq SampleBits
    BY <1>4, TailPart
  <2>3. ph \subseteq HeaderBits
    BY <1>1 DEF Fits, HeaderBits
  <2> HIDE DEF ph, pg, ps
  <2>4. QED
    BY <2>1, <2>2, <2>3 DEF In
<1>6. Parsed(p, e) = ph \cup pg \cup ps
  BY <1>2, <1>3, PartPlaces DEF Parsed, Tail4
<1>7. QED
  BY <1>5, <1>6 DEF ParsedSamples

(* What flow_matcher::apply writes into the three parts. *)
HeaderPart(enable, c, x) == IF FG_MATCH_OUTER_HDR \in enable THEN Header(CritHeader(c, x)) ELSE {}
MetaValue(enable, c, x)  == IF FG_MATCH_METADATA_REG_C_0 \in enable
                            THEN Cond(c.metadata_reg_c_0, x.metadata_reg_c_0) ELSE {}
MetaPart(enable, c, x)   == Meta(MetaValue(enable, c, x))
SamplePart(enable, c, x) == IF FG_MATCH_PARSER_FIELDS \in enable
                            THEN Tail4(Slots(Len(c.samples), x.samples)) ELSE {}

(* What it accepts. *)
Accepts(enable, c, x) ==
  /\ FG_MATCH_OUTER_HDR \in enable => c.type \in {"NONE", "TCP", "UDP"}
  /\ FG_MATCH_PARSER_FIELDS \in enable => Len(c.samples) = Len(x.samples) /\ Len(c.samples) <= 8

(* flow_matcher::set_outer_header_fields *)
LEMMA HeaderApplied ==
  ASSUME NEW enable, NEW c, NEW x
  PROVE  LET r == set_outer_header_fields(enable, c, x)
         IN  /\ r.ret = "DPCP_OK" <=> (FG_MATCH_OUTER_HDR \in enable => c.type \in {"NONE", "TCP", "UDP"})
             /\ r.ret = "DPCP_OK" => r.box = HeaderPart(enable, c, x)
<1> DEFINE r == set_outer_header_fields(enable, c, x)
           l == set_outer_header_lyr_4_fields(c, x)
           b == set_outer_header_lyr_2_fields(c, x) \cup set_outer_header_lyr_3_fields(c, x) \cup l.box
<1>1. CASE FG_MATCH_OUTER_HDR \notin enable
  <2>1. r.ret = "DPCP_OK" /\ r.box = {}
    BY <1>1 DEF set_outer_header_fields, Ok
  <2>2. QED
    BY <1>1, <2>1 DEF HeaderPart
<1>2. CASE FG_MATCH_OUTER_HDR \in enable
  <2>1. r.ret = l.ret /\ r.box = DEVX_ADDR_OF(fte_match_param.outer_headers, b)
    BY <1>2 DEF set_outer_header_fields
  <2>2. CASE c.type \in {"NONE", "TCP", "UDP"}
    <3>1. l.ret = "DPCP_OK" /\ b = Header(CritHeader(c, x))
      BY <2>2, CritBox
    <3> HIDE DEF r, l, b
    <3> DEFINE h == Header(CritHeader(c, x))
    <3>2. Fits(h, 512)
      BY HeaderHolds
    <3> HIDE DEF h
    <3>3. DEVX_ADDR_OF(F(0, 512), h) = h
      BY <3>2, FrontPart
    <3>4. r.ret = "DPCP_OK" /\ r.box = h
      BY <2>1, <3>1, <3>3, PartPlaces DEF h
    <3>5. QED
      BY <1>2, <2>2, <3>4 DEF HeaderPart, h, r
  <2>3. CASE c.type \notin {"NONE", "TCP", "UDP"}
    <3>1. l.ret = "DPCP_ERR_NO_SUPPORT"
      BY <2>3 DEF set_outer_header_lyr_4_fields
    <3> HIDE DEF r, l, b
    <3>2. r.ret # "DPCP_OK"
      BY <2>1, <3>1
    <3>3. QED
      BY <1>2, <2>3, <3>2 DEF r
  <2>4. QED
    BY <2>2, <2>3
<1>3. QED
  BY <1>1, <1>2

(* flow_matcher::set_prog_sample_fileds *)
LEMMA SamplesApplied ==
  ASSUME NEW enable, NEW c, NEW x, Len(c.samples) \in Nat
  PROVE  LET r == set_prog_sample_fileds(enable, c, x)
         IN  /\ r.ret = "DPCP_OK" <=> (FG_MATCH_PARSER_FIELDS \in enable =>
                                         Len(c.samples) = Len(x.samples) /\ Len(c.samples) <= 8)
             /\ r.ret = "DPCP_OK" => r.box = SamplePart(enable, c, x)
<1> DEFINE r == set_prog_sample_fileds(enable, c, x)
           n == Len(c.samples)
           m == fte_match_set_misc4
           sample(i) == DEVX_SET(m.prog_sample_field_value[i], x.samples[i + 1].val)
                        \cup DEVX_SET(m.prog_sample_field_id[i], x.samples[i + 1].id)
<1>1. CASE FG_MATCH_PARSER_FIELDS \notin enable
  <2>1. r = Ok({})
    BY <1>1 DEF set_prog_sample_fileds
  <2>2. QED
    BY <1>1, <2>1 DEF SamplePart, Ok
<1>2. CASE FG_MATCH_PARSER_FIELDS \in enable /\ ~(n = Len(x.samples) /\ n <= 8)
  <2>1. n # Len(x.samples) \/ n > 8
    BY <1>2
  <2>2. r.ret # "DPCP_OK"
    BY <1>2, <2>1 DEF set_prog_sample_fileds
  <2>3. QED
    BY <1>2, <2>2
<1>3. CASE FG_MATCH_PARSER_FIELDS \in enable /\ n = Len(x.samples) /\ n <= 8
  <2> DEFINE all == UNION {sample(i) : i \in 0 .. (n - 1)}
  <2>1. n = Len(x.samples) /\ ~(n > 8) /\ n \in Nat
    BY <1>3
  <2>2. r = Ok(DEVX_ADDR_OF(fte_match_param.misc_parameters_4, all))
    BY <1>3, <2>1 DEF set_prog_sample_fileds
  <2>3. all = Slots(n, x.samples)
    <3> HIDE DEF n
    <3>1. ASSUME NEW i \in 0 .. (n - 1) PROVE sample(i) = Slot(i, x.samples)
      <4>1. i \in 0 .. 7
        BY <2>1
      <4>2. m.prog_sample_field_id[i] = F(64 * i + 32, 32) /\ m.prog_sample_field_value[i] = F(64 * i, 32)
        BY <4>1 DEF fte_match_set_misc4
      <4> HIDE DEF m
      <4>3. QED
        BY <4>2 DEF Slot
    <3> HIDE DEF sample
    <3>2. QED
      BY <3>1 DEF Slots
  <2> HIDE DEF r, all
  <2>4. r = Ok(Tail4(Slots(n, x.samples)))
    <3>1. fte_match_param.misc_parameters_4 = F(2560, 512)
      BY PartPlaces
    <3>2. QED
      BY <2>2, <2>3, <3>1 DEF Tail4
  <2>5. r.ret = "DPCP_OK" /\ r.box = Tail4(Slots(n, x.samples))
    BY <2>4 DEF Ok
  <2>6. QED
    BY <1>3, <2>5 DEF SamplePart, r
<1>4. QED
  BY <1>1, <1>2, <1>3

(* flow_matcher::set_metadata_registers_fields *)
LEMMA MetaApplied ==
  ASSUME NEW enable, NEW c, NEW x
  PROVE  set_metadata_registers_fields(enable, c, x) = MetaPart(enable, c, x)
<1>1. DEVX_ADDR_OF(fte_match_param.misc_parameters_2, DEVX_SET(fte_match_set_misc2.metadata_reg_c_0, x.metadata_reg_c_0))
      = Meta(x.metadata_reg_c_0)
  <2>1. fte_match_set_misc2.metadata_reg_c_0 = F(352, 32)
    BY DEF fte_match_set_misc2
  <2>2. DEVX_ADDR_OF(F(1536, 512), DEVX_SET(F(352, 32), x.metadata_reg_c_0)) = DEVX_SET(F(1536 + 352, 32), x.metadata_reg_c_0)
    BY SetInPart
  <2>3. QED
    BY <2>1, <2>2, PartPlaces DEF Meta
<1>2. Meta({}) = {}
  BY SetNothing DEF Meta
<1>3. CASE FG_MATCH_METADATA_REG_C_0 \in enable /\ c.metadata_reg_c_0 # {}
  <2>1. set_metadata_registers_fields(enable, c, x) = Meta(x.metadata_reg_c_0)
    BY <1>1, <1>3 DEF set_metadata_registers_fields, When
  <2>2. MetaValue(enable, c, x) = x.metadata_reg_c_0
    BY <1>3 DEF MetaValue, Cond
  <2>3. QED
    BY <2>1, <2>2 DEF MetaPart
<1>4. CASE ~(FG_MATCH_METADATA_REG_C_0 \in enable /\ c.metadata_reg_c_0 # {})
  <2>1. set_metadata_registers_fields(enable, c, x) = {}
    BY <1>4 DEF set_metadata_registers_fields, When
  <2>2. MetaValue(enable, c, x) = {}
    BY <1>4 DEF MetaValue, Cond
  <2>3. QED
    BY <1>2, <2>1, <2>2 DEF MetaPart
<1>5. QED
  BY <1>3, <1>4

(* flow_matcher::apply accepts or refuses, and writes the three parts. *)
LEMMA Applied ==
  ASSUME NEW enable, NEW c, NEW x, Len(c.samples) \in Nat
  PROVE  /\ apply(enable, c, x).ret = "DPCP_OK" <=> Accepts(enable, c, x)
         /\ Accepts(enable, c, x) =>
              apply(enable, c, x).box = HeaderPart(enable, c, x) \cup SamplePart(enable, c, x)
                                        \cup MetaPart(enable, c, x)
<1> DEFINE a == apply(enable, c, x)
           h == set_outer_header_fields(enable, c, x)
           s == set_prog_sample_fileds(enable, c, x)
           g == set_metadata_registers_fields(enable, c, x)
<1>1. /\ h.ret = "DPCP_OK" <=> (FG_MATCH_OUTER_HDR \in enable => c.type \in {"NONE", "TCP", "UDP"})
      /\ h.ret = "DPCP_OK" => h.box = HeaderPart(enable, c, x)
  BY HeaderApplied, Zenon
<1>2. /\ s.ret = "DPCP_OK" <=> (FG_MATCH_PARSER_FIELDS \in enable =>
                                  Len(c.samples) = Len(x.samples) /\ Len(c.samples) <= 8)
      /\ s.ret = "DPCP_OK" => s.box = SamplePart(enable, c, x)
  BY SamplesApplied, Zenon
<1>3. g = MetaPart(enable, c, x)
  BY MetaApplied
<1>4. a = IF h.ret # "DPCP_OK" THEN h
          ELSE IF s.ret # "DPCP_OK" THEN [s EXCEPT !.box = h.box]
          ELSE Ok(h.box \cup s.box \cup g)
  BY DEF apply
<1>5. s = [ret |-> s.ret, box |-> s.box]
  BY Zenon DEF set_prog_sample_fileds, Ok
<1> HIDE DEF a, h, s, g
<1>6. Accepts(enable, c, x) <=> h.ret = "DPCP_OK" /\ s.ret = "DPCP_OK"
  BY <1>1, <1>2, Zenon DEF Accepts
<1>7. CASE h.ret # "DPCP_OK"
  BY <1>4, <1>6, <1>7 DEF a
<1>8. CASE h.ret = "DPCP_OK" /\ s.ret # "DPCP_OK"
  <2>1. a = [s EXCEPT !.box = h.box]
    BY <1>4, <1>8
  <2>2. a.ret = s.ret
    BY <1>5, <2>1
  <2>3. QED
    BY <1>6, <1>8, <2>2 DEF a
<1>9. CASE h.ret = "DPCP_OK" /\ s.ret = "DPCP_OK"
  <2>1. a = Ok(h.box \cup s.box \cup g)
    BY <1>4, <1>9
  <2>2. a.ret = "DPCP_OK" /\ a.box = h.box \cup s.box \cup g
    BY <2>1 DEF Ok
  <2>3. QED
    BY <1>1, <1>2, <1>3, <1>6, <1>9, <2>2 DEF a
<1>10. QED
  BY <1>7, <1>8, <1>9

(* The parts lie where the entry has them. *)
LEMMA PiecesIn ==
  ASSUME NEW enable, NEW c, NEW x, Len(c.samples) \in Nat,
         FG_MATCH_PARSER_FIELDS \in enable => Len(c.samples) <= 8
  PROVE  In(HeaderPart(enable, c, x), MetaPart(enable, c, x), SamplePart(enable, c, x))
<1>1. HeaderPart(enable, c, x) \subseteq HeaderBits
  <2> DEFINE h == Header(CritHeader(c, x))
  <2>1. Fits(h, 512)
    BY HeaderHolds
  <2> HIDE DEF h
  <2>2. h \subseteq HeaderBits
    BY <2>1 DEF Fits, HeaderBits
  <2>3. QED
    BY <2>2 DEF HeaderPart, h
<1>2. MetaPart(enable, c, x) \subseteq MetaBits
  BY MetaAlike DEF MetaPart
<1>3. SamplePart(enable, c, x) \subseteq SampleBits
  <2>1. CASE FG_MATCH_PARSER_FIELDS \in enable
    <3> DEFINE n == Len(c.samples)
               b == Slots(n, x.samples)
    <3>0. n \in Nat /\ n <= 8
      BY <2>1
    <3> HIDE DEF n
    <3>1. n \in 0 .. 8
      BY <3>0
    <3>2. Fits(b, 512)
      BY <3>1, SlotsFit
    <3> HIDE DEF b
    <3>3. Tail4(b) \subseteq SampleBits
      BY <3>2, TailPart
    <3>4. QED
      BY <2>1, <3>3 DEF SamplePart, b, n
  <2>2. CASE FG_MATCH_PARSER_FIELDS \notin enable
    BY <2>2 DEF SamplePart
  <2>3. QED
    BY <2>1, <2>2
<1>4. QED
  BY <1>1, <1>2, <1>3 DEF In

(* The parser finds the samples of an entry among the other parts. *)
LEMMA SamplesFound ==
  ASSUME NEW h, NEW g, NEW b, Fits(b, 512), In(h, g, Tail4(b)), NEW v, v = h \cup Tail4(b) \cup g
  PROVE  PartOf(F(2560, 512), v) = b
<1> DEFINE lo == 2560
           hi == 3071
           wd == 512
<1>1. Span(lo, hi, wd) /\ SampleBits = lo .. hi
  BY DEF Span, SampleBits
<1>2. Tail4(b) = DEVX_ADDR_OF(F(lo, wd), b) /\ Fits(b, wd)
  BY DEF Tail4
<1> HIDE DEF lo, hi, wd
<1>3. \A x \in lo .. hi : x \in v <=> x \in Tail4(b)
  BY <1>1, PartsApart, Zenon DEF In
<1>4. Carries(lo, hi, wd, b, v)
  BY <1>2, <1>3, Zenon DEF Carries
<1>5. PartOf(F(lo, wd), v) = b
  BY <1>1, <1>2, <1>4, PartBack, Zenon
<1>6. QED
  BY <1>5 DEF lo, wd

(* What an entry compares of each part is what was asked of it. *)
LEMMA HeaderPartAlike ==
  ASSUME NEW enable, NEW c, c \in match_params_ex_type, NEW v, NEW p, Accepts(enable, c, v),
         p.tag \in {{}, One}, p.vid \subseteq Word(12),
         c.first_vlan_id \cap v.first_vlan_id \subseteq Word(12)
  PROVE  Alike(HeaderPart(enable, c, c), HeaderPart(enable, c, v), Header(PacketHeader(p)))
         <=> (FG_MATCH_OUTER_HDR \in enable => HeadersAsked(c, v, p))
<1>1. CASE FG_MATCH_OUTER_HDR \in enable
  <2>1. c.type \in {"NONE", "TCP", "UDP"}
    BY <1>1 DEF Accepts
  <2>2. HeaderPart(enable, c, c) = Header(CritHeader(c, c)) /\ HeaderPart(enable, c, v) = Header(CritHeader(c, v))
    BY <1>1 DEF HeaderPart
  <2>3. QED
    BY <1>1, <2>1, <2>2, HeadersAgree
<1>2. CASE FG_MATCH_OUTER_HDR \notin enable
  BY <1>2 DEF HeaderPart, Alike
<1>3. QED
  BY <1>1, <1>2, Zenon

(* The metadata that is compared is what is asked for. *)
LEMMA MetaPartAlike ==
  ASSUME NEW enable, NEW c, c \in match_params_ex_type, NEW v, NEW p
  PROVE  Alike(MetaPart(enable, c, c), MetaPart(enable, c, v), Meta(p.metadata_reg_c_0))
         <=> (FG_MATCH_METADATA_REG_C_0 \in enable =>
                Same(c.metadata_reg_c_0, v.metadata_reg_c_0, p.metadata_reg_c_0))
<1> DEFINE C == MetaValue(enable, c, c)
           V == MetaValue(enable, c, v)
           P == p.metadata_reg_c_0
<1>1. Fits(c.metadata_reg_c_0, 32)
  BY DEF match_params_ex_type, Word, Fits
<1>2. Alike(Meta(C), Meta(V), Meta(P)) <=> Agree(32, C, V, P)
  <2> HIDE DEF C, V, P
  <2>1. QED
    BY MetaAlike
<1>3. CASE FG_MATCH_METADATA_REG_C_0 \in enable
  <2>1. C = Cond(c.metadata_reg_c_0, c.metadata_reg_c_0) /\ V = Cond(c.metadata_reg_c_0, v.metadata_reg_c_0)
    BY <1>3 DEF MetaValue
  <2>2. QED
    BY <1>1, <1>2, <1>3, <2>1, AgreeSame DEF Same, MetaPart
<1>4. CASE FG_MATCH_METADATA_REG_C_0 \notin enable
  <2>1. C = {}
    BY <1>4 DEF MetaValue
  <2>2. Agree(32, C, V, P)
    BY <2>1 DEF Agree
  <2>3. QED
    BY <1>2, <1>4, <2>2 DEF MetaPart
<1>5. QED
  BY <1>3, <1>4

(* The samples that are compared are those asked for. *)
LEMMA SamplePartAlike ==
  ASSUME NEW enable, NEW c, c \in match_params_ex_type, NEW v, v \in match_params_ex_type, NEW p,
         Accepts(enable, c, v), NEW b,
         FG_MATCH_PARSER_FIELDS \in enable => b = Slots(Len(c.samples), v.samples)
  PROVE  Alike(SamplePart(enable, c, c), SamplePart(enable, c, v), Tail4(Samples(p, b)))
         <=> (FG_MATCH_PARSER_FIELDS \in enable =>
                \A i \in 1 .. Len(c.samples) :
                  Same(c.samples[i].val, v.samples[i].val, p.sample[v.samples[i].id]))
<1>1. CASE FG_MATCH_PARSER_FIELDS \in enable
  <2> DEFINE n == Len(c.samples)
             cs == c.samples
             vs == v.samples
             M == Slots(n, cs)
             V == Slots(n, vs)
             P == Samples(p, V)
  <2>1. cs \in Seq(parser_sample_field) /\ vs \in Seq(parser_sample_field)
    BY DEF match_params_ex_type
  <2>2. n = Len(cs) /\ n = Len(vs) /\ n \in Nat /\ n <= 8
    BY <1>1, <2>1 DEF Accepts
  <2> HIDE DEF n, cs, vs
  <2>3. \A i \in 1 .. n : Fits(cs[i].val, 32) /\ Fits(vs[i].id, 32)
    <3> SUFFICES ASSUME NEW i \in 1 .. n PROVE Fits(cs[i].val, 32) /\ Fits(vs[i].id, 32)
      OBVIOUS
    <3>1. i \in 1 .. Len(cs) /\ i \in 1 .. Len(vs)
      BY <2>2
    <3>2. cs[i] \in parser_sample_field
      BY <2>1, <3>1
    <3>3. vs[i] \in parser_sample_field
      BY <2>1, <3>1
    <3>4. QED
      BY <3>2, <3>3, Zenon DEF parser_sample_field, Fits, Word
  <2>0. n \in 0 .. 8
    <3>1. n \in Nat /\ n <= 8
      BY <2>2
    <3>2. QED
      BY <3>1
  <2>4. Alike(M, V, P) <=> \A i \in 1 .. n : Same(cs[i].val, vs[i].val, p.sample[vs[i].id])
    BY <2>0, <2>3, SamplesAgree, Zenon
  <2>5. Fits(M, 512) /\ Fits(V, 512) /\ Fits(P, 512)
    BY <2>0, SlotsFit, SamplesBox
  <2>6. Alike(Tail4(M), Tail4(V), Tail4(P)) <=> Alike(M, V, P)
    <3> HIDE DEF M, V, P
    <3>1. QED
      BY <2>5, PartAlike DEF Tail4
  <2>7. b = V
    BY <1>1 DEF n, vs
  <2>8. SamplePart(enable, c, c) = Tail4(M) /\ SamplePart(enable, c, v) = Tail4(V)
    BY <1>1 DEF SamplePart, n, cs, vs
  <2> HIDE DEF M, V
  <2>9. Alike(SamplePart(enable, c, c), SamplePart(enable, c, v), Tail4(Samples(p, b)))
        <=> \A i \in 1 .. n : Same(cs[i].val, vs[i].val, p.sample[vs[i].id])
    BY <2>4, <2>6, <2>7, <2>8, Zenon
  <2>10. QED
    BY <1>1, <2>9, Zenon DEF n, cs, vs
<1>2. CASE FG_MATCH_PARSER_FIELDS \notin enable
  BY <1>2 DEF SamplePart, Alike
<1>3. QED
  BY <1>1, <1>2, Zenon

(* A mailbox composed of what the criteria c let the parts of x give. *)
Composed(b, enable, c, x) ==
  b = HeaderPart(enable, c, x) \cup SamplePart(enable, c, x) \cup MetaPart(enable, c, x)

(* A rule of an ordinary table selects what is asked for. *)
LEMMA PrmSelects ==
  ASSUME NEW enable, NEW c, c \in match_params_ex_type, NEW v, v \in match_params_ex_type,
         NEW p \in Packets, Accepts(enable, c, v), NEW e, e.enable = enable,
         c.first_vlan_id \cap v.first_vlan_id \subseteq Word(12),
         Composed(e.mask, enable, c, c), Composed(e.value, enable, c, v)
  PROVE  Selects(e, p) <=> AsksFor(enable, c, v, p)
<1> DEFINE mh == HeaderPart(enable, c, c)
           mg == MetaPart(enable, c, c)
           ms == SamplePart(enable, c, c)
           vh == HeaderPart(enable, c, v)
           vg == MetaPart(enable, c, v)
           vs == SamplePart(enable, c, v)
           ph == Header(PacketHeader(p))
           pg == Meta(p.metadata_reg_c_0)
           b  == PartOf(F(2560, 512), e.value)
           ps == ParsedSamples(p, e)
<1>1. Len(c.samples) \in Nat /\ (FG_MATCH_PARSER_FIELDS \in enable => Len(c.samples) <= 8)
  BY DEF match_params_ex_type, Accepts
<1>2. In(mh, mg, ms) /\ In(vh, vg, vs)
  BY <1>1, PiecesIn
<1>3. Parsed(p, e) = ph \cup pg \cup ps /\ In(ph, pg, ps)
  BY ParsedParts, Zenon
<1>4. /\ FG_MATCH_OUTER_HDR \notin enable => mh = {}
      /\ FG_MATCH_METADATA_REG_C_0 \notin enable => mg = {}
      /\ FG_MATCH_PARSER_FIELDS \notin enable => ms = {}
  <2>1. FG_MATCH_METADATA_REG_C_0 \notin enable => mg = {}
    BY SetNothing DEF MetaPart, MetaValue, Meta
  <2>2. QED
    BY <2>1, Zenon DEF HeaderPart, SamplePart
<1>5. FG_MATCH_PARSER_FIELDS \in enable => b = Slots(Len(c.samples), v.samples)
  <2> SUFFICES ASSUME FG_MATCH_PARSER_FIELDS \in enable PROVE b = Slots(Len(c.samples), v.samples)
    OBVIOUS
  <2> DEFINE n == Len(c.samples)
             s == Slots(n, v.samples)
  <2>1. vs = Tail4(s)
    BY DEF SamplePart
  <2>2. n \in Nat /\ n <= 8
    BY <1>1
  <2> HIDE DEF n
  <2>3. n \in 0 .. 8
    BY <2>2
  <2>4. Fits(s, 512)
    BY <2>3, SlotsFit, Zenon
  <2> HIDE DEF s, vh, vg, vs
  <2>5. In(vh, vg, Tail4(s)) /\ e.value = vh \cup Tail4(s) \cup vg
    BY <1>2, <2>1, Zenon DEF Composed, vh, vg, vs
  <2>6. b = s
    BY <2>4, <2>5, SamplesFound
  <2>7. QED
    BY <2>6 DEF s, n
<1>6. /\ p.tag \in {{}, One} /\ p.vid \subseteq Word(12)
  BY MatchAssumption, Zenon
<1>7. Alike(mh, vh, ph) <=> (FG_MATCH_OUTER_HDR \in enable => HeadersAsked(c, v, p))
  BY <1>6, HeaderPartAlike, Zenon
<1>8. Alike(mg, vg, pg) <=> (FG_MATCH_METADATA_REG_C_0 \in enable =>
                               Same(c.metadata_reg_c_0, v.metadata_reg_c_0, p.metadata_reg_c_0))
  BY MetaPartAlike
<1>9. Alike(ms, vs, ps) <=> (FG_MATCH_PARSER_FIELDS \in enable =>
                               \A i \in 1 .. Len(c.samples) :
                                 Same(c.samples[i].val, v.samples[i].val, p.sample[v.samples[i].id]))
  <2>1. ps = Tail4(Samples(p, b))
    BY DEF ParsedSamples
  <2> HIDE DEF b, ps
  <2>2. QED
    BY <1>5, <2>1, SamplePartAlike, Zenon
<1> HIDE DEF mh, mg, ms, vh, vg, vs, ph, pg, ps, b
<1>10. e.mask = mh \cup ms \cup mg /\ e.value = vh \cup vs \cup vg
  BY DEF Composed, mh, mg, ms, vh, vg, vs
<1>11. e.mask \cap EnabledBits(e.enable) = e.mask
  <2>1. \A x \in mh : x \in EnabledBits(enable)
    <3>1. FG_MATCH_OUTER_HDR \in enable => HeaderBits \subseteq EnabledBits(enable)
      BY PartPlaces DEF EnabledBits, When
    <3>2. QED
      BY <1>2, <1>4, <3>1, Zenon DEF In
  <2>2. \A x \in mg : x \in EnabledBits(enable)
    <3>1. FG_MATCH_METADATA_REG_C_0 \in enable => MetaBits \subseteq EnabledBits(enable)
      BY PartPlaces DEF EnabledBits, When
    <3>2. QED
      BY <1>2, <1>4, <3>1, Zenon DEF In
  <2>3. \A x \in ms : x \in EnabledBits(enable)
    <3>1. FG_MATCH_PARSER_FIELDS \in enable => SampleBits \subseteq EnabledBits(enable)
      BY PartPlaces DEF EnabledBits, When
    <3>2. QED
      BY <1>2, <1>4, <3>1, Zenon DEF In
  <2>4. QED
    BY <1>10, <2>1, <2>2, <2>3, Zenon
<1>12. Selects(e, p) <=> Alike(e.mask, e.value, Parsed(p, e))
  BY <1>11, SelectsAlike, Zenon
<1>13. Alike(e.mask, e.value, Parsed(p, e)) <=> Alike(mh, vh, ph) /\ Alike(mg, vg, pg) /\ Alike(ms, vs, ps)
  <2>1. Made(e.mask, mh, mg, ms) /\ Made(e.value, vh, vg, vs)
    BY <1>2, <1>10 DEF Made
  <2>2. Made(Parsed(p, e), ph, pg, ps)
    BY <1>3, Zenon DEF Made
  <2>3. QED
    BY <2>1, <2>2, ThreeAlike
<1>14. QED
  BY <1>7, <1>8, <1>9, <1>12, <1>13, Zenon DEF AsksFor, HeadersAsked

(* An entry on the root table: the outer headers alone are compared. *)
LEMMA OuterSelects ==
  ASSUME NEW e, NEW p, e.enable = {FG_MATCH_OUTER_HDR},
         NEW mh, NEW mg, NEW ms, Made(e.mask, mh, mg, ms), NEW vh, NEW vg, NEW vs, Made(e.value, vh, vg, vs)
  PROVE  Selects(e, p) <=> Alike(mh, vh, Header(PacketHeader(p)))
<1> DEFINE ph == Header(PacketHeader(p))
           pg == Meta(p.metadata_reg_c_0)
           ps == ParsedSamples(p, e)
           none == {}
<1>1. Parsed(p, e) = ph \cup pg \cup ps /\ In(ph, pg, ps)
  BY ParsedParts, Zenon
<1>2. EnabledBits(e.enable) = HeaderBits
  BY PartPlaces DEF EnabledBits, When, FG_MATCH_OUTER_HDR, FG_MATCH_METADATA_REG_C_0, FG_MATCH_PARSER_FIELDS
<1> HIDE DEF ph, pg, ps
<1>3. e.mask \cap EnabledBits(e.enable) = mh
  BY <1>2, PartsApart, Zenon DEF In, Made
<1>4. Selects(e, p) <=> Alike(mh, e.value, Parsed(p, e))
  BY <1>3, SelectsAlike, Zenon
<1>5. Made(mh, mh, none, none)
  BY DEF In, Made
<1>6. Alike(none, vg, pg) /\ Alike(none, vs, ps)
  BY DEF Alike
<1> HIDE DEF none
<1>7. Alike(mh, e.value, Parsed(p, e)) <=> Alike(mh, vh, ph) /\ Alike(none, vg, pg) /\ Alike(none, vs, ps)
  <2>1. Made(Parsed(p, e), ph, pg, ps)
    BY <1>1, Zenon DEF Made
  <2>2. QED
    BY <1>5, <2>1, ThreeAlike
<1>8. QED
  BY <1>4, <1>6, <1>7 DEF ph

(* A rule of the root table selects what is asked of the headers. *)
LEMMA KernelSelects ==
  ASSUME NEW enable, NEW c, c \in match_params_ex_type, NEW v, v \in match_params_ex_type,
         NEW p \in Packets, Accepts(enable, c, v), NEW e, e.enable = {FG_MATCH_OUTER_HDR},
         c.first_vlan_id \cap v.first_vlan_id \subseteq Word(12),
         Composed(e.mask, enable, c, c), Composed(e.value, enable, c, v)
  PROVE  Selects(e, p) <=> AsksFor(enable \cap {FG_MATCH_OUTER_HDR}, c, v, p)
<1> DEFINE mh == HeaderPart(enable, c, c)
           mg == MetaPart(enable, c, c)
           ms == SamplePart(enable, c, c)
           vh == HeaderPart(enable, c, v)
           vg == MetaPart(enable, c, v)
           vs == SamplePart(enable, c, v)
           only == enable \cap {FG_MATCH_OUTER_HDR}
<1>1. Len(c.samples) \in Nat /\ (FG_MATCH_PARSER_FIELDS \in enable => Len(c.samples) <= 8)
  BY DEF match_params_ex_type, Accepts
<1>2. In(mh, mg, ms) /\ In(vh, vg, vs)
  BY <1>1, PiecesIn, Zenon
<1>3. /\ p.tag \in {{}, One} /\ p.vid \subseteq Word(12)
  BY MatchAssumption, Zenon
<1>4. Alike(mh, vh, Header(PacketHeader(p))) <=> (FG_MATCH_OUTER_HDR \in enable => HeadersAsked(c, v, p))
  BY <1>3, HeaderPartAlike, Zenon
<1> HIDE DEF mh, mg, ms, vh, vg, vs
<1>5. Made(e.mask, mh, mg, ms) /\ Made(e.value, vh, vg, vs)
  BY <1>2, Zenon DEF Composed, Made, mh, mg, ms, vh, vg, vs
<1>6. Selects(e, p) <=> Alike(mh, vh, Header(PacketHeader(p)))
  BY <1>5, OuterSelects, Zenon
<1>7. /\ FG_MATCH_OUTER_HDR \in only <=> FG_MATCH_OUTER_HDR \in enable
      /\ FG_MATCH_METADATA_REG_C_0 \notin only /\ FG_MATCH_PARSER_FIELDS \notin only
  BY DEF FG_MATCH_OUTER_HDR, FG_MATCH_METADATA_REG_C_0, FG_MATCH_PARSER_FIELDS
<1> HIDE DEF only
<1>8. Selects(e, p) <=> AsksFor(only, c, v, p)
  BY <1>4, <1>6, <1>7, Zenon DEF AsksFor, HeadersAsked
<1>9. QED
  BY <1>8, Zenon DEF only

----------------------------------------------------------------------------
(* Rules of the legacy interface. *)

(* Comparing a field, in its bits or all of it, or for a type only. *)
LEMMA AgreeWord ==
  ASSUME NEW w, NEW c, NEW v, NEW p
  PROVE  Agree(w, c, v, p) <=> v \cap (c \cap Word(w)) = p \cap (c \cap Word(w))
BY DEF Agree, Word

(* A mask no wider than its field is compared in full. *)
LEMMA AgreePlain ==
  ASSUME NEW w, NEW c, NEW v, NEW p, Fits(c, w)
  PROVE  Agree(w, c, v, p) <=> v \cap c = p \cap c
BY Zenon DEF Agree, Fits

(* A port is compared for the type of the rule only. *)
LEMMA AgreeTyped ==
  ASSUME NEW type, NEW name, NEW c, NEW v, NEW p, Fits(c, 16)
  PROVE  Agree(16, Typed(type, name, c), Typed(type, name, v), p) <=> (type = name => v \cap c = p \cap c)
<1>1. CASE type = name
  BY <1>1, AgreePlain DEF Typed
<1>2. CASE type # name
  BY <1>2 DEF Agree, Typed
<1>3. QED
  BY <1>1, <1>2

(* An IPv4 address of a rule is compared in 32 bits. *)
LEMMA LowAgree ==
  ASSUME NEW c, NEW v, NEW p, NEW q, q = p \/ q = Low(p)
  PROVE  Agree(128, Low(c), Low(v), q) <=> v \cap (c \cap Word(32)) = p \cap (c \cap Word(32))
<1>1. \A i \in Low(c) : i \in 0 .. 127 /\ (i \in Low(v) <=> i \in v) /\ (i \in q <=> i \in p)
  BY DEF Low, Word
<1>2. Agree(128, Low(c), Low(v), q) <=> \A i \in Low(c) : i \in v <=> i \in p
  BY <1>1 DEF Agree
<1>3. QED
  BY <1>2 DEF Low

(* What apply_settings writes of m, the mask or the value. *)
RuleHeader(mask, value, m) ==
  [smac |-> {}, ethertype |-> m.ethertype, dmac |-> Cond(mask.dst_mac, m.dst_mac),
   vid |-> Cond(mask.vlan_id, m.vlan_id), proto |-> m.protocol, tag |-> Cond(mask.vlan_id, One),
   ver |-> Cond(mask.ip_version, m.ip_version),
   tcps |-> Typed(RuleType(value), "TCP", m.src_port), tcpd |-> Typed(RuleType(value), "TCP", m.dst_port),
   udps |-> Typed(RuleType(value), "UDP", m.src_port), udpd |-> Typed(RuleType(value), "UDP", m.dst_port),
   src |-> RuleSrc(mask, value, m), dst |-> RuleDst(mask, value, m)]

(* It writes these headers. *)
LEMMA RuleBox ==
  ASSUME NEW mask, NEW value, NEW m
  PROVE  Buffer(mask, value, m) = Header(RuleHeader(mask, value, m))
<1> DEFINE T1 == DEVX_SET(F(0, 48), {})
           T2 == DEVX_SET(F(48, 16), m.ethertype)
           T3 == DEVX_SET(F(64, 48), Cond(mask.dst_mac, m.dst_mac))
           T4 == DEVX_SET(F(116, 12), Cond(mask.vlan_id, m.vlan_id))
           T5 == DEVX_SET(F(128, 8), m.protocol)
           T6 == DEVX_SET(F(144, 1), Cond(mask.vlan_id, One))
           T7 == DEVX_SET(F(147, 4), Cond(mask.ip_version, m.ip_version))
           T8 == DEVX_SET(F(160, 16), Typed(RuleType(value), "TCP", m.src_port))
           T9 == DEVX_SET(F(176, 16), Typed(RuleType(value), "TCP", m.dst_port))
           T10 == DEVX_SET(F(224, 16), Typed(RuleType(value), "UDP", m.src_port))
           T11 == DEVX_SET(F(240, 16), Typed(RuleType(value), "UDP", m.dst_port))
           T12 == DEVX_SET(F(256, 128), RuleSrc(mask, value, m))
           T13 == DEVX_SET(F(384, 128), RuleDst(mask, value, m))
           ports == IF value.protocol # ProtoTcp
                    THEN DEVX_SET(outer.udp_dport, m.dst_port) \cup DEVX_SET(outer.udp_sport, m.src_port)
                    ELSE DEVX_SET(outer.tcp_dport, m.dst_port) \cup DEVX_SET(outer.tcp_sport, m.src_port)
<1>1. T1 = {}
  BY SetNothing, Zenon
<1>2. T2 = DEVX_SET(outer.ethertype, m.ethertype) /\ T5 = DEVX_SET(outer.ip_protocol, m.protocol)
  BY OuterPlaces, Zenon
<1>3. T3 = When(mask.dst_mac # {}, copy_ether_mac(outer.dmac, m.dst_mac))
  BY OuterPlaces, SetCond DEF When, copy_ether_mac
<1>4. T6 \cup T4 = When(mask.vlan_id # {}, DEVX_SET(outer.cvlan_tag, One) \cup DEVX_SET(outer.first_vid, m.vlan_id))
  <2>1. T6 = When(mask.vlan_id # {}, DEVX_SET(outer.cvlan_tag, One))
    BY OuterPlaces, SetCond DEF When
  <2>2. T4 = When(mask.vlan_id # {}, DEVX_SET(outer.first_vid, m.vlan_id))
    BY OuterPlaces, SetCond DEF When
  <2> HIDE DEF T4, T6
  <2>3. QED
    BY <2>1, <2>2, Zenon DEF When
<1>5. T7 = When(mask.ip_version # {}, DEVX_SET(outer.ip_version, m.ip_version))
  BY OuterPlaces, SetCond DEF When
<1>6. T8 \cup T9 \cup T10 \cup T11 = ports
  <2>1. CASE value.protocol = ProtoTcp
    <3>1. RuleType(value) = "TCP"
      BY <2>1 DEF RuleType
    <3>2. T10 = {} /\ T11 = {}
      BY <3>1, SetNothing, Zenon DEF Typed
    <3>3. T8 = DEVX_SET(outer.tcp_sport, m.src_port) /\ T9 = DEVX_SET(outer.tcp_dport, m.dst_port)
      BY <3>1, OuterPlaces DEF Typed
    <3> HIDE DEF T8, T9, T10, T11
    <3>4. QED
      BY <2>1, <3>2, <3>3
  <2>2. CASE value.protocol # ProtoTcp
    <3>1. RuleType(value) = "UDP"
      BY <2>2 DEF RuleType
    <3>2. T8 = {} /\ T9 = {}
      BY <3>1, SetNothing, Zenon DEF Typed
    <3>3. T10 = DEVX_SET(outer.udp_sport, m.src_port) /\ T11 = DEVX_SET(outer.udp_dport, m.dst_port)
      BY <3>1, OuterPlaces DEF Typed
    <3> HIDE DEF T8, T9, T10, T11
    <3>4. QED
      BY <2>2, <3>2, <3>3
  <2> HIDE DEF T8, T9, T10, T11, ports
  <2>3. QED
    BY <2>1, <2>2, Zenon
<1>7. T12 \cup T13 = Addresses(mask, value, m)
  BY RuleAddresses, Zenon
<1>8. Header(RuleHeader(mask, value, m)) = T1 \cup T2 \cup T3 \cup T4 \cup T5 \cup T6 \cup T7 \cup T8 \cup T9 \cup T10
                  \cup T11 \cup T12 \cup T13
  <2> DEFINE h == RuleHeader(mask, value, m)
  <2>1. /\ h.smac = {} /\ h.ethertype = m.ethertype /\ h.dmac = Cond(mask.dst_mac, m.dst_mac)
      /\ h.vid = Cond(mask.vlan_id, m.vlan_id) /\ h.proto = m.protocol /\ h.tag = Cond(mask.vlan_id, One)
      /\ h.ver = Cond(mask.ip_version, m.ip_version) /\ h.tcps = Typed(RuleType(value), "TCP", m.src_port)
      /\ h.tcpd = Typed(RuleType(value), "TCP", m.dst_port)
      /\ h.udps = Typed(RuleType(value), "UDP", m.src_port)
      /\ h.udpd = Typed(RuleType(value), "UDP", m.dst_port) /\ h.src = RuleSrc(mask, value, m)
      /\ h.dst = RuleDst(mask, value, m)
    BY Zenon DEF RuleHeader
  <2> HIDE DEF h
  <2>2. /\ T1 = DEVX_SET(F(0, 48), h.smac) /\ T2 = DEVX_SET(F(48, 16), h.ethertype)
        /\ T3 = DEVX_SET(F(64, 48), h.dmac) /\ T4 = DEVX_SET(F(116, 12), h.vid)
        /\ T5 = DEVX_SET(F(128, 8), h.proto) /\ T6 = DEVX_SET(F(144, 1), h.tag)
        /\ T7 = DEVX_SET(F(147, 4), h.ver) /\ T8 = DEVX_SET(F(160, 16), h.tcps)
        /\ T9 = DEVX_SET(F(176, 16), h.tcpd) /\ T10 = DEVX_SET(F(224, 16), h.udps)
        /\ T11 = DEVX_SET(F(240, 16), h.udpd) /\ T12 = DEVX_SET(F(256, 128), h.src)
        /\ T13 = DEVX_SET(F(384, 128), h.dst)
    BY <2>1, Zenon
  <2> HIDE DEF T1, T2, T3, T4, T5, T6, T7, T8, T9, T10, T11, T12, T13
  <2>3. Header(h) = T1 \cup T2 \cup T3 \cup T4 \cup T5 \cup T6 \cup T7 \cup T8 \cup T9 \cup T10
                    \cup T11 \cup T12 \cup T13
    BY <2>2 DEF Header
  <2>4. QED
    BY <2>3, Zenon DEF h
<1> HIDE DEF T1, T2, T3, T4, T5, T6, T7, T8, T9, T10, T11, T12, T13
<1>9. Buffer(mask, value, m) = T2 \cup (T6 \cup T4) \cup T5 \cup T7 \cup T3 \cup (T12 \cup T13)
                               \cup (T8 \cup T9 \cup T10 \cup T11)
  BY <1>2, <1>3, <1>4, <1>5, <1>6, <1>7, Zenon DEF Buffer
<1>10. QED
  BY <1>1, <1>8, <1>9

(* The addresses of a rule, wherever they are given, in one style. *)
LEMMA ChosenFour ==
  ASSUME NEW m, OneStyle(m)
  PROVE  Low(Choose4(m).src) = Low(m.src \cup m.src_ip) /\ Low(Choose4(m).dst) = Low(m.dst \cup m.dst_ip)
<1>1. CASE m.src_ip = {} /\ m.dst_ip = {}
  <2>1. Choose4(m).src = Low(m.src) /\ Choose4(m).dst = Low(m.dst)
    BY <1>1 DEF Choose4, Low
  <2>2. QED
    BY <1>1, <2>1 DEF Low
<1>2. CASE m.src = {} /\ m.dst = {}
  <2>1. Choose4(m).src = m.src_ip /\ Choose4(m).dst = m.dst_ip
    BY <1>2 DEF Choose4
  <2>2. QED
    BY <1>2, <2>1, Zenon DEF Low
<1>3. QED
  BY <1>1, <1>2 DEF OneStyle

(* The mask asks for no address, or the addresses are used. *)
Addressed(mask, value) ==
  \/ NoAddress(mask)
  \/ Four(mask, value) /\ OneStyle(mask) /\ OneStyle(value)
  \/ Six(mask, value) /\ \A m \in {mask, value} : m.src_ip = {} /\ m.dst_ip = {}

(* The bits of the addresses that are compared are those asked for. *)
LEMMA AddressesAgree ==
  ASSUME NEW mask, NEW value, Addressed(mask, value), NEW p, Six(mask, value) => p.ip_version = Version6
  PROVE  /\ Agree(128, RuleSrc(mask, value, mask), RuleSrc(mask, value, value), PacketHeader(p).src)
            <=> Same((mask.src \cup mask.src_ip) \cap Address(value), value.src \cup value.src_ip, p.src_ip)
         /\ Agree(128, RuleDst(mask, value, mask), RuleDst(mask, value, value), PacketHeader(p).dst)
            <=> Same((mask.dst \cup mask.dst_ip) \cap Address(value), value.dst \cup value.dst_ip, p.dst_ip)
<1> DEFINE qs == PacketHeader(p).src
           qd == PacketHeader(p).dst
           ms == mask.src \cup mask.src_ip
           md == mask.dst \cup mask.dst_ip
           us == value.src \cup value.src_ip
           ud == value.dst \cup value.dst_ip
<1>1. /\ qs = p.src_ip \/ qs = Low(p.src_ip)
      /\ qd = p.dst_ip \/ qd = Low(p.dst_ip)
      /\ p.ip_version = Version6 => qs = p.src_ip /\ qd = p.dst_ip
  BY Zenon DEF PacketHeader
<1>2. CASE NoAddress(mask)
  <2>1. RuleSrc(mask, value, mask) = {} /\ RuleDst(mask, value, mask) = {}
    BY <1>2, Zenon DEF NoAddress, RuleSrc, RuleDst, Choose4, Low
  <2>2. QED
    BY <1>2, <2>1, Zenon DEF Agree, Same, NoAddress
<1>3. CASE Four(mask, value) /\ OneStyle(mask) /\ OneStyle(value)
  <2>1. /\ RuleSrc(mask, value, mask) = Low(ms) /\ RuleSrc(mask, value, value) = Low(us)
        /\ RuleDst(mask, value, mask) = Low(md) /\ RuleDst(mask, value, value) = Low(ud)
    BY <1>3, ChosenFour, Zenon DEF RuleSrc, RuleDst
  <2>2. Address(value) = Word(32)
    BY <1>3 DEF Four, Pinned, Version4, Version6, Address
  <2> HIDE DEF qs, qd, ms, md, us, ud
  <2>3. Agree(128, Low(ms), Low(us), qs) <=> us \cap (ms \cap Word(32)) = p.src_ip \cap (ms \cap Word(32))
    BY <1>1, LowAgree, Zenon
  <2>4. Agree(128, Low(md), Low(ud), qd) <=> ud \cap (md \cap Word(32)) = p.dst_ip \cap (md \cap Word(32))
    BY <1>1, LowAgree, Zenon
  <2>5. QED
    BY <2>1, <2>2, <2>3, <2>4, Zenon DEF Same, qs, qd, ms, md, us, ud
<1>4. CASE Six(mask, value) /\ \A m \in {mask, value} : m.src_ip = {} /\ m.dst_ip = {}
  <2>1. ~Four(mask, value) /\ Address(value) = Word(128)
    BY <1>4 DEF Four, Six, Pinned, Version4, Version6, Address
  <2>2. mask.src_ip = {} /\ mask.dst_ip = {} /\ value.src_ip = {} /\ value.dst_ip = {}
    BY <1>4, Zenon
  <2>3. ms = mask.src /\ md = mask.dst /\ us = value.src /\ ud = value.dst
    BY <2>2, Zenon
  <2>4. /\ RuleSrc(mask, value, mask) = ms /\ RuleSrc(mask, value, value) = us
        /\ RuleDst(mask, value, mask) = md /\ RuleDst(mask, value, value) = ud
    BY <1>4, <2>1, <2>3, Zenon DEF RuleSrc, RuleDst
  <2>5. qs = p.src_ip /\ qd = p.dst_ip
    BY <1>1, <1>4
  <2> HIDE DEF qs, qd, ms, md, us, ud
  <2>6. Agree(128, ms, us, qs) <=> us \cap (ms \cap Word(128)) = p.src_ip \cap (ms \cap Word(128))
    BY <2>5, AgreeWord
  <2>7. Agree(128, md, ud, qd) <=> ud \cap (md \cap Word(128)) = p.dst_ip \cap (md \cap Word(128))
    BY <2>5, AgreeWord
  <2>8. /\ Same(ms \cap Word(128), us, p.src_ip) <=> us \cap (ms \cap Word(128)) = p.src_ip \cap (ms \cap Word(128))
        /\ Same(md \cap Word(128), ud, p.dst_ip) <=> ud \cap (md \cap Word(128)) = p.dst_ip \cap (md \cap Word(128))
    BY Zenon DEF Same
  <2>9. QED
    <3>1. Agree(128, RuleSrc(mask, value, mask), RuleSrc(mask, value, value), qs)
          <=> Same(ms \cap Address(value), us, p.src_ip)
      BY <2>1, <2>4, <2>6, <2>8, Zenon
    <3>2. Agree(128, RuleDst(mask, value, mask), RuleDst(mask, value, value), qd)
          <=> Same(md \cap Address(value), ud, p.dst_ip)
      BY <2>1, <2>4, <2>7, <2>8, Zenon
    <3>3. QED
      BY <3>1, <3>2, Zenon DEF qs, qd, ms, md, us, ud
<1>5. QED
  BY <1>2, <1>3, <1>4, Zenon DEF Addressed

(* The bits of the headers that are compared say what the rule asks for. *)
LEMMA RuleAgree ==
  ASSUME NEW mask, mask \in match_params_type, NEW value, NEW p, Addressed(mask, value),
         p.tag \in {{}, One}, p.vid \subseteq Word(12), p.ip_version \subseteq Word(4),
         mask.vlan_id \cap value.vlan_id \subseteq Word(12),
         mask.ip_version \cap value.ip_version \subseteq Word(4)
  PROVE  Alike(Header(RuleHeader(mask, value, mask)), Header(RuleHeader(mask, value, value)),
               Header(PacketHeader(p))) <=> RuleAsksFor(mask, value, p)
<1> DEFINE C == RuleHeader(mask, value, mask)
           V == RuleHeader(mask, value, value)
           P == PacketHeader(p)
           type == RuleType(value)
           srcs == Same((mask.src \cup mask.src_ip) \cap Address(value), value.src \cup value.src_ip, p.src_ip)
           dsts == Same((mask.dst \cup mask.dst_ip) \cap Address(value), value.dst \cup value.dst_ip, p.dst_ip)
<1>1. /\ Fits(mask.ethertype, 16) /\ Fits(mask.protocol, 8)
      /\ Fits(mask.src_port, 16) /\ Fits(mask.dst_port, 16)
  BY DEF match_params_type, Word, Fits
<1>2. /\ C.src = RuleSrc(mask, value, mask) /\ V.src = RuleSrc(mask, value, value)
       /\ C.dst = RuleDst(mask, value, mask) /\ V.dst = RuleDst(mask, value, value)
  BY Zenon DEF RuleHeader
<1>3. type \in {"TCP", "UDP"}
  BY Zenon DEF RuleType
<1>4. mask.vlan_id = {} => Same(mask.vlan_id, value.vlan_id, p.vid)
  BY DEF Same
<1> HIDE DEF C, V, type, srcs, dsts
<1>5. (Six(mask, value) => p.ip_version = Version6) =>
         /\ Agree(128, C.src, V.src, P.src) <=> srcs
         /\ Agree(128, C.dst, V.dst, P.dst) <=> dsts
  BY <1>2, AddressesAgree, Zenon DEF srcs, dsts
<1> HIDE DEF P
<1>6. Agree(48, C.smac, V.smac, P.smac)
  <2>1. C.smac = {}
    BY Zenon DEF C, RuleHeader
  <2>2. QED
    BY <2>1, Zenon DEF Agree
<1>7. Agree(16, C.ethertype, V.ethertype, P.ethertype) <=> Same(mask.ethertype, value.ethertype, p.ethertype)
  <2>1. C.ethertype = mask.ethertype /\ V.ethertype = value.ethertype /\ P.ethertype = p.ethertype
    BY Zenon DEF C, V, P, RuleHeader, PacketHeader
  <2>2. Agree(16, mask.ethertype, value.ethertype, p.ethertype) <=> value.ethertype \cap mask.ethertype = p.ethertype \cap mask.ethertype
    BY <1>1, AgreePlain
  <2>3. QED
    BY <2>1, <2>2, Zenon DEF Same
<1>8. Agree(8, C.proto, V.proto, P.proto) <=> Same(mask.protocol, value.protocol, p.ip_protocol)
  <2>1. C.proto = mask.protocol /\ V.proto = value.protocol /\ P.proto = p.ip_protocol
    BY Zenon DEF C, V, P, RuleHeader, PacketHeader
  <2>2. Agree(8, mask.protocol, value.protocol, p.ip_protocol) <=> value.protocol \cap mask.protocol = p.ip_protocol \cap mask.protocol
    BY <1>1, AgreePlain
  <2>3. QED
    BY <2>1, <2>2, Zenon DEF Same
<1>9. Agree(48, C.dmac, V.dmac, P.dmac) <=> Same(mask.dst_mac \cap Word(48), value.dst_mac, p.dst_mac)
  <2>1. C.dmac = Cond(mask.dst_mac, mask.dst_mac) /\ V.dmac = Cond(mask.dst_mac, value.dst_mac) /\ P.dmac = p.dst_mac
    BY Zenon DEF C, V, P, RuleHeader, PacketHeader
  <2>2. QED
    BY <2>1, AgreeCond DEF Same
<1>10. Agree(12, C.vid, V.vid, P.vid) <=> Same(mask.vlan_id, value.vlan_id, p.vid)
  <2>1. C.vid = Cond(mask.vlan_id, mask.vlan_id) /\ V.vid = Cond(mask.vlan_id, value.vlan_id) /\ P.vid = p.vid
    BY Zenon DEF C, V, P, RuleHeader, PacketHeader
  <2>2. Short(12, mask.vlan_id, value.vlan_id, p.vid)
    BY DEF Short, Word
  <2>3. QED
    BY <2>1, <2>2, AgreeShort DEF Same
<1>11. Agree(1, C.tag, V.tag, P.tag) <=> (mask.vlan_id # {} => p.tag = One)
  <2>1. C.tag = Cond(mask.vlan_id, One) /\ V.tag = Cond(mask.vlan_id, One) /\ P.tag = p.tag
    BY Zenon DEF C, V, P, RuleHeader, PacketHeader
  <2>2. QED
    BY <2>1, AgreeTag, Zenon
<1>12. Agree(4, C.ver, V.ver, P.ver) <=> Same(mask.ip_version, value.ip_version, p.ip_version)
  <2>1. C.ver = Cond(mask.ip_version, mask.ip_version) /\ V.ver = Cond(mask.ip_version, value.ip_version) /\ P.ver = p.ip_version
    BY Zenon DEF C, V, P, RuleHeader, PacketHeader
  <2>2. Short(4, mask.ip_version, value.ip_version, p.ip_version)
    BY Zenon DEF Short, Word
  <2>3. QED
    BY <2>1, <2>2, AgreeShort DEF Same
<1>13. Agree(16, C.tcps, V.tcps, P.tcps) <=> (type = "TCP" => Same(mask.src_port, value.src_port, Port(p, "TCP", p.src_port)))
  <2>1. /\ C.tcps = Typed(type, "TCP", mask.src_port)
        /\ V.tcps = Typed(type, "TCP", value.src_port)
        /\ P.tcps = Port(p, "TCP", p.src_port)
    BY Zenon DEF C, V, P, type, RuleHeader, PacketHeader
  <2>2. Agree(16, Typed(type, "TCP", mask.src_port), Typed(type, "TCP", value.src_port), Port(p, "TCP", p.src_port))
        <=> (type = "TCP" => value.src_port \cap mask.src_port = Port(p, "TCP", p.src_port) \cap mask.src_port)
    BY <1>1, AgreeTyped
  <2>3. QED
    BY <2>1, <2>2, Zenon DEF Same
<1>14. Agree(16, C.tcpd, V.tcpd, P.tcpd) <=> (type = "TCP" => Same(mask.dst_port, value.dst_port, Port(p, "TCP", p.dst_port)))
  <2>1. /\ C.tcpd = Typed(type, "TCP", mask.dst_port)
        /\ V.tcpd = Typed(type, "TCP", value.dst_port)
        /\ P.tcpd = Port(p, "TCP", p.dst_port)
    BY Zenon DEF C, V, P, type, RuleHeader, PacketHeader
  <2>2. Agree(16, Typed(type, "TCP", mask.dst_port), Typed(type, "TCP", value.dst_port), Port(p, "TCP", p.dst_port))
        <=> (type = "TCP" => value.dst_port \cap mask.dst_port = Port(p, "TCP", p.dst_port) \cap mask.dst_port)
    BY <1>1, AgreeTyped
  <2>3. QED
    BY <2>1, <2>2, Zenon DEF Same
<1>15. Agree(16, C.udps, V.udps, P.udps) <=> (type = "UDP" => Same(mask.src_port, value.src_port, Port(p, "UDP", p.src_port)))
  <2>1. /\ C.udps = Typed(type, "UDP", mask.src_port)
        /\ V.udps = Typed(type, "UDP", value.src_port)
        /\ P.udps = Port(p, "UDP", p.src_port)
    BY Zenon DEF C, V, P, type, RuleHeader, PacketHeader
  <2>2. Agree(16, Typed(type, "UDP", mask.src_port), Typed(type, "UDP", value.src_port), Port(p, "UDP", p.src_port))
        <=> (type = "UDP" => value.src_port \cap mask.src_port = Port(p, "UDP", p.src_port) \cap mask.src_port)
    BY <1>1, AgreeTyped
  <2>3. QED
    BY <2>1, <2>2, Zenon DEF Same
<1>16. Agree(16, C.udpd, V.udpd, P.udpd) <=> (type = "UDP" => Same(mask.dst_port, value.dst_port, Port(p, "UDP", p.dst_port)))
  <2>1. /\ C.udpd = Typed(type, "UDP", mask.dst_port)
        /\ V.udpd = Typed(type, "UDP", value.dst_port)
        /\ P.udpd = Port(p, "UDP", p.dst_port)
    BY Zenon DEF C, V, P, type, RuleHeader, PacketHeader
  <2>2. Agree(16, Typed(type, "UDP", mask.dst_port), Typed(type, "UDP", value.dst_port), Port(p, "UDP", p.dst_port))
        <=> (type = "UDP" => value.dst_port \cap mask.dst_port = Port(p, "UDP", p.dst_port) \cap mask.dst_port)
    BY <1>1, AgreeTyped
  <2>3. QED
    BY <2>1, <2>2, Zenon DEF Same
<1>17. Six(mask, value) /\ Same(mask.ip_version, value.ip_version, p.ip_version) => p.ip_version = Version6
  BY DEF Six, Pinned, Same, Version6, Word
<1>18. Alike(Header(C), Header(V), Header(P)) <=> FieldsAgree(C, V, P)
  BY HeaderAlike, Zenon
<1>19. RuleAsksFor(mask, value, p) <=>
       /\ Same(mask.dst_mac \cap Word(48), value.dst_mac, p.dst_mac)
       /\ Same(mask.ethertype, value.ethertype, p.ethertype)
       /\ mask.vlan_id # {} => p.tag = One /\ Same(mask.vlan_id, value.vlan_id, p.vid)
       /\ Same(mask.protocol, value.protocol, p.ip_protocol)
       /\ Same(mask.ip_version, value.ip_version, p.ip_version)
       /\ srcs /\ dsts
       /\ Same(mask.src_port, value.src_port, Port(p, type, p.src_port))
       /\ Same(mask.dst_port, value.dst_port, Port(p, type, p.dst_port))
  BY Zenon DEF RuleAsksFor, srcs, dsts, type
<1>20. Alike(Header(C), Header(V), Header(P)) <=> RuleAsksFor(mask, value, p)
  <2>1. CASE ~Same(mask.ip_version, value.ip_version, p.ip_version)
    BY <1>12, <1>18, <1>19, <2>1, Zenon DEF FieldsAgree
  <2>2. CASE Same(mask.ip_version, value.ip_version, p.ip_version)
    <3>1. /\ Agree(128, C.src, V.src, P.src) <=> srcs
          /\ Agree(128, C.dst, V.dst, P.dst) <=> dsts
      BY <1>5, <1>17, <2>2, Zenon
    <3>2. QED
      BY <1>3, <1>4, <1>6, <1>7, <1>8, <1>9, <1>10, <1>11, <1>12, <1>13, <1>14, <1>15, <1>16, <1>18,
         <1>19, <2>2, <3>1, Zenon DEF FieldsAgree
  <2>3. QED
    BY <2>1, <2>2, Zenon
<1>21. QED
  BY <1>20 DEF C, V, P

(* A flow_rule on the root table selects what it asks for. *)
LEMMA LegacySelects ==
  ASSUME NEW mask, mask \in match_params_type, NEW value, NEW p \in Packets, Addressed(mask, value),
         mask.vlan_id \cap value.vlan_id \subseteq Word(12),
         mask.ip_version \cap value.ip_version \subseteq Word(4),
         NEW e, e.enable = {FG_MATCH_OUTER_HDR},
         e.mask = Buffer(mask, value, mask), e.value = Buffer(mask, value, value)
  PROVE  Selects(e, p) <=> RuleAsksFor(mask, value, p)
<1> DEFINE mh == Header(RuleHeader(mask, value, mask))
           vh == Header(RuleHeader(mask, value, value))
           none == {}
<1>1. e.mask = mh /\ e.value = vh
  BY RuleBox, Zenon
<1>2. Fits(mh, 512) /\ Fits(vh, 512)
  BY HeaderFits, Zenon
<1>3. p.tag \in {{}, One} /\ p.vid \subseteq Word(12) /\ p.ip_version \subseteq Word(4)
  BY MatchAssumption, Zenon
<1>4. Alike(mh, vh, Header(PacketHeader(p))) <=> RuleAsksFor(mask, value, p)
  BY <1>3, RuleAgree, Zenon
<1> HIDE DEF mh, vh
<1>5. In(mh, none, none) /\ In(vh, none, none)
  <2>1. mh \subseteq HeaderBits
    BY <1>2 DEF HeaderBits, Fits
  <2>2. vh \subseteq HeaderBits
    BY <1>2 DEF HeaderBits, Fits
  <2>3. QED
    BY <2>1, <2>2, Zenon DEF In
<1>6. Made(e.mask, mh, none, none) /\ Made(e.value, vh, none, none)
  BY <1>1, <1>5, Zenon DEF Made
<1> HIDE DEF none
<1>7. Selects(e, p) <=> Alike(mh, vh, Header(PacketHeader(p)))
  BY <1>6, OuterSelects
<1>8. QED
  BY <1>4, <1>7, Zenon

----------------------------------------------------------------------------
(* An accepted value's criteria are accepted as well. *)
LEMMA CriteriaAccepted ==
  ASSUME NEW enable, NEW c, NEW v, Accepts(enable, c, v)
  PROVE  Accepts(enable, c, c)
BY DEF Accepts

(* A rule of an ordinary table. *)
LEMMA PrmTold ==
  ASSUME NEW enable, NEW c, c \in match_params_ex_type, NEW v, v \in match_params_ex_type,
         create_prm(enable, c, v)
  PROVE  EntrySelects' /\ RuleSelects'
<1> DEFINE r == apply(enable, c, v)
           m == apply(enable, c, c)
           e == Entry(enable, m.box, r.box)
<1>1. /\ last'.op = "prm" /\ last'.in.enable = enable /\ last'.in.criteria = c /\ last'.in.value = v
      /\ last'.out = IF r.ret # "DPCP_OK" THEN Rejected(r.ret) ELSE Installed(e)
  BY DEF create_prm, Call
<1>2. RuleSelects'
  BY <1>1, Zenon DEF RuleSelects
<1> HIDE DEF r, m
<1>3. CASE r.ret # "DPCP_OK"
  <2>1. last'.out.ret # "DPCP_OK"
    BY <1>1, <1>3 DEF Rejected
  <2>2. QED
    BY <1>2, <2>1, Zenon DEF EntrySelects
<1>4. CASE r.ret = "DPCP_OK"
  <2>1. last'.out.entry = e
    BY <1>1, <1>4 DEF Installed
  <2>2. e.enable = enable /\ e.mask = m.box /\ e.value = r.box
    BY DEF Entry
  <2> HIDE DEF e
  <2>3. Len(c.samples) \in Nat
    BY DEF match_params_ex_type
  <2>4. Accepts(enable, c, v) /\ Accepts(enable, c, c)
    BY <1>4, <2>3, Applied, CriteriaAccepted, Zenon DEF r
  <2>5. Composed(e.mask, enable, c, c) /\ Composed(e.value, enable, c, v)
    BY <2>2, <2>3, <2>4, Applied DEF r, m, Composed
  <2>6. ASSUME c.first_vlan_id \cap v.first_vlan_id \subseteq Word(12), NEW p \in Packets
        PROVE  Selects(e, p) <=> AsksFor(enable, c, v, p)
    BY <2>2, <2>4, <2>5, <2>6, PrmSelects, Zenon
  <2>7. last'.op # "kernel"
    BY <1>1
  <2>8. EntrySelects'
    BY <1>1, <2>1, <2>6, <2>7, Zenon DEF EntrySelects
  <2>9. QED
    BY <1>2, <2>8, Zenon
<1>5. QED
  BY <1>3, <1>4

(* A rule of the root table. *)
LEMMA KernelTold ==
  ASSUME NEW enable, NEW c, c \in match_params_ex_type, NEW v, v \in match_params_ex_type,
         create_kernel(enable, c, v)
  PROVE  EntrySelects' /\ RuleSelects'
<1> DEFINE r == apply(enable, c, v)
           m == apply(enable, c, c)
           e == Entry({FG_MATCH_OUTER_HDR}, m.box, r.box)
<1>1. /\ last'.op = "kernel" /\ last'.in.enable = enable /\ last'.in.criteria = c /\ last'.in.value = v
      /\ last'.out = IF m.ret # "DPCP_OK" THEN Rejected(m.ret)
                     ELSE IF r.ret # "DPCP_OK" THEN Rejected(r.ret) ELSE Installed(e)
  BY DEF create_kernel, Call
<1>2. RuleSelects'
  BY <1>1, Zenon DEF RuleSelects
<1> HIDE DEF r, m
<1>3. CASE m.ret # "DPCP_OK" \/ r.ret # "DPCP_OK"
  <2>1. last'.out.ret # "DPCP_OK"
    BY <1>1, <1>3 DEF Rejected
  <2>2. QED
    BY <1>2, <2>1 DEF EntrySelects
<1>4. CASE m.ret = "DPCP_OK" /\ r.ret = "DPCP_OK"
  <2>1. last'.out.entry = e
    BY <1>1, <1>4 DEF Installed
  <2>2. e.enable = {FG_MATCH_OUTER_HDR} /\ e.mask = m.box /\ e.value = r.box
    BY Zenon DEF Entry
  <2> HIDE DEF e
  <2>3. Len(c.samples) \in Nat
    BY DEF match_params_ex_type
  <2>4. Accepts(enable, c, v) /\ Accepts(enable, c, c)
    BY <1>4, <2>3, Applied, CriteriaAccepted, Zenon DEF r
  <2>5. Composed(e.mask, enable, c, c) /\ Composed(e.value, enable, c, v)
    BY <2>2, <2>3, <2>4, Applied, Zenon DEF r, m, Composed
  <2>6. ASSUME c.first_vlan_id \cap v.first_vlan_id \subseteq Word(12), NEW p \in Packets
        PROVE  Selects(e, p) <=> AsksFor(enable \cap {FG_MATCH_OUTER_HDR}, c, v, p)
    BY <2>2, <2>4, <2>5, <2>6, KernelSelects
  <2>7. EntrySelects'
    BY <1>1, <2>1, <2>6, Zenon DEF EntrySelects
  <2>8. QED
    BY <1>2, <2>7
<1>5. QED
  BY <1>3, <1>4, Zenon

(* A flow_rule. *)
LEMMA LegacyTold ==
  ASSUME NEW mask, mask \in match_params_type, NEW value, apply_settings(mask, value)
  PROVE  EntrySelects' /\ RuleSelects'
<1> DEFINE e == Entry({FG_MATCH_OUTER_HDR}, Buffer(mask, value, mask), Buffer(mask, value, value))
<1>1. /\ last'.op = "flow_rule" /\ last'.in.mask = mask /\ last'.in.value = value
      /\ last'.out.entry = e
  BY Zenon DEF apply_settings, Call, Installed
<1>2. EntrySelects'
  BY <1>1, Zenon DEF EntrySelects
<1>3. /\ e.enable = {FG_MATCH_OUTER_HDR}
      /\ e.mask = Buffer(mask, value, mask) /\ e.value = Buffer(mask, value, value)
  BY Zenon DEF Entry
<1> HIDE DEF e
<1>4. ASSUME Addressed(mask, value), mask.vlan_id \cap value.vlan_id \subseteq Word(12),
             mask.ip_version \cap value.ip_version \subseteq Word(4), NEW p \in Packets
      PROVE  Selects(e, p) <=> RuleAsksFor(mask, value, p)
  BY <1>3, <1>4, LegacySelects
<1>5. RuleSelects'
  BY <1>1, <1>4, Zenon DEF RuleSelects, Addressed, Four, Six
<1>6. QED
  BY <1>2, <1>5, Zenon

(* Between two calls nothing is said. *)
LEMMA NoneSelected ==
  /\ last = NoCall => EntrySelects /\ RuleSelects
  /\ last' = NoCall => EntrySelects' /\ RuleSelects'
<1>1. last = NoCall => last.op = "none"
  BY DEF NoCall
<1>2. last' = NoCall => last'.op = "none"
  BY DEF NoCall
<1>3. QED
  BY <1>1, <1>2, Zenon DEF EntrySelects, RuleSelects

(* Every call leaves an entry that selects what was asked for. *)
LEMMA MatchStep ==
  ASSUME [MatchNext \/ Return]_last, EntrySelects, RuleSelects
  PROVE  EntrySelects' /\ RuleSelects'
<1>1. CASE UNCHANGED last
  BY <1>1, Zenon DEF EntrySelects, RuleSelects
<1>2. CASE Return
  BY <1>2, NoneSelected DEF Return
<1>3. CASE MatchNext
  <2>1. CASE \E m \in Match, enable \in Enabled :
               create_prm(enable, m[1], m[2]) \/ create_kernel(enable, m[1], m[2])
    <3>1. PICK m \in Match, enable \in Enabled :
                 create_prm(enable, m[1], m[2]) \/ create_kernel(enable, m[1], m[2])
      BY <2>1, Zenon
    <3>2. m[1] \in match_params_ex_type /\ m[2] \in match_params_ex_type
      BY MatchAssumption
    <3>3. QED
      BY <3>1, <3>2, PrmTold, KernelTold
  <2>2. CASE \E m \in Legacy : apply_settings(m[1], m[2])
    <3>1. PICK m \in Legacy : apply_settings(m[1], m[2])
      BY <2>2
    <3>2. m[1] \in match_params_type
      BY MatchAssumption
    <3>3. QED
      BY <3>1, <3>2, LegacyTold
  <2>3. QED
    BY <1>3, <2>1, <2>2, Zenon DEF MatchNext
<1>4. QED
  BY <1>1, <1>2, <1>3

(* The rules of a group, whatever criteria, values and parts are combined, *)
(* select exactly the packets that agree with their values in the bits of  *)
(* the criteria: no field, sample or register is written over another.     *)
THEOREM EntrySelectsHolds == MatchSpec => []EntrySelects
<1>1. CallsInit => EntrySelects /\ RuleSelects
  BY NoneSelected DEF CallsInit
<1>2. (EntrySelects /\ RuleSelects) /\ [MatchNext \/ Return]_last => (EntrySelects /\ RuleSelects)'
  BY MatchStep
<1>3. QED
  BY <1>1, <1>2, PTL DEF MatchSpec

(* A flow_rule, whatever its mask and values, selects exactly the packets  *)
(* that agree with the values in the bits of the mask, in either style of  *)
(* giving addresses, for IPv4 and for IPv6.                                *)
THEOREM RuleSelectsHolds == MatchSpec => []RuleSelects
<1>1. CallsInit => EntrySelects /\ RuleSelects
  BY NoneSelected DEF CallsInit
<1>2. (EntrySelects /\ RuleSelects) /\ [MatchNext \/ Return]_last => (EntrySelects /\ RuleSelects)'
  BY MatchStep
<1>3. QED
  BY <1>1, <1>2, PTL DEF MatchSpec

=============================================================================
