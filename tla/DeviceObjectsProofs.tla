------------------------- MODULE DeviceObjectsProofs -------------------------
(***************************************************************************)
(* The objects of an adapter, for any device, any requests and any         *)
(* sequence of calls, refusals and errors: the handles they own or lose,   *)
(* that object, device and application agree on what was asked for, and    *)
(* what a parser graph node tells.                                         *)
(***************************************************************************)
EXTENDS AdapterProofs

----------------------------------------------------------------------------
(* The device holds what the object and the lost ones account for. *)

Attrs     == tir_attr \cup tis_attr \cup dek_attr \cup tag_buffer_table_attr
LostHow   == DekKind \cup {"table", "refused"}
Base(o, H, L) ==
  /\ H \in [Handle -> Mailbox]
  /\ L \subseteq [h : Handle, how : LostHow]
  /\ o \in Object \cup {Nothing}
  /\ {h \in Handle : H[h] # Free} = Own(o) \cup {l.h : l \in L}
  /\ \A l \in L : l.h \notin Own(o)

(* An object with another handle. *)
LEMMA HandledFacts ==
  ASSUME NEW o \in Object, NEW g \in Handle \cup {NoHandle, Gone}
  PROVE  /\ Handled(o, g) \in Object /\ Handled(o, g).handle = g
         /\ Handled(o, g).kind = o.kind /\ Handled(o, g).asked = o.asked
         /\ Handled(o, g).modified = o.modified /\ Handled(o, g).m_attr = o.m_attr
BY DEF Handled, Object

(* An object with another copy of its attributes. *)
LEMMA CopiedFacts ==
  ASSUME NEW o \in Object, NEW v \in tir_attr \cup tis_attr
  PROVE  /\ Copied(o, v) \in Object /\ Copied(o, v).m_attr = v
         /\ Copied(o, v).kind = o.kind /\ Copied(o, v).asked = o.asked
         /\ Copied(o, v).modified = o.modified /\ Copied(o, v).handle = o.handle
<1> DEFINE A == tir_attr \cup tis_attr
           B == tir_attr \cup tis_attr \cup dek_attr \cup tag_buffer_table_attr
<1>1. Object = [kind : Kind, handle : Handle \cup {NoHandle, Gone}, asked : {Nothing} \cup B,
                modified : BOOLEAN, m_attr : {Nothing} \cup A]
  BY Zenon DEF Object
<1> HIDE DEF A, B
<1>2. v \in A
  BY DEF A
<1>3. QED
  BY <1>1, <1>2 DEF Copied

(* An object with another history. *)
LEMMA AskedFacts ==
  ASSUME NEW o \in Object, NEW v \in Attrs, NEW m \in BOOLEAN
  PROVE  /\ AskedMod(o, v, m) \in Object /\ AskedMod(o, v, m).asked = v
         /\ AskedMod(o, v, m).modified = m
         /\ AskedMod(o, v, m).kind = o.kind /\ AskedMod(o, v, m).m_attr = o.m_attr
         /\ AskedMod(o, v, m).handle = o.handle
         /\ Asked(o, v) \in Object /\ Asked(o, v).asked = v /\ Asked(o, v).modified = o.modified
         /\ Asked(o, v).kind = o.kind /\ Asked(o, v).m_attr = o.m_attr
         /\ Asked(o, v).handle = o.handle
BY Zenon DEF Object, AskedMod, Asked, Attrs

(* The same for what was created or modified. *)
LEMMA MadeFacts ==
  ASSUME NEW o \in Object, NEW v \in Attrs
  PROVE  /\ Made(o, v) \in Object /\ Made(o, v).asked = v /\ Made(o, v).modified = FALSE
         /\ Made(o, v).kind = o.kind /\ Made(o, v).m_attr = o.m_attr
         /\ Made(o, v).handle = o.handle
         /\ Remade(o, v) \in Object /\ Remade(o, v).asked = v /\ Remade(o, v).modified = TRUE
         /\ Remade(o, v).kind = o.kind /\ Remade(o, v).m_attr = o.m_attr
         /\ Remade(o, v).handle = o.handle
BY Zenon DEF Object, Made, Remade, AskedMod, Attrs

(* The fields of an object. *)
LEMMA ObjectFields ==
  ASSUME NEW o \in Object
  PROVE  /\ o # Nothing /\ o.kind \in Kind /\ o.handle \in Handle \cup {NoHandle, Gone}
         /\ Own(o) = {o.handle} \cap Handle
         /\ o.modified \in BOOLEAN
BY NothingAssumption DEF Object, Own

(* When the object loses its handle the device holds what is lost. *)
LEMMA LoseBase ==
  ASSUME NEW o \in Object, NEW H, NEW L, Base(o, H, L), NEW how, how \in LostHow \/ Own(o) = {}
  PROVE  /\ LostHw(o, H) \in [Handle -> Mailbox]
         /\ LostTo(o, L, how) \subseteq [h : Handle, how : LostHow]
         /\ {h \in Handle : LostHw(o, H)[h] # Free} = {l.h : l \in LostTo(o, L, how)}
<1>1. Own(o) \subseteq Handle
  BY DEF Own
<1>2. LostHw(o, H) \in [Handle -> Mailbox]
  BY DEF LostHw, Base, Mailbox
<1>3. LostTo(o, L, how) \subseteq [h : Handle, how : LostHow]
  BY <1>1 DEF LostTo, Base
<1>4. {l.h : l \in LostTo(o, L, how)} = {l.h : l \in L} \cup Own(o)
  <2> DEFINE N == {[h |-> h, how |-> how] : h \in Own(o)}
  <2>1. \A h \in Own(o) : [h |-> h, how |-> how] \in N /\ [h |-> h, how |-> how].h = h
    OBVIOUS
  <2>2. \A l \in N : l.h \in Own(o)
    OBVIOUS
  <2> HIDE DEF N
  <2>3. {l.h : l \in N} = Own(o)
    BY <2>1, <2>2, Zenon
  <2>4. LostTo(o, L, how) = L \cup N
    BY DEF LostTo, N
  <2>5. QED
    BY <2>3, <2>4
<1>5. \A h \in Handle : LostHw(o, H)[h] # Free <=> H[h] # Free \/ h \in Own(o)
  BY FreeFacts DEF LostHw
<1>6. {h \in Handle : LostHw(o, H)[h] # Free} = {h \in Handle : H[h] # Free} \cup Own(o)
  BY <1>1, <1>5
<1>7. QED
  BY <1>2, <1>3, <1>4, <1>6 DEF Base

(* obj::create keeps the account; TIR and TIS call it without a handle. *)
LEMMA CreateBase ==
  ASSUME NEW o \in Object, NEW H, NEW L, Base(o, H, L), NEW r, NEW u, NEW box \in Box,
         o.kind \in LostHow \/ Own(o) = {},
         NEW t \in obj_create(St(o, H, L, r, u), box)
  PROVE  \E g, G, M, w :
           /\ t = St(Handled(o, g), G, M, w, u) /\ Base(Handled(o, g), G, M)
           /\ \/ w = "DPCP_ERR_CREATE" /\ g = NoHandle
              \/ w = "DPCP_OK" /\ g \in Handle /\ G[g] = box
<1> DEFINE G == LostHw(o, H)
           M == LostTo(o, L, o.kind)
<1>1. /\ G \in [Handle -> Mailbox] /\ M \subseteq [h : Handle, how : LostHow]
      /\ {h \in Handle : G[h] # Free} = {l.h : l \in M}
  BY LoseBase
<1>2. \A h \in Handle : H[h] = Free => G[h] = Free
  <2>1. \A h \in Own(o) : H[h] # Free
    BY DEF Base, Own
  <2>2. QED
    BY <2>1 DEF LostHw
<1> HIDE DEF G, M
<1>3. CASE t = St(Handled(o, NoHandle), G, M, "DPCP_ERR_CREATE", u)
  <2>1. Handled(o, NoHandle) \in Object /\ Own(Handled(o, NoHandle)) = {}
    BY HandledFacts, ObjectFields, ObjectsAssumption
  <2>2. Base(Handled(o, NoHandle), G, M)
    BY <1>1, <2>1 DEF Base
  <2>3. QED
    BY <1>3, <2>2
<1>4. ASSUME NEW h \in Handle, H[h] = Free, t = St(Handled(o, h), BoxAt(G, h, box), M, "DPCP_OK", u)
      PROVE  /\ Base(Handled(o, h), BoxAt(G, h, box), M) /\ BoxAt(G, h, box)[h] = box
  <2>1. Handled(o, h) \in Object /\ Own(Handled(o, h)) = {h}
    BY HandledFacts, ObjectFields
  <2>2. /\ BoxAt(G, h, box) \in [Handle -> Mailbox] /\ BoxAt(G, h, box)[h] = box
        /\ \A f \in Handle \ {h} : BoxAt(G, h, box)[f] = G[f]
    BY <1>1 DEF BoxAt, Mailbox
  <2>3. box # Free
    BY FreeFacts
  <2>4. {f \in Handle : BoxAt(G, h, box)[f] # Free} = {f \in Handle : G[f] # Free} \cup {h}
    BY <2>2, <2>3
  <2>5. \A l \in M : l.h # h
    BY <1>1, <1>2, <1>4
  <2>6. QED
    BY <1>1, <2>1, <2>2, <2>4, <2>5 DEF Base
<1>5. QED
  BY <1>3, <1>4, CreateForm DEF G, M

(* obj::destroy keeps the account. *)
LEMMA DestroyBase ==
  ASSUME NEW o \in Object, NEW H, NEW L, Base(o, H, L), NEW r, NEW u,
         NEW t \in obj_destroy(St(o, H, L, r, u))
  PROVE  \E G, M, g :
           /\ t = St(Handled(o, g), G, M, "DPCP_OK", u) /\ Base(Handled(o, g), G, M)
           /\ g = IF o.handle = NoHandle THEN NoHandle ELSE Gone
<1> DEFINE g == IF o.handle = NoHandle THEN NoHandle ELSE Gone
           p == Handled(o, g)
<1>1. p \in Object /\ Own(p) = {}
  BY HandledFacts, ObjectFields, ObjectsAssumption
<1> HIDE DEF p, g
<1>2. CASE t = St(p, LostHw(o, H), LostTo(o, L, "refused"), "DPCP_OK", u)
  <2>1. "refused" \in LostHow
    BY DEF LostHow
  <2>2. /\ LostHw(o, H) \in [Handle -> Mailbox]
        /\ LostTo(o, L, "refused") \subseteq [h : Handle, how : LostHow]
        /\ {h \in Handle : LostHw(o, H)[h] # Free} = {l.h : l \in LostTo(o, L, "refused")}
    BY <2>1, LoseBase
  <2>3. Base(p, LostHw(o, H), LostTo(o, L, "refused"))
    BY <1>1, <2>2 DEF Base
  <2>4. QED
    BY <1>2, <2>3 DEF p, g
<1>3. ASSUME NEW h \in Own(o), t = St(p, BoxAt(H, h, Free), L, "DPCP_OK", u)
      PROVE  Base(p, BoxAt(H, h, Free), L)
  <2>1. h \in Handle /\ Own(o) = {h}
    BY <1>3, ObjectFields
  <2>2. /\ BoxAt(H, h, Free) \in [Handle -> Mailbox] /\ BoxAt(H, h, Free)[h] = Free
        /\ \A f \in Handle \ {h} : BoxAt(H, h, Free)[f] = H[f]
    BY <2>1 DEF BoxAt, Mailbox, Base
  <2>3. {f \in Handle : BoxAt(H, h, Free)[f] # Free} = {f \in Handle : H[f] # Free} \ {h}
    BY <2>2
  <2>4. {f \in Handle : BoxAt(H, h, Free)[f] # Free} = {l.h : l \in L}
    BY <2>1, <2>3 DEF Base
  <2>5. QED
    BY <1>1, <2>2, <2>4 DEF Base
<1>4. QED
  BY <1>2, <1>3, DestroyForm DEF p, g

(* The destructor leaves nothing on the device but what is lost. *)
LEMMA DeleteBase ==
  ASSUME NEW o \in Object, NEW H, NEW L, Base(o, H, L), NEW r, NEW u,
         NEW t \in obj_delete(St(o, H, L, r, u))
  PROVE  \E G, M : t = St(Nothing, G, M, "DPCP_OK", u) /\ Base(Nothing, G, M)
<1> DEFINE s == St(o, H, L, r, u)
<1>1. PICK q \in obj_destroy(s) : t = WithObj(q, Nothing)
  BY Zenon DEF obj_delete, WithObj
<1>2. PICK G, M, g : /\ q = St(Handled(o, g), G, M, "DPCP_OK", u) /\ Base(Handled(o, g), G, M)
                     /\ g = IF o.handle = NoHandle THEN NoHandle ELSE Gone
  BY <1>1, DestroyBase
<1>3. Own(Handled(o, g)) = {} /\ Own(Nothing) = {}
  BY <1>2, HandledFacts, ObjectFields, ObjectsAssumption DEF Own
<1>4. Base(Nothing, G, M)
  BY <1>2, <1>3 DEF Base
<1>5. QED
  BY <1>1, <1>2, <1>4, PutObj

(* A query of a TIR or TIS whose device object reads as x. *)
CachedForm(o, H, L, u, t, x) ==
  \/ t = St(o, H, L, "DPCP_ERR_INVALID_PARAM", u) /\ o.handle = NoHandle
  \/ t = St(o, H, L, "DPCP_OK", o.m_attr) /\ o.handle # NoHandle /\ o.m_attr.flags # {}
  \/ t = St(o, H, L, "crash", u) /\ o.handle = Gone
  \/ t = St(o, H, L, "DPCP_ERR_QUERY", u)
  \/ t = St(Copied(o, x), H, L, "DPCP_OK", x) /\ o.handle \in Handle

(* tir::query *)
LEMMA TirQueryForm ==
  ASSUME NEW o \in Object, NEW H, NEW L, NEW r, NEW u, NEW t \in tir_query(St(o, H, L, r, u))
  PROVE  CachedForm(o, H, L, u, t, tir_read(H[o.handle], tir_flags))
<1> DEFINE s == St(o, H, L, r, u)
<1>1. s.obj = o /\ s.hw = H /\ Held(s) = {o.handle} \cap Handle
  BY Parts, HeldForm, ObjectFields
<1> HIDE DEF s
<1>2. \/ t = Ret(s, "DPCP_ERR_INVALID_PARAM") /\ s.obj.handle = NoHandle
      \/ /\ t = WithOutRet(s, s.obj.m_attr, "DPCP_OK")
         /\ s.obj.handle # NoHandle /\ s.obj.m_attr.flags # {}
      \/ t = Crash(s) /\ s.obj.handle = Gone
      \/ t = Ret(s, "DPCP_ERR_QUERY")
      \/ \E h \in Held(s) : t = Ret(WithCopy(s, tir_read(s.hw[h], tir_flags)), "DPCP_OK")
  BY Zenon DEF tir_query, cached_query, obj_query, WithOutRet, WithCopy, s
<1>3. \A v : Ret(s, v) = St(o, H, L, v, u)
  BY PutRet DEF Ret, WithRet, s
<1>4. Crash(s) = St(o, H, L, "crash", u)
  BY PutRet DEF Crash, WithRet, s
<1>5. \A x : Ret(WithCopy(s, x), "DPCP_OK") = St(Copied(o, x), H, L, "DPCP_OK", x)
  <2>1. \A x : WithCopy(s, x) = St(Copied(o, x), H, L, r, x)
    BY PutCopy DEF s
  <2>2. \A q : Ret(q, "DPCP_OK") = WithRet(q, "DPCP_OK")
    BY Zenon DEF Ret, WithRet
  <2>3. QED
    BY <2>1, <2>2, PutRet
<1>6. \A x : WithOutRet(s, x, "DPCP_OK") = St(o, H, L, "DPCP_OK", x)
  BY PutOutRet DEF s
<1>7. QED
  BY <1>1, <1>2, <1>3, <1>4, <1>5, <1>6, Zenon DEF CachedForm

(* tis::query *)
LEMMA TisQueryForm ==
  ASSUME NEW o \in Object, NEW H, NEW L, NEW r, NEW u, NEW t \in tis_query(St(o, H, L, r, u))
  PROVE  CachedForm(o, H, L, u, t, tis_read(H[o.handle], tis_flags \ {"NVMEOTCP"}))
<1> DEFINE s == St(o, H, L, r, u)
<1>1. s.obj = o /\ s.hw = H /\ Held(s) = {o.handle} \cap Handle
  BY Parts, HeldForm, ObjectFields
<1> HIDE DEF s
<1>2. \/ t = Ret(s, "DPCP_ERR_INVALID_PARAM") /\ s.obj.handle = NoHandle
      \/ /\ t = WithOutRet(s, s.obj.m_attr, "DPCP_OK")
         /\ s.obj.handle # NoHandle /\ s.obj.m_attr.flags # {}
      \/ t = Crash(s) /\ s.obj.handle = Gone
      \/ t = Ret(s, "DPCP_ERR_QUERY")
      \/ \E h \in Held(s) : t = Ret(WithCopy(s, tis_read(s.hw[h], tis_flags \ {"NVMEOTCP"})), "DPCP_OK")
  BY Zenon DEF tis_query, cached_query, obj_query, WithOutRet, WithCopy, s
<1>3. \A v : Ret(s, v) = St(o, H, L, v, u)
  BY PutRet DEF Ret, WithRet, s
<1>4. Crash(s) = St(o, H, L, "crash", u)
  BY PutRet DEF Crash, WithRet, s
<1>5. \A x : Ret(WithCopy(s, x), "DPCP_OK") = St(Copied(o, x), H, L, "DPCP_OK", x)
  <2>1. \A x : WithCopy(s, x) = St(Copied(o, x), H, L, r, x)
    BY PutCopy DEF s
  <2>2. \A q : Ret(q, "DPCP_OK") = WithRet(q, "DPCP_OK")
    BY Zenon DEF Ret, WithRet
  <2>3. QED
    BY <2>1, <2>2, PutRet
<1>6. \A x : WithOutRet(s, x, "DPCP_OK") = St(o, H, L, "DPCP_OK", x)
  BY PutOutRet DEF s
<1>7. QED
  BY <1>1, <1>2, <1>3, <1>4, <1>5, <1>6, Zenon DEF CachedForm

(* A query of a key or a table. *)
PlainForm(o, H, L, u, t, x) ==
  \/ t = St(o, H, L, "DPCP_ERR_INVALID_PARAM", u)
  \/ t = St(o, H, L, "crash", u)
  \/ t = St(o, H, L, "DPCP_ERR_QUERY", u)
  \/ t = St(o, H, L, "DPCP_OK", x) /\ o.handle \in Handle

KeyRead(box) ==
  [key_size |-> key_size_flag_to_bytes_size(DEVX_GET(encryption_key_obj.key_size, box)),
   pd_id |-> DEVX_GET(encryption_key_obj.pd, box),
   opaque |-> DEVX_GET(encryption_key_obj.opaque, box)]
TableRead(box) ==
  [log_tag_buffer_table_size |-> DEVX_GET(tag_buffer_table_obj.log_tag_buffer_table_size, box)]

(* dek::query and tag_buffer_table_obj::query *)
LEMMA PlainQueryForm ==
  ASSUME NEW o \in Object, NEW H, NEW L, NEW r, NEW u, NEW t
  PROVE  /\ t \in dek_query(St(o, H, L, r, u)) => PlainForm(o, H, L, u, t, KeyRead(H[o.handle]))
         /\ t \in table_query(St(o, H, L, r, u)) => PlainForm(o, H, L, u, t, TableRead(H[o.handle]))
<1> DEFINE s == St(o, H, L, r, u)
<1>1. s.obj = o /\ s.hw = H /\ Held(s) = {o.handle} \cap Handle
  BY Parts, HeldForm, ObjectFields
<1> HIDE DEF s
<1>2. ASSUME t \in dek_query(s)
      PROVE  \/ t = Ret(s, "DPCP_ERR_INVALID_PARAM")
             \/ t = Crash(s)
             \/ t = Ret(s, "DPCP_ERR_QUERY")
             \/ \E h \in Held(s) : t = Ret(WithOut(s, KeyRead(s.hw[h])), "DPCP_OK")
  BY <1>2, Zenon DEF dek_query, obj_query, WithOut, KeyRead
<1>3. ASSUME t \in table_query(s)
      PROVE  \/ t = Ret(s, "DPCP_ERR_INVALID_PARAM")
             \/ t = Crash(s)
             \/ t = Ret(s, "DPCP_ERR_QUERY")
             \/ \E h \in Held(s) : t = Ret(WithOut(s, TableRead(s.hw[h])), "DPCP_OK")
  BY <1>3, Zenon DEF table_query, obj_query, WithOut, TableRead
<1>4. \A v : Ret(s, v) = St(o, H, L, v, u)
  BY PutRet DEF Ret, WithRet, s
<1>5. Crash(s) = St(o, H, L, "crash", u)
  BY PutRet DEF Crash, WithRet, s
<1>6. \A x : Ret(WithOut(s, x), "DPCP_OK") = St(o, H, L, "DPCP_OK", x)
  <2>1. \A x : WithOut(s, x) = St(o, H, L, r, x)
    BY PutOut DEF s
  <2>2. \A q : Ret(q, "DPCP_OK") = WithRet(q, "DPCP_OK")
    BY Zenon DEF Ret, WithRet
  <2>3. QED
    BY <2>1, <2>2, PutRet
<1>7. QED
  BY <1>1, <1>2, <1>3, <1>4, <1>5, <1>6, Zenon DEF PlainForm, s

----------------------------------------------------------------------------
(* The object, its copy of the attributes and its mailbox agree with what  *)
(* the device accepted last.                                               *)

Says(kind, box, a) ==
  /\ kind = "tir" => a \in tir_attr /\ tir_read(box, tir_flags) = Tir(a)
  /\ kind = "tis" => a \in tis_attr /\ tis_read(box, tis_flags \ {"NVMEOTCP"}) = Tis(a)
  /\ kind = "table" => DEVX_GET(tag_buffer_table_obj.log_tag_buffer_table_size, box) =
                         a.log_tag_buffer_table_size \cap Word(5)
  /\ kind \in DekKind => a \in dek_attr /\ KeySays(kind, box, a)

Copy(o, A, x) ==
  /\ o.m_attr \in A
  /\ o.handle = NoHandle => o.m_attr.flags = {}
  /\ o.m_attr.flags # {} => o.m_attr = x

Content(o, H) ==
  /\ o.handle \in Handle => H[o.handle] \in Box /\ Says(o.kind, H[o.handle], o.asked)
  /\ o.handle \in Handle /\ o.kind \in DekKind /\ o.modified = FALSE =>
       TagSays(o.kind, H[o.handle], o.asked)
  /\ o.kind = "tir" => Copy(o, tir_attr, Tir(o.asked))
  /\ o.kind = "tis" => Copy(o, tis_attr, Tis(o.asked))

(* What creating an object for the request a leaves. *)
Outcome(p, G, w, a) ==
  /\ w = "DPCP_OK" => Content(Made(p, a), G)
  /\ w = "DPCP_ERR_QUERY" => Content(Asked(p, a), G)
  /\ w \notin {"DPCP_OK", "DPCP_ERR_QUERY"} => Content(p, G)
CreatedTo(o, t, a) ==
  \E p, G, M, w, x : /\ t = St(p, G, M, w, x) /\ p \in Object /\ p.kind = o.kind
                     /\ Base(p, G, M) /\ Outcome(p, G, w, a)

(* The kinds of objects are different. *)
LEMMA Kinds ==
  ASSUME NEW kind \in Kind
  PROVE  /\ kind \in LostHow \/ kind \in {"tir", "tis"}
         /\ kind \in DekKind => kind \notin {"tir", "tis", "table"}
         /\ kind \in DekKind \/ kind \in {"tir", "tis", "table"}
BY DEF Kind, LostHow, DekKind

(* An object without a handle and a copy of its attributes. *)
LEMMA NoHandleContent ==
  ASSUME NEW o \in Object, NEW H, NEW G, Content(o, H), o.handle = NoHandle
  PROVE  Content(Handled(o, NoHandle), G)
<1>1. /\ Handled(o, NoHandle).handle = NoHandle /\ Handled(o, NoHandle).kind = o.kind
      /\ Handled(o, NoHandle).asked = o.asked /\ Handled(o, NoHandle).m_attr = o.m_attr
  BY HandledFacts
<1>2. NoHandle \notin Handle
  BY ObjectsAssumption
<1>3. QED
  BY <1>1, <1>2 DEF Content, Copy

(* A key or a table has no copy: without a handle it has no content. *)
LEMMA PlainNoHandle ==
  ASSUME NEW o \in Object, NEW G, o.kind \notin {"tir", "tis"}
  PROVE  Content(Handled(o, NoHandle), G)
<1>1. Handled(o, NoHandle).handle = NoHandle /\ Handled(o, NoHandle).kind = o.kind
  BY HandledFacts
<1>2. NoHandle \notin Handle
  BY ObjectsAssumption
<1>3. QED
  BY <1>1, <1>2 DEF Content

(* A key or table created. *)
LEMMA PlainOutcome ==
  ASSUME NEW o \in Object, NEW H, NEW L, Base(o, H, L), NEW r, NEW u,
         o.kind \in LostHow, o.kind \notin {"tir", "tis"},
         NEW a \in Attrs, NEW box \in Box, Says(o.kind, box, a),
         o.kind \in DekKind => TagSays(o.kind, box, a),
         NEW t \in obj_create(St(o, H, L, r, u), box)
  PROVE  CreatedTo(o, t, a)
<1>1. PICK g, G, M, w :
        /\ t = St(Handled(o, g), G, M, w, u) /\ Base(Handled(o, g), G, M)
        /\ \/ w = "DPCP_ERR_CREATE" /\ g = NoHandle
           \/ w = "DPCP_OK" /\ g \in Handle /\ G[g] = box
  BY CreateBase
<1> DEFINE p == Handled(o, g)
<1>2. /\ p \in Object /\ p.handle = g /\ p.kind = o.kind
  BY <1>1, HandledFacts, Zenon
<1> HIDE DEF p
<1>3. CASE w = "DPCP_ERR_CREATE" /\ g = NoHandle
  <2>1. Content(p, G)
    BY <1>3, PlainNoHandle DEF p
  <2>2. Outcome(p, G, w, a)
    BY <1>3, <2>1, Zenon DEF Outcome
  <2>3. QED
    BY <1>1, <1>2, <2>2 DEF CreatedTo, p
<1>4. CASE w = "DPCP_OK" /\ g \in Handle /\ G[g] = box
  <2> DEFINE q == Made(p, a)
  <2>1. q.handle = g /\ q.kind = o.kind /\ q.asked = a
    BY <1>2, MadeFacts, Zenon
  <2> HIDE DEF q
  <2>2. Content(q, G)
    BY <1>4, <2>1 DEF Content
  <2>3. Outcome(p, G, w, a)
    BY <1>4, <2>2 DEF Outcome, q
  <2>4. QED
    BY <1>1, <1>2, <2>3 DEF CreatedTo, p
<1>5. QED
  BY <1>1, <1>3, <1>4, Zenon

(* The accounts depend on the handle of the object only. *)
LEMMA BaseSame ==
  ASSUME NEW o \in Object, NEW p \in Object, p.handle = o.handle, NEW H, NEW L, Base(o, H, L)
  PROVE  Base(p, H, L)
<1>1. Own(p) = Own(o)
  BY ObjectFields
<1>2. QED
  BY <1>1 DEF Base

(* The attributes a query reports are attributes, with flags. *)
LEMMA TirTyped ==
  ASSUME NEW a \in tir_attr
  PROVE  Tir(a) \in tir_attr /\ Tir(a).flags # {}
<1> DEFINE Of(f, v) == IF f \in a.flags THEN v ELSE {}
           lro == [k \in DOMAIN a.lro |-> Of("LRO", a.lro[k])]
           Lro == [timeout_period_usecs : SUBSET Word(16), enable_mask : SUBSET Word(4),
                   max_msg_sz : SUBSET Word(8)]
<1>1. a.lro \in Lro
  BY DEF tir_attr
<1>2. lro \in Lro
  BY <1>1
<1>3. /\ a.inline_rqn \subseteq Word(24) /\ a.transport_domain \subseteq Word(24)
      /\ a.tls_en \subseteq One /\ a.zerocopy_en \subseteq One /\ a.crc_en \subseteq One
      /\ a.tag_buffer_table_id \subseteq Word(32)
  BY DEF tir_attr
<1>4. tir_flags # {}
  BY DEF tir_flags
<1>5. /\ Tir(a).flags = tir_flags /\ Tir(a).lro = lro
      /\ Tir(a) = [flags |-> tir_flags, lro |-> lro,
                   inline_rqn |-> Of("INLINE_RQN", a.inline_rqn),
                   transport_domain |-> Of("TRANSPORT_DOMAIN", a.transport_domain),
                   tls_en |-> Of("TLS", a.tls_en),
                   zerocopy_en |-> Of("NVMEOTCP_ZERO_COPY", a.zerocopy_en),
                   crc_en |-> Of("NVMEOTCP_CRC", a.crc_en),
                   tag_buffer_table_id |-> Of("NVMEOTCP_ZERO_COPY", a.tag_buffer_table_id)]
  BY Zenon DEF Tir
<1> HIDE DEF lro, Lro
<1>6. Tir(a) \in [flags : SUBSET tir_flags, lro : Lro, inline_rqn : SUBSET Word(24),
                  transport_domain : SUBSET Word(24), tls_en : SUBSET One,
                  zerocopy_en : SUBSET One, crc_en : SUBSET One,
                  tag_buffer_table_id : SUBSET Word(32)]
  BY <1>2, <1>3, <1>5
<1>7. QED
  BY <1>4, <1>5, <1>6, Zenon DEF tir_attr, Lro

(* The same of a TIS. *)
LEMMA TisTyped ==
  ASSUME NEW a \in tis_attr
  PROVE  Tis(a) \in tis_attr /\ Tis(a).flags # {}
<1>1. tis_flags \ {"NVMEOTCP"} # {} /\ tis_flags \ {"NVMEOTCP"} \subseteq tis_flags
  BY DEF tis_flags
<1>2. QED
  BY <1>1 DEF Tis, tis_attr

(* A TIR or TIS created and queried. *)
LEMMA CachedOutcome ==
  ASSUME NEW o \in Object, o.kind \in {"tir", "tis"}, NEW H, Content(o, H), o.handle = NoHandle,
         NEW g \in Handle, NEW G, NEW M, NEW u, NEW t, Base(Handled(o, g), G, M),
         G[g] \in Box, NEW a \in Attrs, Says(o.kind, G[g], a),
         NEW x \in tir_attr \cup tis_attr,
         o.kind = "tir" => x \in tir_attr /\ x = Tir(a),
         o.kind = "tis" => x \in tis_attr /\ x = Tis(a),
         CachedForm(Handled(o, g), G, M, u, t, x)
  PROVE  CreatedTo(o, t, a)
<1> DEFINE p == Handled(o, g)
           q == Copied(p, x)
<1>1. /\ p \in Object /\ p.handle = g /\ p.kind = o.kind /\ p.m_attr = o.m_attr
  BY HandledFacts, Zenon
<1>2. /\ q \in Object /\ q.handle = g /\ q.kind = o.kind /\ q.m_attr = x
  BY <1>1, CopiedFacts
<1>3. Base(p, G, M) /\ CachedForm(p, G, M, u, t, x)
  BY Zenon
<1> HIDE DEF p, q
<1>4. o.m_attr.flags = {} /\ (o.kind = "tir" => o.m_attr \in tir_attr)
      /\ (o.kind = "tis" => o.m_attr \in tis_attr)
  BY Zenon DEF Content, Copy
<1>5. g # NoHandle /\ g # Gone
  BY ObjectsAssumption, Zenon
<1>6. \/ t = St(p, G, M, "DPCP_ERR_QUERY", u)
      \/ t = St(q, G, M, "DPCP_OK", x)
  BY <1>1, <1>3, <1>4, <1>5, Zenon DEF CachedForm, q
<1>7. o.kind \notin DekKind
  BY Zenon DEF DekKind
<1>8. CASE t = St(p, G, M, "DPCP_ERR_QUERY", u)
  <2> DEFINE v == Asked(p, a)
  <2>1. v.handle = g /\ v.kind = o.kind /\ v.asked = a /\ v.m_attr = o.m_attr
    BY <1>1, AskedFacts, Zenon
  <2> HIDE DEF v
  <2>2. Content(v, G)
    BY <1>4, <1>5, <1>7, <2>1, Zenon DEF Content, Copy
  <2>3. Outcome(p, G, "DPCP_ERR_QUERY", a)
    BY <2>2, Zenon DEF Outcome, v
  <2>4. QED
    BY <1>1, <1>3, <1>8, <2>3, Zenon DEF CreatedTo
<1>9. CASE t = St(q, G, M, "DPCP_OK", x)
  <2> DEFINE v == Made(q, a)
  <2>1. v.handle = g /\ v.kind = o.kind /\ v.asked = a /\ v.m_attr = x
    BY <1>2, MadeFacts, Zenon
  <2> HIDE DEF v
  <2>2. Content(v, G)
    BY <1>5, <1>7, <2>1, Zenon DEF Content, Copy
  <2>3. Outcome(q, G, "DPCP_OK", a)
    BY <2>2, Zenon DEF Outcome, v
  <2>4. Base(q, G, M)
    BY <1>1, <1>2, <1>3, BaseSame, Zenon
  <2>5. QED
    BY <1>2, <1>9, <2>3, <2>4, Zenon DEF CreatedTo
<1>10. QED
  BY <1>6, <1>8, <1>9, Zenon

(* tir::create leaves a TIR that agrees with the device. *)
LEMMA TirCreateTo ==
  ASSUME NEW o \in Object, NEW H, NEW L, Base(o, H, L), Content(o, H), o.kind = "tir", NEW r, NEW u,
         NEW a \in tir_attr, NEW t \in tir_create(St(o, H, L, r, u), a)
  PROVE  CreatedTo(o, t, a)
<1> DEFINE s == St(o, H, L, r, u)
<1>1. s.obj = o
  BY Parts
<1> HIDE DEF s
<1>2. \/ o.handle # NoHandle /\ t = Ret(s, "DPCP_ERR_INVALID_PARAM")
      \/ /\ o.handle = NoHandle
         /\ \E q \in obj_create(s, tir_context(a)) :
              IF q.ret = "DPCP_OK" THEN t \in tir_query(q) ELSE t = q
  BY <1>1, Zenon DEF tir_create, guarded_create, s
<1>3. CASE o.handle # NoHandle /\ t = Ret(s, "DPCP_ERR_INVALID_PARAM")
  <2>1. t = St(o, H, L, "DPCP_ERR_INVALID_PARAM", u)
    BY <1>3, PutRet DEF Ret, WithRet, s
  <2>2. Outcome(o, H, "DPCP_ERR_INVALID_PARAM", a)
    BY DEF Outcome
  <2>3. QED
    BY <2>1, <2>2 DEF CreatedTo
<1>4. CASE /\ o.handle = NoHandle
           /\ \E q \in obj_create(s, tir_context(a)) :
                IF q.ret = "DPCP_OK" THEN t \in tir_query(q) ELSE t = q
  <2>1. PICK q \in obj_create(s, tir_context(a)) :
          IF q.ret = "DPCP_OK" THEN t \in tir_query(q) ELSE t = q
    BY <1>4, Zenon
  <2>2. tir_context(a) \in Box
    BY TirContext, Zenon
  <2>3. Own(o) = {}
    BY <1>4, ObjectFields, ObjectsAssumption, Zenon
  <2>4. PICK g, G, M, w :
          /\ q = St(Handled(o, g), G, M, w, u) /\ Base(Handled(o, g), G, M)
          /\ \/ w = "DPCP_ERR_CREATE" /\ g = NoHandle
             \/ w = "DPCP_OK" /\ g \in Handle /\ G[g] = tir_context(a)
    BY <2>1, <2>2, <2>3, CreateBase DEF s
  <2>5. q.ret = w
    BY <2>4, Parts
  <2> DEFINE p == Handled(o, g)
  <2>6. p \in Object /\ p.handle = g /\ p.kind = o.kind
    BY <2>4, HandledFacts, Zenon
  <2>7. CASE w = "DPCP_ERR_CREATE" /\ g = NoHandle
    <3>1. t = St(p, G, M, "DPCP_ERR_CREATE", u)
      BY <2>1, <2>4, <2>5, <2>7, Zenon
    <3>2. Content(p, G)
      BY <1>4, <2>7, NoHandleContent, Zenon
    <3>3. Outcome(p, G, "DPCP_ERR_CREATE", a)
      BY <3>2 DEF Outcome
    <3> HIDE DEF p
    <3>4. Base(p, G, M)
      BY <2>4, Zenon DEF p
    <3>5. QED
      BY <2>6, <3>1, <3>3, <3>4, Zenon DEF CreatedTo
  <2>8. CASE w = "DPCP_OK" /\ g \in Handle /\ G[g] = tir_context(a)
    <3> DEFINE x == Tir(a)
    <3>1. t \in tir_query(St(p, G, M, w, u))
      BY <2>1, <2>4, <2>5, <2>8, Zenon
    <3>2. CachedForm(p, G, M, u, t, tir_read(G[p.handle], tir_flags))
      BY <2>6, <3>1, TirQueryForm, Zenon
    <3>3. tir_read(G[g], tir_flags) = x
      BY <2>8, TirContext, Zenon
    <3>4. CachedForm(p, G, M, u, t, x)
      BY <2>6, <3>2, <3>3, Zenon
    <3>5. x \in tir_attr
      BY TirTyped, Zenon
    <3>6. Says(o.kind, G[g], a) /\ G[g] \in Box
      BY <2>2, <2>8, <3>3, Zenon DEF Says, DekKind
    <3>7. a \in Attrs
      BY DEF Attrs
    <3>8. /\ x \in tir_attr \cup tis_attr
          /\ (o.kind = "tir" => x \in tir_attr /\ x = Tir(a))
          /\ (o.kind = "tis" => x \in tis_attr /\ x = Tis(a))
      BY <3>5
    <3> HIDE DEF x
    <3>9. QED
      BY <1>4, <2>4, <2>8, <3>4, <3>6, <3>7, <3>8, CachedOutcome, Zenon
  <2>9. QED
    BY <2>4, <2>7, <2>8, Zenon
<1>5. QED
  BY <1>2, <1>3, <1>4, Zenon

(* tis::create leaves a TIS that agrees with the device. *)
LEMMA TisCreateTo ==
  ASSUME NEW o \in Object, NEW H, NEW L, Base(o, H, L), Content(o, H), o.kind = "tis", NEW r, NEW u,
         NEW a \in tis_attr, NEW t \in tis_create(St(o, H, L, r, u), a)
  PROVE  CreatedTo(o, t, a)
<1> DEFINE s == St(o, H, L, r, u)
<1>1. s.obj = o
  BY Parts
<1> HIDE DEF s
<1>2. \/ o.handle # NoHandle /\ t = Ret(s, "DPCP_ERR_INVALID_PARAM")
      \/ /\ o.handle = NoHandle
         /\ \E q \in obj_create(s, tis_context(a)) :
              IF q.ret = "DPCP_OK" THEN t \in tis_query(q) ELSE t = q
  BY <1>1, Zenon DEF tis_create, guarded_create, s
<1>3. CASE o.handle # NoHandle /\ t = Ret(s, "DPCP_ERR_INVALID_PARAM")
  <2>1. t = St(o, H, L, "DPCP_ERR_INVALID_PARAM", u)
    BY <1>3, PutRet DEF Ret, WithRet, s
  <2>2. Outcome(o, H, "DPCP_ERR_INVALID_PARAM", a)
    BY DEF Outcome
  <2>3. QED
    BY <2>1, <2>2 DEF CreatedTo
<1>4. CASE /\ o.handle = NoHandle
           /\ \E q \in obj_create(s, tis_context(a)) :
                IF q.ret = "DPCP_OK" THEN t \in tis_query(q) ELSE t = q
  <2>1. PICK q \in obj_create(s, tis_context(a)) :
          IF q.ret = "DPCP_OK" THEN t \in tis_query(q) ELSE t = q
    BY <1>4, Zenon
  <2>2. tis_context(a) \in Box
    BY TisContext, Zenon
  <2>3. Own(o) = {}
    BY <1>4, ObjectFields, ObjectsAssumption, Zenon
  <2>4. PICK g, G, M, w :
          /\ q = St(Handled(o, g), G, M, w, u) /\ Base(Handled(o, g), G, M)
          /\ \/ w = "DPCP_ERR_CREATE" /\ g = NoHandle
             \/ w = "DPCP_OK" /\ g \in Handle /\ G[g] = tis_context(a)
    BY <2>1, <2>2, <2>3, CreateBase DEF s
  <2>5. q.ret = w
    BY <2>4, Parts
  <2> DEFINE p == Handled(o, g)
  <2>6. p \in Object /\ p.handle = g /\ p.kind = o.kind
    BY <2>4, HandledFacts
  <2>7. CASE w = "DPCP_ERR_CREATE" /\ g = NoHandle
    <3>1. t = St(p, G, M, "DPCP_ERR_CREATE", u)
      BY <2>1, <2>4, <2>5, <2>7, Zenon
    <3>2. Content(p, G)
      BY <1>4, <2>7, NoHandleContent, Zenon
    <3>3. Outcome(p, G, "DPCP_ERR_CREATE", a)
      BY <3>2 DEF Outcome
    <3> HIDE DEF p
    <3>4. Base(p, G, M)
      BY <2>4, Zenon DEF p
    <3>5. QED
      BY <2>6, <3>1, <3>3, <3>4, Zenon DEF CreatedTo
  <2>8. CASE w = "DPCP_OK" /\ g \in Handle /\ G[g] = tis_context(a)
    <3> DEFINE x == Tis(a)
    <3>1. t \in tis_query(St(p, G, M, w, u))
      BY <2>1, <2>4, <2>5, <2>8, Zenon
    <3>2. CachedForm(p, G, M, u, t, tis_read(G[p.handle], tis_flags \ {"NVMEOTCP"}))
      BY <2>6, <3>1, TisQueryForm, Zenon
    <3>3. tis_read(G[g], tis_flags \ {"NVMEOTCP"}) = x
      BY <2>8, TisContext, Zenon
    <3>4. CachedForm(p, G, M, u, t, x)
      BY <2>6, <3>2, <3>3, Zenon
    <3>5. x \in tis_attr
      BY TisTyped, Zenon
    <3>6. Says(o.kind, G[g], a) /\ G[g] \in Box
      BY <2>2, <2>8, <3>3, Zenon DEF Says, DekKind
    <3>7. a \in Attrs
      BY DEF Attrs
    <3>8. /\ x \in tir_attr \cup tis_attr
          /\ (o.kind = "tir" => x \in tir_attr /\ x = Tir(a))
          /\ (o.kind = "tis" => x \in tis_attr /\ x = Tis(a))
      BY <3>5, Zenon
    <3> HIDE DEF x
    <3>9. QED
      BY <1>4, <2>4, <2>8, <3>4, <3>6, <3>7, <3>8, CachedOutcome, Zenon
  <2>9. QED
    BY <2>4, <2>7, <2>8
<1>5. QED
  BY <1>2, <1>3, <1>4, Zenon

(* tag_buffer_table_obj::create. *)
LEMMA TableCreateTo ==
  ASSUME NEW o \in Object, NEW H, NEW L, Base(o, H, L), o.kind = "table", NEW r, NEW u,
         NEW a \in tag_buffer_table_attr, NEW t \in table_create(St(o, H, L, r, u), a)
  PROVE  CreatedTo(o, t, a)
<1> DEFINE box == DEVX_SET(tag_buffer_table_obj.log_tag_buffer_table_size,
                           a.log_tag_buffer_table_size)
<1>1. /\ DEVX_GET(tag_buffer_table_obj.log_tag_buffer_table_size, box) =
           a.log_tag_buffer_table_size \cap Word(5)
      /\ box \in Box
  BY TableContext, Zenon
<1>2. t \in obj_create(St(o, H, L, r, u), box)
  BY Zenon DEF table_create
<1> HIDE DEF box
<1>3. Says(o.kind, box, a) /\ o.kind \notin DekKind /\ o.kind \in LostHow /\ a \in Attrs
  BY <1>1, Zenon DEF Says, DekKind, LostHow, Attrs
<1>4. QED
  BY <1>1, <1>2, <1>3, PlainOutcome, Zenon

(* dek::create; the blob has no bits beyond its size. *)
LEMMA KeyCreateTo ==
  ASSUME NEW o \in Object, NEW H, NEW L, Base(o, H, L), Content(o, H), o.kind \in DekKind,
         NEW r, NEW u, NEW a \in DekAttrs, NEW t \in dek_create(St(o, H, L, r, u), a)
  PROVE  CreatedTo(o, t, a)
<1> DEFINE s   == St(o, H, L, r, u)
           p   == get_key_params(o.kind, a)
           box == key_context(p, a) \cup DEVX_SET(encryption_key_obj.has_keytag, p.has_keytag)
<1>1. s.obj = o
  BY Parts
<1>2. a \in dek_attr /\ a \in Attrs
  BY ObjectsAssumption DEF Attrs
<1>3. \/ t = Ret(s, "DPCP_ERR_INVALID_PARAM")
      \/ verify_attr(a) /\ p.valid /\ t \in obj_create(s, box)
  <2> HIDE DEF s
  <2>1. QED
    BY <1>1, Zenon DEF dek_create, s
<1>4. CASE t = Ret(s, "DPCP_ERR_INVALID_PARAM")
  <2>1. t = St(o, H, L, "DPCP_ERR_INVALID_PARAM", u)
    BY <1>4, PutRet DEF Ret, WithRet
  <2>2. Outcome(o, H, "DPCP_ERR_INVALID_PARAM", a)
    BY DEF Outcome
  <2>3. QED
    BY <2>1, <2>2 DEF CreatedTo
<1>5. CASE verify_attr(a) /\ p.valid /\ t \in obj_create(s, box)
  <2>1. BlobFits(a)
    BY <1>5, ObjectsAssumption, Zenon DEF BlobFits, verify_attr
  <2>2. box \in Box /\ KeySays(o.kind, box, a) /\ TagSays(o.kind, box, a)
    BY <1>2, <1>5, <2>1, KeyCreated, Zenon
  <2> HIDE DEF box, p
  <2>3. Says(o.kind, box, a) /\ o.kind \in LostHow /\ o.kind \notin {"tir", "tis"}
    BY <1>2, <2>2, Zenon DEF Says, DekKind, LostHow
  <2>4. QED
    BY <1>2, <1>5, <2>2, <2>3, PlainOutcome, Zenon
<1>6. QED
  BY <1>3, <1>4, <1>5, Zenon

(* create, whatever the object is. *)
LEMMA CreateTo ==
  ASSUME NEW o \in Object, NEW H, NEW L, Base(o, H, L), Content(o, H), NEW r, NEW u,
         NEW a \in Requests(o.kind), NEW t \in create(St(o, H, L, r, u), a)
  PROVE  CreatedTo(o, t, a) /\ a \in Attrs
<1> DEFINE s == St(o, H, L, r, u)
<1>1. s.obj = o
  BY Parts
<1>2. /\ TirAttrs \subseteq tir_attr /\ TisAttrs \subseteq tis_attr /\ DekAttrs \subseteq dek_attr
      /\ TableAttrsOfTags \subseteq tag_buffer_table_attr
  BY ObjectsAssumption
<1>3. o.kind \in Kind
  BY ObjectFields
<1> HIDE DEF s
<1>4. CASE o.kind = "tir"
  <2>1. t \in tir_create(s, a) /\ a \in tir_attr
    BY <1>1, <1>2, <1>4, Zenon DEF create, Requests, s
  <2>2. QED
    BY <1>4, <2>1, TirCreateTo DEF s, Attrs
<1>5. CASE o.kind = "tis"
  <2>1. t \in tis_create(s, a) /\ a \in tis_attr
    BY <1>1, <1>2, <1>5, Zenon DEF create, Requests, s
  <2>2. QED
    BY <1>5, <2>1, TisCreateTo DEF s, Attrs
<1>6. CASE o.kind = "table"
  <2>1. t \in table_create(s, a) /\ a \in tag_buffer_table_attr
    BY <1>1, <1>2, <1>6, Zenon DEF create, Requests, s
  <2>2. QED
    BY <1>6, <2>1, TableCreateTo DEF s, Attrs
<1>7. CASE o.kind \in DekKind
  <2>1. t \in dek_create(s, a) /\ a \in DekAttrs
    BY <1>1, <1>7, Zenon DEF create, Requests, s, DekKind
  <2>2. QED
    BY <1>2, <1>7, <2>1, KeyCreateTo, Zenon DEF s, Attrs
<1>8. QED
  BY <1>3, <1>4, <1>5, <1>6, <1>7, Zenon DEF Kind

----------------------------------------------------------------------------
(* A state with an object that agrees with the device. *)
Fine(t) ==
  \E p, G, M, w, x : /\ t = St(p, G, M, w, x) /\ p \in Object
                     /\ Base(p, G, M) /\ Content(p, G)

(* Another mailbox for the object. *)
LEMMA BoxAtBase ==
  ASSUME NEW o \in Object, NEW H, NEW L, Base(o, H, L), o.handle \in Handle, NEW b \in Box
  PROVE  Base(o, BoxAt(H, o.handle, b), L) /\ BoxAt(H, o.handle, b)[o.handle] = b
<1> DEFINE G == BoxAt(H, o.handle, b)
<1>1. H \in [Handle -> Mailbox] /\ b \in Mailbox
  BY DEF Base, Mailbox
<1>2. G \in [Handle -> Mailbox] /\ G[o.handle] = b
      /\ \A h \in Handle : h # o.handle => G[h] = H[h]
  BY <1>1 DEF BoxAt
<1>3. Own(o) = {o.handle}
  BY ObjectFields
<1>4. b # Free
  BY FreeFacts
<1> HIDE DEF G
<1>5. H[o.handle] # Free
  BY <1>3 DEF Base
<1>6. {h \in Handle : G[h] # Free} = {h \in Handle : H[h] # Free}
  BY <1>2, <1>4, <1>5, Zenon
<1>7. QED
  BY <1>2, <1>6 DEF Base, G

(* What a refused or failed modification leaves. *)
LEMMA RefusedFine ==
  ASSUME NEW o \in Object, NEW H, NEW L, Base(o, H, L), Content(o, H), NEW w, w # "DPCP_OK",
         NEW u, NEW a
  PROVE  Fine(Changed(St(o, H, L, w, u), a))
<1>1. St(o, H, L, w, u).ret # "DPCP_OK"
  BY Parts
<1> DEFINE t == St(o, H, L, w, u)
<1> HIDE DEF t
<1>2. Changed(t, a) = t
  BY <1>1, Zenon DEF Accepted, Changed, t
<1>3. QED
  BY <1>2 DEF Fine, t

(* The LRO attributes of the copy. *)
LEMMA LroCopiedFacts ==
  ASSUME NEW o \in Object, o.m_attr \in tir_attr, NEW a \in tir_attr
  PROVE  /\ LroCopied(o, a.lro) = Copied(o, LroIn(o.m_attr, a.lro))
         /\ LroIn(o.m_attr, a.lro) \in tir_attr
         /\ LroIn(o.m_attr, a.lro).flags = o.m_attr.flags
BY Zenon DEF LroCopied, Copied, LroIn, tir_attr

(* tir::modify, with the parts of the state. *)
LEMMA TirModifyForm ==
  ASSUME NEW o \in Object, NEW H, NEW L, NEW r, NEW u, NEW a,
         NEW t \in tir_modify(St(o, H, L, r, u), a)
  PROVE  \/ \E w : t = St(o, H, L, w, u) /\ w # "DPCP_OK"
         \/ /\ o.handle \in Handle /\ "LRO" \in a.flags
            /\ t = St(LroCopied(o, a.lro),
                      BoxAt(H, o.handle, LroBox(H[o.handle], a)),
                      L, "DPCP_OK", u)
         \/ /\ o.handle \in Handle /\ "LRO" \notin a.flags
            /\ t = St(o, BoxAt(H, o.handle, H[o.handle]), L, "DPCP_OK", u)
<1> DEFINE s == St(o, H, L, r, u)
           New(box) == IF "LRO" \in a.flags THEN LroBox(box, a) ELSE box
<1>1. s.obj = o /\ s.hw = H /\ Held(s) = {o.handle} \cap Handle
  BY Parts, HeldForm, ObjectFields
<1> HIDE DEF s
<1>2. \/ t = Ret(s, "DPCP_ERR_INVALID_PARAM")
      \/ \E q : /\ \/ q = Crash(s)
                   \/ q = Ret(s, "DPCP_ERR_MODIFY")
                   \/ \E h \in Held(s) : q = WithBoxRet(s, h, New(s.hw[h]), "DPCP_OK")
                /\ t = IF q.ret = "DPCP_OK" /\ "LRO" \in a.flags THEN WithLro(q, a.lro) ELSE q
  BY Zenon DEF tir_modify, obj_modify, WithBoxRet, WithLro, LroBox, s
<1>3. \A v : Ret(s, v) = St(o, H, L, v, u)
  BY PutRet DEF Ret, WithRet, s
<1>4. Crash(s) = St(o, H, L, "crash", u)
  BY PutRet DEF Crash, WithRet, s
<1>5. CASE t = Ret(s, "DPCP_ERR_INVALID_PARAM")
  <2>1. t = St(o, H, L, "DPCP_ERR_INVALID_PARAM", u)
    BY <1>3, <1>5, Zenon
  <2>2. "DPCP_ERR_INVALID_PARAM" # "DPCP_OK"
    OBVIOUS
  <2>3. QED
    BY <2>1, <2>2, Zenon
<1>6. CASE \E q : /\ \/ q = Crash(s)
                     \/ q = Ret(s, "DPCP_ERR_MODIFY")
                     \/ \E h \in Held(s) : q = WithBoxRet(s, h, New(s.hw[h]), "DPCP_OK")
                  /\ t = IF q.ret = "DPCP_OK" /\ "LRO" \in a.flags THEN WithLro(q, a.lro) ELSE q
  <2> HIDE DEF New
  <2>1. PICK q : /\ \/ q = Crash(s)
                    \/ q = Ret(s, "DPCP_ERR_MODIFY")
                    \/ \E h \in Held(s) : q = WithBoxRet(s, h, New(s.hw[h]), "DPCP_OK")
                 /\ t = IF q.ret = "DPCP_OK" /\ "LRO" \in a.flags THEN WithLro(q, a.lro) ELSE q
    BY <1>6, Zenon
  <2>2. CASE q = Crash(s) \/ q = Ret(s, "DPCP_ERR_MODIFY")
    <3>1. PICK w \in {"crash", "DPCP_ERR_MODIFY"} : q = St(o, H, L, w, u)
      BY <1>3, <1>4, <2>2, Zenon
    <3>2. q.ret = w
      BY <3>1, Parts
    <3>3. t = q
      BY <2>1, <3>2, Zenon
    <3>4. QED
      BY <3>1, <3>3, Zenon
  <2>3. CASE \E h \in Held(s) : q = WithBoxRet(s, h, New(s.hw[h]), "DPCP_OK")
    <3>1. o.handle \in Handle /\ q = WithBoxRet(s, o.handle, New(H[o.handle]), "DPCP_OK")
      BY <1>1, <2>3, Zenon
    <3>2. q = St(o, BoxAt(H, o.handle, New(H[o.handle])), L, "DPCP_OK", u)
      BY <3>1, PutBoxRet DEF s
    <3>3. q.ret = "DPCP_OK"
      BY <3>2, Parts
    <3>4. CASE "LRO" \in a.flags
      <4>1. t = WithLro(q, a.lro)
        BY <2>1, <3>3, <3>4, Zenon
      <4>2. t = St(LroCopied(o, a.lro), BoxAt(H, o.handle, New(H[o.handle])), L, "DPCP_OK", u)
        BY <3>2, <4>1, PutLro
      <4>3. New(H[o.handle]) = LroBox(H[o.handle], a)
        BY <3>4, Zenon DEF New
      <4>4. QED
        BY <3>1, <3>4, <4>2, <4>3, Zenon
    <3>5. CASE "LRO" \notin a.flags
      <4>1. t = q
        BY <2>1, <3>5, Zenon
      <4>2. New(H[o.handle]) = H[o.handle]
        BY <3>5, Zenon DEF New
      <4>3. QED
        BY <3>1, <3>2, <3>5, <4>1, <4>2, Zenon
    <3>6. QED
      BY <3>4, <3>5, Zenon
  <2>4. QED
    BY <2>1, <2>2, <2>3
<1>7. QED
  BY <1>2, <1>5, <1>6, Zenon

(* A modified object: the history and the mailbox agree. *)
LEMMA ModifiedFine ==
  ASSUME NEW o \in Object, NEW p \in Object, o.handle \in Handle, p.handle = o.handle,
         p.kind = o.kind, NEW H, NEW L, Base(o, H, L), NEW b \in Box, NEW now \in Attrs,
         o.kind \in DekKind \cup {"tir"}, Says(o.kind, b, now),
         o.kind = "tir" => Copy(p, tir_attr, Tir(now)), NEW u
  PROVE  Fine(St(Remade(p, now), BoxAt(H, o.handle, b), L, "DPCP_OK", u))
<1> DEFINE G == BoxAt(H, o.handle, b)
           q == Remade(p, now)
<1>1. Base(o, G, L) /\ G[o.handle] = b
  BY BoxAtBase
<1>2. /\ q \in Object /\ q.handle = o.handle /\ q.kind = o.kind /\ q.asked = now
      /\ q.modified = TRUE /\ q.m_attr = p.m_attr
  BY MadeFacts, Zenon
<1> HIDE DEF G, q
<1>3. Base(q, G, L)
  BY <1>1, <1>2, BaseSame, Zenon
<1>4. q.kind # "tis" /\ o.handle # NoHandle
  BY <1>2, ObjectsAssumption, Zenon DEF DekKind
<1>5. Content(q, G)
  BY <1>1, <1>2, <1>4, Zenon DEF Content, Copy
<1>6. QED
  BY <1>2, <1>3, <1>5, Zenon DEF Fine, G, q

(* What the history is when the device accepts a modification of the LRO attributes of a TIR. *)
LEMMA AcceptedLro ==
  ASSUME NEW o, NEW H, NEW L, NEW u, NEW a, o.kind = "tir", "LRO" \in a.flags
  PROVE  Changed(St(o, H, L, "DPCP_OK", u), a) = St(Remade(o, LroAsked(o.asked, a)), H, L, "DPCP_OK", u)
<1> DEFINE s == St(o, H, L, "DPCP_OK", u)
<1>1. s.obj = o /\ s.ret = "DPCP_OK"
  BY Parts
<1>2. \A v, m : WithAskedMod(s, v, m) = St(AskedMod(o, v, m), H, L, "DPCP_OK", u)
  BY PutAskedMod
<1> HIDE DEF s
<1>3. Accepted(s, a, TRUE) = WithAskedMod(s, LroAsked(o.asked, a), TRUE)
  BY <1>1 DEF Accepted, WithAskedMod, LroAsked
<1>4. QED
  BY <1>2, <1>3, Zenon DEF s, Changed, Remade

(* What the history is when the device accepts a modification of nothing of a TIR. *)
LEMMA AcceptedNoLro ==
  ASSUME NEW o, NEW H, NEW L, NEW u, NEW a, o.kind = "tir", "LRO" \notin a.flags
  PROVE  Changed(St(o, H, L, "DPCP_OK", u), a) = St(Remade(o, o.asked), H, L, "DPCP_OK", u)
<1> DEFINE s == St(o, H, L, "DPCP_OK", u)
<1>1. s.obj = o /\ s.ret = "DPCP_OK"
  BY Parts
<1>2. \A v, m : WithAskedMod(s, v, m) = St(AskedMod(o, v, m), H, L, "DPCP_OK", u)
  BY PutAskedMod
<1> HIDE DEF s
<1>3. Accepted(s, a, TRUE) = WithAskedMod(s, o.asked, TRUE)
  BY <1>1 DEF Accepted, WithAskedMod
<1>4. QED
  BY <1>2, <1>3, Zenon DEF s, Changed, Remade

(* What the history is when the device accepts a modification of a key. *)
LEMMA AcceptedKey ==
  ASSUME NEW o, NEW H, NEW L, NEW u, NEW a, o.kind # "tir"
  PROVE  Changed(St(o, H, L, "DPCP_OK", u), a) = St(Remade(o, KeyAsked(o.asked, a)), H, L, "DPCP_OK", u)
<1> DEFINE s == St(o, H, L, "DPCP_OK", u)
<1>1. s.obj = o /\ s.ret = "DPCP_OK"
  BY Parts
<1>2. \A v, m : WithAskedMod(s, v, m) = St(AskedMod(o, v, m), H, L, "DPCP_OK", u)
  BY PutAskedMod
<1> HIDE DEF s
<1>3. Accepted(s, a, TRUE) = WithAskedMod(s, KeyAsked(o.asked, a), TRUE)
  BY <1>1 DEF Accepted, WithAskedMod, KeyAsked
<1>4. QED
  BY <1>2, <1>3, Zenon DEF s, Changed, Remade

(* What the history is when the device accepts a creation. *)
LEMMA AcceptedNew ==
  ASSUME NEW o, NEW H, NEW L, NEW u, NEW a
  PROVE  Noted(St(o, H, L, "DPCP_OK", u), a) = St(Made(o, a), H, L, "DPCP_OK", u)
<1> DEFINE s == St(o, H, L, "DPCP_OK", u)
<1>1. s.obj = o /\ s.ret = "DPCP_OK"
  BY Parts
<1>2. \A v, m : WithAskedMod(s, v, m) = St(AskedMod(o, v, m), H, L, "DPCP_OK", u)
  BY PutAskedMod
<1> HIDE DEF s
<1>3. Accepted(s, a, FALSE) = WithAskedMod(s, a, FALSE)
  BY <1>1, Zenon DEF Accepted, WithAskedMod
<1>4. QED
  BY <1>2, <1>3, Zenon DEF s, Noted, Made

(* tir::modify keeps the copy, the history and the device together. *)
LEMMA TirModifyTo ==
  ASSUME NEW o \in Object, NEW H, NEW L, Base(o, H, L), Content(o, H), o.kind = "tir", NEW r, NEW u,
         NEW a \in tir_attr, NEW t \in tir_modify(St(o, H, L, r, u), a)
  PROVE  Fine(Changed(t, a))
<1> DEFINE lro == LroBox(H[o.handle], a)
<1>1. \/ \E w : t = St(o, H, L, w, u) /\ w # "DPCP_OK"
      \/ /\ o.handle \in Handle /\ "LRO" \in a.flags
         /\ t = St(LroCopied(o, a.lro), BoxAt(H, o.handle, lro), L, "DPCP_OK", u)
      \/ /\ o.handle \in Handle /\ "LRO" \notin a.flags
         /\ t = St(o, BoxAt(H, o.handle, H[o.handle]), L, "DPCP_OK", u)
  BY TirModifyForm
<1>2. Copy(o, tir_attr, Tir(o.asked))
  BY Zenon DEF Content
<1>3. CASE \E w : t = St(o, H, L, w, u) /\ w # "DPCP_OK"
  BY <1>3, RefusedFine
<1>4. CASE /\ o.handle \in Handle /\ "LRO" \in a.flags
           /\ t = St(LroCopied(o, a.lro), BoxAt(H, o.handle, lro), L, "DPCP_OK", u)
  <2> DEFINE p   == LroCopied(o, a.lro)
             x   == LroIn(o.m_attr, a.lro)
             now == LroAsked(o.asked, a)
  <2>1. p = Copied(o, x) /\ x \in tir_attr /\ x.flags = o.m_attr.flags
    BY <1>2, LroCopiedFacts, Zenon DEF Copy
  <2>2. /\ p \in Object /\ p.m_attr = x /\ p.kind = o.kind /\ p.asked = o.asked
        /\ p.handle = o.handle
    <3> HIDE DEF p, x
    <3>1. QED
      BY <2>1, CopiedFacts
  <2>3. H[o.handle] \in Box /\ o.asked \in tir_attr
        /\ tir_read(H[o.handle], tir_flags) = Tir(o.asked)
    BY <1>4, Zenon DEF Content, Says
  <2>4. lro \in Box /\ tir_read(lro, tir_flags) = Tir(now) /\ now \in tir_attr
        /\ Tir(now) = LroIn(Tir(o.asked), a.lro)
    BY <2>3, TirModifiedSays, Zenon DEF LroBox
  <2>5. Says(o.kind, lro, now) /\ now \in Attrs
    BY <2>4, Zenon DEF Says, Attrs, DekKind
  <2>6. x.flags # {} => x = Tir(now)
    BY <1>2, <2>1, <2>4, Zenon DEF Copy
  <2> HIDE DEF p, x, lro, now
  <2>7. Copy(p, tir_attr, Tir(now))
    BY <1>2, <2>1, <2>2, <2>6, Zenon DEF Copy
  <2>8. Changed(t, a) = St(Remade(p, now), BoxAt(H, o.handle, lro), L, "DPCP_OK", u)
    <3>1. t = St(p, BoxAt(H, o.handle, lro), L, "DPCP_OK", u)
      BY <1>4, Zenon DEF p
    <3>2. Changed(t, a) =
            St(Remade(p, LroAsked(p.asked, a)), BoxAt(H, o.handle, lro), L, "DPCP_OK", u)
      <4>1. p.kind = "tir" /\ "LRO" \in a.flags
        BY <1>4, <2>2, Zenon
      <4>2. QED
        BY <3>1, <4>1, AcceptedLro
    <3>3. QED
      BY <2>2, <3>2, Zenon DEF now
  <2>9. QED
    BY <1>4, <2>2, <2>4, <2>5, <2>7, <2>8, ModifiedFine, Zenon
<1>5. CASE /\ o.handle \in Handle /\ "LRO" \notin a.flags
           /\ t = St(o, BoxAt(H, o.handle, H[o.handle]), L, "DPCP_OK", u)
  <2>1. Changed(t, a) =
          St(Remade(o, o.asked), BoxAt(H, o.handle, H[o.handle]), L, "DPCP_OK", u)
    BY <1>5, AcceptedNoLro, Zenon
  <2>2. H[o.handle] \in Box /\ Says(o.kind, H[o.handle], o.asked) /\ o.asked \in Attrs
    BY <1>5, Zenon DEF Content, Says, Attrs
  <2>3. QED
    BY <1>2, <1>5, <2>1, <2>2, ModifiedFine, Zenon
<1>6. QED
  BY <1>1, <1>3, <1>4, <1>5, Zenon

KeyOutcome(o, H, L, u, a, t) ==
  \/ \E w : t = St(o, H, L, w, u) /\ w # "DPCP_OK"
  \/ /\ o.handle \in Handle /\ verify_attr(a) /\ get_key_params(o.kind, a).valid
     /\ t = St(o, BoxAt(H, o.handle, KeyBox(o.kind, H[o.handle], a)), L, "DPCP_OK", u)

(* dek::modify, with the parts of the state. *)
LEMMA KeyModifyForm ==
  ASSUME NEW o \in Object, NEW H, NEW L, NEW r, NEW u, NEW a,
         NEW t \in dek_modify(St(o, H, L, r, u), a)
  PROVE  KeyOutcome(o, H, L, u, a, t)
<1> USE DEF KeyOutcome
<1> DEFINE s == St(o, H, L, r, u)
<1>1. s.obj = o /\ s.hw = H /\ Held(s) = {o.handle} \cap Handle
  BY Parts, HeldForm, ObjectFields
<1> HIDE DEF s
<1>2. \/ t = Ret(s, "DPCP_ERR_INVALID_PARAM")
      \/ t = Crash(s)
      \/ t = Ret(s, "DPCP_ERR_MODIFY")
      \/ /\ verify_attr(a) /\ get_key_params(s.obj.kind, a).valid
         /\ \E h \in Held(s) : t = WithBoxRet(s, h, KeyBox(s.obj.kind, s.hw[h], a), "DPCP_OK")
  BY Zenon DEF dek_modify, obj_modify, WithBoxRet, KeyBox, s
<1>3. \A v : Ret(s, v) = St(o, H, L, v, u)
  BY PutRet DEF Ret, WithRet, s
<1>4. Crash(s) = St(o, H, L, "crash", u)
  BY PutRet DEF Crash, WithRet, s
<1>5. CASE \/ t = Ret(s, "DPCP_ERR_INVALID_PARAM")
           \/ t = Crash(s)
           \/ t = Ret(s, "DPCP_ERR_MODIFY")
  <2>1. \E w \in {"crash", "DPCP_ERR_MODIFY", "DPCP_ERR_INVALID_PARAM"} : t = St(o, H, L, w, u)
    BY <1>3, <1>4, <1>5, Zenon
  <2>2. QED
    BY <2>1
<1>6. CASE /\ verify_attr(a) /\ get_key_params(s.obj.kind, a).valid
           /\ \E h \in Held(s) : t = WithBoxRet(s, h, KeyBox(s.obj.kind, s.hw[h], a), "DPCP_OK")
  <2> DEFINE b == KeyBox(o.kind, H[o.handle], a)
  <2> HIDE DEF b
  <2>1. o.handle \in Handle /\ t = WithBoxRet(s, o.handle, b, "DPCP_OK")
    BY <1>1, <1>6, Zenon DEF b
  <2>2. t = St(o, BoxAt(H, o.handle, b), L, "DPCP_OK", u)
    BY <2>1, PutBoxRet DEF s
  <2>3. verify_attr(a) /\ get_key_params(o.kind, a).valid
    BY <1>1, <1>6
  <2>4. QED
    BY <2>1, <2>2, <2>3, Zenon DEF b
<1>7. QED
  BY <1>2, <1>5, <1>6, Zenon

(* dek::modify keeps the history and the device together. *)
LEMMA KeyModifyTo ==
  ASSUME NEW o \in Object, NEW H, NEW L, Base(o, H, L), Content(o, H), o.kind \in DekKind,
         NEW r, NEW u, NEW a \in DekAttrs, NEW t \in dek_modify(St(o, H, L, r, u), a)
  PROVE  Fine(Changed(t, a))
<1> DEFINE b == KeyBox(o.kind, H[o.handle], a)
<1>1. \/ \E w : t = St(o, H, L, w, u) /\ w # "DPCP_OK"
      \/ /\ o.handle \in Handle /\ verify_attr(a) /\ get_key_params(o.kind, a).valid
         /\ t = St(o, BoxAt(H, o.handle, b), L, "DPCP_OK", u)
  <2>1. KeyOutcome(o, H, L, u, a, t)
    BY KeyModifyForm
  <2>2. QED
    BY <2>1, Zenon DEF KeyOutcome
<1>2. CASE \E w : t = St(o, H, L, w, u) /\ w # "DPCP_OK"
  BY <1>2, RefusedFine
<1>3. CASE /\ o.handle \in Handle /\ verify_attr(a) /\ get_key_params(o.kind, a).valid
           /\ t = St(o, BoxAt(H, o.handle, b), L, "DPCP_OK", u)
  <2> DEFINE now == KeyAsked(o.asked, a)
  <2>1. a \in dek_attr
    BY ObjectsAssumption, Zenon
  <2>2. BlobFits(a)
    BY <1>3, ObjectsAssumption DEF BlobFits, verify_attr
  <2>3. H[o.handle] \in Box /\ o.asked \in dek_attr /\ KeySays(o.kind, H[o.handle], o.asked)
    BY <1>3, Zenon DEF Content, Says
  <2>4. b \in Box /\ KeySays(o.kind, b, now) /\ now \in dek_attr
    BY <1>3, <2>1, <2>2, <2>3, KeyModifiedSays, Zenon DEF KeyBox
  <2> HIDE DEF b, now
  <2>5. o.kind \notin {"tir", "tis", "table"}
    BY DEF DekKind
  <2>6. Says(o.kind, b, now) /\ now \in Attrs
    BY <2>4, <2>5, Zenon DEF Says, Attrs
  <2>7. Changed(t, a) = St(Remade(o, now), BoxAt(H, o.handle, b), L, "DPCP_OK", u)
    BY <1>3, <2>5, AcceptedKey DEF now
  <2>8. QED
    BY <1>3, <2>4, <2>5, <2>6, <2>7, ModifiedFine, Zenon
<1>4. QED
  BY <1>1, <1>2, <1>3, Zenon

(* modify, of a TIR or a key. *)
LEMMA ModifyTo ==
  ASSUME NEW o \in Object, NEW H, NEW L, Base(o, H, L), Content(o, H), NEW r, NEW u,
         o.kind \in DekKind \cup {"tir"},
         NEW a \in Requests(o.kind), NEW t \in modify(St(o, H, L, r, u), a)
  PROVE  Fine(Changed(t, a))
<1> DEFINE s == St(o, H, L, r, u)
<1>1. s.obj = o
  BY Parts
<1> HIDE DEF s
<1>2. CASE o.kind = "tir"
  <2>1. t \in tir_modify(s, a) /\ a \in tir_attr
    BY <1>1, <1>2, ObjectsAssumption, Zenon DEF modify, Requests, s
  <2>2. QED
    BY <1>2, <2>1, TirModifyTo, Zenon DEF s
<1>3. CASE o.kind \in DekKind
  <2>1. t \in dek_modify(s, a) /\ a \in DekAttrs
    BY <1>1, <1>3, Zenon DEF modify, Requests, s, DekKind
  <2>2. QED
    BY <1>3, <2>1, KeyModifyTo, Zenon DEF s
<1>4. QED
  BY <1>2, <1>3, Zenon

(* What a query tells, and the state it leaves. *)
Told(o, out) ==
  /\ o.kind = "tir" => out = Tir(o.asked)
  /\ o.kind = "tis" => out = Tis(o.asked)
  /\ o.kind = "table" => out.log_tag_buffer_table_size =
                           o.asked.log_tag_buffer_table_size \cap Word(5)
  /\ o.kind \in DekKind => /\ out.key_size = o.asked.key_size
                           /\ out.pd_id = o.asked.pd_id \cap Word(24)
                           /\ out.opaque = o.asked.opaque
Queried(t) ==
  \E p, G, M, w, x : /\ t = St(p, G, M, w, x) /\ p \in Object
                     /\ Base(p, G, M) /\ Content(p, G)
                     /\ w = "DPCP_OK" => Told(p, x)

(* tir::query and tis::query, from the device or from the copy. *)
LEMMA CachedTo ==
  ASSUME NEW o \in Object, NEW H, NEW L, Base(o, H, L), Content(o, H), NEW u, NEW t, NEW x,
         o.kind \in {"tir", "tis"}, CachedForm(o, H, L, u, t, x),
         o.handle \in Handle => x \in tir_attr \cup tis_attr,
         o.handle \in Handle /\ o.kind = "tir" => x \in tir_attr /\ x = Tir(o.asked),
         o.handle \in Handle /\ o.kind = "tis" => x \in tis_attr /\ x = Tis(o.asked)
  PROVE  Queried(t)
<1>1. o.kind \notin DekKind /\ o.kind # "table"
  BY Zenon DEF DekKind
<1>2. CASE t = St(Copied(o, x), H, L, "DPCP_OK", x) /\ o.handle \in Handle
  <2> DEFINE p == Copied(o, x)
  <2>1. /\ p \in Object /\ p.m_attr = x /\ p.kind = o.kind /\ p.asked = o.asked
        /\ p.handle = o.handle
    BY <1>2, CopiedFacts, Zenon
  <2> HIDE DEF p
  <2>2. Base(p, H, L)
    BY <2>1, BaseSame, Zenon
  <2>3. o.handle # NoHandle
    BY <1>2, ObjectsAssumption
  <2>4. Content(p, H)
    BY <1>1, <1>2, <2>1, <2>3, Zenon DEF Content, Copy
  <2>5. Told(p, x)
    BY <1>1, <1>2, <2>1, Zenon DEF Told
  <2>6. QED
    BY <1>2, <2>1, <2>2, <2>4, <2>5, Zenon DEF Queried, p
<1>3. CASE t = St(o, H, L, "DPCP_OK", o.m_attr) /\ o.handle # NoHandle /\ o.m_attr.flags # {}
  <2>1. Told(o, o.m_attr)
    BY <1>1, <1>3, Zenon DEF Told, Content, Copy
  <2>2. QED
    BY <1>3, <2>1 DEF Queried
<1>4. ASSUME NEW w \in {"DPCP_ERR_INVALID_PARAM", "crash", "DPCP_ERR_QUERY"},
             t = St(o, H, L, w, u)
      PROVE  Queried(t)
  BY <1>4, Zenon DEF Queried
<1>5. QED
  BY <1>2, <1>3, <1>4, Zenon DEF CachedForm

(* dek::query and tag_buffer_table_obj::query, from the device. *)
LEMMA PlainTo ==
  ASSUME NEW o \in Object, NEW H, NEW L, Base(o, H, L), Content(o, H), NEW u, NEW t, NEW x,
         PlainForm(o, H, L, u, t, x), o.handle \in Handle => Told(o, x)
  PROVE  Queried(t)
<1>1. CASE t = St(o, H, L, "DPCP_OK", x) /\ o.handle \in Handle
  BY <1>1, Zenon DEF Queried
<1>2. ASSUME NEW w \in {"DPCP_ERR_INVALID_PARAM", "crash", "DPCP_ERR_QUERY"},
             t = St(o, H, L, w, u)
      PROVE  Queried(t)
  BY <1>2, Zenon DEF Queried
<1>3. QED
  BY <1>1, <1>2, Zenon DEF PlainForm

(* A key as the device has it, read back. *)
LEMMA KeyReadTold ==
  ASSUME NEW o \in Object, o.kind \in DekKind, NEW b, KeySays(o.kind, b, o.asked)
  PROVE  Told(o, KeyRead(b))
<1>1. o.kind \notin {"tir", "tis", "table"}
  BY Zenon DEF DekKind
<1>2. /\ encryption_key_obj.key_size = F(84, 4) /\ encryption_key_obj.pd = F(104, 24)
      /\ encryption_key_obj.opaque = F(384, 64)
  BY KeyPlaces, Zenon
<1> DEFINE a    == o.asked
           flag == DEVX_GET(F(84, 4), b)
<1>3. a.key_size \in {16, 32} /\ flag = (IF a.key_size = 32 THEN {0} ELSE {})
  BY Zenon DEF KeySays
<1>4. DEVX_GET(F(104, 24), b) = a.pd_id \cap Word(24) /\ DEVX_GET(F(384, 64), b) = a.opaque
  BY Zenon DEF KeySays
<1>5. /\ KeyRead(b).key_size = key_size_flag_to_bytes_size(flag)
      /\ KeyRead(b).pd_id = DEVX_GET(F(104, 24), b)
      /\ KeyRead(b).opaque = DEVX_GET(F(384, 64), b)
  BY <1>2, Zenon DEF KeyRead
<1> HIDE DEF a, flag
<1>6. key_size_flag_to_bytes_size(flag) = a.key_size
  BY <1>3, Zenon DEF key_size_flag_to_bytes_size
<1>7. QED
  BY <1>1, <1>4, <1>5, <1>6, Zenon DEF Told, a

(* query, whatever the object is. *)
LEMMA QueryTo ==
  ASSUME NEW o \in Object, NEW H, NEW L, Base(o, H, L), Content(o, H), NEW r, NEW u,
         NEW t \in query_object(St(o, H, L, r, u))
  PROVE  Queried(t)
<1> DEFINE s == St(o, H, L, r, u)
<1>1. s.obj = o /\ o.kind \in Kind
  BY Parts, ObjectFields
<1> HIDE DEF s
<1>2. CASE o.kind = "tir"
  <2> DEFINE x == tir_read(H[o.handle], tir_flags)
  <2>1. t \in tir_query(s)
    BY <1>1, <1>2, Zenon DEF query_object, s
  <2>2. CachedForm(o, H, L, u, t, x)
    BY <2>1, TirQueryForm, Zenon DEF s
  <2> HIDE DEF x
  <2>3. o.handle \in Handle => o.asked \in tir_attr /\ x = Tir(o.asked)
    BY <1>2, Zenon DEF Content, Says, x
  <2>4. o.handle \in Handle => x \in tir_attr
    BY <2>3, TirTyped, Zenon
  <2>5. QED
    BY <1>2, <2>2, <2>3, <2>4, CachedTo
<1>3. CASE o.kind = "tis"
  <2> DEFINE x == tis_read(H[o.handle], tis_flags \ {"NVMEOTCP"})
  <2>1. t \in tis_query(s)
    BY <1>1, <1>3 DEF query_object, s
  <2>2. CachedForm(o, H, L, u, t, x)
    BY <2>1, TisQueryForm, Zenon DEF s
  <2> HIDE DEF x
  <2>3. o.handle \in Handle => o.asked \in tis_attr /\ x = Tis(o.asked)
    BY <1>3, Zenon DEF Content, Says, x
  <2>4. o.handle \in Handle => x \in tis_attr
    BY <2>3, TisTyped
  <2>5. QED
    BY <1>3, <2>2, <2>3, <2>4, CachedTo
<1>4. CASE o.kind = "table"
  <2> DEFINE x == TableRead(H[o.handle])
  <2>1. t \in table_query(s)
    BY <1>1, <1>4, Zenon DEF query_object, s
  <2>2. PlainForm(o, H, L, u, t, x)
    BY <2>1, PlainQueryForm, Zenon DEF s
  <2>3. o.handle \in Handle => Told(o, x)
    BY <1>4, Zenon DEF Content, Says, Told, TableRead, DekKind
  <2> HIDE DEF x
  <2>4. QED
    BY <2>2, <2>3, PlainTo, Zenon
<1>5. CASE o.kind \in DekKind
  <2> DEFINE x == KeyRead(H[o.handle])
  <2>1. t \in dek_query(s)
    BY <1>1, <1>5 DEF query_object, s, DekKind
  <2>2. PlainForm(o, H, L, u, t, x)
    BY <2>1, PlainQueryForm, Zenon DEF s
  <2>3. o.handle \in Handle => KeySays(o.kind, H[o.handle], o.asked)
    BY <1>5, Zenon DEF Content, Says
  <2>4. o.handle \in Handle => Told(o, x)
    BY <1>5, <2>3, KeyReadTold, Zenon
  <2> HIDE DEF x
  <2>5. QED
    BY <2>2, <2>4, PlainTo
<1>6. QED
  BY <1>1, <1>2, <1>3, <1>4, <1>5, Zenon DEF Kind

(* destroy: the copy and the history stay, the handle goes. *)
LEMMA DestroyTo ==
  ASSUME NEW o \in Object, NEW H, NEW L, Base(o, H, L), Content(o, H), NEW r, NEW u,
         NEW t \in obj_destroy(St(o, H, L, r, u))
  PROVE  Fine(t)
<1>1. PICK G, M, g :
        /\ t = St(Handled(o, g), G, M, "DPCP_OK", u) /\ Base(Handled(o, g), G, M)
        /\ g = IF o.handle = NoHandle THEN NoHandle ELSE Gone
  BY DestroyBase
<1> DEFINE p == Handled(o, g)
<1>2. /\ p \in Object /\ p.handle = g /\ p.kind = o.kind /\ p.asked = o.asked
      /\ p.m_attr = o.m_attr
  BY <1>1, HandledFacts, Zenon
<1>3. g \notin Handle /\ (g = NoHandle => o.handle = NoHandle)
  BY <1>1, ObjectsAssumption, Zenon DEF NoHandle, Gone
<1>4. Base(p, G, M)
  BY <1>1
<1> HIDE DEF p
<1>5. Content(p, G)
  BY <1>2, <1>3, Zenon DEF Content, Copy
<1>6. QED
  BY <1>1, <1>2, <1>4, <1>5, Zenon DEF Fine, p

----------------------------------------------------------------------------
(* The steps.  What the application has agrees with the device, and so     *)
(* does what the last query told.                                          *)
ObjInv ==
  /\ Base(obj, hw, lost)
  /\ obj # Nothing => Content(obj, hw)
ToldInv ==
  last.op = "query_object" /\ last.ret = "DPCP_OK" => obj \in Object /\ Told(obj, last.out)

(* A call that leaves an object that agrees with the device. *)
LEMMA DoFine ==
  ASSUME NEW op, op # "query_object", NEW t, Do(op, Nothing, t), Fine(t)
  PROVE  ObjInv' /\ ToldInv'
<1>1. PICK p, G, M, w, x : /\ t = St(p, G, M, w, x) /\ p \in Object
                           /\ Base(p, G, M) /\ Content(p, G)
  BY Zenon DEF Fine
<1>2. obj' = p /\ hw' = G /\ lost' = M /\ last'.op = op
  BY <1>1, Parts DEF Do
<1>3. ObjInv'
  BY <1>1, <1>2 DEF ObjInv
<1>4. ToldInv'
  BY <1>2 DEF ToldInv
<1>5. QED
  BY <1>3, <1>4, Zenon

(* A call that leaves no object. *)
LEMMA DoNone ==
  ASSUME NEW op, op # "query_object", NEW t, Do(op, Nothing, t), NEW G, NEW M, NEW w, NEW x,
         t = St(Nothing, G, M, w, x), Base(Nothing, G, M)
  PROVE  ObjInv' /\ ToldInv'
<1>1. obj' = Nothing /\ hw' = G /\ lost' = M /\ last'.op = op
  BY Parts DEF Do
<1>2. QED
  BY <1>1, Zenon DEF ObjInv, ToldInv

(* A query. *)
LEMMA DoQuery ==
  ASSUME NEW t, Do("query_object", Nothing, t), Queried(t)
  PROVE  ObjInv' /\ ToldInv'
<1>1. PICK p, G, M, w, x : /\ t = St(p, G, M, w, x) /\ p \in Object
                           /\ Base(p, G, M) /\ Content(p, G)
                           /\ w = "DPCP_OK" => Told(p, x)
  BY Zenon DEF Queried
<1>2. obj' = p /\ hw' = G /\ lost' = M /\ last'.ret = w /\ last'.out = x
  BY <1>1, Parts DEF Do
<1>3. ObjInv'
  BY <1>1, <1>2, Zenon DEF ObjInv
<1>4. ToldInv'
  BY <1>1, <1>2, Zenon DEF ToldInv
<1>5. QED
  BY <1>3, <1>4, Zenon

(* An object that was constructed only. *)
LEMMA ConstructedFacts ==
  ASSUME NEW kind \in Kind, NEW H, NEW L, Base(Nothing, H, L)
  PROVE  /\ Constructed(kind) \in Object /\ Constructed(kind).kind = kind
         /\ Base(Constructed(kind), H, L) /\ Content(Constructed(kind), H)
<1> DEFINE c == Constructed(kind)
           x == CASE kind = "tir" -> tir_read({}, {}) [] kind = "tis" -> tis_read({}, {})
                  [] OTHER -> Nothing
<1>1. \A f : DEVX_GET(f, {}) = {}
  BY DEF DEVX_GET
<1>2. tir_read({}, {}) \in tir_attr /\ tir_read({}, {}).flags = {}
  <2>1. tir_read({}, {}) =
          [flags |-> {}, lro |-> [timeout_period_usecs |-> {}, enable_mask |-> {}, max_msg_sz |-> {}],
           inline_rqn |-> {}, transport_domain |-> {}, tls_en |-> {}, zerocopy_en |-> {},
           crc_en |-> {}, tag_buffer_table_id |-> {}]
    BY <1>1, Zenon DEF tir_read
  <2>2. [timeout_period_usecs |-> {}, enable_mask |-> {}, max_msg_sz |-> {}]
          \in [timeout_period_usecs : SUBSET Word(16), enable_mask : SUBSET Word(4),
               max_msg_sz : SUBSET Word(8)]
    OBVIOUS
  <2> DEFINE z == [timeout_period_usecs |-> {}, enable_mask |-> {}, max_msg_sz |-> {}]
  <2> HIDE DEF z
  <2>3. [flags |-> {}, lro |-> z, inline_rqn |-> {}, transport_domain |-> {}, tls_en |-> {},
         zerocopy_en |-> {}, crc_en |-> {}, tag_buffer_table_id |-> {}] \in tir_attr
    BY <2>2 DEF tir_attr, z
  <2>4. tir_read({}, {}) \in tir_attr
    BY <2>1, <2>3, Zenon DEF z
  <2>5. tir_read({}, {}).flags = {}
    BY Zenon DEF tir_read
  <2>6. QED
    BY <2>4, <2>5
<1>3. tis_read({}, {}) \in tis_attr /\ tis_read({}, {}).flags = {}
  <2>1. tis_read({}, {}) = [flags |-> {}, transport_domain |-> {}, tls_en |-> {}, pd |-> {},
                            nvmeotcp |-> {}]
    BY <1>1, Zenon DEF tis_read
  <2>2. QED
    BY <2>1 DEF tis_attr
<1>4. /\ kind = "tir" => x \in tir_attr /\ x.flags = {}
      /\ kind = "tis" => x \in tis_attr /\ x.flags = {}
      /\ x \in {Nothing} \cup tir_attr \cup tis_attr
  BY <1>2, <1>3
<1>5. /\ c.kind = kind /\ c.handle = NoHandle /\ c.m_attr = x
      /\ c = [kind |-> kind, handle |-> NoHandle, asked |-> Nothing, modified |-> FALSE, m_attr |-> x]
  BY DEF Constructed
<1> HIDE DEF c, x
<1>6. c \in Object
  BY <1>4, <1>5 DEF Object
<1>7. NoHandle \notin Handle
  BY ObjectsAssumption, Zenon
<1>8. Own(c) = Own(Nothing)
  BY <1>5, <1>6, <1>7, ObjectFields, Zenon DEF Own
<1>9. Base(c, H, L)
  BY <1>6, <1>8, Zenon DEF Base
<1>10. Content(c, H)
  BY <1>4, <1>5, <1>7, Zenon DEF Content, Copy
<1>11. QED
  BY <1>5, <1>6, <1>9, <1>10, Zenon DEF c

(* A successful creation of an object, noted in the history. *)
LEMMA NotedFine ==
  ASSUME NEW o \in Object, NEW a \in Attrs, NEW t, CreatedTo(o, t, a), t.ret = "DPCP_OK"
  PROVE  Fine(Noted(t, a))
<1>1. PICK p, G, M, w, x : /\ t = St(p, G, M, w, x) /\ p \in Object /\ p.kind = o.kind
                           /\ Base(p, G, M) /\ Outcome(p, G, w, a)
  BY Zenon DEF CreatedTo
<1>2. w = "DPCP_OK"
  BY <1>1, Parts
<1>3. Noted(t, a) = St(Made(p, a), G, M, "DPCP_OK", x)
  BY <1>1, <1>2, AcceptedNew
<1>4. Content(Made(p, a), G)
  BY <1>1, <1>2 DEF Outcome
<1>5. Made(p, a) \in Object /\ Made(p, a).handle = p.handle
  BY <1>1, MadeFacts, Zenon
<1>6. Base(Made(p, a), G, M)
  BY <1>1, <1>5, BaseSame, Zenon
<1>7. QED
  BY <1>3, <1>4, <1>5, <1>6, Zenon DEF Fine

(* The creating functions of the adapter. *)
LEMMA AdapterCreateStep ==
  ASSUME ObjInv, NEW op, op # "query_object", NEW kind \in Kind, NEW a \in Requests(kind),
         adapter_create(op, kind, a)
  PROVE  ObjInv' /\ ToldInv'
<1> DEFINE c == Constructed(kind)
           s == St(c, hw, lost, "none", Nothing)
<1>1. obj = Nothing /\ Base(Nothing, hw, lost)
  BY Zenon DEF adapter_create, ObjInv
<1>2. Now = St(Nothing, hw, lost, "none", Nothing)
  BY <1>1, Zenon DEF Now, St
<1>3. WithObj(Now, c) = s
  BY <1>2, PutObj
<1>4. c \in Object /\ c.kind = kind /\ Base(c, hw, lost) /\ Content(c, hw)
  BY <1>1, ConstructedFacts, Zenon
<1> HIDE DEF c, s
<1>5. \/ Do(op, Nothing, Ret(Now, "DPCP_ERR_NO_MEMORY"))
      \/ \E t \in create(WithObj(Now, c), a) :
           \/ t.ret = "DPCP_OK" /\ Do(op, Nothing, Noted(t, a))
           \/ \E d \in obj_delete(t) : Do(op, Nothing, Ret(d, "DPCP_ERR_CREATE"))
  BY Zenon DEF adapter_create, Created, WithObj, Noted, c
<1>6. CASE Do(op, Nothing, Ret(Now, "DPCP_ERR_NO_MEMORY"))
  <2>1. Ret(Now, "DPCP_ERR_NO_MEMORY") = St(Nothing, hw, lost, "DPCP_ERR_NO_MEMORY", Nothing)
    BY <1>2, PutRet DEF Ret, WithRet
  <2>2. QED
    BY <1>1, <1>6, <2>1, DoNone, Zenon
<1>7. ASSUME NEW t \in create(s, a),
             \/ t.ret = "DPCP_OK" /\ Do(op, Nothing, Noted(t, a))
             \/ \E d \in obj_delete(t) : Do(op, Nothing, Ret(d, "DPCP_ERR_CREATE"))
      PROVE  ObjInv' /\ ToldInv'
  <2>1. CreatedTo(c, t, a) /\ a \in Attrs
    BY <1>4, CreateTo, Zenon DEF s
  <2>2. CASE t.ret = "DPCP_OK" /\ Do(op, Nothing, Noted(t, a))
    <3>1. Fine(Noted(t, a))
      BY <1>4, <2>1, <2>2, NotedFine, Zenon
    <3>2. QED
      BY <2>2, <3>1, DoFine, Zenon
  <2>3. CASE \E d \in obj_delete(t) : Do(op, Nothing, Ret(d, "DPCP_ERR_CREATE"))
    <3>1. PICK d \in obj_delete(t) : Do(op, Nothing, Ret(d, "DPCP_ERR_CREATE"))
      BY <2>3
    <3>2. PICK p, G, M, w, x : t = St(p, G, M, w, x) /\ p \in Object /\ Base(p, G, M)
      BY <2>1, Zenon DEF CreatedTo
    <3>3. PICK G2, M2 : d = St(Nothing, G2, M2, "DPCP_OK", x) /\ Base(Nothing, G2, M2)
      BY <3>1, <3>2, DeleteBase
    <3>4. Ret(d, "DPCP_ERR_CREATE") = St(Nothing, G2, M2, "DPCP_ERR_CREATE", x)
      BY <3>3, PutRet DEF Ret, WithRet
    <3>5. QED
      BY <3>1, <3>3, <3>4, DoNone, Zenon
  <2>4. QED
    BY <1>7, <2>2, <2>3, Zenon
<1>8. QED
  BY <1>3, <1>5, <1>6, <1>7, Zenon

(* create, called by the application on an object it has. *)
LEMMA CreateStep ==
  ASSUME ObjInv, NEW a, create_object(a)
  PROVE  ObjInv' /\ ToldInv'
<1>1. obj \in Object /\ Base(obj, hw, lost) /\ Content(obj, hw) /\ a \in Requests(obj.kind)
  BY Zenon DEF create_object, ObjInv, Base
<1>2. Now = St(obj, hw, lost, "none", Nothing)
  BY DEF Now, St
<1>3. PICK t \in create(Now, a) :
        Do("create", Nothing, IF t.ret = "DPCP_ERR_QUERY" THEN WithAsked(t, a) ELSE Noted(t, a))
  BY Zenon DEF create_object, WithAsked, Noted
<1>4. CreatedTo(obj, t, a) /\ a \in Attrs
  BY <1>1, <1>2, <1>3, CreateTo, Zenon
<1>5. PICK p, G, M, w, x : /\ t = St(p, G, M, w, x) /\ p \in Object /\ p.kind = obj.kind
                           /\ Base(p, G, M) /\ Outcome(p, G, w, a)
  BY <1>4, Zenon DEF CreatedTo
<1>6. t.ret = w
  <2>1. St(p, G, M, w, x).ret = w
    BY Parts
  <2>2. QED
    BY <1>5, <2>1, Zenon
<1>7. CASE w = "DPCP_OK"
  <2>1. Fine(Noted(t, a)) /\ Do("create", Nothing, Noted(t, a))
    BY <1>1, <1>3, <1>4, <1>6, <1>7, NotedFine, Zenon
  <2>2. QED
    BY <2>1, DoFine, Zenon
<1>8. CASE w = "DPCP_ERR_QUERY"
  <2>1. WithAsked(t, a) = St(Asked(p, a), G, M, w, x)
    <3>1. WithAsked(St(p, G, M, w, x), a) = St(Asked(p, a), G, M, w, x)
      BY PutAsked
    <3>2. QED
      BY <1>5, <3>1, Zenon
  <2>2. Asked(p, a) \in Object /\ Asked(p, a).handle = p.handle
    BY <1>4, <1>5, AskedFacts, Zenon
  <2>3. Base(Asked(p, a), G, M)
    BY <1>5, <2>2, BaseSame, Zenon
  <2>4. Content(Asked(p, a), G)
    BY <1>5, <1>8 DEF Outcome
  <2>5. Fine(WithAsked(t, a))
    BY <2>1, <2>2, <2>3, <2>4, Zenon DEF Fine
  <2>6. Do("create", Nothing, WithAsked(t, a))
    BY <1>3, <1>6, <1>8, Zenon
  <2>7. QED
    BY <2>5, <2>6, DoFine, Zenon
<1>9. CASE w \notin {"DPCP_OK", "DPCP_ERR_QUERY"}
  <2>1. Noted(t, a) = t
    BY <1>6, <1>9, Zenon DEF Noted, Accepted
  <2>2. Do("create", Nothing, t)
    BY <1>3, <1>6, <1>9, <2>1, Zenon
  <2>3. Fine(t)
    BY <1>5, <1>9, Zenon DEF Outcome, Fine
  <2>4. QED
    BY <2>2, <2>3, DoFine, Zenon
<1>10. QED
  BY <1>7, <1>8, <1>9, Zenon

(* Its other functions. *)
LEMMA CallStep ==
  ASSUME ObjInv, (\E a : modify_object(a)) \/ query_it \/ destroy_it \/ delete_it
  PROVE  ObjInv' /\ ToldInv'
<1>1. obj \in Object /\ Base(obj, hw, lost) /\ Content(obj, hw)
  BY Zenon DEF modify_object, query_it, destroy_it, delete_it, ObjInv, Base
<1>2. Now = St(obj, hw, lost, "none", Nothing)
  BY DEF Now, St
<1>3. ASSUME NEW a, modify_object(a) PROVE ObjInv' /\ ToldInv'
  <2>1. obj.kind \in DekKind \cup {"tir"} /\ a \in Requests(obj.kind)
    BY <1>3 DEF modify_object
  <2>2. PICK t \in modify(Now, a) : Do("modify", Nothing, Changed(t, a))
    BY <1>3, Zenon DEF modify_object, Changed
  <2>3. Fine(Changed(t, a))
    BY <1>1, <1>2, <2>1, <2>2, ModifyTo, Zenon
  <2>4. QED
    BY <2>2, <2>3, DoFine, Zenon
<1>4. CASE query_it
  <2>1. PICK t \in query_object(Now) : Do("query_object", Nothing, t)
    BY <1>4 DEF query_it
  <2>2. Queried(t)
    BY <1>1, <1>2, <2>1, QueryTo, Zenon
  <2>3. QED
    BY <2>1, <2>2, DoQuery, Zenon
<1>5. CASE destroy_it
  <2>1. PICK t \in obj_destroy(Now) : Do("destroy", Nothing, t)
    BY <1>5, Zenon DEF destroy_it
  <2>2. Fine(t)
    BY <1>1, <1>2, <2>1, DestroyTo, Zenon
  <2>3. QED
    BY <2>1, <2>2, DoFine, Zenon
<1>6. CASE delete_it
  <2>1. PICK t \in obj_delete(Now) : Do("delete", Nothing, t)
    BY <1>6, Zenon DEF delete_it
  <2>2. PICK G, M : t = St(Nothing, G, M, "DPCP_OK", Nothing) /\ Base(Nothing, G, M)
    BY <1>1, <1>2, <2>1, DeleteBase
  <2>3. QED
    BY <2>1, <2>2, DoNone, Zenon
<1>7. QED
  BY <1>3, <1>4, <1>5, <1>6, Zenon

(* An object that the application constructs. *)
LEMMA ConstructStep ==
  ASSUME ObjInv, NEW kind \in Kind, construct(kind)
  PROVE  ObjInv' /\ ToldInv'
<1> DEFINE c == Constructed(kind)
<1>1. obj = Nothing /\ Base(Nothing, hw, lost)
  BY Zenon DEF construct, ObjInv
<1>2. Now = St(Nothing, hw, lost, "none", Nothing)
  BY <1>1, Zenon DEF Now, St
<1>3. WithObj(Now, c) = St(c, hw, lost, "none", Nothing)
  BY <1>2, PutObj
<1>4. c \in Object /\ Base(c, hw, lost) /\ Content(c, hw)
  BY <1>1, ConstructedFacts
<1> HIDE DEF c
<1>5. Do("construct", Nothing, WithObj(Now, c))
  BY DEF construct, WithObj, c
<1>6. Fine(WithObj(Now, c))
  BY <1>3, <1>4, Zenon DEF Fine
<1>7. QED
  BY <1>5, <1>6, DoFine, Zenon

(* Every call. *)
LEMMA ObjStep ==
  ASSUME ObjInv, ObjectsNext
  PROVE  ObjInv' /\ ToldInv'
<1>1. /\ Requests("tir") = TirAttrs /\ Requests("tis") = TisAttrs
      /\ Requests("table") = TableAttrsOfTags /\ \A k \in DekKind : Requests(k) = DekAttrs
      /\ DekKind \cup {"tir", "tis", "table"} = Kind
      /\ {"tls_dek", "ipsec_dek", "aes_xts_dek"} = DekKind
  BY DEF Requests, DekKind, Kind
<1>2. ASSUME NEW kind \in DekKind, NEW a \in DekAttrs, create_dek(kind, a)
      PROVE  ObjInv' /\ ToldInv'
  <2>1. CASE adapter_create("create_dek", kind, a)
    BY <1>1, <2>1, AdapterCreateStep, Zenon
  <2>2. CASE obj = Nothing /\ Do("create_dek", Nothing, Ret(Now, "DPCP_ERR_NO_SUPPORT"))
    <3>1. Now = St(Nothing, hw, lost, "none", Nothing) /\ Base(Nothing, hw, lost)
      BY <2>2 DEF Now, St, ObjInv
    <3>2. Ret(Now, "DPCP_ERR_NO_SUPPORT") = St(Nothing, hw, lost, "DPCP_ERR_NO_SUPPORT", Nothing)
      BY <3>1, PutRet DEF Ret, WithRet
    <3>3. QED
      BY <2>2, <3>1, <3>2, DoNone, Zenon
  <2>3. QED
    BY <1>2, <2>1, <2>2, Zenon DEF create_dek, Created
<1>3. ASSUME NEW a \in TirAttrs, create_tir(a) PROVE ObjInv' /\ ToldInv'
  BY <1>1, <1>3, AdapterCreateStep, Zenon DEF create_tir
<1>4. ASSUME NEW a \in TisAttrs, create_tis(a) PROVE ObjInv' /\ ToldInv'
  BY <1>1, <1>4, AdapterCreateStep, Zenon DEF create_tis
<1>5. ASSUME NEW a \in TableAttrsOfTags, create_tag_buffer_table_obj(a)
      PROVE  ObjInv' /\ ToldInv'
  BY <1>1, <1>5, AdapterCreateStep, Zenon DEF create_tag_buffer_table_obj
<1>6. ASSUME NEW a \in DekAttrs, create_tls_dek(a) \/ create_ipsec_dek(a) \/ create_aes_xts_dek(a)
      PROVE  ObjInv' /\ ToldInv'
  BY <1>1, <1>2, <1>6, Zenon DEF create_tls_dek, create_ipsec_dek, create_aes_xts_dek
<1>7. ASSUME NEW kind \in Kind, construct(kind) PROVE ObjInv' /\ ToldInv'
  BY <1>7, ConstructStep
<1>8. ASSUME NEW a, create_object(a) PROVE ObjInv' /\ ToldInv'
  BY <1>8, CreateStep, Zenon
<1>9. ASSUME (\E a : modify_object(a)) \/ query_it \/ destroy_it \/ delete_it
      PROVE  ObjInv' /\ ToldInv'
  BY <1>9, CallStep
<1>10. QED
  BY <1>3, <1>4, <1>5, <1>6, <1>7, <1>8, <1>9, Zenon DEF ObjectsNext

(* What the application has agrees with the device, in every state. *)
THEOREM ObjectsInvariance == ObjectsSpec => [](ObjInv /\ ToldInv)
<1>1. ObjectsInit => ObjInv /\ ToldInv
  <2> SUFFICES ASSUME ObjectsInit PROVE ObjInv /\ ToldInv
    OBVIOUS
  <2>1. obj = Nothing /\ lost = {} /\ hw \in [Handle -> Mailbox] /\ \A h \in Handle : hw[h] = Free
    BY Zenon DEF ObjectsInit, Mailbox
  <2>2. Base(obj, hw, lost)
    BY <2>1, Zenon DEF Base, Own
  <2>3. last.op # "query_object"
    BY DEF ObjectsInit, CapsInit
  <2>4. QED
    BY <2>1, <2>2, <2>3, Zenon DEF ObjInv, ToldInv
<1>2. ObjInv /\ ToldInv /\ [(CapsNext /\ UNCHANGED objVars) \/ ObjectsNext]_<<capsVars, objVars>>
        => (ObjInv /\ ToldInv)'
  <2> SUFFICES ASSUME ObjInv, ToldInv,
                      [(CapsNext /\ UNCHANGED objVars) \/ ObjectsNext]_<<capsVars, objVars>>
               PROVE  ObjInv' /\ ToldInv'
    OBVIOUS
  <2>1. CASE CapsNext /\ UNCHANGED objVars
    <3>1. last'.op # "query_object"
      BY <2>1 DEF CapsNext, create_flow_table, create_parser_graph_node, create_without_arc,
                  create_node, query, delete_node, Returns
    <3>2. QED
      BY <2>1, <3>1, Zenon DEF objVars, ObjInv, ToldInv
  <2>2. CASE ObjectsNext
    BY <2>2, ObjStep, Zenon
  <2>3. CASE UNCHANGED <<capsVars, objVars>>
    BY <2>3 DEF capsVars, objVars, ObjInv, ToldInv
  <2>4. QED
    BY <2>1, <2>2, <2>3, Zenon
<1>3. QED
  BY <1>1, <1>2, PTL DEF ObjectsSpec

(* The device holds what the application can release and what was lost,    *)
(* because it refused to destroy it or a key or a table was created again; *)
(* a TIR or TIS never loses its device object that way.                    *)
THEOREM ObjectsAccountedHolds == ObjectsSpec => []ObjectsAccounted
<1>1. ObjInv => ObjectsAccounted
  <2> SUFFICES ASSUME ObjInv PROVE ObjectsAccounted
    OBVIOUS
  <2>1. Own(obj) = IF obj = Nothing THEN {} ELSE {obj.handle} \cap Handle
    BY DEF Own
  <2>2. {h \in Handle : hw[h] # Free} = Own(obj) \cup {l.h : l \in lost}
    BY Zenon DEF ObjInv, Base
  <2>3. \A l \in lost : l.h \in Handle /\ l.how \in LostHow /\ l.h \notin Own(obj)
    BY Zenon DEF ObjInv, Base
  <2>4. obj # Nothing => \A l \in lost : l.h # obj.handle
    BY <2>1, <2>3, Zenon
  <2>5. \A l \in lost : l.how \notin {"tir", "tis"}
    BY <2>3, Zenon DEF LostHow, DekKind
  <2>6. QED
    BY <2>1, <2>2, <2>4, <2>5, Zenon DEF ObjectsAccounted
<1>2. QED
  BY <1>1, ObjectsInvariance, PTL

(* The key in the device is the one last accepted, at its place in the key *)
(* field, with the size, type and tag of the request.                      *)
THEOREM KeyAsAskedHolds == ObjectsSpec => []KeyAsAsked
<1>1. ObjInv => KeyAsAsked
  <2> SUFFICES ASSUME ObjInv, obj # Nothing, obj.handle \in Handle, obj.kind \in DekKind
               PROVE  KeyAsAsked
    BY Zenon DEF KeyAsAsked
  <2> DEFINE box  == hw[obj.handle]
             a    == obj.asked
             key  == encryption_key_obj.key
             blob == F(IF obj.kind = "aes_xts_dek" THEN key.at ELSE key.at + key.width - 8 * a.key_size,
                       8 * a.key_blob_size)
             tag  == obj.kind = "aes_xts_dek" /\ a.key_blob_size = 2 * a.key_size + 8
  <2>1. Content(obj, hw) /\ obj \in Object
    BY DEF ObjInv, Base
  <2>2. box \in Box /\ KeySays(obj.kind, box, a)
        /\ (obj.modified = FALSE => TagSays(obj.kind, box, a))
    BY <2>1, Zenon DEF Content, Says
  <2>3. obj.modified \in BOOLEAN
    BY <2>1, ObjectFields, Zenon
  <2>4. a.key_size \in {16, 32} /\ a.key_blob_size \in Nat /\ key.at = 512 /\ key.width = 256
    BY <2>2, KeyPlaces, Zenon DEF KeySays
  <2>5. blob = F(KeyAt(obj.kind, a), 8 * a.key_blob_size)
    BY <2>4 DEF KeyAt
  <2>6. DEVX_GET(blob, box) = a.key_blob
    BY <2>2, <2>5, Zenon DEF KeySays
  <2>7. (box \ Bits(blob)) \cap {p \in box : p >= key.at} = {}
    <3>1. Bits(blob) = KeyAt(obj.kind, a) .. (KeyAt(obj.kind, a) + 8 * a.key_blob_size - 1)
      BY <2>5 DEF Bits, F
    <3>2. \A x \in box : x >= 512 => x \in Bits(blob)
      BY <2>2, <3>1, Zenon DEF KeySays
    <3> HIDE DEF box, blob, key
    <3>3. QED
      BY <2>4, <3>2, Zenon
  <2>8. encryption_key_obj.key_size = F(84, 4) /\ encryption_key_obj.key_type = F(92, 4)
    BY KeyPlaces, Zenon
  <2>9. /\ DEVX_GET(encryption_key_obj.key_size, box) = (IF a.key_size = 32 THEN {0} ELSE {})
        /\ DEVX_GET(encryption_key_obj.key_type, box) = get_key_type(obj.kind)
    BY <2>2, <2>8, Zenon DEF KeySays
  <2>10. obj.modified \/ DEVX_GET(encryption_key_obj.has_keytag, box) = (IF tag THEN {0} ELSE {})
    <3>1. encryption_key_obj.has_keytag = F(88, 1)
      BY KeyPlaces, Zenon
    <3>2. CASE obj.modified = FALSE
      <4>1. DEVX_GET(F(88, 1), box) = IF tag THEN {0} ELSE {}
        BY <2>2, <3>2, Zenon DEF TagSays, Tagged
      <4>2. QED
        BY <3>1, <4>1, Zenon
    <3>3. QED
      BY <2>3, <3>2, Zenon
  <2>11. QED
    BY <2>6, <2>7, <2>9, <2>10, Zenon DEF KeyAsAsked
<1>2. QED
  BY <1>1, ObjectsInvariance, PTL

(* A parser graph node and the ids it has collected. *)
NodeInv == (node = Nothing \/ node \in NodeAttrs) /\ m_sample_ids \in Seq(Nat)
IdsTold ==
  last.op = "query" /\ last.ret = "DPCP_OK" =>
    \/ m_sample_ids = DeviceIds(node)
    \/ Enabled(node) # DOMAIN node.samples /\ Len(m_sample_ids) > Len(DeviceIds(node))

(* The calls on the other objects leave the node alone. *)
LEMMA NodeAlone ==
  ASSUME ObjectsNext
  PROVE  UNCHANGED <<node, m_sample_ids>> /\ last'.op # "query"
<1> DEFINE Result == UNCHANGED <<node, m_sample_ids>> /\ last'.op # "query"
<1>1. ASSUME NEW op, op # "query", NEW t, Do(op, Nothing, t) PROVE Result
  BY <1>1 DEF Do
<1> HIDE DEF Result
<1>2. ASSUME NEW op, op # "query", NEW kind, NEW a, adapter_create(op, kind, a) PROVE Result
  <2>1. \E t : Do(op, Nothing, t)
    BY <1>2, Zenon DEF adapter_create, Created
  <2>2. QED
    BY <1>1, <1>2, <2>1, Zenon
<1>3. ASSUME NEW kind, NEW a, create_dek(kind, a) PROVE Result
  BY <1>1, <1>2, <1>3, Zenon DEF create_dek, Created
<1>4. ASSUME NEW a, create_tir(a) \/ create_tis(a) \/ create_tag_buffer_table_obj(a) PROVE Result
  BY <1>2, <1>4, Zenon DEF create_tir, create_tis, create_tag_buffer_table_obj
<1>5. ASSUME NEW a, create_tls_dek(a) \/ create_ipsec_dek(a) \/ create_aes_xts_dek(a) PROVE Result
  BY <1>3, <1>5, Zenon DEF create_tls_dek, create_ipsec_dek, create_aes_xts_dek
<1>6. ASSUME NEW kind, construct(kind) PROVE Result
  BY <1>1, <1>6, Zenon DEF construct
<1>7. ASSUME NEW a, create_object(a) \/ modify_object(a) PROVE Result
  <2>1. \E op \in {"create", "modify"} : \E t : Do(op, Nothing, t)
    BY <1>7, Zenon DEF create_object, modify_object
  <2>2. QED
    BY <1>1, <2>1, Zenon
<1>8. ASSUME query_it \/ destroy_it \/ delete_it PROVE Result
  <2>1. \E op \in {"query_object", "destroy", "delete"} : \E t : Do(op, Nothing, t)
    BY <1>8, Zenon DEF query_it, destroy_it, delete_it
  <2>2. QED
    BY <1>1, <2>1, Zenon
<1>9. QED
  BY <1>4, <1>5, <1>6, <1>7, <1>8, Zenon DEF ObjectsNext, Result

(* A successful query of a node: it had no ids before, or it has fewer     *)
(* enabled samples than samples.                                           *)
LEMMA NodeQueried ==
  ASSUME NodeInv, query
  PROVE  (NodeInv /\ IdsTold)'
<1>1. node \in NodeAttrs /\ node' = node /\ m_sample_ids \in Seq(Nat)
  BY DEF query, NodeInv
<1> DEFINE D == DeviceIds(node)
           n == Len(node.samples)
<1>2. D \in Seq(Nat) /\ n \in Nat /\ (Enabled(node) = DOMAIN node.samples => Len(D) = n)
  BY <1>1, DeviceIdsFacts, Zenon
<1>3. D = DeviceIds(node') /\ Enabled(node') = Enabled(node)
  BY <1>1, Zenon
<1> HIDE DEF D
<1>4. CASE m_sample_ids' = m_sample_ids /\ last'.ret = "DPCP_ERR_QUERY"
  BY <1>1, <1>4, Zenon DEF NodeInv, IdsTold
<1>5. CASE /\ m_sample_ids' = m_sample_ids \o D
           /\ last'.ret = "DPCP_OK" => Len(m_sample_ids') = n
  <2>1. /\ m_sample_ids' \in Seq(Nat) /\ Len(m_sample_ids') = Len(m_sample_ids) + Len(D)
        /\ Len(m_sample_ids) \in Nat /\ Len(D) \in Nat
    BY <1>1, <1>2, <1>5
  <2>2. CASE m_sample_ids = <<>>
    <3>1. m_sample_ids' = D
      BY <1>2, <1>5, <2>2
    <3>2. QED
      BY <1>1, <1>3, <2>1, <3>1, Zenon DEF NodeInv, IdsTold
  <2>3. CASE m_sample_ids # <<>>
    <3>1. Len(m_sample_ids) # 0
      BY <1>1, <2>3
    <3>2. last'.ret = "DPCP_OK" => Len(m_sample_ids') > Len(D) /\ Len(D) # n
      BY <1>2, <1>5, <2>1, <3>1
    <3>3. QED
      BY <1>1, <1>2, <1>3, <2>1, <3>2, Zenon DEF NodeInv, IdsTold
  <2>4. QED
    BY <2>2, <2>3, Zenon
<1>6. QED
  <2>1. CASE Returns("query", Nothing, "DPCP_ERR_QUERY") /\ UNCHANGED m_sample_ids
    BY <1>4, <2>1, Zenon DEF Returns
  <2>2. CASE /\ m_sample_ids' = m_sample_ids \o D
             /\ Returns("query", Nothing, QueryStatus(m_sample_ids'))
    <3>1. last'.ret = QueryStatus(m_sample_ids')
      BY <2>2, Zenon DEF Returns
    <3>2. last'.ret = "DPCP_OK" => Len(m_sample_ids') = n
      BY <3>1, Zenon DEF QueryStatus
    <3>3. QED
      BY <1>5, <2>2, <3>2, Zenon
  <2>3. QED
    BY <2>1, <2>2, Zenon DEF query, D

(* A query of a node, in every state. *)
THEOREM NodeInvariance == ObjectsSpec => [](NodeInv /\ IdsTold)
<1>1. ObjectsInit => NodeInv /\ IdsTold
  BY DEF ObjectsInit, CapsInit, NodeInv, IdsTold
<1>2. NodeInv /\ IdsTold /\ [(CapsNext /\ UNCHANGED objVars) \/ ObjectsNext]_<<capsVars, objVars>>
        => (NodeInv /\ IdsTold)'
  <2> SUFFICES ASSUME NodeInv, IdsTold,
                      [(CapsNext /\ UNCHANGED objVars) \/ ObjectsNext]_<<capsVars, objVars>>
               PROVE  (NodeInv /\ IdsTold)'
    OBVIOUS
  <2>1. CASE query
    BY <2>1, NodeQueried, Zenon
  <2>0. <<>> \in Seq(Nat)
    OBVIOUS
  <2>2. CASE (\E a \in TableAttrs : create_flow_table(a)) \/ delete_node
    <3>1. last'.op # "query"
      BY <2>2 DEF create_flow_table, delete_node, Returns
    <3>2. \/ UNCHANGED <<node, m_sample_ids>>
          \/ node' = Nothing /\ m_sample_ids' = <<>>
      BY <2>2 DEF create_flow_table, delete_node
    <3>3. NodeInv'
      BY <2>0, <3>2, Zenon DEF NodeInv
    <3>4. QED
      BY <3>1, <3>3, Zenon DEF IdsTold
  <2>3. ASSUME NEW a \in NodeAttrs, create_parser_graph_node(a) PROVE (NodeInv /\ IdsTold)'
    <3>1. last'.op # "query"
      BY <2>3 DEF create_parser_graph_node, create_without_arc, create_node, Returns
    <3>2. \/ UNCHANGED <<node, m_sample_ids>>
          \/ node' = a /\ m_sample_ids' = <<>>
      BY <2>3 DEF create_parser_graph_node, create_node
    <3>3. NodeInv'
      BY <2>0, <3>2, Zenon DEF NodeInv
    <3>4. QED
      BY <3>1, <3>3, Zenon DEF IdsTold
  <2>4. CASE ObjectsNext
    BY <2>4, NodeAlone, Zenon DEF NodeInv, IdsTold
  <2>5. CASE UNCHANGED <<capsVars, objVars>>
    BY <2>5 DEF capsVars, NodeInv, IdsTold
  <2>6. QED
    BY <2>1, <2>2, <2>3, <2>4, <2>5, Zenon DEF CapsNext
<1>3. QED
  BY <1>1, <1>2, PTL DEF ObjectsSpec

(* A successful query tells what the device last accepted, whatever was    *)
(* refused, modified, queried and cached before; a queried node has the    *)
(* ids of its samples, or a sample that is not enabled.                    *)
THEOREM QueryTellsHolds == ObjectsSpec => []QueryTells
<1>1. ObjInv /\ ToldInv /\ IdsTold => QueryTells
  <2> SUFFICES ASSUME ObjInv, ToldInv, IdsTold PROVE QueryTells
    OBVIOUS
  <2>1. ASSUME last.op = "query_object", last.ret = "DPCP_OK"
        PROVE  CASE obj.kind = "tir" -> last.out = Tir(obj.asked)
                 [] obj.kind = "tis" -> last.out = Tis(obj.asked)
                 [] obj.kind = "table" -> last.out.log_tag_buffer_table_size =
                                            obj.asked.log_tag_buffer_table_size \cap Word(5)
                 [] OTHER -> /\ last.out.key_size = obj.asked.key_size
                             /\ last.out.pd_id = obj.asked.pd_id \cap Word(24)
                             /\ last.out.opaque = obj.asked.opaque
    <3>1. obj.kind \in Kind /\ Told(obj, last.out)
      BY <2>1, ObjectFields DEF ToldInv
    <3>2. CASE obj.kind = "tir"
      BY <3>1, <3>2 DEF Told
    <3>3. CASE obj.kind = "tis"
      BY <3>1, <3>3, Zenon DEF Told
    <3>4. CASE obj.kind = "table"
      BY <3>1, <3>4 DEF Told
    <3>5. CASE obj.kind \in DekKind
      BY <3>1, <3>5 DEF Told, DekKind
    <3>6. QED
      BY <3>1, <3>2, <3>3, <3>4, <3>5, Zenon DEF Kind
  <2>2. QED
    BY <2>1, Zenon DEF QueryTells, IdsTold
<1>2. QED
  BY <1>1, ObjectsInvariance, NodeInvariance, PTL
=============================================================================
