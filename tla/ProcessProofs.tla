---------------------------- MODULE ProcessProofs ----------------------------
(***************************************************************************)
(* What the adapters of a process share, the tags of memory keys and the   *)
(* provider with the adapters it opens, for any devices, PDs and TDs and   *)
(* any number of memory keys, calls, failures and adapters; and that what  *)
(* the device is told of the size of a ring, in fields and words of any    *)
(* width, keeps it inside the ring's buffer.                               *)
(***************************************************************************)
EXTENDS RingSizes, MkeyTags, Provider, FiniteSetTheorems, TLAPS

----------------------------------------------------------------------------
(* The tags of memory keys. *)

(* The inductive invariant holds before the first mkey is created. *)
LEMMA InitIInv == Init => IInv
<1> SUFFICES ASSUME Init PROVE IInv
  OBVIOUS
<1>1. IsFiniteSet({})
  BY FS_EmptySet
<1>2. TypeOK
  BY <1>1 DEF Init, TypeOK
<1>3. CounterAccounted
  BY DEF Init, CounterAccounted
<1>4. QED
  BY <1>2, <1>3 DEF IInv, Init

(* A draw is added to the finite history, whatever its outcome. *)
LEMMA EndLoopHistory ==
  ASSUME TypeOK, NEW t \in Thread, NEW w \in BOOLEAN, EndLoop(t, w)
  PROVE  /\ draws' \subseteq Draw /\ IsFiniteSet(draws')
         /\ mine' \in [Thread -> Nat]
         /\ \E n \in Nat : draws' = draws \cup
              {[no |-> n, value |-> mkey_cnt[t], winner |-> w, epoch |-> epoch]}
<1>1. Cardinality(draws) \in Nat
  BY FS_CardinalityType DEF TypeOK
<1> DEFINE d == [no |-> Cardinality(draws), value |-> mkey_cnt[t], winner |-> w, epoch |-> epoch]
<1>2. d \in Draw
  BY <1>1 DEF TypeOK, Draw
<1>3. IsFiniteSet(draws \cup {d})
  BY FS_AddElement, Zenon DEF TypeOK
<1>4. QED
  BY <1>1, <1>2, <1>3 DEF EndLoop, TypeOK

(* Every step of every thread inside create(), the destruction of a key    *)
(* and init_mkeys preserve the inductive invariant.                        *)
LEMMA StepIInv == IInv /\ [Next]_vars => IInv'
<1> SUFFICES ASSUME IInv, [Next]_vars PROVE IInv'
  OBVIOUS
<1>0. TypeOK /\ CounterAccounted /\ \A d \in draws : d.epoch <= epoch
  BY DEF IInv
<1>1. ASSUME NEW t \in Thread, Load(t) \/ CasFails(t) \/ CompareAgain(t) \/ CreateFails(t)
      PROVE  IInv'
  BY <1>0, <1>1 DEF Load, CasFails, CompareAgain, CreateFails, Goto, IInv, TypeOK, CounterAccounted
<1>2. ASSUME NEW t \in Thread, CasSucceeds(t) PROVE IInv'
  <2>1. PICK n \in Nat : draws' = draws \cup
              {[no |-> n, value |-> mkey_cnt[t], winner |-> TRUE, epoch |-> epoch]}
    BY <1>0, <1>2, EndLoopHistory, Zenon DEF CasSucceeds
  <2>2. TypeOK'
    <3>1. draws' \subseteq Draw /\ IsFiniteSet(draws') /\ mine' \in [Thread -> Nat]
      BY <1>0, <1>2, EndLoopHistory, Zenon DEF CasSucceeds
    <3>2. g_mkey_cnt' \in Nat
      BY <1>0, <1>2 DEF CasSucceeds, TypeOK
    <3>3. pc' \in [Thread -> {"idle", "cas", "compare", "hw"}]
      BY <1>0, <1>2 DEF CasSucceeds, Goto, TypeOK
    <3>4. QED
      BY <1>0, <1>2, <3>1, <3>2, <3>3 DEF CasSucceeds, TypeOK
  <2>3. CounterAccounted'
    <3> DEFINE Won == {d \in draws : d.winner /\ d.epoch = epoch}
               new == [no |-> n, value |-> mkey_cnt[t], winner |-> TRUE, epoch |-> epoch]
    <3>1. Won' = Won \cup {new} /\ new.value = mkey_cnt[t]
      BY <1>2, <2>1 DEF CasSucceeds
    <3> HIDE DEF Won, new
    <3>2. mkey_cnt[t] = g_mkey_cnt /\ g_mkey_cnt' = g_mkey_cnt + 1 /\ g_mkey_cnt \in Nat
      BY <1>0, <1>2 DEF CasSucceeds, TypeOK
    <3>3. {d.value : d \in Won} = 0..(g_mkey_cnt - 1)
      BY <1>0 DEF CounterAccounted, Won
    <3>4. {d.value : d \in Won'} = 0..(g_mkey_cnt' - 1)
      <4>1. {d.value : d \in Won'} = {d.value : d \in Won} \cup {g_mkey_cnt}
        BY <3>1, <3>2, Zenon
      <4>2. \A v : v \in 0..(g_mkey_cnt - 1) \cup {g_mkey_cnt} <=> v \in 0..(g_mkey_cnt' - 1)
        BY <3>2
      <4>3. QED
        BY <3>3, <4>1, <4>2, Zenon
    <3>5. \A d \in Won : d.value # g_mkey_cnt
      BY <3>2, <3>3
    <3>6. \A d, e \in Won' : d.value = e.value => d = e
      <4>1. \A d, e \in Won : d.value = e.value => d = e
        BY <1>0 DEF CounterAccounted, Won
      <4>2. QED
        BY <3>1, <3>2, <3>5, <4>1
    <3>7. QED
      BY <3>4, <3>6 DEF CounterAccounted, Won
  <2>4. \A d \in draws' : d.epoch <= epoch'
    BY <1>0, <1>2, <2>1 DEF CasSucceeds, TypeOK
  <2>5. QED
    BY <2>2, <2>3, <2>4 DEF IInv
<1>3. ASSUME NEW t \in Thread, CompareLeaves(t) PROVE IInv'
  <2>1. PICK n \in Nat : draws' = draws \cup
              {[no |-> n, value |-> mkey_cnt[t], winner |-> FALSE, epoch |-> epoch]}
    BY <1>0, <1>3, EndLoopHistory, Zenon DEF CompareLeaves
  <2>2. TypeOK'
    <3>1. draws' \subseteq Draw /\ IsFiniteSet(draws') /\ mine' \in [Thread -> Nat]
      BY <1>0, <1>3, EndLoopHistory, Zenon DEF CompareLeaves
    <3>2. QED
      BY <1>0, <1>3, <3>1, Zenon DEF CompareLeaves, Goto, TypeOK
  <2>3. CounterAccounted'
    <3>1. {d \in draws' : d.winner /\ d.epoch = epoch'} = {d \in draws : d.winner /\ d.epoch = epoch}
      BY <1>3, <2>1 DEF CompareLeaves
    <3>2. QED
      BY <1>0, <1>3, <3>1 DEF CompareLeaves, CounterAccounted
  <2>4. \A d \in draws' : d.epoch <= epoch'
    BY <1>0, <1>3, <2>1 DEF CompareLeaves, TypeOK
  <2>5. QED
    BY <2>2, <2>3, <2>4 DEF IInv
<1>4. ASSUME NEW t \in Thread, CreateMkey(t) PROVE IInv'
  <2>1. PICK i \in Index :
          keys' = keys \cup {[id |-> Id(i, mkey_cnt[t]), no |-> mine[t]]}
    BY <1>4 DEF CreateMkey
  <2>2. [id |-> Id(i, mkey_cnt[t]), no |-> mine[t]] \in Mkey
    BY <1>0, MkeyTagsAssumption DEF TypeOK, Mkey, Id, Tag
  <2>3. QED
    BY <1>0, <1>4, <2>1, <2>2, Zenon DEF CreateMkey, Goto, IInv, TypeOK, CounterAccounted
<1>5. ASSUME NEW k \in keys, DestroyMkey(k) PROVE IInv'
  BY <1>0, <1>5 DEF DestroyMkey, IInv, TypeOK, CounterAccounted
<1>6. CASE init_mkeys
  <2>1. TypeOK' /\ \A d \in draws' : d.epoch <= epoch'
    BY <1>0, <1>6 DEF init_mkeys, TypeOK, Draw
  <2>2. {d \in draws' : d.winner /\ d.epoch = epoch'} = {}
    BY <1>0, <1>6 DEF init_mkeys, TypeOK
  <2>3. CounterAccounted'
    BY <1>6, <2>2 DEF init_mkeys, CounterAccounted
  <2>4. QED
    BY <2>1, <2>3 DEF IInv
<1>7. CASE UNCHANGED vars
  BY <1>0, <1>7, Zenon DEF vars, IInv, TypeOK, CounterAccounted
<1>8. QED
  BY <1>1, <1>2, <1>3, <1>4, <1>5, <1>6, <1>7 DEF Next, create

(* Type correctness of the counter, the threads and the histories. *)
THEOREM TypeCorrect == Spec => []TypeOK
<1>1. IInv => TypeOK
  BY DEF IInv
<1>2. QED
  BY <1>1, InitIInv, StepIInv, PTL DEF Spec

(* The compare_exchange loop loses no value and hands none out twice to    *)
(* successful exchanges, with any number of threads and of init_mkeys.     *)
THEOREM CounterAccountedHolds == Spec => []CounterAccounted
<1>1. IInv => CounterAccounted
  BY DEF IInv
<1>2. QED
  BY <1>1, InitIInv, StepIInv, PTL DEF Spec

----------------------------------------------------------------------------
(* Two different numbers with the same tag are Window apart. *)
LEMMA SameTag ==
  ASSUME NEW win \in Nat \ {0}, NEW a \in Nat, NEW b \in Nat, a % win = b % win, a > b
  PROVE  a - b >= win
<1> DEFINE p == a \div win
           q == b \div win
<1>1. a = win * p + (a % win) /\ b = win * q + (b % win)
  OBVIOUS
<1>2. p \in Int /\ q \in Int /\ a % win \in Int
  OBVIOUS
<1> HIDE DEF p, q
<1>3. win * p \in Int /\ win * q \in Int /\ a - b = win * p - win * q
  BY <1>1, <1>2
<1>4. p > q
  <2>1. SUFFICES ASSUME p <= q PROVE FALSE
    BY <1>2
  <2>2. win * p <= win * q
    BY <1>2, <2>1
  <2>3. QED
    BY <1>3, <2>2
<1>5. PICK d \in Nat : p = q + 1 + d
  <2>1. p - q - 1 \in Nat /\ p = q + 1 + (p - q - 1)
    BY <1>2, <1>4
  <2>2. QED
    BY <2>1
<1>6. win * p = win * q + win + win * d /\ win * d \in Nat
  BY <1>2, <1>5
<1>7. QED
  BY <1>3, <1>6

(* The end of a loop adds a draw of the next rank. *)
LEMMA NextRank ==
  ASSUME TypeOK, TagsInv, NEW t \in Thread, NEW w \in BOOLEAN, EndLoop(t, w)
  PROVE  LET n == Cardinality(draws)
             x == [no |-> n, value |-> mkey_cnt[t], winner |-> w, epoch |-> epoch]
         IN  /\ n \in Nat /\ x \notin draws /\ draws' = draws \cup {x}
             /\ Cardinality(draws') = n + 1
             /\ mine' = [mine EXCEPT ![t] = n]
             /\ \A d \in draws : d.no \in 0..(n - 1)
<1> DEFINE n == Cardinality(draws)
           x == [no |-> n, value |-> mkey_cnt[t], winner |-> w, epoch |-> epoch]
<1>1. n \in Nat
  BY FS_CardinalityType DEF TypeOK
<1>2. draws' = draws \cup {x} /\ mine' = [mine EXCEPT ![t] = n] /\ x.no = n
  BY DEF EndLoop
<1> HIDE DEF x
<1>3. \A d \in draws : d.no \in 0..(n - 1)
  BY DEF TagsInv
<1>4. x \notin draws
  BY <1>1, <1>2, <1>3
<1>5. Cardinality(draws') = n + 1
  BY <1>2, <1>4, FS_AddElement, Zenon DEF TypeOK
<1>6. QED
  BY <1>1, <1>2, <1>3, <1>4, <1>5 DEF x

(* A draw that is added keeps ranks, values, threads and keys together:    *)
(* when it won, the counter still was one above the value of the draw      *)
(* before it, unless that one lost or a reset came between.                *)
LEMMA DrawKeepsTags ==
  ASSUME IInv, TagsInv, NEW t \in Thread, NEW w \in BOOLEAN, EndLoop(t, w),
         w => mkey_cnt[t] = g_mkey_cnt /\ g_mkey_cnt' = g_mkey_cnt + 1,
         pc' = [pc EXCEPT ![t] = "hw"], UNCHANGED <<mkey_cnt, epoch, keys, dead>>
  PROVE  TagsInv'
<1> DEFINE n == Cardinality(draws)
           x == [no |-> n, value |-> mkey_cnt[t], winner |-> w, epoch |-> epoch]
<1>1. /\ n \in Nat /\ draws' = draws \cup {x} /\ Cardinality(draws') = n + 1
      /\ mine' = [mine EXCEPT ![t] = n] /\ \A d \in draws : d.no \in 0..(n - 1)
  BY NextRank, Zenon DEF IInv
<1>2. x.no = n /\ x.value = mkey_cnt[t] /\ x.winner = w /\ x.epoch = epoch
  OBVIOUS
<1>3. /\ \A d \in draws : d.no \in Nat /\ d.value \in Nat /\ d.epoch \in Nat
      /\ epoch \in Nat /\ g_mkey_cnt \in Nat
  BY DEF IInv, TypeOK, Draw
<1> HIDE DEF x, n
<1>4. {d.no : d \in draws'} = 0..(Cardinality(draws') - 1)
  <2>1. {d.no : d \in draws'} = {d.no : d \in draws} \cup {n}
    BY <1>1, <1>2, Zenon
  <2>2. {d.no : d \in draws} = 0..(n - 1)
    BY DEF TagsInv, n
  <2>3. 0..(n - 1) \cup {n} = 0..(Cardinality(draws') - 1)
    BY <1>1
  <2>4. QED
    BY <2>1, <2>2, <2>3, Zenon
<1>5. \A d, e \in draws' : d.no = e.no => d = e
  BY <1>1, <1>2 DEF TagsInv
<1>6. \A d \in draws' : d.no + 1 = Cardinality(draws') /\ d.winner /\ d.epoch = epoch' =>
                         g_mkey_cnt' = d.value + 1
  BY <1>1, <1>2, <1>3
<1>7. ASSUME NEW d \in draws', NEW e \in draws', d.no <= e.no, Undisturbed(d.no, e.no)'
      PROVE  e.value - d.value = e.no - d.no
  <2>1. CASE d \in draws /\ e \in draws
    <3>1. Undisturbed(d.no, e.no)
      BY <1>1, <1>7 DEF Undisturbed
    <3>2. QED
      BY <1>7, <2>1, <3>1, Zenon DEF TagsInv
  <2>2. CASE d \in draws /\ e = x
    <3>1. n - 1 \in 0..(n - 1) /\ d.no \in 0..(n - 1)
      BY <1>1, <2>2
    <3>2. PICK l \in draws : l.no = n - 1
      <4>1. n - 1 \in {f.no : f \in draws}
        BY <3>1, Zenon DEF TagsInv, n
      <4>2. QED
        BY <4>1, Zenon
    <3>3. \A f, g \in {h \in draws' : h.no \in d.no..n} : f.winner /\ f.epoch = g.epoch
      BY <1>2, <1>7, <2>2 DEF Undisturbed
    <3>4. x \in draws' /\ x.no \in d.no..n /\ l \in draws' /\ l.no \in d.no..n
      BY <1>1, <1>2, <1>3, <3>1, <3>2
    <3>5. w /\ l.winner /\ l.epoch = epoch
      BY <1>2, <3>3, <3>4
    <3>6. Undisturbed(d.no, l.no)
      <4>1. \A h \in draws : h.no \in d.no..(n - 1) => h \in draws' /\ h.no \in d.no..n
        BY <1>1, <1>3
      <4>2. QED
        BY <3>2, <3>3, <4>1 DEF Undisturbed
    <3>7. l.value - d.value = l.no - d.no
      BY <2>2, <3>1, <3>2, <3>6 DEF TagsInv
    <3>8. g_mkey_cnt = l.value + 1
      BY <1>1, <3>2, <3>5 DEF TagsInv, n
    <3>9. QED
      BY <1>1, <1>2, <1>3, <2>2, <3>2, <3>5, <3>7, <3>8
  <2>3. CASE d = x
    <3>1. e = x
      BY <1>1, <1>2, <1>7, <2>3
    <3>2. mkey_cnt[t] \in Nat
      BY DEF IInv, TypeOK
    <3>3. QED
      BY <1>1, <1>2, <2>3, <3>1, <3>2
  <2>4. QED
    BY <1>1, <1>7, <2>1, <2>2, <2>3
<1>8. ASSUME NEW u \in Thread, pc'[u] = "hw"
      PROVE  \E d \in draws' : d.no = mine'[u] /\ d.value = mkey_cnt'[u]
  <2>1. mine \in [Thread -> Nat] /\ pc \in [Thread -> {"idle", "cas", "compare", "hw"}]
    BY DEF IInv, TypeOK
  <2>2. CASE u = t
    BY <1>1, <1>2, <2>1, <2>2
  <2>3. CASE u # t
    BY <1>1, <1>8, <2>1, <2>3, Zenon DEF TagsInv
  <2>4. QED
    BY <2>2, <2>3, Zenon
<1>9. \A k \in keys' \cup dead' : \E d \in draws' : d.no = k.no /\ k.id[2] = Tag(d.value)
  BY <1>1 DEF TagsInv
<1>10. QED
  BY <1>4, <1>5, <1>6, <1>7, <1>8, <1>9, Zenon DEF TagsInv

(* Every step keeps them together. *)
LEMMA StepTags == IInv /\ TagsInv /\ [Next]_vars => TagsInv'
<1> SUFFICES ASSUME IInv, TagsInv, [Next]_vars PROVE TagsInv'
  OBVIOUS
<1>0. /\ pc \in [Thread -> {"idle", "cas", "compare", "hw"}] /\ mkey_cnt \in [Thread -> Nat]
      /\ epoch \in Nat /\ \A d \in draws : d.epoch \in Nat /\ d.epoch <= epoch
  BY DEF IInv, TypeOK, Draw
<1>1. ASSUME NEW t \in Thread, Load(t) \/ CasFails(t) \/ CompareAgain(t) \/ CreateFails(t)
      PROVE  TagsInv'
  <2>1. /\ UNCHANGED <<g_mkey_cnt, epoch, draws, mine, keys, dead>>
        /\ \A u \in Thread : pc'[u] = "hw" => pc[u] = "hw" /\ mkey_cnt'[u] = mkey_cnt[u]
    BY <1>0, <1>1 DEF Load, CasFails, CompareAgain, CreateFails, Goto
  <2>2. QED
    BY <2>1 DEF TagsInv, Undisturbed
<1>2. ASSUME NEW t \in Thread, CasSucceeds(t) PROVE TagsInv'
  BY <1>2, DrawKeepsTags, Zenon DEF CasSucceeds, Goto
<1>3. ASSUME NEW t \in Thread, CompareLeaves(t) PROVE TagsInv'
  BY <1>3, DrawKeepsTags, Zenon DEF CompareLeaves, Goto
<1>4. ASSUME NEW t \in Thread, CreateMkey(t) PROVE TagsInv'
  <2>1. PICK i \in Index : keys' = keys \cup {[id |-> Id(i, mkey_cnt[t]), no |-> mine[t]]}
    BY <1>4, Zenon DEF CreateMkey
  <2>2. PICK d \in draws : d.no = mine[t] /\ d.value = mkey_cnt[t]
    BY <1>4, Zenon DEF CreateMkey, Goto, TagsInv
  <2>3. /\ UNCHANGED <<g_mkey_cnt, mkey_cnt, epoch, draws, mine, dead>>
        /\ \A u \in Thread : pc'[u] = "hw" => pc[u] = "hw"
    BY <1>0, <1>4 DEF CreateMkey, Goto
  <2>4. ASSUME NEW k \in keys' \cup dead'
        PROVE  \E e \in draws' : e.no = k.no /\ k.id[2] = Tag(e.value)
    <3>1. CASE k \in keys \cup dead
      BY <2>3, <3>1, Zenon DEF TagsInv
    <3>2. CASE k = [id |-> Id(i, mkey_cnt[t]), no |-> mine[t]]
      BY <2>2, <2>3, <3>2, Zenon DEF Id
    <3>3. QED
      BY <2>1, <2>3, <3>1, <3>2, Zenon
  <2>5. QED
    BY <2>3, <2>4 DEF TagsInv, Undisturbed
<1>5. ASSUME NEW k \in keys, DestroyMkey(k) PROVE TagsInv'
  BY <1>5 DEF DestroyMkey, TagsInv, Undisturbed
<1>6. CASE init_mkeys
  <2>1. epoch' = epoch + 1 /\ UNCHANGED <<pc, mkey_cnt, draws, mine, keys, dead>>
    BY <1>6 DEF init_mkeys
  <2>2. \A d \in draws' : d.epoch # epoch'
    BY <1>0, <2>1
  <2>3. QED
    BY <2>1, <2>2 DEF TagsInv, Undisturbed
<1>7. CASE UNCHANGED vars
  BY <1>7 DEF vars, TagsInv, Undisturbed
<1>8. QED
  BY <1>1, <1>2, <1>3, <1>4, <1>5, <1>6, <1>7 DEF Next, create

(* Before the first creation there is no draw and no key. *)
LEMMA InitTags == Init => TagsInv
<1> SUFFICES ASSUME Init PROVE TagsInv
  OBVIOUS
<1>1. Cardinality(draws) = 0 /\ draws = {} /\ keys = {} /\ dead = {}
  BY FS_EmptySet DEF Init
<1>2. {d.no : d \in draws} = 0..(Cardinality(draws) - 1)
  BY <1>1
<1>3. QED
  BY <1>1, <1>2, Zenon DEF Init, TagsInv

(* A key that was given the index of a destroyed one has another           *)
(* identifier for the next Window draws, as long as every exchange         *)
(* succeeds and nobody resets the counter: for any number of threads, any  *)
(* indices and any Window.                                                 *)
THEOREM StaleIdsDetectedHolds == Spec => []StaleIdsDetected
<1>1. IInv /\ TagsInv => StaleIdsDetected
  <2>1. SUFFICES ASSUME IInv, TagsInv, NEW k \in keys, NEW d \in dead,
                        k.id = d.id, k.no > d.no, Undisturbed(d.no, k.no)
                 PROVE  k.no - d.no >= Window
    BY DEF StaleIdsDetected
  <2>2. PICK e \in draws : e.no = k.no /\ k.id[2] = Tag(e.value)
    BY <2>1 DEF TagsInv
  <2>3. PICK f \in draws : f.no = d.no /\ d.id[2] = Tag(f.value)
    BY <2>1 DEF TagsInv
  <2>4. e.value \in Nat /\ f.value \in Nat /\ e.no \in Nat /\ f.no \in Nat
    BY <2>1 DEF IInv, TypeOK, Draw
  <2>5. e.value - f.value = e.no - f.no
    BY <2>1, <2>2, <2>3, <2>4 DEF TagsInv
  <2>6. e.value % Window = f.value % Window /\ e.value > f.value
    BY <2>1, <2>2, <2>3, <2>4, <2>5 DEF Tag
  <2>7. e.value - f.value >= Window
    BY <2>4, <2>6, SameTag, MkeyTagsAssumption
  <2>8. QED
    BY <2>2, <2>3, <2>5, <2>7
<1>2. QED
  BY <1>1, InitIInv, StepIInv, InitTags, StepTags, PTL DEF Spec

----------------------------------------------------------------------------
(* The provider and its adapters. *)

(* What an attempt to get a PD may do: it loses no PD, gives back only     *)
(* what the device has, keeps a number the adapter had, and leaves an      *)
(* object without a number only when it fails.                             *)
SoundPd(o) ==
  LET freed == IF o.m_pd = None \/ o.m_pd.external THEN {} ELSE {o.m_pd.pd} \ {None}
  IN  /\ o.m_pd \in {None} \cup [pd : Pd \cup UserPd \cup {None}, external : BOOLEAN]
      /\ o.m_ibv_pd \in Pd \cup UserPd \cup {None}
      /\ freed \subseteq o.hwPd
      /\ m_pd_id # None => o.m_pd_id # None
      /\ o.m_pd # None /\ o.m_pd_id = None => pdFailed \/ o.ret # "DPCP_OK"
      /\ o.ret = "DPCP_OK" => pdFailed \/ o.m_pd_id # None
LosesNone(o) ==
  LET freed == IF o.m_pd = None \/ o.m_pd.external THEN {} ELSE {o.m_pd.pd} \ {None}
  IN  o.hwPd \ freed \subseteq PdLost

(* A pd object is not a null pointer. *)
LEMMA OwnedNotNull ==
  ASSUME NEW q \in Pd \cup UserPd \cup {None}
  PROVE  [pd |-> q, external |-> FALSE] # None
<1>1. [pd |-> q, external |-> FALSE] \in [pd : Pd \cup UserPd \cup {None}, external : BOOLEAN]
  OBVIOUS
<1>2. QED
  BY <1>1, LifecycleAssumption, Zenon

(* create_ibv_pd and the first part of open are sound and lose no PD. *)
LEMMA IbvPdSound ==
  ASSUME LifecycleInv, NEW p \in Pd \cup UserPd \cup {None}, NEW o \in IbvPdOutcomes(p)
  PROVE  SoundPd(o) /\ LosesNone(o)
<1>1. CASE m_pd # None
  <2>1. o = PdOutcome(m_pd, m_ibv_pd, m_pd_id, hwPd,
                      IF m_ibv_pd = p THEN "DPCP_OK" ELSE "DPCP_ERR_CREATE")
    BY <1>1 DEF IbvPdOutcomes
  <2>2. o.m_pd = m_pd /\ o.m_ibv_pd = m_ibv_pd /\ o.m_pd_id = m_pd_id /\ o.hwPd = hwPd
    BY <2>1 DEF PdOutcome
  <2>3. QED
    BY <1>1, <2>2 DEF SoundPd, LosesNone, LifecycleInv, PdFreed, PdLost
<1>2. CASE m_pd = None
  <2>0. PdLost = hwPd /\ m_ibv_pd \in Pd \cup UserPd \cup {None}
    BY <1>2 DEF PdLost, PdFreed, LifecycleInv
  <2>1. CASE o = PdOutcome(None, m_ibv_pd, m_pd_id, hwPd, "DPCP_ERR_NO_MEMORY")
    <3>1. /\ o.m_pd = None /\ o.m_ibv_pd = m_ibv_pd /\ o.m_pd_id = m_pd_id /\ o.hwPd = hwPd
          /\ o.ret = "DPCP_ERR_NO_MEMORY"
      BY <2>1 DEF PdOutcome
    <3>2. QED
      BY <3>1, <2>0 DEF SoundPd, LosesNone
  <2>2. CASE p = None /\ o = PdOutcome([pd |-> None, external |-> FALSE], m_ibv_pd, m_pd_id,
                                       hwPd, "DPCP_ERR_CREATE")
    <3>1. /\ o.m_pd = [pd |-> None, external |-> FALSE] /\ o.m_ibv_pd = m_ibv_pd
          /\ o.m_pd_id = m_pd_id /\ o.hwPd = hwPd /\ o.ret = "DPCP_ERR_CREATE"
      BY <2>2 DEF PdOutcome
    <3>2. QED
      BY <3>1, <2>0 DEF SoundPd, LosesNone
  <2>3. CASE p = None /\ \E q \in Pd, r \in {"DPCP_ERR_INVALID_ID", "DPCP_OK"} :
               o = PdOutcome([pd |-> q, external |-> FALSE],
                             IF r = "DPCP_OK" THEN q ELSE m_ibv_pd,
                             IF r = "DPCP_OK" THEN q ELSE m_pd_id, hwPd \cup {q}, r)
    <3>1. PICK q \in Pd, r \in {"DPCP_ERR_INVALID_ID", "DPCP_OK"} :
            o = PdOutcome([pd |-> q, external |-> FALSE],
                          IF r = "DPCP_OK" THEN q ELSE m_ibv_pd,
                          IF r = "DPCP_OK" THEN q ELSE m_pd_id, hwPd \cup {q}, r)
      BY <2>3, Zenon
    <3>2. /\ o.m_pd = [pd |-> q, external |-> FALSE] /\ o.hwPd = hwPd \cup {q}
          /\ o.m_ibv_pd = IF r = "DPCP_OK" THEN q ELSE m_ibv_pd
          /\ o.m_pd_id = IF r = "DPCP_OK" THEN q ELSE m_pd_id
          /\ o.ret = r
      BY <3>1 DEF PdOutcome
    <3>3. q # None /\ q \in Pd \cup UserPd \cup {None} /\ o.m_pd # None
      BY <3>2, OwnedNotNull, LifecycleAssumption
    <3>4. QED
      BY <3>2, <3>3, <2>0 DEF SoundPd, LosesNone
  <2>4. CASE p # None /\ \E r \in {"DPCP_ERR_INVALID_ID", "DPCP_OK"} :
               o = PdOutcome([pd |-> p, external |-> TRUE],
                             IF r = "DPCP_OK" THEN p ELSE m_ibv_pd,
                             IF r = "DPCP_OK" THEN p ELSE m_pd_id, hwPd, r)
    <3>1. PICK r \in {"DPCP_ERR_INVALID_ID", "DPCP_OK"} :
            o = PdOutcome([pd |-> p, external |-> TRUE],
                          IF r = "DPCP_OK" THEN p ELSE m_ibv_pd,
                          IF r = "DPCP_OK" THEN p ELSE m_pd_id, hwPd, r)
      BY <2>4
    <3>2. /\ o.m_pd = [pd |-> p, external |-> TRUE] /\ o.hwPd = hwPd
          /\ o.m_ibv_pd = IF r = "DPCP_OK" THEN p ELSE m_ibv_pd
          /\ o.m_pd_id = IF r = "DPCP_OK" THEN p ELSE m_pd_id
          /\ o.ret = r
      BY <3>1 DEF PdOutcome
    <3>3. QED
      BY <3>2, <2>0, <2>4 DEF SoundPd, LosesNone
  <2>5. QED
    BY <1>2, <2>1, <2>2, <2>3, <2>4, Zenon DEF IbvPdOutcomes
<1>3. QED
  BY <1>1, <1>2

(* create_own_pd is sound; the PD of the object it replaces is lost. *)
LEMMA OwnPdSound ==
  ASSUME LifecycleInv,
         NEW o \in {PdOutcome(None, m_ibv_pd, m_pd_id, hwPd, "DPCP_ERR_NO_MEMORY"),
                    PdOutcome([pd |-> None, external |-> FALSE], m_ibv_pd, m_pd_id, hwPd,
                              "DPCP_ERR_CREATE")}
                   \cup {PdOutcome([pd |-> q, external |-> FALSE], m_ibv_pd, q, hwPd \cup {q},
                                   "DPCP_OK") : q \in Pd \ hwPd}
  PROVE  SoundPd(o)
<1>0. m_ibv_pd \in Pd \cup UserPd \cup {None}
  BY DEF LifecycleInv
<1>1. CASE o = PdOutcome(None, m_ibv_pd, m_pd_id, hwPd, "DPCP_ERR_NO_MEMORY")
  <2>1. /\ o.m_pd = None /\ o.m_ibv_pd = m_ibv_pd /\ o.m_pd_id = m_pd_id /\ o.hwPd = hwPd
        /\ o.ret = "DPCP_ERR_NO_MEMORY"
    BY <1>1, Zenon DEF PdOutcome
  <2>2. QED
    BY <1>0, <2>1 DEF SoundPd
<1>2. CASE o = PdOutcome([pd |-> None, external |-> FALSE], m_ibv_pd, m_pd_id, hwPd,
                         "DPCP_ERR_CREATE")
  <2>1. /\ o.m_pd = [pd |-> None, external |-> FALSE] /\ o.m_ibv_pd = m_ibv_pd
        /\ o.m_pd_id = m_pd_id /\ o.hwPd = hwPd /\ o.ret = "DPCP_ERR_CREATE"
    BY <1>2, Zenon DEF PdOutcome
  <2>2. QED
    BY <1>0, <2>1 DEF SoundPd
<1>3. CASE \E q \in Pd : o = PdOutcome([pd |-> q, external |-> FALSE], m_ibv_pd, q,
                                      hwPd \cup {q}, "DPCP_OK")
  <2>1. PICK q \in Pd : o = PdOutcome([pd |-> q, external |-> FALSE], m_ibv_pd, q,
                                      hwPd \cup {q}, "DPCP_OK")
    BY <1>3, Zenon
  <2>2. /\ o.m_pd = [pd |-> q, external |-> FALSE] /\ o.m_ibv_pd = m_ibv_pd
        /\ o.m_pd_id = q /\ o.hwPd = hwPd \cup {q}
    BY <2>1 DEF PdOutcome
  <2>3. q # None
    BY LifecycleAssumption
  <2>4. QED
    BY <1>0, <2>2, <2>3 DEF SoundPd
<1>4. QED
  BY <1>1, <1>2, <1>3

----------------------------------------------------------------------------
(* The parts of LifecycleInv that speak of the PD and of the TD. *)
PdInv ==
  /\ m_pd \in {None} \cup [pd : Pd \cup UserPd \cup {None}, external : BOOLEAN]
  /\ m_ibv_pd \in Pd \cup UserPd \cup {None}
  /\ PdFreed \subseteq hwPd
  /\ m_pd # None /\ m_pd_id = None => pdFailed
TdInv ==
  /\ m_td \in {None} \cup [td : Td \cup {None}]
  /\ hwTd = TdFreed
  /\ hwTd # {} => m_td_id # None

(* A sound outcome that is applied keeps what holds of the PD. *)
LEMMA ApplyKeeps ==
  ASSUME LifecycleInv, NEW o, SoundPd(o), ApplyPd(o)
  PROVE  /\ PdInv'
         /\ pdFailed \/ m_pd_id # None => (pdFailed \/ m_pd_id # None)'
         /\ o.ret = "DPCP_OK" => (pdFailed \/ m_pd_id # None)'
         /\ LosesNone(o) => PdLost' \subseteq PdLost
<1>1. m_pd' = o.m_pd /\ m_ibv_pd' = o.m_ibv_pd /\ m_pd_id' = o.m_pd_id /\ hwPd' = o.hwPd
  BY DEF ApplyPd
<1>2. pdFailed' <=> pdFailed \/ o.ret # "DPCP_OK"
  BY Zenon DEF ApplyPd
<1>3. PdInv'
  BY <1>1, <1>2 DEF PdInv, SoundPd, PdFreed
<1>4. pdFailed \/ m_pd_id # None => (pdFailed \/ m_pd_id # None)'
  BY <1>1, <1>2 DEF SoundPd
<1>5. o.ret = "DPCP_OK" => (pdFailed \/ m_pd_id # None)'
  BY <1>1, <1>2 DEF SoundPd
<1>6. LosesNone(o) => PdLost' \subseteq PdLost
  BY <1>1 DEF LosesNone, PdLost, PdFreed
<1>7. QED
  BY <1>3, <1>4, <1>5, <1>6

(* OpenRest keeps what holds of the TD, and opens only what is complete. *)
LEMMA OpenRestKeeps ==
  ASSUME LifecycleInv, OpenRest
  PROVE  /\ TdInv' /\ alive' = TRUE
         /\ m_opened' => m_opened \/ (m_td_id' # None /\ m_uarpool' /\ mapped')
         /\ m_td_id # None => m_td_id' # None
         /\ m_uarpool => m_uarpool'
         /\ mapped => mapped'
<1>1. PICK o \in TdOutcomes, pool \in BOOLEAN, seg \in BOOLEAN :
        /\ m_td' = o.m_td /\ m_td_id' = o.m_td_id /\ hwTd' = o.hwTd
        /\ IF o.ret # "DPCP_OK"
           THEN Returns("open", o.ret) /\ UNCHANGED rest
           ELSE /\ m_uarpool' = (m_uarpool \/ pool)
                /\ IF ~m_uarpool'
                   THEN Returns("open", "DPCP_ERR_NO_MEMORY") /\ UNCHANGED <<m_opened, mapped>>
                   ELSE /\ mapped' = (mapped \/ seg)
                        /\ m_opened' = seg
                        /\ Returns("open", IF seg THEN "DPCP_OK" ELSE "DPCP_ERR_NO_CONTEXT")
  BY DEF OpenRest
<1>2. TdInv' /\ (m_td_id # None => m_td_id' # None) /\ (o.ret = "DPCP_OK" => m_td_id' # None)
  <2>1. CASE m_td_id # None
    <3>1. m_td' = m_td /\ m_td_id' = m_td_id /\ hwTd' = hwTd
      BY <1>1, <2>1 DEF TdOutcomes
    <3>2. QED
      BY <2>1, <3>1 DEF LifecycleInv, TdInv, TdFreed
  <2>2. CASE m_td_id = None
    <3>0. hwTd = {}
      BY <2>2 DEF LifecycleInv
    <3>1. CASE o = [m_td |-> None, m_td_id |-> m_td_id, hwTd |-> hwTd,
                    ret |-> "DPCP_ERR_NO_MEMORY"]
      BY <1>1, <2>2, <3>0, <3>1 DEF TdInv, TdFreed
    <3>2. CASE o = [m_td |-> [td |-> None], m_td_id |-> m_td_id, hwTd |-> hwTd,
                    ret |-> "DPCP_ERR_CREATE"]
      BY <1>1, <2>2, <3>0, <3>2 DEF TdInv, TdFreed
    <3>3. CASE \E t \in Td : o = [m_td |-> [td |-> t], m_td_id |-> t, hwTd |-> hwTd \cup {t},
                                 ret |-> "DPCP_OK"]
      <4>1. PICK t \in Td : o = [m_td |-> [td |-> t], m_td_id |-> t, hwTd |-> hwTd \cup {t},
                                 ret |-> "DPCP_OK"]
        BY <3>3, Zenon
      <4>2. m_td' = [td |-> t] /\ m_td_id' = t /\ hwTd' = {t}
        BY <1>1, <3>0, <4>1
      <4>3. t # None /\ [td |-> t] \in [td : Td \cup {None}]
        BY LifecycleAssumption
      <4>4. [td |-> t] # None
        BY <4>3, LifecycleAssumption
      <4>5. QED
        BY <2>2, <4>2, <4>3, <4>4 DEF TdInv, TdFreed
    <3>4. QED
      BY <2>2, <3>1, <3>2, <3>3 DEF TdOutcomes
  <2>3. QED
    BY <2>1, <2>2
<1>3. CASE o.ret # "DPCP_OK"
  BY <1>1, <1>2, <1>3 DEF Returns, rest
<1>4. CASE o.ret = "DPCP_OK" /\ ~m_uarpool'
  BY <1>1, <1>2, <1>4, Zenon DEF Returns
<1>5. CASE o.ret = "DPCP_OK" /\ m_uarpool'
  BY <1>1, <1>2, <1>5, Zenon DEF Returns
<1>6. QED
  BY <1>3, <1>4, <1>5, Zenon

----------------------------------------------------------------------------
(* Every call of an adapter, its deletion and the constructor of the next  *)
(* one keep LifecycleInv, and only create_own_pd loses a PD.               *)
LEMMA AdapterStep ==
  ASSUME LifecycleInv, AdapterCalls \/ delete \/ new_adapter \/ UNCHANGED adapterVars
  PROVE  LifecycleInv' /\ (PdLost' \subseteq PdLost \/ call' = "create_own_pd")
<1> DEFINE Opened == m_opened => /\ m_td_id # None /\ m_uarpool /\ mapped
                                 /\ pdFailed \/ m_pd_id # None
<1>0. LifecycleInv <=> /\ PdInv /\ TdInv /\ Opened
                       /\ ~alive => m_pd = None /\ m_td = None
                       /\ badFree = FALSE
  BY DEF LifecycleInv, PdInv, TdInv
<1>p. (/\ PdInv /\ TdInv /\ Opened
       /\ ~alive => m_pd = None /\ m_td = None
       /\ badFree = FALSE)' => LifecycleInv'
  BY DEF LifecycleInv, PdInv, TdInv
<1>i. PdInv /\ TdInv /\ Opened /\ badFree = FALSE
  BY <1>0
<1> HIDE DEF Opened
<1>1. ASSUME NEW p \in UserPd \cup {None, m_ibv_pd}, create_ibv_pd(p)
      PROVE  LifecycleInv' /\ PdLost' \subseteq PdLost
  <2>1. PICK o \in IbvPdOutcomes(p) : ApplyPd(o) /\ Returns("create_ibv_pd", o.ret)
    BY <1>1 DEF create_ibv_pd
  <2>2. UNCHANGED <<tdVars, rest, badFree>> /\ alive' = TRUE
    BY <1>1, <2>1 DEF create_ibv_pd, Returns
  <2>3. p \in Pd \cup UserPd \cup {None}
    BY DEF LifecycleInv
  <2>4. SoundPd(o) /\ LosesNone(o)
    BY <2>1, <2>3, IbvPdSound
  <2>5. PdInv' /\ PdLost' \subseteq PdLost
        /\ (pdFailed \/ m_pd_id # None => (pdFailed \/ m_pd_id # None)')
    BY <2>1, <2>4, ApplyKeeps
  <2>6. TdInv'
    BY <1>i, <2>2 DEF TdInv, TdFreed, tdVars
  <2>7. Opened'
    BY <1>i, <2>2, <2>5 DEF Opened, tdVars, rest
  <2>8. QED
    BY <1>p, <1>i, <2>2, <2>5, <2>6, <2>7
<1>2. ASSUME create_own_pd
      PROVE  LifecycleInv' /\ call' = "create_own_pd"
  <2>1. PICK o \in {PdOutcome(None, m_ibv_pd, m_pd_id, hwPd, "DPCP_ERR_NO_MEMORY"),
                    PdOutcome([pd |-> None, external |-> FALSE], m_ibv_pd, m_pd_id, hwPd,
                              "DPCP_ERR_CREATE")}
                   \cup {PdOutcome([pd |-> q, external |-> FALSE], m_ibv_pd, q, hwPd \cup {q},
                                   "DPCP_OK") : q \in Pd \ hwPd} :
               ApplyPd(o) /\ Returns("create_own_pd", o.ret)
    BY <1>2, Zenon DEF create_own_pd
  <2>2. UNCHANGED <<tdVars, rest, badFree>> /\ alive' = TRUE /\ call' = "create_own_pd"
    BY <1>2, <2>1 DEF create_own_pd, Returns
  <2>3. PdInv' /\ (pdFailed \/ m_pd_id # None => (pdFailed \/ m_pd_id # None)')
    BY <2>1, OwnPdSound, ApplyKeeps, Zenon
  <2>4. TdInv'
    BY <1>i, <2>2 DEF TdInv, TdFreed, tdVars
  <2>5. Opened'
    BY <1>i, <2>2, <2>3 DEF Opened, tdVars, rest
  <2>6. QED
    BY <1>p, <1>i, <2>2, <2>3, <2>4, <2>5
<1>3. ASSUME NEW n \in UserPd \cup {None}, NEW p \in UserPd \cup {None, m_ibv_pd}, set_pd(n, p)
      PROVE  LifecycleInv' /\ PdLost' \subseteq PdLost
  <2>1. UNCHANGED <<m_pd, hwPd, pdFailed, tdVars, rest, badFree>> /\ alive' = TRUE
    BY <1>3 DEF set_pd, Returns
  <2>2. /\ m_ibv_pd' \in {m_ibv_pd, p} /\ (m_pd_id' = m_pd_id \/ m_pd_id' # None)
    BY <1>3 DEF set_pd
  <2>3. PdInv' /\ PdLost' = PdLost
    BY <1>i, <2>1, <2>2 DEF PdInv, PdFreed, PdLost
  <2>4. TdInv' /\ Opened'
    BY <1>i, <2>1, <2>2 DEF TdInv, TdFreed, Opened, tdVars, rest
  <2>5. QED
    BY <1>p, <1>i, <2>1, <2>3, <2>4
<1>4. ASSUME NEW t \in UserTd \cup {None}, set_td(t)
      PROVE  LifecycleInv' /\ PdLost' \subseteq PdLost
  <2>1. UNCHANGED <<pdVars, rest>> /\ alive' = TRUE
    BY <1>4 DEF set_td, Returns
  <2>2. PdInv' /\ PdLost' = PdLost
    BY <1>i, <2>1 DEF PdInv, PdFreed, PdLost, pdVars
  <2>3. TdInv' /\ badFree' = FALSE /\ (m_td_id # None => m_td_id' # None)
    <3>1. CASE t = None
      BY <1>4, <1>i, <3>1 DEF set_td, TdInv, TdFreed, tdVars
    <3>2. CASE t # None
      BY <1>4, <1>i, <3>2, Zenon DEF set_td, TdInv, TdFreed
    <3>3. QED
      BY <3>1, <3>2, Zenon
  <2>4. Opened'
    BY <1>i, <2>1, <2>3 DEF Opened, pdVars, rest
  <2>5. QED
    BY <1>p, <2>1, <2>2, <2>3, <2>4
<1>5. ASSUME open
      PROVE  LifecycleInv' /\ PdLost' \subseteq PdLost
  <2>0. badFree' = badFree
    BY <1>5 DEF open
  <2>1. CASE m_opened
    <3>1. alive' = TRUE /\ UNCHANGED <<pdVars, tdVars, rest>>
      BY <1>5, <2>1 DEF open, Returns
    <3>2. PdInv' /\ PdLost' = PdLost
      BY <1>i, <3>1 DEF PdInv, PdFreed, PdLost, pdVars
    <3>3. TdInv' /\ Opened'
      BY <1>i, <3>1 DEF TdInv, TdFreed, Opened, pdVars, tdVars, rest
    <3>4. QED
      BY <1>p, <1>i, <2>0, <3>1, <3>2, <3>3
  <2>2. CASE ~m_opened /\ m_pd_id # None
    <3>1. OpenRest /\ UNCHANGED pdVars
      BY <1>5, <2>2 DEF open
    <3>2. PdInv' /\ PdLost' = PdLost
      BY <1>i, <3>1 DEF PdInv, PdFreed, PdLost, pdVars
    <3>3. TdInv' /\ alive' = TRUE
          /\ (m_opened' => m_opened \/ (m_td_id' # None /\ m_uarpool' /\ mapped'))
      BY <3>1, OpenRestKeeps
    <3>4. Opened'
      BY <2>2, <3>1, <3>3 DEF Opened, pdVars
    <3>5. QED
      BY <1>p, <1>i, <2>0, <3>2, <3>3, <3>4
  <2>3. CASE ~m_opened /\ m_pd_id = None
    <3>1. PICK o \in IbvPdOutcomes(None) :
            /\ ApplyPd(o)
            /\ IF o.ret = "DPCP_OK"
               THEN OpenRest
               ELSE Returns("open", o.ret) /\ UNCHANGED <<tdVars, rest>>
      BY <1>5, <2>3 DEF open
    <3>2. SoundPd(o) /\ LosesNone(o)
      BY IbvPdSound
    <3>3. /\ PdInv' /\ PdLost' \subseteq PdLost
          /\ o.ret = "DPCP_OK" => (pdFailed \/ m_pd_id # None)'
      BY <3>1, <3>2, ApplyKeeps
    <3>4. CASE o.ret = "DPCP_OK"
      <4>1. TdInv' /\ alive' = TRUE
            /\ (m_opened' => m_opened \/ (m_td_id' # None /\ m_uarpool' /\ mapped'))
        BY <3>1, <3>4, OpenRestKeeps
      <4>2. Opened'
        BY <2>3, <3>3, <3>4, <4>1 DEF Opened
      <4>3. QED
        BY <1>p, <1>i, <2>0, <3>3, <4>1, <4>2
    <3>5. CASE o.ret # "DPCP_OK"
      <4>1. alive' = TRUE /\ UNCHANGED <<tdVars, rest>>
        BY <3>1, <3>5 DEF Returns
      <4>2. TdInv'
        BY <1>i, <4>1 DEF TdInv, TdFreed, tdVars
      <4>3. Opened'
        BY <2>3, <4>1 DEF Opened, rest
      <4>4. QED
        BY <1>p, <1>i, <2>0, <3>3, <4>1, <4>2, <4>3
    <3>6. QED
      BY <3>4, <3>5
  <2>4. QED
    BY <2>1, <2>2, <2>3
<1>6. ASSUME delete
      PROVE  LifecycleInv' /\ PdLost' \subseteq PdLost
  <2>1. /\ m_pd' = None /\ m_ibv_pd' = None /\ m_td' = None /\ m_opened' = FALSE
        /\ hwPd' = hwPd \ PdFreed /\ hwTd' = hwTd \ TdFreed
        /\ badFree' = (badFree \/ ~(PdFreed \subseteq hwPd) \/ ~(TdFreed \subseteq hwTd))
    BY <1>6 DEF delete
  <2>2. PdInv' /\ PdLost' = PdLost
    BY <2>1 DEF PdInv, PdFreed, PdLost
  <2>3. hwTd' = {} /\ TdInv' /\ badFree' = FALSE
    BY <1>i, <2>1, Zenon DEF TdInv, TdFreed, PdInv
  <2>4. QED
    BY <1>p, <2>1, <2>2, <2>3 DEF Opened
<1>7. ASSUME new_adapter
      PROVE  LifecycleInv' /\ PdLost' \subseteq PdLost
  <2>1. /\ ~alive /\ m_pd' = None /\ m_ibv_pd' = None /\ m_td' = None /\ m_opened' = FALSE
        /\ hwPd' = hwPd /\ hwTd' = hwTd /\ badFree' = badFree
    BY <1>7 DEF new_adapter
  <2>2. hwTd = {} /\ PdLost = hwPd
    BY <1>0, <2>1 DEF TdInv, TdFreed, PdFreed, PdLost
  <2>3. PdInv' /\ TdInv'
    BY <2>1, <2>2 DEF PdInv, PdFreed, TdInv, TdFreed
  <2>4. LifecycleInv'
    BY <1>p, <1>i, <2>1, <2>3 DEF Opened
  <2>5. QED
    BY <2>1, <2>2, <2>4 DEF PdLost, PdFreed
<1>8. ASSUME UNCHANGED adapterVars
      PROVE  LifecycleInv' /\ PdLost' \subseteq PdLost
  BY <1>8 DEF LifecycleInv, PdFreed, PdLost, TdFreed, adapterVars, pdVars, tdVars, rest
<1>9. QED
  BY <1>1, <1>2, <1>3, <1>4, <1>5, <1>6, <1>7, <1>8 DEF AdapterCalls

(* An adapter, or a sequence of adapters, accounts for its domains: no PD  *)
(* or TD is freed twice, the TD of the device is the one ~adapter frees,   *)
(* only create_own_pd loses a PD, and an opened adapter is complete, for   *)
(* all PDs and TDs and however many calls fail in whatever order.          *)
THEOREM DomainsHold == ProviderSpec => DomainsAccounted
<1> DEFINE provVars == <<adapterVars, providerVars>>
<1>1. AdapterInit(FALSE) => LifecycleInv
  BY DEF AdapterInit, LifecycleInv, PdFreed, TdFreed
<1>2. ASSUME LifecycleInv, [ProviderNext]_provVars
      PROVE  LifecycleInv' /\ [PdLost' \subseteq PdLost \/ call' = "create_own_pd"]_adapterVars
  <2>1. AdapterCalls \/ delete \/ new_adapter \/ UNCHANGED adapterVars
    BY <1>2 DEF ProviderNext, ProviderCall, DeleteAdapter
  <2>2. QED
    BY <1>2, <2>1, AdapterStep
<1>3. LifecycleInv => /\ ~badFree /\ OpenedIsComplete
                      /\ hwTd \subseteq (IF m_td = None THEN {} ELSE {m_td.td})
  BY DEF LifecycleInv, OpenedIsComplete, TdFreed
<1>4. QED
  BY <1>1, <1>2, <1>3, PTL DEF ProviderSpec, DomainsAccounted

----------------------------------------------------------------------------
(* Opening a context that was free adds it to the open ones. *)
LEMMA OpensOne ==
  ASSUME ProviderInv, NEW c \in FreeCtx, NEW id \in Range(Device),
         open_ctx' = [open_ctx EXCEPT ![c] = id]
  PROVE  /\ c \in Ctx /\ c # None /\ c # m_dcmd_ctx /\ c \notin lost_ctx
         /\ open_ctx' \in [Ctx -> Range(Device) \cup {None}] /\ open_ctx'[c] = id
         /\ \A x \in Ctx : x # c => open_ctx'[x] = open_ctx[x]
         /\ {x \in Ctx : open_ctx'[x] # None} = {x \in Ctx : open_ctx[x] # None} \cup {c}
<1>1. c \in Ctx /\ open_ctx[c] = None /\ id # None /\ c # None
  BY ProviderAssumption DEF FreeCtx
<1>2. c \notin {x \in Ctx : open_ctx[x] # None}
  BY <1>1
<1>3. c # m_dcmd_ctx /\ c \notin lost_ctx
  BY <1>1, <1>2 DEF ProviderInv, ProviderConsistent
<1>4. /\ open_ctx' \in [Ctx -> Range(Device) \cup {None}] /\ open_ctx'[c] = id
      /\ \A x \in Ctx : x # c => open_ctx'[x] = open_ctx[x]
  BY <1>1 DEF ProviderInv
<1>5. QED
  BY <1>1, <1>3, <1>4

(* The books of the provider are right in every state: the open contexts   *)
(* are that of the adapter and the lost ones, the adapter's is one of the  *)
(* device it was opened for, and what the application was told stays true, *)
(* for any number of devices, contexts and calls.                          *)
THEOREM ProviderBooks == ProviderSpec => []ProviderConsistent
<1> DEFINE provVars == <<adapterVars, providerVars>>
<1>1. AdapterInit(FALSE) /\ ProviderInit => ProviderInv
  BY Zenon DEF AdapterInit, ProviderInit, ProviderInv, ProviderConsistent
<1>2. ASSUME ProviderInv, [ProviderNext]_provVars
      PROVE  ProviderInv'
  <2>0. /\ alive \in BOOLEAN
        /\ UNCHANGED adapterVars => alive' = alive
    BY <1>2 DEF ProviderInv, adapterVars
  <2>1. ASSUME NEW v \in Version \cup {None}, GetInstanceRefused(v), UNCHANGED adapterVars
        PROVE  ProviderInv'
    BY <1>2, <2>0, <2>1 DEF GetInstanceRefused, ProviderInv, ProviderConsistent
  <2>2. ASSUME NEW v \in Version \cup {None}, GetInstanceNoDevices(v), UNCHANGED adapterVars
        PROVE  ProviderInv'
    <3>1. m_dev_array = None
      BY <2>2 DEF GetInstanceNoDevices, get_device_list
    <3>2. ~self /\ told = None
      BY <1>2, <3>1 DEF ProviderInv
    <3>3. QED
      BY <1>2, <2>0, <2>2, <3>2 DEF GetInstanceNoDevices, ProviderInv, ProviderConsistent
  <2>3. ASSUME NEW v \in Version \cup {None}, GetInstance(v), UNCHANGED adapterVars
        PROVE  ProviderInv'
    <3>1. m_dev_array' # None /\ m_num_devices' = Len(m_dev_array') /\ self' = TRUE
      BY <2>3 DEF GetInstance
    <3>2. m_dev_array # None => m_dev_array' = m_dev_array
      BY <2>3 DEF GetInstance, get_device_list
    <3>3. told' = told /\ UNCHANGED <<open_ctx, m_dcmd_ctx, asked, lost_ctx>>
      BY <2>3 DEF GetInstance
    <3>4. told' # None => told' = m_num_devices'
      BY <1>2, <3>1, <3>2, <3>3 DEF ProviderInv, ProviderConsistent
    <3>5. QED
      BY <1>2, <2>0, <2>3, <3>1, <3>3, <3>4 DEF ProviderInv, ProviderConsistent
  <2>4. ASSUME NEW n \in 0 .. Len(Device), get_adapter_info_lst(n), UNCHANGED adapterVars
        PROVE  ProviderInv'
    <3>1. self /\ told' \in {told, m_num_devices}
      BY <2>4 DEF get_adapter_info_lst
    <3>2. UNCHANGED <<m_dev_array, self, m_num_devices, open_ctx, m_dcmd_ctx, asked, lost_ctx>>
      BY <2>4 DEF get_adapter_info_lst
    <3>3. QED
      BY <1>2, <2>0, <2>4, <3>1, <3>2 DEF ProviderInv, ProviderConsistent
  <2>5. ASSUME NEW id, OpenRefused(id), UNCHANGED adapterVars
        PROVE  ProviderInv'
    BY <1>2, <2>0, <2>5 DEF OpenRefused, ProviderInv, ProviderConsistent
  <2>6. ASSUME NEW id \in Range(Device), OpenNoMemory(id), UNCHANGED adapterVars
        PROVE  ProviderInv'
    <3>1. PICK c \in FreeCtx : /\ open_ctx' = [open_ctx EXCEPT ![c] = id]
                               /\ lost_ctx' = lost_ctx \cup {c}
      BY <2>6, Zenon DEF OpenNoMemory
    <3>2. UNCHANGED <<m_dev_array, self, m_num_devices, m_dcmd_ctx, asked, told>>
      BY <2>6 DEF OpenNoMemory
    <3>3. /\ c \in Ctx /\ c # m_dcmd_ctx
          /\ open_ctx' \in [Ctx -> Range(Device) \cup {None}]
          /\ \A x \in Ctx : x # c => open_ctx'[x] = open_ctx[x]
          /\ {x \in Ctx : open_ctx'[x] # None} = {x \in Ctx : open_ctx[x] # None} \cup {c}
      BY <1>2, <3>1, OpensOne, Zenon
    <3>4. {x \in Ctx : open_ctx'[x] # None} = ({m_dcmd_ctx'} \ {None}) \cup lost_ctx'
      <4>1. {x \in Ctx : open_ctx[x] # None} = ({m_dcmd_ctx} \ {None}) \cup lost_ctx
        BY <1>2 DEF ProviderInv, ProviderConsistent
      <4>2. QED
        BY <3>1, <3>2, <3>3, <4>1
    <3>5. alive' => open_ctx'[m_dcmd_ctx'] = asked' /\ m_dcmd_ctx' \notin lost_ctx'
      BY <1>2, <2>0, <2>6, <3>1, <3>2, <3>3, Zenon DEF ProviderInv, ProviderConsistent
    <3>6. QED
      BY <1>2, <2>0, <2>6, <3>1, <3>2, <3>3, <3>4, <3>5 DEF ProviderInv, ProviderConsistent
  <2>7. ASSUME NEW id \in Range(Device), open_adapter(id), new_adapter
        PROVE  ProviderInv'
    <3>1. PICK c \in FreeCtx : open_ctx' = [open_ctx EXCEPT ![c] = id] /\ m_dcmd_ctx' = c
      BY <2>7, Zenon DEF open_adapter
    <3>2. UNCHANGED <<m_dev_array, self, m_num_devices, lost_ctx, told>> /\ asked' = id
      BY <2>7 DEF open_adapter
    <3>3. m_dcmd_ctx = None /\ alive' = TRUE
      BY <1>2, <2>7 DEF ProviderInv, ProviderConsistent, new_adapter
    <3>4. QED
      BY <1>2, <3>1, <3>2, <3>3, OpensOne, Zenon DEF ProviderInv, ProviderConsistent
  <2>8. ASSUME AdapterCalls, UNCHANGED providerVars
        PROVE  ProviderInv'
    <3>1. alive = TRUE /\ alive' = TRUE
      BY <1>2, <2>8, Zenon DEF ProviderInv, AdapterCalls, create_ibv_pd, create_own_pd, set_pd, set_td,
           open, OpenRest, Returns
    <3>2. QED
      BY <1>2, <2>8, <3>1 DEF providerVars, ProviderInv, ProviderConsistent
  <2>9. ASSUME delete, CloseCtx
        PROVE  ProviderInv'
    <3>1. alive = TRUE /\ alive' = FALSE
      BY <1>2, <2>9 DEF ProviderInv, delete
    <3>2. m_dcmd_ctx \in Ctx /\ m_dcmd_ctx \notin lost_ctx
      BY <1>2, <3>1 DEF ProviderInv, ProviderConsistent
    <3>3. /\ open_ctx' = [open_ctx EXCEPT ![m_dcmd_ctx] = None] /\ m_dcmd_ctx' = None
          /\ UNCHANGED <<m_dev_array, self, m_num_devices, asked, lost_ctx, told>>
      BY <2>9 DEF CloseCtx
    <3>4. /\ open_ctx' \in [Ctx -> Range(Device) \cup {None}]
          /\ {x \in Ctx : open_ctx'[x] # None} = {x \in Ctx : open_ctx[x] # None} \ {m_dcmd_ctx}
      BY <1>2, <3>2, <3>3 DEF ProviderInv
    <3>5. {x \in Ctx : open_ctx'[x] # None} = ({m_dcmd_ctx'} \ {None}) \cup lost_ctx'
      <4>1. {x \in Ctx : open_ctx[x] # None} = {m_dcmd_ctx} \cup lost_ctx
        BY <1>2, <3>2, ProviderAssumption DEF ProviderInv, ProviderConsistent
      <4>2. QED
        BY <3>2, <3>3, <3>4, <4>1
    <3>6. QED
      BY <1>2, <3>1, <3>3, <3>4, <3>5, Zenon DEF ProviderInv, ProviderConsistent
  <2>10. ASSUME UNCHANGED provVars
         PROVE  ProviderInv'
    BY <1>2, <2>0, <2>10 DEF providerVars, ProviderInv, ProviderConsistent
  <2>11. QED
    BY <1>2, <2>1, <2>2, <2>3, <2>4, <2>5, <2>6, <2>7, <2>8, <2>9, <2>10
       DEF ProviderNext, ProviderCall, DeleteAdapter
<1>3. ProviderInv => ProviderConsistent
  BY DEF ProviderInv
<1>4. QED
  BY <1>1, <1>2, <1>3, PTL DEF ProviderSpec

----------------------------------------------------------------------------
(* Numbers. *)

(* A set of numbers that is not empty has a least one. *)
LEMMA LeastNumber ==
  ASSUME NEW T, T \subseteq Nat, T # {}
  PROVE  \E x \in T : \A y \in T : x <= y
<1>1. PICK x \in T : \A y \in T : ~(<<y, x>> \in OpToRel(<, Nat))
  BY NatLessThanWellFounded, WFMin, Zenon
<1>2. \A y \in T : ~(y < x)
  BY <1>1, Zenon DEF OpToRel
<1>3. ASSUME NEW y \in T PROVE x <= y
  <2>1. x \in Nat /\ y \in Nat
    OBVIOUS
  <2>2. QED
    BY <1>2, <2>1
<1>4. QED
  BY <1>3

(* Induction, for a property given as the set of the numbers that have it. *)
LEMMA NumberInduction ==
  ASSUME NEW T, 0 \in T, \A n \in Nat : n \in T => n + 1 \in T
  PROVE  Nat \subseteq T
<1>1. SUFFICES ASSUME Nat \ T # {} PROVE FALSE
  OBVIOUS
<1>2. PICK x \in Nat \ T : \A y \in Nat \ T : x <= y
  <2>1. Nat \ T \subseteq Nat
    OBVIOUS
  <2>2. QED
    BY <1>1, <2>1, LeastNumber, Zenon
<1>3. x # 0 /\ x - 1 \in Nat
  BY <1>2
<1>4. x - 1 \in T
  BY <1>2, <1>3
<1>5. QED
  BY <1>2, <1>3, <1>4

(* The powers of two: a set has twice as many subsets with one more        *)
(* element.                                                                *)
LEMMA Power ==
  ASSUME NEW n \in Nat
  PROVE  2^n \in Nat /\ 2^(n + 1) = 2 * 2^n
<1> DEFINE S == 1 .. n
           T == 1 .. (n + 1)
           A == SUBSET S
           B == {X \cup {n + 1} : X \in A}
<1>1. IsFiniteSet(S) /\ Cardinality(S) = n /\ IsFiniteSet(T) /\ Cardinality(T) = n + 1
  BY FS_Interval
<1>2. /\ IsFiniteSet(A) /\ Cardinality(A) = 2^n
      /\ IsFiniteSet(SUBSET T) /\ Cardinality(SUBSET T) = 2^(n + 1)
  BY <1>1, FS_SUBSET, Zenon
<1>3. Cardinality(A) \in Nat
  BY <1>2, FS_CardinalityType
<1>4. n + 1 \notin S /\ T = S \cup {n + 1}
  OBVIOUS
<1> HIDE DEF S, T
<1>5. IsFiniteSet(B) /\ Cardinality(B) = Cardinality(A)
  <2> DEFINE f == [X \in A |-> X \cup {n + 1}]
  <2>1. f \in [A -> B] /\ \A Y \in B : \E X \in A : f[X] = Y
    OBVIOUS
  <2>2. ASSUME NEW X \in A, NEW Y \in A, f[X] = f[Y] PROVE X = Y
    <3>1. X \cup {n + 1} = Y \cup {n + 1} /\ n + 1 \notin X /\ n + 1 \notin Y
      BY <1>4, <2>2
    <3>2. QED
      BY <3>1
  <2> HIDE DEF f, A, B
  <2>3. f \in Bijection(A, B)
    BY <2>1, <2>2 DEF Bijection, Injection, Surjection, IsInjective
  <2>4. ExistsBijection(A, B)
    BY <2>3 DEF ExistsBijection
  <2>5. QED
    BY <1>2, <2>4, FS_Bijection
<1>6. SUBSET T = A \cup B /\ A \cap B = {}
  <2>1. ASSUME NEW X \in SUBSET T PROVE X \in A \cup B
    <3>1. CASE n + 1 \in X
      <4>1. X \ {n + 1} \in A /\ X = (X \ {n + 1}) \cup {n + 1}
        BY <1>4, <3>1
      <4>2. QED
        BY <4>1, Zenon
    <3>2. CASE n + 1 \notin X
      BY <1>4, <3>2
    <3>3. QED
      BY <3>1, <3>2
  <2>2. A \cup B \subseteq SUBSET T
    BY <1>4
  <2>3. A \cap B = {}
    BY <1>4
  <2>4. QED
    BY <2>1, <2>2, <2>3, Zenon
<1> HIDE DEF A, B
<1>7. Cardinality(A \cup B) = Cardinality(A) + Cardinality(B) - Cardinality(A \cap B)
  BY <1>2, <1>5, FS_Union
<1>8. Cardinality(A \cap B) = 0
  BY <1>6, FS_EmptySet
<1> DEFINE p == 2^n
           q == 2^(n + 1)
<1>9. p = Cardinality(A) /\ q = Cardinality(A \cup B)
  BY <1>2, <1>6
<1> HIDE DEF p, q
<1>10. p \in Nat /\ q = 2 * p
  BY <1>3, <1>5, <1>7, <1>8, <1>9
<1>11. QED
  BY <1>10 DEF p, q

(* A number, its quotient and its remainder. *)
LEMMA Euclid ==
  ASSUME NEW n \in Nat, NEW p \in Nat, p > 0
  PROVE  n = p * (n \div p) + (n % p) /\ n \div p \in Nat /\ n % p \in 0 .. p - 1
OBVIOUS

(* The powers of two are positive. *)
LEMMA PowerPositive ==
  /\ 2^0 = 1
  /\ \A n \in Nat : 2^n \in Nat /\ 2^n > 0 /\ 2^(n + 1) = 2 * 2^n
<1> DEFINE S == {}
           N == {S}
<1>1. 2^0 = 1
  <2>1. IsFiniteSet(S) /\ Cardinality(S) = 0
    BY FS_EmptySet
  <2>2. Cardinality(SUBSET S) = 2^0
    BY <2>1, FS_SUBSET, Zenon
  <2>3. SUBSET S = N
    OBVIOUS
  <2>4. Cardinality(N) = 1
    BY FS_Singleton, Zenon
  <2>5. QED
    BY <2>2, <2>3, <2>4
<1> DEFINE T == {n \in Nat : 2^n > 0}
<1>2. 0 \in T
  BY <1>1
<1>3. \A n \in Nat : n \in T => n + 1 \in T
  <2> SUFFICES ASSUME NEW n \in Nat, n \in T PROVE n + 1 \in T
    OBVIOUS
  <2> DEFINE p == 2^n
             q == 2^(n + 1)
  <2>1. p \in Nat /\ q = 2 * p /\ p > 0
    BY Power
  <2> HIDE DEF p, q
  <2>2. q > 0
    BY <2>1
  <2>3. QED
    BY <2>2 DEF q
<1>4. Nat \subseteq T
  <2> HIDE DEF T
  <2>1. QED
    BY <1>2, <1>3, NumberInduction
<1>5. QED
  BY <1>1, <1>4, Power

----------------------------------------------------------------------------
(* The sizes of rings. *)

(* The powers of two as a function. *)
Powers == [e \in Nat |-> 2^e]

(* What is used of them. *)
LEMMA PowersFacts ==
  /\ Powers[0] = 1
  /\ \A e \in Nat : 2^e = Powers[e] /\ Powers[e] \in Nat /\ Powers[e] > 0 /\ Powers[e + 1] = 2 * Powers[e]
<1>1. Powers[0] = 1
  BY PowerPositive DEF Powers
<1>2. ASSUME NEW e \in Nat
      PROVE  2^e = Powers[e] /\ Powers[e] \in Nat /\ Powers[e] > 0 /\ Powers[e + 1] = 2 * Powers[e]
  <2>1. e + 1 \in Nat
    OBVIOUS
  <2>2. 2^e = Powers[e] /\ 2^(e + 1) = Powers[e + 1]
    BY <2>1, Zenon DEF Powers
  <2>3. QED
    BY <2>2, PowerPositive, Zenon
<1>3. QED
  BY <1>1, <1>2

(* Exponents add up. *)
LEMMA PowersSum ==
  ASSUME NEW a \in Nat, NEW b \in Nat
  PROVE  Powers[a + b] = Powers[a] * Powers[b]
<1> DEFINE T == {k \in Nat : Powers[a + k] = Powers[a] * Powers[k]}
<1>1. 0 \in T
  BY PowersFacts
<1>2. \A k \in Nat : k \in T => k + 1 \in T
  <2> SUFFICES ASSUME NEW k \in Nat, k \in T PROVE k + 1 \in T
    OBVIOUS
  <2>1. a + k \in Nat /\ a + (k + 1) = (a + k) + 1 /\ k + 1 \in Nat
    OBVIOUS
  <2>2. Powers[a + (k + 1)] = 2 * Powers[a + k] /\ Powers[k + 1] = 2 * Powers[k]
    BY <2>1, PowersFacts
  <2>3. Powers[a] \in Nat /\ Powers[k] \in Nat /\ Powers[a + k] = Powers[a] * Powers[k]
    BY PowersFacts
  <2>4. \A x, y \in Nat : 2 * (x * y) = x * (2 * y)
    OBVIOUS
  <2>5. Powers[a + (k + 1)] = Powers[a] * Powers[k + 1]
    BY <2>2, <2>3, <2>4
  <2>6. QED
    BY <2>1, <2>5
<1>3. Nat \subseteq T
  <2> HIDE DEF T
  <2>1. QED
    BY <1>1, <1>2, NumberInduction
<1>4. QED
  BY <1>3

(* A larger exponent gives a larger power. *)
LEMMA PowersGrow ==
  ASSUME NEW a \in Nat, NEW b \in Nat, a <= b
  PROVE  Powers[a] <= Powers[b] /\ (a < b => 2 * Powers[a] <= Powers[b])
<1>1. ASSUME NEW x \in Nat, NEW y \in Nat, x <= y PROVE Powers[x] <= Powers[y]
  <2>1. y - x \in Nat /\ y = x + (y - x)
    BY <1>1
  <2>2. Powers[y] = Powers[x] * Powers[y - x]
    BY <2>1, PowersSum
  <2>3. Powers[x] \in Nat /\ Powers[y - x] \in Nat /\ Powers[y - x] >= 1
    BY <2>1, PowersFacts
  <2>4. \A u, v \in Nat : v >= 1 => u <= u * v
    OBVIOUS
  <2>5. QED
    BY <2>2, <2>3, <2>4
<1>2. CASE a < b
  <2>1. a + 1 \in Nat /\ a + 1 <= b
    BY <1>2
  <2>2. Powers[a + 1] <= Powers[b] /\ Powers[a + 1] = 2 * Powers[a]
    BY <1>1, <2>1, PowersFacts
  <2>3. QED
    BY <1>1, <2>2
<1>3. CASE ~ (a < b)
  BY <1>1, <1>3
<1>4. QED
  BY <1>2, <1>3

(* Which power is the larger tells which exponent is. *)
LEMMA PowersOrder ==
  ASSUME NEW a \in Nat, NEW b \in Nat, Powers[a] < Powers[b]
  PROVE  a < b
<1>1. Powers[a] \in Nat /\ Powers[b] \in Nat
  BY PowersFacts
<1>2. CASE b <= a
  <2>1. Powers[b] <= Powers[a]
    BY <1>2, PowersGrow
  <2>2. QED
    BY <1>1, <2>1
<1>3. QED
  BY <1>2

(* A remainder of something small, and of a multiple. *)
LEMMA Remainders ==
  ASSUME NEW x \in Nat, NEW m \in Nat, m > 0
  PROVE  (x < m => x % m = x) /\ (x * m) % m = 0 /\ x % m \in Nat /\ x % m < m /\ x % m <= x
<1>1. (x * m) % m = 0
  OBVIOUS
<1>2. x < m => x % m = x
  OBVIOUS
<1>3. x % m \in 0 .. m - 1
  BY Euclid
<1>4. x % m <= x
  BY <1>2, <1>3
<1>5. QED
  BY <1>1, <1>2, <1>3, <1>4

(* The turns of ilog2's loop: from e on, what is returned. *)
LogTurn(n, e, next) == IF e = W - 1 THEN Hangs ELSE IF 2^e < n THEN next ELSE e
LogLoop(n, d, g)    == g = [e \in d .. (W - 1) |-> LogTurn(n, e, g[e + 1])]

(* There is such a function, by the turns before the last. *)
LEMMA LoopExists ==
  ASSUME NEW n \in Int
  PROVE  \E g : LogLoop(n, 0, g)
<1>w. W \in Nat /\ W > 4
  BY RingAssumption
<1> DEFINE T == {d \in Nat : d <= W - 1 => \E g : LogLoop(n, W - 1 - d, g)}
<1>1. 0 \in T
  <2> DEFINE g == [e \in (W - 1) .. (W - 1) |-> Hangs]
             h == [e \in (W - 1) .. (W - 1) |-> LogTurn(n, e, g[e + 1])]
  <2>1. ASSUME NEW e \in (W - 1) .. (W - 1) PROVE LogTurn(n, e, g[e + 1]) = Hangs
    <3>1. e = W - 1
      BY <1>w
    <3>2. QED
      BY <3>1, Zenon DEF LogTurn
  <2>2. g = h
    BY <2>1, Zenon
  <2>3. LogLoop(n, W - 1, g) /\ W - 1 - 0 = W - 1
    BY <1>w, <2>2 DEF LogLoop
  <2>4. QED
    BY <2>3
<1>2. \A d \in Nat : d \in T => d + 1 \in T
  <2> SUFFICES ASSUME NEW d \in Nat, d \in T, d + 1 <= W - 1
               PROVE  \E g : LogLoop(n, W - 1 - (d + 1), g)
    OBVIOUS
  <2> DEFINE c == W - 1 - (d + 1)
  <2>1. c \in Nat /\ c + 1 = W - 1 - d /\ c < W - 1
    BY <1>w
  <2>2. PICK g : LogLoop(n, c + 1, g)
    BY <1>w, <2>1
  <2> HIDE DEF c
  <2> DEFINE h == [e \in c .. (W - 1) |-> IF e = c THEN LogTurn(n, c, g[c + 1]) ELSE g[e]]
             k == [e \in c .. (W - 1) |-> LogTurn(n, e, h[e + 1])]
  <2>3. ASSUME NEW e \in c .. (W - 1) PROVE h[e] = k[e]
    <3>1. CASE e = c
      <4>1. c + 1 \in c .. (W - 1) /\ c + 1 # c
        BY <1>w, <2>1
      <4>2. h[c + 1] = g[c + 1]
        BY <4>1, Zenon
      <4>3. QED
        BY <3>1, <4>2, Zenon
    <3>2. CASE e # c
      <4>1. e \in (c + 1) .. (W - 1)
        BY <1>w, <2>1, <3>2
      <4>2. g[e] = LogTurn(n, e, g[e + 1])
        BY <2>2, <4>1, Zenon DEF LogLoop
      <4>3. CASE e = W - 1
        <5>1. g[e] = Hangs /\ LogTurn(n, e, h[e + 1]) = Hangs
          BY <4>2, <4>3, Zenon DEF LogTurn
        <5>2. QED
          BY <3>2, <5>1, Zenon
      <4>4. CASE e # W - 1
        <5>1. e + 1 \in c .. (W - 1) /\ e + 1 # c
          BY <1>w, <2>1, <4>1, <4>4
        <5>2. h[e + 1] = g[e + 1]
          BY <5>1, Zenon
        <5>3. QED
          BY <3>2, <4>2, <5>2, Zenon
      <4>5. QED
        BY <4>3, <4>4
    <3>3. QED
      BY <3>1, <3>2
  <2>4. h = k
    BY <2>3, Zenon
  <2>5. LogLoop(n, c, h)
    BY <2>4, Zenon DEF LogLoop
  <2>6. QED
    BY <2>5, Zenon DEF c
<1>3. Nat \subseteq T
  <2> HIDE DEF T
  <2>1. QED
    BY <1>1, <1>2, NumberInduction
<1>4. W - 1 \in T /\ W - 1 - (W - 1) = 0 /\ W - 1 <= W - 1
  BY <1>w, <1>3
<1>5. QED
  BY <1>4, Zenon

(* ilog2 of internal.h: the least logarithm, and no answer above 2^(W-2).  *)
LEMMA LogIsLeast ==
  ASSUME NEW n \in Int
  PROVE  /\ n <= 0 => ilog2(n) = -1
         /\ n > 0 /\ n > Powers[W - 2] => ilog2(n) = Hangs
         /\ n > 0 /\ n <= Powers[W - 2] =>
              /\ ilog2(n) \in 0 .. (W - 2) /\ n <= Powers[ilog2(n)]
              /\ \A e \in 0 .. (W - 2) : n <= Powers[e] => ilog2(n) <= e
<1>w. W \in Nat /\ W > 4 /\ W - 2 \in Nat /\ W - 1 \in Nat
  BY RingAssumption
<1>1. CASE n <= 0
  BY <1>1 DEF ilog2
<1>2. CASE n > 0
  <2> DEFINE g == CHOOSE f : LogLoop(n, 0, f)
  <2>1. LogLoop(n, 0, g)
    BY LoopExists, Zenon
  <2>2. ilog2(n) = g[0]
    <3>1. ~ (n <= 0)
      BY <1>2
    <3>2. QED
      BY <3>1, Zenon DEF ilog2, LogLoop, LogTurn
  <2> HIDE DEF g
  <2>3. ASSUME NEW e \in 0 .. (W - 1)
        PROVE  /\ e = W - 1 => g[e] = Hangs
               /\ e # W - 1 /\ Powers[e] < n => g[e] = g[e + 1]
               /\ e # W - 1 /\ ~ (Powers[e] < n) => g[e] = e
    <3>1. e \in Nat
      BY <1>w
    <3>2. g[e] = LogTurn(n, e, g[e + 1])
      BY <2>1, Zenon DEF LogLoop
    <3>3. 2^e = Powers[e]
      BY <3>1, PowersFacts, Zenon
    <3>4. QED
      BY <3>2, <3>3, Zenon DEF LogTurn
  <2>4. CASE n > Powers[W - 2]
    <3> DEFINE T == {d \in Nat : d <= W - 1 => g[W - 1 - d] = Hangs}
    <3>1. 0 \in T
      BY <1>w, <2>3
    <3>2. \A d \in Nat : d \in T => d + 1 \in T
      <4> SUFFICES ASSUME NEW d \in Nat, d \in T, d + 1 <= W - 1 PROVE g[W - 1 - (d + 1)] = Hangs
        OBVIOUS
      <4> DEFINE e == W - 1 - (d + 1)
      <4>1. e \in Nat /\ e \in 0 .. (W - 1) /\ e # W - 1 /\ e + 1 = W - 1 - d /\ e <= W - 2
        BY <1>w
      <4>2. g[e + 1] = Hangs
        BY <1>w, <4>1
      <4> HIDE DEF e
      <4>3. Powers[e] <= Powers[W - 2] /\ Powers[e] \in Nat /\ Powers[W - 2] \in Nat
        BY <1>w, <4>1, PowersGrow, PowersFacts
      <4>4. Powers[e] < n
        BY <2>4, <4>3
      <4>5. g[e] = Hangs
        BY <2>3, <4>1, <4>2, <4>4, Zenon
      <4>6. QED
        BY <4>5 DEF e
    <3>3. Nat \subseteq T
      <4> HIDE DEF T
      <4>1. QED
        BY <3>1, <3>2, NumberInduction
    <3>4. g[0] = Hangs
      <4>1. W - 1 \in T /\ W - 1 - (W - 1) = 0 /\ W - 1 <= W - 1
        BY <1>w, <3>3
      <4>2. QED
        BY <4>1, Zenon
    <3>5. ~ (n <= Powers[W - 2])
      BY <1>w, <2>4, PowersFacts
    <3>6. QED
      BY <1>2, <2>2, <3>4, <3>5
  <2>5. CASE ~ (n > Powers[W - 2])
    <3>0. n <= Powers[W - 2]
      BY <1>w, <2>5, PowersFacts
    <3> DEFINE Good(e) == /\ g[e] \in e .. (W - 2) /\ n <= Powers[g[e]]
                          /\ \A j \in e .. (W - 2) : n <= Powers[j] => g[e] <= j
               T == {d \in Nat : d <= W - 2 => Good(W - 2 - d)}
    <3>1. 0 \in T
      <4>1. g[W - 2] = W - 2
        BY <1>w, <2>3, <3>0, PowersFacts
      <4>2. QED
        BY <1>w, <3>0, <4>1
    <3>2. \A d \in Nat : d \in T => d + 1 \in T
      <4> SUFFICES ASSUME NEW d \in Nat, d \in T, d + 1 <= W - 2 PROVE Good(W - 2 - (d + 1))
        OBVIOUS
      <4> DEFINE e == W - 2 - (d + 1)
      <4>1. e \in Nat /\ e \in 0 .. (W - 1) /\ e # W - 1 /\ e + 1 = W - 2 - d /\ e <= W - 2
        BY <1>w
      <4>2. Good(e + 1)
        BY <1>w, <4>1
      <4> HIDE DEF e, T
      <4>3. Powers[e] \in Nat
        BY <4>1, PowersFacts
      <4>4. ASSUME Powers[e] < n PROVE Good(e)
        <5>1. g[e] = g[e + 1]
          BY <2>3, <4>1, <4>4, Zenon
        <5>2. ASSUME NEW j \in e .. (W - 2), n <= Powers[j] PROVE g[e] <= j
          <6>1. j # e
            <7> SUFFICES ASSUME j = e PROVE FALSE
              OBVIOUS
            <7>1. n <= Powers[e]
              BY <5>2, Zenon
            <7>2. \A x, y \in Int : ~ (x < y /\ y <= x)
              OBVIOUS
            <7>3. QED
              BY <4>3, <4>4, <7>1, <7>2
          <6>2. j \in (e + 1) .. (W - 2)
            BY <1>w, <4>1, <6>1
          <6>3. QED
            BY <4>2, <5>1, <5>2, <6>2
        <5>3. g[e] \in e .. (W - 2)
          BY <1>w, <4>1, <4>2, <5>1
        <5>4. n <= Powers[g[e]]
          BY <4>2, <5>1, Zenon
        <5>5. QED
          BY <5>2, <5>3, <5>4, Zenon
      <4>5. ASSUME ~ (Powers[e] < n) PROVE Good(e)
        <5>1. g[e] = e
          BY <2>3, <4>1, <4>5, Zenon
        <5>2. n <= Powers[g[e]]
          <6>1. \A x \in Nat, y \in Int : ~ (x < y) => y <= x
            OBVIOUS
          <6>2. n <= Powers[e]
            BY <4>3, <4>5, <6>1, Zenon
          <6>3. QED
            BY <5>1, <6>2, Zenon
        <5>3. g[e] \in e .. (W - 2) /\ \A j \in e .. (W - 2) : g[e] <= j
          BY <1>w, <4>1, <5>1
        <5>4. QED
          BY <5>2, <5>3, Zenon
      <4>6. Good(e)
        BY <4>4, <4>5, Zenon
      <4>7. QED
        BY <4>6 DEF e
    <3>3. Nat \subseteq T
      <4> HIDE DEF T
      <4>1. QED
        BY <3>1, <3>2, NumberInduction
    <3>4. Good(0)
      <4>1. W - 2 \in T /\ W - 2 - (W - 2) = 0 /\ W - 2 <= W - 2
        BY <1>w, <3>3
      <4> HIDE DEF Good
      <4>2. QED
        BY <4>1, Zenon
    <3>5. QED
      BY <1>2, <2>2, <2>5, <3>4
  <2>6. QED
    BY <2>4, <2>5
<1>3. QED
  BY <1>1, <1>2

(* A number of uint32_t read as int. *)
LEMMA Signed ==
  ASSUME NEW x \in Nat, x < Powers[W]
  PROVE  /\ U32(x) = x /\ AsInt(x) \in Int
         /\ x < Powers[W - 1] => AsInt(x) = x
         /\ x >= Powers[W - 1] => AsInt(x) < 0
<1>w. W \in Nat /\ W - 1 \in Nat /\ W = (W - 1) + 1
  BY RingAssumption
<1>1. /\ Powers[W] \in Nat /\ Powers[W] > 0 /\ Powers[W - 1] \in Nat
      /\ 2^W = Powers[W] /\ 2^(W - 1) = Powers[W - 1]
  BY <1>w, PowersFacts
<1>2. U32(x) = x
  BY <1>1, Remainders DEF U32
<1>3. AsInt(x) = IF x >= Powers[W - 1] THEN x - Powers[W] ELSE x
  BY <1>1, <1>2, Zenon DEF AsInt
<1>4. QED
  BY <1>1, <1>2, <1>3

(* The logarithms the queues compute. *)
LEMMA LogOfPower ==
  ASSUME NEW x \in Nat, x < Powers[W]
  PROVE  /\ ilog2(AsInt(x)) # Hangs => ilog2(AsInt(x)) \in -1 .. (W - 2)
         /\ \A a \in 0 .. (W - 2) : x = Powers[a] => ilog2(AsInt(x)) \in 0 .. a
<1>w. W \in Nat /\ W > 4 /\ W - 1 \in Nat /\ W - 2 \in Nat
  BY RingAssumption
<1> DEFINE l == ilog2(AsInt(x))
<1>1. AsInt(x) \in Int
  BY Signed
<1>2. /\ AsInt(x) <= 0 => l = -1
      /\ AsInt(x) > 0 /\ AsInt(x) > Powers[W - 2] => l = Hangs
      /\ AsInt(x) > 0 /\ AsInt(x) <= Powers[W - 2] =>
           /\ l \in 0 .. (W - 2)
           /\ \A e \in 0 .. (W - 2) : AsInt(x) <= Powers[e] => l <= e
  BY <1>1, LogIsLeast
<1> HIDE DEF l
<1>3. l # Hangs => l \in -1 .. (W - 2)
  BY <1>w, <1>1, <1>2, PowersFacts
<1>4. ASSUME NEW a \in 0 .. (W - 2), x = Powers[a] PROVE l \in 0 .. a
  <2>1. a \in Nat /\ a <= W - 2 /\ a < W - 1 /\ W - 2 < W - 1
    BY <1>w
  <2>0. Powers[a] > 0 /\ Powers[a] \in Nat /\ Powers[W - 1] \in Nat
    BY <1>w, <2>1, PowersFacts, Zenon
  <2>g. Powers[a] <= Powers[W - 2]
    BY <1>w, <2>1, PowersGrow, Zenon
  <2>h. a <= W - 1
    BY <1>w, <2>1
  <2>i. 2 * Powers[a] <= Powers[W - 1]
    BY <1>w, <2>1, <2>h, PowersGrow, Zenon
  <2>2. /\ Powers[a] <= Powers[W - 2] /\ Powers[a] > 0 /\ Powers[a] \in Nat
        /\ 2 * Powers[a] <= Powers[W - 1] /\ Powers[W - 1] \in Nat
    BY <2>0, <2>g, <2>i
  <2>3. Powers[a] < Powers[W - 1]
    BY <2>2
  <2>4. AsInt(x) = Powers[a]
    BY <1>4, <2>3, Signed
  <2>5. l \in 0 .. (W - 2) /\ l <= a
    BY <1>2, <2>2, <2>4
  <2>6. QED
    BY <1>w, <2>1, <2>5
<1>5. QED
  BY <1>3, <1>4 DEF l

(* A field of the device holds no more than what is put into it. *)
LEMMA FieldBounds ==
  ASSUME NEW x \in Int, NEW m \in Nat, m > 0
  PROVE  /\ Field(x, m) \in 0 .. (m - 1)
         /\ x >= 0 => Field(x, m) <= x
<1>1. x % m \in 0 .. (m - 1)
  OBVIOUS
<1>2. x >= 0 => x % m <= x
  BY Remainders
<1>3. QED
  BY <1>1, <1>2 DEF Field

(* 16 and 64 are powers of two. *)
LEMMA SomePowers == Powers[4] = 16 /\ Powers[6] = 64
<1>1. Powers[1] = 2
  BY PowersFacts
<1>2. Powers[2] = 4
  BY <1>1, PowersFacts
<1>3. Powers[3] = 8
  BY <1>2, PowersFacts
<1>4. Powers[4] = 16
  BY <1>3, PowersFacts
<1>5. Powers[5] = 32
  BY <1>4, PowersFacts
<1>6. Powers[6] = 64
  BY <1>5, PowersFacts
<1>7. QED
  BY <1>4, <1>6

(* A power of two in W bits: itself, or nothing. *)
LEMMA PowerInWord ==
  ASSUME NEW k \in Nat
  PROVE  U32(Powers[k]) = IF k < W THEN Powers[k] ELSE 0
<1>w. W \in Nat
  BY RingAssumption
<1>1. Powers[W] \in Nat /\ Powers[W] > 0 /\ Powers[k] \in Nat /\ 2^W = Powers[W]
  BY <1>w, PowersFacts
<1>2. CASE k < W
  <2>0. k <= W
    BY <1>w, <1>2
  <2>g. 2 * Powers[k] <= Powers[W]
    BY <1>w, <1>2, <2>0, PowersGrow, Zenon
  <2>1. 2 * Powers[k] <= Powers[W] /\ Powers[k] > 0
    BY <2>g, PowersFacts, Zenon
  <2>2. Powers[k] < Powers[W]
    BY <1>1, <2>1
  <2>3. QED
    BY <1>1, <1>2, <2>2, Remainders DEF U32
<1>3. CASE ~ (k < W)
  <2>1. k - W \in Nat /\ k = (k - W) + W
    BY <1>w, <1>3
  <2>2. Powers[k] = Powers[k - W] * Powers[W] /\ Powers[k - W] \in Nat
    BY <1>w, <2>1, PowersSum, PowersFacts
  <2>3. Powers[k] % Powers[W] = 0
    BY <1>1, <2>2, Remainders
  <2>4. QED
    BY <1>1, <1>3, <2>3 DEF U32
<1>4. QED
  BY <1>2, <1>3

(* The bytes of a work queue of 2^b segments of 16 bytes, 2^a times. *)
LEMMA BytesOfPowers ==
  ASSUME NEW a \in Nat, NEW b \in Nat
  PROVE  /\ WqBytes(Powers[a], Powers[b]) = IF a + b + 4 < W THEN Powers[a + b + 4] ELSE 0
         /\ RegularStride(Powers[b]) = IF b + 4 < W THEN Powers[b + 4] ELSE 0
<1> DEFINE p == Powers[a]
           q == Powers[b]
<1>1. b + 4 \in Nat /\ a + (b + 4) \in Nat /\ a + (b + 4) = a + b + 4
  OBVIOUS
<1>a. p \in Nat /\ q \in Nat
  BY PowersFacts, Zenon
<1>b. 4 \in Nat
  OBVIOUS
<1>c. Powers[b + 4] = q * Powers[4] /\ Powers[a + (b + 4)] = p * Powers[b + 4]
  BY <1>1, <1>b, PowersSum, Zenon
<1>2. p \in Nat /\ q \in Nat /\ Powers[b + 4] = q * 16 /\ Powers[a + (b + 4)] = p * Powers[b + 4]
  BY <1>a, <1>c, SomePowers
<1>3. Powers[b + 4] = 16 * q /\ Powers[a + b + 4] = p * (q * 16)
  BY <1>1, <1>2
<1> HIDE DEF p, q
<1>4. p * (q * 16) = 16 * q * p
  BY <1>2
<1>5. 16 * q * p = Powers[a + b + 4]
  BY <1>3, <1>4
<1>6. /\ WqBytes(p, q) = IF a + b + 4 < W THEN Powers[a + b + 4] ELSE 0
      /\ RegularStride(q) = IF b + 4 < W THEN Powers[b + 4] ELSE 0
  BY <1>1, <1>3, <1>5, PowerInWord DEF WqBytes, RegularStride
<1>7. QED
  BY <1>6 DEF p, q

(* What RingFits says of the addresses of a ring. *)
Addressed(n, sz, buf, stride, num) ==
  IsPow2(n) /\ IsPow2(sz) =>
    \E b \in 0 .. W : 2^b <= buf /\ Field(stride, StrideField) + Field(num, NumField) <= b

(* A buffer of 2^k bytes holds what is addressed by logarithms up to k. *)
LEMMA RingHolds ==
  ASSUME NEW s \in Int, NEW t \in Int, NEW i \in Nat, NEW j \in Nat, i + j < W,
         Field(s, StrideField) <= i, t \in 0 .. j
  PROVE  \E b \in 0 .. W : 2^b <= Powers[i + j] /\ Field(s, StrideField) + Field(t, NumField) <= b
<1>1. W \in Nat /\ StrideField \in Nat /\ StrideField > 0 /\ NumField \in Nat /\ NumField > 0
  BY RingAssumption
<1>2. i + j \in 0 .. W /\ i + j \in Nat
  BY <1>1
<1>3. 2^(i + j) = Powers[i + j] /\ Powers[i + j] \in Nat
  BY <1>2, PowersFacts, Zenon
<1>4. Field(t, NumField) \in Int /\ Field(t, NumField) <= t /\ Field(s, StrideField) \in Int
  BY <1>1, FieldBounds
<1>5. Field(s, StrideField) + Field(t, NumField) <= i + j
  BY <1>4
<1>6. 2^(i + j) <= Powers[i + j]
  <2> DEFINE p == Powers[i + j]
  <2>1. p \in Nat /\ 2^(i + j) = p
    BY <1>3
  <2> HIDE DEF p
  <2>2. p <= p
    BY <2>1
  <2>3. QED
    BY <2>1, <2>2 DEF p
<1>7. QED
  BY <1>2, <1>5, <1>6, Zenon

(* The rings of receive and send queues: the stride is computed from the   *)
(* segments of an entry, or from its bytes.                                *)
LEMMA WqAddressed ==
  ASSUME NEW n \in Nat, NEW sz \in Nat, n < Powers[W], sz < Powers[W],
         WqBytes(n, sz) # 0, ilog2(AsInt(n)) # Hangs,
         NEW x \in {sz, RegularStride(sz)}, ilog2(AsInt(x)) # Hangs
  PROVE  Addressed(n, sz, WqBytes(n, sz), ilog2(AsInt(x)), ilog2(AsInt(n)))
<1> SUFFICES ASSUME IsPow2(n), IsPow2(sz)
             PROVE  \E b \in 0 .. W : /\ 2^b <= WqBytes(n, sz)
                                      /\ Field(ilog2(AsInt(x)), StrideField) + Field(ilog2(AsInt(n)), NumField) <= b
  BY Zenon DEF Addressed
<1>w. W \in Nat /\ W > 4 /\ StrideField \in 1 .. W /\ StrideField \in Nat /\ StrideField > 0
  BY RingAssumption
<1>1. PICK a \in 0 .. W : n = 2^a
  BY Zenon DEF IsPow2
<1>2. PICK b \in 0 .. W : sz = 2^b
  BY Zenon DEF IsPow2
<1>3. a \in Nat /\ b \in Nat
  BY <1>w
<1>4. n = Powers[a] /\ sz = Powers[b]
  BY <1>1, <1>2, <1>3, PowersFacts, Zenon
<1>5. a + b + 4 < W /\ WqBytes(n, sz) = Powers[a + b + 4]
  <2>1. WqBytes(n, sz) = IF a + b + 4 < W THEN Powers[a + b + 4] ELSE 0
    BY <1>3, <1>4, BytesOfPowers, Zenon
  <2>2. QED
    BY <2>1, Zenon
<1>6. a \in 0 .. (W - 2) /\ b \in 0 .. (W - 2) /\ b + 4 < W /\ b + 4 \in Nat
  BY <1>w, <1>3, <1>5
<1>7. ilog2(AsInt(n)) \in 0 .. a
  BY <1>4, <1>6, LogOfPower, Zenon
<1>8. x \in Nat /\ x < Powers[W] /\ (x = Powers[b] \/ x = Powers[b + 4])
  <2>1. CASE x = sz
    BY <1>4, <2>1
  <2>2. CASE x = RegularStride(sz)
    <3>1. x = Powers[b + 4]
      BY <1>3, <1>4, <1>6, <2>2, BytesOfPowers
    <3>2. b + 4 <= W
      BY <1>w, <1>6
    <3>3. 2 * Powers[b + 4] <= Powers[W]
      BY <1>w, <1>6, <3>2, PowersGrow, Zenon
    <3>4. Powers[b + 4] \in Nat /\ Powers[b + 4] > 0 /\ Powers[W] \in Nat
      BY <1>w, <1>6, PowersFacts, Zenon
    <3>5. QED
      BY <3>1, <3>3, <3>4
  <2>3. QED
    BY <2>1, <2>2
<1> DEFINE s == ilog2(AsInt(x))
           t == ilog2(AsInt(n))
<1>9. s \in -1 .. (W - 2)
  BY <1>8, LogOfPower, Zenon
<1> HIDE DEF s
<1>10. ASSUME NEW c \in {b, b + 4}, x = Powers[c] PROVE Field(s, StrideField) <= b + 4
  <2>1. CASE c <= W - 2
    <3>1. c \in 0 .. (W - 2)
      BY <1>w, <1>3, <2>1
    <3>2. s \in 0 .. c
      BY <1>8, <1>10, <3>1, LogOfPower, Zenon DEF s
    <3>a. s \in Int /\ s >= 0
      BY <1>3, <3>2
    <3>b. Field(s, StrideField) <= s /\ Field(s, StrideField) \in 0 .. (StrideField - 1)
      BY <1>w, <3>a, FieldBounds, Zenon
    <3>3. Field(s, StrideField) <= s /\ Field(s, StrideField) \in Int
      BY <3>b
    <3>4. c \in Int /\ c <= b + 4 /\ s \in Int /\ s <= c
      BY <1>3, <1>6, <3>1, <3>2
    <3> DEFINE f == Field(s, StrideField)
    <3>5. f \in Int /\ f <= s
      BY <3>3
    <3> HIDE DEF f
    <3>6. f <= b + 4
      BY <1>3, <3>4, <3>5
    <3>7. QED
      BY <3>6 DEF f
  <2>2. CASE ~ (c <= W - 2)
    <3>1. b + 4 = W - 1
      BY <1>w, <1>3, <1>6, <2>2
    <3>2. s \in Int
      BY <1>w, <1>9
    <3> DEFINE f == Field(s, StrideField)
    <3>3. f \in 0 .. (StrideField - 1)
      BY <1>w, <3>2, FieldBounds, Zenon
    <3> HIDE DEF f
    <3>4. f <= b + 4
      BY <1>w, <3>1, <3>3
    <3>5. QED
      BY <3>4 DEF f
  <2>3. QED
    BY <2>1, <2>2
<1>11. Field(s, StrideField) <= b + 4
  BY <1>8, <1>10
<1>12. s \in Int /\ t \in Int /\ (b + 4) + a = a + b + 4 /\ (b + 4) + a < W
  BY <1>w, <1>3, <1>5, <1>7, <1>9
<1> HIDE DEF t
<1>13. t \in 0 .. a
  BY <1>7 DEF t
<1>14. \E k \in 0 .. W : 2^k <= Powers[(b + 4) + a] /\ Field(s, StrideField) + Field(t, NumField) <= k
  BY <1>3, <1>6, <1>11, <1>12, <1>13, RingHolds, Zenon
<1>15. QED
  BY <1>5, <1>12, <1>14 DEF s, t

(* The ring of a completion queue. *)
LEMMA CqAddressed ==
  ASSUME NEW n \in Nat, n <= MAX_CQ_SZ, NEW sz
  PROVE  /\ n < Powers[W] /\ U32(64 * n) = 64 * n
         /\ Addressed(n, sz, 64 * n, 6, ilog2(AsInt(n)))
<1>w. W \in Nat /\ W > 4 /\ StrideField \in Nat /\ StrideField > 0 /\ MAX_CQ_SZ \in Nat
  BY RingAssumption
<1>0. 2^W = Powers[W] /\ Powers[W] \in Nat /\ Powers[W] > 0
  BY <1>w, PowersFacts, Zenon
<1>1. 64 * MAX_CQ_SZ < Powers[W]
  BY <1>0, RingAssumption
<1>2. n < Powers[W] /\ 64 * n < Powers[W] /\ 64 * n \in Nat
  BY <1>w, <1>0, <1>1
<1>3. U32(64 * n) = 64 * n
  BY <1>0, <1>2, Remainders DEF U32
<1>4. ASSUME IsPow2(n)
      PROVE  \E b \in 0 .. W : /\ 2^b <= 64 * n
                               /\ Field(6, StrideField) + Field(ilog2(AsInt(n)), NumField) <= b
  <2>1. PICK a \in 0 .. W : n = 2^a
    BY <1>4, Zenon DEF IsPow2
  <2>2. a \in Nat /\ 6 + a \in Nat /\ 6 \in Nat
    BY <1>w
  <2>3. n = Powers[a]
    BY <2>1, <2>2, PowersFacts, Zenon
  <2>4. Powers[6 + a] = Powers[6] * Powers[a]
    BY <2>2, PowersSum, Zenon
  <2>5. 64 * n = Powers[6 + a]
    BY <2>3, <2>4, SomePowers, Zenon
  <2>6. Powers[6 + a] < Powers[W]
    BY <1>2, <2>5
  <2>7. 6 + a < W
    BY <1>w, <2>2, <2>6, PowersOrder, Zenon
  <2>8. a \in 0 .. (W - 2)
    BY <1>w, <2>2, <2>7
  <2> DEFINE t == ilog2(AsInt(n))
  <2>9. t \in 0 .. a
    BY <1>2, <2>3, <2>8, LogOfPower, Zenon
  <2> HIDE DEF t
  <2>10. 6 \in Int /\ t \in Int /\ Field(6, StrideField) <= 6
    BY <1>w, <2>2, <2>9, FieldBounds
  <2>11. \E b \in 0 .. W : 2^b <= Powers[6 + a] /\ Field(6, StrideField) + Field(t, NumField) <= b
    BY <2>2, <2>7, <2>9, <2>10, RingHolds, Zenon
  <2>12. QED
    BY <2>5, <2>11 DEF t
<1>5. QED
  BY <1>2, <1>3, <1>4, Zenon DEF Addressed

(* The whole pages that are allocated for a receive queue hold its bytes. *)
LEMMA PagesHold ==
  ASSUME NEW buf \in Nat
  PROVE  buf <= RqAllocated(buf)
<1> DEFINE p == Page
           x == buf + p - 1
           q == x \div p
           r == x % p
<1>1. p \in Nat /\ p > 0
  BY RingAssumption
<1> HIDE DEF p
<1>2. x \in Nat
  BY <1>1
<1>3. x = p * q + r /\ q \in Nat /\ r \in 0 .. p - 1
  BY <1>1, <1>2, Euclid, Zenon
<1>4. x = buf + p - 1
  OBVIOUS
<1> HIDE DEF x, q, r
<1> DEFINE pq == p * q
           qp == q * p
<1>5. pq \in Int /\ qp = pq
  BY <1>1, <1>3
<1>6. x = pq + r
  BY <1>3
<1> HIDE DEF pq
<1>7. buf <= pq
  BY <1>1, <1>3, <1>4, <1>5, <1>6
<1>8. RqAllocated(buf) = qp
  BY Zenon DEF RqAllocated, q, x, p
<1>9. QED
  BY <1>5, <1>7, <1>8, Zenon

(* What RingFits says of the outcome of a creation. *)
RingOk(op, n, sz, out) ==
  out.ret = "DPCP_OK" =>
    /\ IsPow2(n) /\ IsPow2(sz) => \E b \in 0 .. W : 2^b <= out.buf /\ out.log_stride + out.log_num <= b
    /\ out.buf <= out.alloc
    /\ op = "striding_rq" => out.log_sn \in 0 .. 15 /\ out.log_ss \in 0 .. 7

(* A creation whose outcome is as it says. *)
LEMMA CallFits ==
  ASSUME NEW op \in {"cq", "striding_rq", "regular_rq", "pp_sq"}, NEW n, NEW sz, NEW out,
         RingCall(op, n, sz, out), RingOk(op, n, sz, out)
  PROVE  RingFits'
<1>1. last' = [op |-> op, in |-> [num |-> n, sz |-> sz], out |-> out]
  BY Zenon DEF RingCall, Call
<1>2. /\ last'.op = op /\ last'.in.num = n /\ last'.in.sz = sz /\ last'.out = out
      /\ op # "ilog2"
  BY <1>1
<1>3. QED
  BY <1>2, Zenon DEF RingFits, IsRing, Created, RingOk, IsPow2

(* A ring that holds what is addressed and is held by what is allocated. *)
LEMMA RingIsOk ==
  ASSUME NEW op, op # "striding_rq", NEW n, NEW sz, NEW buf, NEW alloc, NEW stride, NEW num,
         Addressed(n, sz, buf, stride, num), buf <= alloc
  PROVE  RingOk(op, n, sz, Ring(buf, alloc, stride, num))
<1> DEFINE out == Ring(buf, alloc, stride, num)
<1>1. /\ out.buf = buf /\ out.alloc = alloc
      /\ out.log_stride = Field(stride, StrideField) /\ out.log_num = Field(num, NumField)
  BY DEF Ring
<1> HIDE DEF out
<1>2. RingOk(op, n, sz, out)
  BY <1>1, Zenon DEF RingOk, Addressed
<1>3. QED
  BY <1>2 DEF out

(* The same of a striding queue. *)
LEMMA StridedIsOk ==
  ASSUME NEW n, NEW sz, NEW buf, NEW alloc, NEW stride, NEW num,
         NEW log_sn \in 0 .. 15, NEW log_ss \in 0 .. 7,
         Addressed(n, sz, buf, stride, num), buf <= alloc
  PROVE  RingOk("striding_rq", n, sz, Strided(Ring(buf, alloc, stride, num), log_sn, log_ss))
<1> DEFINE ring == Ring(buf, alloc, stride, num)
           out == Strided(ring, log_sn, log_ss)
<1>1. /\ ring.buf = buf /\ ring.alloc = alloc
      /\ ring.log_stride = Field(stride, StrideField) /\ ring.log_num = Field(num, NumField)
  BY DEF Ring
<1> HIDE DEF ring
<1>2. /\ out.buf = ring.buf /\ out.alloc = ring.alloc /\ out.log_stride = ring.log_stride
      /\ out.log_num = ring.log_num /\ out.log_sn = log_sn /\ out.log_ss = log_ss
  BY DEF Strided
<1> HIDE DEF out
<1>3. RingOk("striding_rq", n, sz, out)
  BY <1>1, <1>2, Zenon DEF RingOk, Addressed
<1>4. QED
  BY <1>3 DEF out, ring

(* A refusal, and a call that does not return. *)
LEMMA NoRing ==
  ASSUME NEW op, NEW n, NEW sz
  PROVE  RingOk(op, n, sz, Refused) /\ RingOk(op, n, sz, Hung)
<1>1. Refused.ret # "DPCP_OK" /\ Hung.ret # "DPCP_OK"
  BY DEF Refused, Hung
<1>2. QED
  BY <1>1, Zenon DEF RingOk

(* What Unless gives. *)
LEMMA UnlessGives ==
  ASSUME NEW logs, NEW outcome
  PROVE  \/ Unless(logs, outcome) = Hung
         \/ Unless(logs, outcome) = outcome /\ Hangs \notin logs
BY Zenon DEF Unless

(* Arguments are numbers of uint32_t. *)
LEMMA Arguments ==
  \A x : x \in NumArg \/ x \in SzArg \/ x \in StrideNumArg \/ x \in StrideSzArg =>
           x \in Nat /\ x < Powers[W]
<1>1. W \in Nat
  BY RingAssumption
<1>2. 2^W = Powers[W]
  BY <1>1, PowersFacts, Zenon
<1>3. \A args \in {NumArg, SzArg, StrideNumArg, StrideSzArg} : \A x \in args : x \in Nat /\ x < 2^W
  BY RingAssumption
<1>4. QED
  BY <1>2, <1>3, Zenon

(* The steps that make a ring. *)
LEMMA StepCq == ASSUME NEW n \in NumArg, create_cq(n) PROVE RingFits'
<1> DEFINE buf == U32(64 * n)
           log == ilog2(AsInt(n))
           ring == Ring(buf, CqAllocated(buf), 6, log)
           out == IF n = 0 \/ ~Registrable(buf) \/ n > MAX_CQ_SZ THEN Refused ELSE Unless({log}, ring)
<1>1. RingCall("cq", n, 64, out)
  BY Zenon DEF create_cq
<1>2. n \in Nat
  BY Arguments, Zenon
<1>3. ASSUME ~ (n > MAX_CQ_SZ) PROVE RingOk("cq", n, 64, ring)
  <2>1. n <= MAX_CQ_SZ
    BY <1>2, <1>3, RingAssumption
  <2>2. Addressed(n, 64, buf, 6, log)
    BY <1>2, <2>1, CqAddressed
  <2>3. buf = 64 * n
    BY <1>2, <2>1, CqAddressed
  <2>4. buf <= CqAllocated(buf)
    BY <1>2, <2>3 DEF CqAllocated
  <2> HIDE DEF buf, log
  <2>5. QED
    BY <2>2, <2>4, RingIsOk, Zenon
<1> HIDE DEF ring, buf, log
<1>4. out \in {Refused, Hung, ring} /\ (out = ring => ~ (n > MAX_CQ_SZ) \/ ring \in {Refused, Hung})
  BY UnlessGives, Zenon
<1>5. RingOk("cq", n, 64, out)
  <2> HIDE DEF out
  <2>1. QED
    BY <1>3, <1>4, NoRing, Zenon
<1>6. QED
  <2> HIDE DEF out
  <2>1. QED
    BY <1>1, <1>5, CallFits, Zenon

(* What a work queue of n entries of sz segments is made of. *)
LEMMA WqRing ==
  ASSUME NEW n \in NumArg, NEW sz \in SzArg, NEW x \in {sz, RegularStride(sz)}, NEW alloc,
         alloc \in {SqAllocated(WqBytes(n, sz)), RqAllocated(WqBytes(n, sz))},
         Registrable(WqBytes(n, sz)), Hangs \notin {ilog2(AsInt(x)), ilog2(AsInt(n))}
  PROVE  /\ Addressed(n, sz, WqBytes(n, sz), ilog2(AsInt(x)), ilog2(AsInt(n)))
         /\ WqBytes(n, sz) <= alloc
<1>1. n \in Nat /\ sz \in Nat /\ n < Powers[W] /\ sz < Powers[W]
  BY Arguments, Zenon
<1>2. WqBytes(n, sz) # 0
  BY Zenon DEF Registrable
<1>3. Addressed(n, sz, WqBytes(n, sz), ilog2(AsInt(x)), ilog2(AsInt(n)))
  BY <1>1, <1>2, WqAddressed, Zenon
<1>4. WqBytes(n, sz) \in Nat
  <2>1. W \in Nat
    BY RingAssumption
  <2>2. 2^W = Powers[W] /\ Powers[W] \in Nat /\ Powers[W] > 0
    BY <2>1, PowersFacts, Zenon
  <2> DEFINE y == 16 * sz * n
  <2>3. y \in Nat
    BY <1>1
  <2> HIDE DEF y
  <2>4. y % Powers[W] \in Nat
    BY <2>2, <2>3, Remainders, Zenon
  <2>5. QED
    BY <2>2, <2>4, Zenon DEF WqBytes, U32, y
<1> DEFINE buf == WqBytes(n, sz)
<1> HIDE DEF buf
<1>5. buf \in Nat /\ alloc \in {SqAllocated(buf), RqAllocated(buf)}
  BY <1>4, Zenon DEF buf
<1>6. buf <= SqAllocated(buf) /\ buf <= RqAllocated(buf)
  BY <1>5, PagesHold DEF SqAllocated
<1>7. buf <= alloc
  BY <1>5, <1>6, Zenon
<1>8. QED
  BY <1>3, <1>7 DEF buf

(* regular_rq::create *)
LEMMA StepRegular ==
  ASSUME NEW n \in NumArg, NEW sz \in SzArg, create_regular(n, sz) PROVE RingFits'
<1> DEFINE buf == WqBytes(n, sz)
           s == ilog2(AsInt(RegularStride(sz)))
           t == ilog2(AsInt(n))
           ring == Ring(buf, RqAllocated(buf), s, t)
           out == IF ~Registrable(buf) THEN Refused ELSE Unless({s, t}, ring)
<1>1. RingCall("regular_rq", n, sz, out)
  BY Zenon DEF create_regular
<1>2. ASSUME Registrable(buf), Hangs \notin {s, t} PROVE RingOk("regular_rq", n, sz, ring)
  <2>1. Addressed(n, sz, buf, s, t) /\ buf <= RqAllocated(buf)
    BY <1>2, WqRing, Zenon
  <2> HIDE DEF buf, s, t
  <2>2. QED
    BY <2>1, RingIsOk, Zenon
<1> HIDE DEF ring, buf, s, t
<1>3. out \in {Refused, Hung} \/ (out = ring /\ Registrable(buf) /\ Hangs \notin {s, t})
  BY UnlessGives, Zenon
<1> HIDE DEF out
<1>4. RingOk("regular_rq", n, sz, out)
  BY <1>2, <1>3, NoRing, Zenon
<1>5. QED
  BY <1>1, <1>4, CallFits, Zenon

(* pp_sq::create *)
LEMMA StepSq ==
  ASSUME NEW n \in NumArg, NEW sz \in SzArg, create_sq(n, sz) PROVE RingFits'
<1> DEFINE buf == WqBytes(n, sz)
           s == ilog2(AsInt(sz))
           t == ilog2(AsInt(n))
           ring == Ring(buf, SqAllocated(buf), s, t)
           out == IF ~Registrable(buf) THEN Refused ELSE Unless({s, t}, ring)
<1>1. RingCall("pp_sq", n, sz, out)
  BY Zenon DEF create_sq
<1>2. ASSUME Registrable(buf), Hangs \notin {s, t} PROVE RingOk("pp_sq", n, sz, ring)
  <2>1. Addressed(n, sz, buf, s, t) /\ buf <= SqAllocated(buf)
    BY <1>2, WqRing, Zenon
  <2> HIDE DEF buf, s, t
  <2>2. QED
    BY <2>1, RingIsOk, Zenon
<1> HIDE DEF ring, buf, s, t
<1>3. out \in {Refused, Hung} \/ (out = ring /\ Registrable(buf) /\ Hangs \notin {s, t})
  BY UnlessGives, Zenon
<1> HIDE DEF out
<1>4. RingOk("pp_sq", n, sz, out)
  BY <1>2, <1>3, NoRing, Zenon
<1>5. QED
  BY <1>1, <1>4, CallFits, Zenon

(* striding_rq::create *)
LEMMA StepStriding ==
  ASSUME NEW n \in NumArg, NEW sz \in SzArg, NEW sn \in StrideNumArg, NEW ss \in StrideSzArg,
         create_striding(n, sz, sn, ss)
  PROVE  RingFits'
<1> DEFINE buf == WqBytes(n, sz)
           s == ilog2(AsInt(sz))
           t == ilog2(AsInt(n))
           u == ilog2(AsInt(sn))
           v == ilog2(AsInt(ss))
           ring == Strided(Ring(buf, RqAllocated(buf), s, t), u - 9, v - 6)
           laid == IF ~InRange(v, 6, 13) THEN Refused ELSE ring
           ranged == IF ~InRange(u, 9, 16) THEN Refused ELSE Unless({v}, laid)
           out == IF ~Registrable(buf) THEN Refused ELSE Unless({s, t, u}, ranged)
<1>1. RingCall("striding_rq", n, sz, out)
  BY Zenon DEF create_striding
<1>2. W \in Nat /\ (u # Hangs => u \in -1 .. (W - 2)) /\ (v # Hangs => v \in -1 .. (W - 2))
  BY Arguments, LogOfPower, RingAssumption, Zenon
<1>3. ASSUME Registrable(buf), Hangs \notin {s, t, u}, InRange(u, 9, 16), Hangs \notin {v}, InRange(v, 6, 13)
      PROVE  RingOk("striding_rq", n, sz, ring)
  <2>1. Addressed(n, sz, buf, s, t) /\ buf <= RqAllocated(buf)
    BY <1>3, WqRing, Zenon
  <2> HIDE DEF buf, s, t, u, v
  <2>2. u - 9 \in 0 .. 15 /\ v - 6 \in 0 .. 7
    BY <1>2, <1>3 DEF InRange
  <2>3. QED
    BY <2>1, <2>2, StridedIsOk, Zenon
<1> HIDE DEF ring, buf, s, t, u, v
<1>4. \/ out \in {Refused, Hung}
      \/ /\ out = ring /\ Registrable(buf) /\ Hangs \notin {s, t, u} /\ InRange(u, 9, 16)
         /\ Hangs \notin {v} /\ InRange(v, 6, 13)
  <2>1. out \in {Refused, Hung} \/ (out = ranged /\ Registrable(buf) /\ Hangs \notin {s, t, u})
    <3> HIDE DEF ranged
    <3>1. QED
      BY UnlessGives, Zenon
  <2>2. ranged \in {Refused, Hung} \/ (ranged = laid /\ InRange(u, 9, 16) /\ Hangs \notin {v})
    <3> HIDE DEF laid
    <3>1. QED
      BY UnlessGives, Zenon
  <2>3. laid = Refused \/ (laid = ring /\ InRange(v, 6, 13))
    BY Zenon
  <2> HIDE DEF out, ranged, laid
  <2>4. QED
    BY <2>1, <2>2, <2>3, Zenon
<1> HIDE DEF out, ranged, laid
<1>5. RingOk("striding_rq", n, sz, out)
  BY <1>3, <1>4, NoRing, Zenon
<1>6. QED
  BY <1>1, <1>5, CallFits, Zenon

(* ilog2 by itself *)
LEMMA StepLog == ASSUME NEW n \in LogArg, log2(n) PROVE RingFits'
<1> DEFINE l == ilog2(n)
<1>1. last' = [op |-> "ilog2", in |-> [num |-> n, sz |-> 0], out |-> [ret |-> l]]
  BY Zenon DEF log2, RingCall, Call
<1>2. last'.op = "ilog2" /\ last'.in.num = n /\ last'.out.ret = l
  BY <1>1
<1>3. n \in Int /\ W \in Nat /\ W > 4 /\ W - 2 \in Nat
  BY RingAssumption
<1>4. 2^(W - 2) = Powers[W - 2] /\ Powers[W - 2] \in Nat
  BY <1>3, PowersFacts, Zenon
<1>5. /\ n > 0 /\ n > Powers[W - 2] => l = Hangs
      /\ n > 0 /\ n <= Powers[W - 2] =>
           /\ l \in 0 .. (W - 2) /\ n <= Powers[l]
           /\ \A e \in 0 .. (W - 2) : n <= Powers[e] => l <= e
  BY <1>3, LogIsLeast
<1> HIDE DEF l
<1>6. ASSUME n > 0
      PROVE  IF n > 2^(W - 2) THEN l = Hangs
             ELSE /\ l \in 0 .. (W - 2) /\ n <= 2^l
                  /\ \A e \in 0 .. (W - 2) : n <= 2^e => l <= e
  <2>1. CASE n > Powers[W - 2]
    BY <1>4, <1>5, <1>6, <2>1, Zenon
  <2>2. CASE ~ (n > Powers[W - 2])
    <3>1. n <= Powers[W - 2]
      BY <1>3, <1>4, <2>2
    <3>2. \A e \in 0 .. (W - 2) : e \in Nat
      BY <1>3
    <3>3. \A e \in 0 .. (W - 2) : 2^e = Powers[e]
      BY <3>2, PowersFacts, Zenon
    <3>4. l \in 0 .. (W - 2) /\ n <= Powers[l] /\ \A e \in 0 .. (W - 2) : n <= Powers[e] => l <= e
      BY <1>5, <1>6, <3>1, Zenon
    <3>5. QED
      BY <1>4, <2>2, <3>3, <3>4, Zenon
  <2>3. QED
    BY <2>1, <2>2, Zenon
<1>7. last'.op \notin {"cq", "striding_rq", "regular_rq", "pp_sq"}
  BY <1>2
<1>8. QED
  BY <1>2, <1>6, <1>7, Zenon DEF RingFits, IsRing, Created

(* RingFits for every width, every field of the device and every argument. *)
THEOREM RingFitsHolds == RingSpec => []RingFits
<1>1. CallsInit => RingFits
  BY DEF CallsInit, NoCall, RingFits, IsRing, Created
<1>2. RingFits /\ [RingNext \/ Return]_last => RingFits'
  <2>1. CASE RingNext
    BY <2>1, StepCq, StepRegular, StepSq, StepStriding, StepLog, Zenon DEF RingNext
  <2>2. CASE Return
    <3>1. last' = NoCall
      BY <2>2, Zenon DEF Return
    <3>2. QED
      BY <3>1, Zenon DEF NoCall, RingFits, IsRing, Created
  <2>3. ASSUME RingFits, last' = last PROVE RingFits'
    BY <2>3, Zenon DEF RingFits, IsRing, Created, IsPow2
  <2>4. QED
    BY <2>1, <2>2, <2>3
<1>3. QED
  BY <1>1, <1>2, PTL DEF RingSpec
=============================================================================
