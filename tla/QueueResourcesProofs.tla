------------------------ MODULE QueueResourcesProofs ------------------------
(***************************************************************************)
(* The pool of UARs of an adapter and what its queues own, for any number  *)
(* of queues, keys and UARs: that the pool implements its service, the     *)
(* properties of QueueResources, and that the queues use the pool as       *)
(* UarPool has it.                                                         *)
(***************************************************************************)
EXTENDS QueueResources, TLAPS

----------------------------------------------------------------------------
(* The pool of UARs, for any keys and UARs. *)

(* The inductive invariant holds of the empty collection. *)
LEMMA InitIInv == Init => IInv
  BY NullAssumption DEF Init, IInv, TypeOK, EntriesDistinct, EntriesLive, SharersGotShared,
     PoolKnowsHolders, UarsOf, Entry

(* Every get_uar, release_uar and the destructor preserve it. *)
LEMMA StepIInv == IInv /\ [Next]_vars => IInv'
<1> SUFFICES ASSUME IInv, [Next]_vars PROVE IInv'
  OBVIOUS
<1> USE NullAssumption
<1>1. ASSUME NEW k \in Key, GetSharedFirst(k) PROVE IInv'
  BY <1>1 DEF GetSharedFirst, allocate, IInv, TypeOK, EntriesDistinct, EntriesLive,
     SharersGotShared, PoolKnowsHolders, UarsOf, Entry
<1>2. ASSUME NEW k \in Key, GetSharedAgain(k) PROVE IInv'
  BY <1>2 DEF GetSharedAgain, IInv, TypeOK, EntriesDistinct, EntriesLive,
     SharersGotShared, PoolKnowsHolders, UarsOf, Entry
<1>3. ASSUME NEW k \in Key, GetExclusiveKnown(k) PROVE IInv'
  BY <1>3 DEF GetExclusiveKnown, pool, IInv, TypeOK, EntriesDistinct, EntriesLive,
     SharersGotShared, PoolKnowsHolders, UarsOf, Entry
<1>4. ASSUME NEW k \in Key, GetExclusiveFree(k) PROVE IInv'
  BY <1>4 DEF GetExclusiveFree, IInv, TypeOK, EntriesDistinct, EntriesLive,
     SharersGotShared, PoolKnowsHolders, UarsOf, Entry
<1>5. ASSUME NEW k \in Key, GetExclusiveNew(k) PROVE IInv'
  <2>1. PICK u \in allocate :
          /\ m_ex_uars' = [e \in Entry |->
                IF e = <<k, u>> THEN m_ex_uars[e] + 1 ELSE m_ex_uars[e]]
          /\ live' = live \cup ({u} \ {Null})
          /\ heldEx' = [heldEx EXCEPT ![k] = u]
          /\ ret' = u
    BY <1>5, Zenon DEF GetExclusiveNew
  <2>2. UNCHANGED <<m_sh_vc, m_shared_uar, constructed, heldSh>> /\ UarsOf(k) = {}
    BY <1>5 DEF GetExclusiveNew
  <2>3. u \in (Uar \ live) \cup {Null}
    BY <2>1 DEF allocate
  <2>4. TypeOK'
    BY <2>1, <2>2, <2>3 DEF IInv, TypeOK, Entry
  <2>5. EntriesDistinct' /\ EntriesLive' /\ SharersGotShared'
    BY <2>1, <2>2, <2>3 DEF IInv, TypeOK, EntriesDistinct, EntriesLive, SharersGotShared, Entry
  <2>6. PoolKnowsHolders'
    BY <2>1, <2>2, <2>3 DEF IInv, TypeOK, PoolKnowsHolders, UarsOf, Entry
  <2>7. QED
    BY <2>4, <2>5, <2>6 DEF IInv
<1>6. ASSUME NEW k \in Key, ReleaseShared(k) PROVE IInv'
  BY <1>6 DEF ReleaseShared, IInv, TypeOK, EntriesDistinct, EntriesLive,
     SharersGotShared, PoolKnowsHolders, UarsOf, Entry, Status
<1>7. ASSUME NEW k \in Key, ReleaseExclusive(k) PROVE IInv'
  BY <1>7 DEF ReleaseExclusive, IInv, TypeOK, EntriesDistinct, EntriesLive,
     SharersGotShared, PoolKnowsHolders, UarsOf, Entry, Status
<1>8. ASSUME NEW k \in Key, ReleaseUnknown(k) PROVE IInv'
  BY <1>8 DEF ReleaseUnknown, pool, IInv, TypeOK, EntriesDistinct, EntriesLive,
     SharersGotShared, PoolKnowsHolders, UarsOf, Entry, Status
<1>9. ASSUME Destroy PROVE IInv'
  <2>1. TypeOK'
    BY <1>9, Zenon DEF Destroy, IInv, TypeOK
  <2>2. SharersGotShared' /\ PoolKnowsHolders'
    BY <1>9 DEF Destroy, SharersGotShared, PoolKnowsHolders, UarsOf, Entry
  <2>3. EntriesDistinct' /\ EntriesLive'
    BY <1>9 DEF Destroy, EntriesDistinct, EntriesLive
  <2>4. QED
    BY <2>1, <2>2, <2>3 DEF IInv
<1>10. CASE UNCHANGED vars
  BY <1>10 DEF vars, IInv, TypeOK, EntriesDistinct, EntriesLive,
     SharersGotShared, PoolKnowsHolders, UarsOf, Entry
<1>11. QED
  BY <1>1, <1>2, <1>3, <1>4, <1>5, <1>6, <1>7, <1>8, <1>9, <1>10
     DEF Next, get_uar, release_uar

(* The containers of the pool never hold a UAR twice, nor one that is      *)
(* shared or freed, and they agree with what the callers hold.             *)
THEOREM IInvariance == Spec => []IInv
  BY InitIInv, StepIInv, PTL DEF Spec

(* Type correctness of the members of uar_collection. *)
THEOREM TypeCorrect == Spec => []TypeOK
<1>1. IInv => TypeOK
  BY DEF IInv
<1>2. QED
  BY <1>1, IInvariance, PTL

(* What the callers hold, derived from what the containers hold. *)
LEMMA HoldersFromEntries ==
  ASSUME IInv
  PROVE  /\ \A k \in Key : heldEx[k] # Null =>
               <<k, heldEx[k]>> \in Entry /\ m_ex_uars[<<k, heldEx[k]>>] > 0
         /\ \A k \in Key : heldSh[k] # Null => heldSh[k] = m_shared_uar
<1>1. ASSUME NEW k \in Key, heldEx[k] # Null PROVE heldEx[k] \in UarsOf(k)
  BY <1>1 DEF IInv, PoolKnowsHolders
<1>2. QED
  BY <1>1 DEF IInv, TypeOK, SharersGotShared, UarsOf, Entry

(* No exclusive UAR is held by two queues. *)
THEOREM ExclusiveOwnershipHolds == Spec => []ExclusiveOwnership
<1>1. IInv => ExclusiveOwnership
  <2> SUFFICES ASSUME IInv, NEW k1 \in Key, NEW k2 \in Key, heldEx[k1] # Null
               PROVE  /\ heldEx[k1] = heldEx[k2] => k1 = k2
                      /\ heldEx[k1] # heldSh[k2]
    BY DEF ExclusiveOwnership
  <2>1. heldEx[k1] = heldEx[k2] => k1 = k2
    BY HoldersFromEntries, Zenon DEF IInv, EntriesDistinct
  <2>2. heldEx[k1] # heldSh[k2]
    BY HoldersFromEntries, Zenon DEF IInv, EntriesLive
  <2>3. QED
    BY <2>1, <2>2
<1>2. QED
  BY <1>1, IInvariance, PTL

(* What a queue holds is allocated, and all sharers hold the same UAR. *)
THEOREM HeldIsLiveHolds == Spec => []HeldIsLive
<1>1. IInv => HeldIsLive
  BY HoldersFromEntries, Zenon DEF IInv, EntriesLive, HeldIsLive
<1>2. QED
  BY <1>1, IInvariance, PTL

(* A queue keeps its exclusive UAR until it releases it. *)
THEOREM GrantIsStableHolds == Spec => GrantIsStable
<1> DEFINE Stable == \A k \in Key : heldEx[k] # Null /\ heldEx'[k] # heldEx[k] =>
                        heldEx'[k] = Null /\ (ret' = "DPCP_OK" \/ ~constructed')
<1>1. ASSUME IInv, [Next]_vars PROVE [Stable]_vars
  <2> SUFFICES ASSUME Next, NEW k \in Key, heldEx[k] # Null, heldEx'[k] # heldEx[k]
               PROVE  heldEx'[k] = Null /\ (ret' = "DPCP_OK" \/ ~constructed')
    BY <1>1
  <2>1. UarsOf(k) = {heldEx[k]}
    BY <1>1 DEF IInv, PoolKnowsHolders
  <2>2. heldEx \in [Key -> Uar \cup {Null}]
    BY <1>1 DEF IInv, TypeOK
  <2>3. ASSUME NEW j \in Key, get_uar(j) PROVE FALSE
    BY <2>1, <2>2, <2>3 DEF get_uar, GetSharedFirst, GetSharedAgain, GetExclusiveKnown,
       GetExclusiveFree, GetExclusiveNew
  <2>4. ASSUME NEW j \in Key, release_uar(j) PROVE heldEx'[k] = Null /\ ret' = "DPCP_OK"
    BY <2>2, <2>4 DEF release_uar, ReleaseShared, ReleaseExclusive, ReleaseUnknown
  <2>5. CASE Destroy
    BY <2>5 DEF Destroy
  <2>6. QED
    BY <2>3, <2>4, <2>5 DEF Next
<1>2. QED
  BY <1>1, IInvariance, PTL DEF Spec, GrantIsStable

(* A UAR gets lost only beside a free one that is taken. *)
THEOREM LostOnlyBesideTakenHolds == Spec => LostOnlyBesideTaken
<1> USE NullAssumption
<1> DEFINE Kept == constructed' => \A u \in Uar : Accounted(u) /\ ~Accounted(u)' =>
              u \in UarsOf(Null) /\ \E v \in UarsOf(Null) \ {u}, k \in Key : heldEx'[k] = v
<1>1. ASSUME IInv, [Next]_vars PROVE [Kept]_vars
  <2> SUFFICES ASSUME Next, constructed', NEW u \in Uar, Accounted(u), ~Accounted(u)'
               PROVE  u \in UarsOf(Null) /\ \E v \in UarsOf(Null) \ {u}, k \in Key : heldEx'[k] = v
    BY <1>1
  <2>1. m_ex_uars \in [Entry -> Nat] /\ heldEx \in [Key -> Uar \cup {Null}]
    BY <1>1 DEF IInv, TypeOK
  <2>2. /\ u # m_shared_uar'
        /\ \A k \in Key \cup {Null} : ~(m_ex_uars'[<<k, u>>] > 0)
    BY DEF Accounted, UarsOf
  <2>3. u = m_shared_uar \/ \E k \in Key \cup {Null} : m_ex_uars[<<k, u>>] > 0
    BY DEF Accounted, UarsOf
  <2>4. ASSUME NEW j \in Key, GetExclusiveFree(j)
        PROVE  u \in UarsOf(Null) /\ \E v \in UarsOf(Null) \ {u}, k \in Key : heldEx'[k] = v
    <3>1. PICK v \in UarsOf(Null) :
            /\ m_ex_uars' = [e \in Entry |->
                 IF e[1] = Null THEN 0
                 ELSE IF e = <<j, v>> THEN m_ex_uars[e] + 1 ELSE m_ex_uars[e]]
            /\ heldEx' = [heldEx EXCEPT ![j] = v]
            /\ m_shared_uar' = m_shared_uar
      BY <2>4, Zenon DEF GetExclusiveFree
    <3>2. v # u
      <4>1. <<j, v>> \in Entry /\ j # Null
        BY <3>1 DEF UarsOf, Entry
      <4>2. m_ex_uars[<<j, v>>] \in Nat /\ m_ex_uars'[<<j, v>>] = m_ex_uars[<<j, v>>] + 1
        BY <2>1, <3>1, <4>1
      <4>3. QED
        BY <2>2, <4>2
    <3>3. u \in UarsOf(Null)
      <4>1. ASSUME NEW k \in Key, m_ex_uars[<<k, u>>] > 0 PROVE FALSE
        <5>1. <<k, u>> \in Entry /\ k # Null
          BY <4>1 DEF Entry
        <5>2. m_ex_uars[<<k, u>>] \in Nat
              /\ m_ex_uars'[<<k, u>>] \in {m_ex_uars[<<k, u>>], m_ex_uars[<<k, u>>] + 1}
          BY <2>1, <3>1, <5>1
        <5>3. QED
          BY <2>2, <4>1, <5>2
      <4>2. QED
        BY <2>2, <2>3, <3>1, <4>1, Zenon DEF UarsOf
    <3>4. heldEx'[j] = v
      BY <2>1, <3>1
    <3>5. QED
      BY <3>1, <3>2, <3>3, <3>4
  <2>5. ASSUME NEW j \in Key, GetSharedFirst(j) PROVE FALSE
    BY <2>2, <2>3, <2>5, Zenon DEF GetSharedFirst
  <2>6. ASSUME NEW j \in Key, GetSharedAgain(j) \/ GetExclusiveKnown(j) PROVE FALSE
    BY <2>2, <2>3, <2>6, Zenon DEF GetSharedAgain, GetExclusiveKnown, pool
  <2>7. ASSUME NEW j \in Key, GetExclusiveNew(j) PROVE FALSE
    <3>1. PICK w \in allocate : m_ex_uars' = [e \in Entry |->
            IF e = <<j, w>> THEN m_ex_uars[e] + 1 ELSE m_ex_uars[e]]
      BY <2>7 DEF GetExclusiveNew
    <3>2. u # m_shared_uar
      BY <2>2, <2>7 DEF GetExclusiveNew
    <3>3. PICK k \in Key \cup {Null} : m_ex_uars[<<k, u>>] > 0
      BY <2>3, <3>2
    <3>4. <<k, u>> \in Entry
      BY DEF Entry
    <3>5. m_ex_uars[<<k, u>>] \in Nat
          /\ m_ex_uars'[<<k, u>>] \in {m_ex_uars[<<k, u>>], m_ex_uars[<<k, u>>] + 1}
      BY <2>1, <3>1, <3>4
    <3>6. QED
      BY <2>2, <3>3, <3>5
  <2>8. ASSUME NEW j \in Key, ReleaseShared(j) \/ ReleaseUnknown(j) PROVE FALSE
    BY <2>2, <2>3, <2>8, Zenon DEF ReleaseShared, ReleaseUnknown, pool
  <2>9. ASSUME NEW j \in Key, ReleaseExclusive(j) PROVE FALSE
    <3>1. PICK w \in UarsOf(j) :
            m_ex_uars' = [m_ex_uars EXCEPT ![<<j, w>>] = @ - 1, ![<<Null, w>>] = @ + 1]
      BY <2>9, Zenon DEF ReleaseExclusive
    <3>2. u # m_shared_uar
      BY <2>2, <2>9 DEF ReleaseExclusive
    <3>3. PICK k \in Key \cup {Null} : m_ex_uars[<<k, u>>] > 0
      BY <2>3, <3>2
    <3>4. <<k, u>> \in Entry /\ <<Null, u>> \in Entry /\ <<j, u>> # <<Null, u>>
      BY DEF Entry
    <3>5. CASE u = w
      <4>1. m_ex_uars[<<Null, u>>] \in Nat /\ m_ex_uars'[<<Null, u>>] = m_ex_uars[<<Null, u>>] + 1
        BY <2>1, <3>1, <3>4, <3>5
      <4>2. QED
        BY <2>2, <4>1
    <3>6. CASE u # w
      <4>1. m_ex_uars'[<<k, u>>] = m_ex_uars[<<k, u>>]
        BY <2>1, <3>1, <3>4, <3>6
      <4>2. QED
        BY <2>2, <3>3, <4>1
    <3>7. QED
      BY <3>5, <3>6
  <2>10. ~Destroy
    BY DEF Destroy
  <2>11. QED
    BY <2>4, <2>5, <2>6, <2>7, <2>8, <2>9, <2>10 DEF Next, get_uar, release_uar
<1>2. QED
  BY <1>1, IInvariance, PTL DEF Spec, LostOnlyBesideTaken

(* The pool implements the abstract service: each call of get_uar and      *)
(* release_uar is a grant, a release or no step at all for the callers.    *)
THEOREM Refinement == Spec => ImplementsService
<1> USE NullAssumption
<1>1. Init => Service!SInit
  BY DEF Init, Service!SInit
<1>2. ASSUME IInv, [Next]_vars PROVE [Service!SNext]_(Service!svars)
  <2> DEFINE Sharers == {j \in Key : heldSh[j] # Null}
  <2>0. /\ heldSh \in [Key -> Uar \cup {Null}] /\ heldEx \in [Key -> Uar \cup {Null}]
        /\ m_shared_uar \in live \cup {Null} /\ live \subseteq Uar
    BY <1>2 DEF IInv, TypeOK, EntriesLive
  <2>1. ASSUME NEW u \in Uar \ live PROVE u \notin Service!InUse
    <3>1. u # m_shared_uar
      BY <2>0, <2>1
    <3>2. ASSUME NEW j \in Key PROVE heldEx[j] # u
      <4>1. heldEx[j] # Null => heldEx[j] \in live
        BY <1>2, HoldersFromEntries, Zenon DEF IInv, EntriesLive
      <4>2. QED
        BY <2>1, <4>1
    <3>3. QED
      BY <3>1, <3>2 DEF Service!InUse
  <2>2. ASSUME NEW u \in UarsOf(Null) PROVE u \notin Service!InUse
    <3>1. u \in Uar /\ <<Null, u>> \in Entry /\ m_ex_uars[<<Null, u>>] > 0
      BY <2>2 DEF UarsOf, Entry
    <3>2. u # m_shared_uar
      BY <1>2, <3>1 DEF IInv, EntriesLive
    <3>3. ASSUME NEW j \in Key PROVE heldEx[j] # u
      BY <1>2, <3>1, HoldersFromEntries, Zenon DEF IInv, EntriesDistinct
    <3>4. QED
      BY <3>2, <3>3 DEF Service!InUse
  <2>3. ASSUME NEW k \in Key, GetSharedFirst(k)
        PROVE  Service!GrantShared(k) \/ UNCHANGED Service!svars
    <3>1. PICK u \in allocate : /\ m_shared_uar' = u
                                /\ heldSh' = [heldSh EXCEPT ![k] = u]
      BY <2>3, Zenon DEF GetSharedFirst
    <3>2. m_shared_uar = Null /\ UNCHANGED heldEx
      BY <2>3 DEF GetSharedFirst
    <3>3. \A j \in Key : heldSh[j] = Null
      BY <1>2, <3>2 DEF IInv, SharersGotShared
    <3>4. CASE u = Null
      BY <2>0, <3>1, <3>2, <3>3, <3>4 DEF Service!svars
    <3>5. CASE u \in Uar \ live
      <4>1. Sharers' = Sharers \cup {k}
        BY <2>0, <3>1, <3>3, <3>5
      <4>2. QED
        BY <2>1, <3>1, <3>2, <3>5, <4>1 DEF Service!GrantShared
    <3>6. QED
      BY <3>1, <3>4, <3>5 DEF allocate
  <2>4. ASSUME NEW k \in Key, GetSharedAgain(k) PROVE Service!GrantShared(k)
    <3>1. Sharers' = Sharers \cup {k}
      BY <2>0, <2>4 DEF GetSharedAgain
    <3>2. QED
      BY <2>4, <3>1 DEF GetSharedAgain, Service!GrantShared
  <2>5. ASSUME NEW k \in Key, GetExclusiveKnown(k) PROVE UNCHANGED Service!svars
    <3>1. UNCHANGED <<m_shared_uar, heldSh>>
      BY <2>5 DEF GetExclusiveKnown, pool
    <3>2. UNCHANGED heldEx
      BY <1>2, <2>0, <2>5 DEF GetExclusiveKnown, IInv, PoolKnowsHolders
    <3>3. QED
      BY <3>1, <3>2 DEF Service!svars
  <2>6. ASSUME NEW k \in Key, GetExclusiveFree(k) PROVE Service!GrantExclusive(k)
    <3>1. heldEx[k] = Null
      BY <1>2, <2>6 DEF GetExclusiveFree, IInv, PoolKnowsHolders
    <3>2. PICK u \in UarsOf(Null) : heldEx' = [heldEx EXCEPT ![k] = u]
      BY <2>6, Zenon DEF GetExclusiveFree
    <3>3. u \in Uar \ Service!InUse
      BY <2>2 DEF UarsOf
    <3>4. QED
      BY <2>6, <3>1, <3>2, <3>3, Zenon DEF GetExclusiveFree, Service!GrantExclusive
  <2>7. ASSUME NEW k \in Key, GetExclusiveNew(k)
        PROVE  Service!GrantExclusive(k) \/ UNCHANGED Service!svars
    <3>1. heldEx[k] = Null
      BY <1>2, <2>7 DEF GetExclusiveNew, IInv, PoolKnowsHolders
    <3>2. PICK u \in allocate : heldEx' = [heldEx EXCEPT ![k] = u]
      BY <2>7, Zenon DEF GetExclusiveNew
    <3>3. UNCHANGED <<m_shared_uar, heldSh>>
      BY <2>7 DEF GetExclusiveNew
    <3>4. CASE u = Null
      BY <2>0, <3>1, <3>2, <3>3, <3>4 DEF Service!svars
    <3>5. CASE u \in Uar \ live
      BY <2>1, <3>1, <3>2, <3>3, <3>5, Zenon DEF Service!GrantExclusive
    <3>6. QED
      BY <3>2, <3>4, <3>5 DEF allocate
  <2>8. ASSUME NEW k \in Key, ReleaseShared(k) PROVE Service!Release(k)
    <3>1. k \in Sharers /\ Sharers' = Sharers \ {k}
      BY <1>2, <2>0, <2>8 DEF ReleaseShared, IInv, PoolKnowsHolders
    <3>2. QED
      BY <2>8, <3>1 DEF ReleaseShared, Service!Release
  <2>9. ASSUME NEW k \in Key, ReleaseExclusive(k) PROVE Service!Release(k)
    <3>1. k \notin Sharers /\ heldEx[k] # Null
      BY <1>2, <2>9 DEF ReleaseExclusive, IInv, TypeOK, PoolKnowsHolders
    <3>2. QED
      BY <2>9, <3>1 DEF ReleaseExclusive, Service!Release
  <2>10. ASSUME NEW k \in Key, ReleaseUnknown(k) PROVE UNCHANGED Service!svars
    BY <2>10 DEF ReleaseUnknown, pool, Service!svars
  <2>11. CASE Destroy
    BY <2>11 DEF Destroy, Service!SNext, Service!Close
  <2>12. CASE UNCHANGED vars
    BY <2>12 DEF vars, Service!svars
  <2>13. QED
    BY <1>2, <2>3, <2>4, <2>5, <2>6, <2>7, <2>8, <2>9, <2>10, <2>11, <2>12
       DEF Next, get_uar, release_uar, Service!SNext
<1>3. QED
  BY <1>1, <1>2, IInvariance, PTL DEF Spec, ImplementsService, Service!SSpec

----------------------------------------------------------------------------
(* The queues. *)

(* The first element of what is left of an order, and what is left then. *)
LEMMA RestFacts ==
  ASSUME NEW S, NEW t \in Seq(S), NEW i \in 1..(Len(t) + 1)
  PROVE  LET s == SubSeq(t, i, Len(t))
         IN  /\ Rest(s) = {t[j] : j \in i..Len(t)}
             /\ Len(s) = Len(t) - i + 1
             /\ s = <<>> <=> i = Len(t) + 1
             /\ s # <<>> => Head(s) = t[i] /\ Tail(s) = SubSeq(t, i + 1, Len(t))
<1> DEFINE s == SubSeq(t, i, Len(t))
           u == SubSeq(t, i + 1, Len(t))
<1>1. /\ Len(t) \in Nat /\ Len(s) = Len(t) - i + 1 /\ s \in Seq(S)
      /\ \A j \in 1..Len(s) : s[j] = t[i + j - 1]
  OBVIOUS
<1>2. Rest(s) = {t[j] : j \in i..Len(t)}
  <2>1. ASSUME NEW x \in Rest(s) PROVE x \in {t[j] : j \in i..Len(t)}
    <3>1. PICK j \in 1..Len(s) : x = s[j]
      BY <2>1 DEF Rest
    <3>2. i + j - 1 \in i..Len(t) /\ x = t[i + j - 1]
      BY <1>1, <3>1
    <3>3. QED
      BY <3>2
  <2>2. ASSUME NEW j \in i..Len(t) PROVE t[j] \in Rest(s)
    <3>1. j - i + 1 \in 1..Len(s) /\ s[j - i + 1] = t[j]
      BY <1>1
    <3>2. QED
      BY <3>1 DEF Rest
  <2>3. QED
    BY <2>1, <2>2
<1>3. s = <<>> <=> i = Len(t) + 1
  <2>0. \A w \in Seq(S) : w = <<>> <=> Len(w) = 0
    OBVIOUS
  <2>1. s = <<>> <=> Len(s) = 0
    BY <1>1, <2>0, Zenon
  <2>2. Len(s) = 0 <=> i = Len(t) + 1
    BY <1>1
  <2>3. QED
    BY <2>1, <2>2
<1>4. ASSUME s # <<>> PROVE Head(s) = t[i] /\ Tail(s) = u
  <2>1. i \in 1..Len(t) /\ Len(s) >= 1
    BY <1>1, <1>3, <1>4
  <2>2. Head(s) = t[i]
    BY <1>1, <2>1
  <2>3. /\ Tail(s) \in Seq(S) /\ Len(Tail(s)) = Len(s) - 1
        /\ \A j \in 1..Len(Tail(s)) : Tail(s)[j] = s[j + 1]
    BY <1>1, <1>4
  <2>4. /\ u \in Seq(S) /\ Len(u) = Len(t) - i
        /\ \A j \in 1..Len(u) : u[j] = t[i + j]
    BY <2>1
  <2>5. Tail(s) = u
    <3>1. Len(Tail(s)) = Len(u)
      BY <1>1, <2>3, <2>4
    <3>2. \A j \in 1..Len(u) : Tail(s)[j] = u[j]
      BY <1>1, <2>3, <2>4
    <3>3. QED
      BY <2>3, <2>4, <3>1, <3>2
  <2>6. QED
    BY <2>2, <2>5, Zenon
<1>5. QED
  BY <1>1, <1>2, <1>3, <1>4

(* An order without repetitions, in which registrations are released       *)
(* before their buffers and the device object before both.                 *)
Orderly(t) ==
  /\ \A i, j \in 1..Len(t) : t[i] = t[j] => i = j
  /\ \A i, j \in 1..Len(t) : t[i] = "buf_umem" /\ t[j] = "buf" => i < j
  /\ \A i, j \in 1..Len(t) : t[i] = "db_umem" /\ t[j] = "db" => i < j
  /\ \A i, j \in 1..Len(t) : t[i] = "hw" /\ t[j] \in DmaMembers => i < j

(* One step of such an order. *)
LEMMA StepFacts ==
  ASSUME NEW t \in Seq(Members), Orderly(t), NEW s, RestOf(s, t), s # <<>>
  PROVE  /\ RestOf(Tail(s), t) /\ Head(s) \in Members
         /\ Rest(s) = Rest(Tail(s)) \cup {Head(s)} /\ Head(s) \notin Rest(Tail(s))
         /\ Head(s) = "buf" => "buf_umem" \notin Rest(s)
         /\ Head(s) = "db" => "db_umem" \notin Rest(s)
         /\ Head(s) \in DmaMembers => "hw" \notin Rest(s)
<1>1. PICK i \in 1..(Len(t) + 1) : s = SubSeq(t, i, Len(t))
  BY DEF RestOf
<1>2. /\ Rest(s) = {t[j] : j \in i..Len(t)} /\ i # Len(t) + 1
      /\ Head(s) = t[i] /\ Tail(s) = SubSeq(t, i + 1, Len(t))
  BY <1>1, RestFacts
<1>3. Len(t) \in Nat /\ i \in 1..Len(t) /\ i + 1 \in 1..(Len(t) + 1)
  BY <1>2
<1>4. Rest(Tail(s)) = {t[j] : j \in (i + 1)..Len(t)}
  BY <1>2, <1>3, RestFacts, Zenon
<1>5. RestOf(Tail(s), t) /\ Head(s) \in Members
  <2>1. Head(s) \in Members
    BY <1>2, <1>3
  <2>2. RestOf(Tail(s), t)
    BY <1>2, <1>3, Zenon DEF RestOf
  <2>3. QED
    BY <2>1, <2>2
<1>6. i..Len(t) = {i} \cup (i + 1)..Len(t)
  BY <1>3
<1>7. Rest(s) = Rest(Tail(s)) \cup {Head(s)}
  BY <1>2, <1>4, <1>6
<1>8. \A j \in i..Len(t) : j \in 1..Len(t) /\ ~(j < i)
  BY <1>3
<1>9. \A j \in (i + 1)..Len(t) : j \in 1..Len(t) /\ j # i
  BY <1>3
<1>10. Head(s) \notin Rest(Tail(s))
  BY <1>2, <1>3, <1>4, <1>9 DEF Orderly
<1>11. /\ Head(s) = "buf" => "buf_umem" \notin Rest(s)
       /\ Head(s) = "db" => "db_umem" \notin Rest(s)
       /\ Head(s) \in DmaMembers => "hw" \notin Rest(s)
  BY <1>2, <1>3, <1>8 DEF Orderly
<1>12. QED
  BY <1>5, <1>7, <1>10, <1>11

(* An order starts with all of itself. *)
LEMMA WholeOrder == ASSUME NEW S, NEW t \in Seq(S) PROVE RestOf(t, t)
<1>1. t = SubSeq(t, 1, Len(t)) /\ 1 \in 1..(Len(t) + 1)
  OBVIOUS
<1>2. QED
  BY <1>1, Zenon DEF RestOf

(* The whole of Memory, and nothing of it. *)
LEMMA MemoryWhole ==
  /\ Memory \in Seq(Members) /\ Len(Memory) = 4 /\ Memory # <<>>
  /\ Memory[1] = "buf" /\ Memory[2] = "buf_umem" /\ Memory[3] = "db" /\ Memory[4] = "db_umem"
  /\ RestOf(Memory, Memory) /\ Rest(Memory) = DmaMembers /\ Rest(<<>>) = {}
<1>1. /\ Memory \in Seq(Members) /\ Len(Memory) = 4 /\ Memory # <<>>
      /\ Memory[1] = "buf" /\ Memory[2] = "buf_umem" /\ Memory[3] = "db" /\ Memory[4] = "db_umem"
  BY DEF Memory, Members, CqMembers, RqMembers, IbqMembers, SqMembers
<1>2. RestOf(Memory, Memory)
  BY <1>1, WholeOrder
<1>3. Rest(Memory) = DmaMembers
  BY <1>1 DEF Rest, DmaMembers
<1>4. Rest(<<>>) = {}
  BY DEF Rest
<1>5. QED
  BY <1>1, <1>2, <1>3, <1>4

(* The memory of a queue is acquired buffer before registration. *)
LEMMA MemoryFacts ==
  ASSUME NEW s, RestOf(s, Memory), s # <<>>
  PROVE  /\ RestOf(Tail(s), Memory) /\ Head(s) \in DmaMembers /\ Rest(s) \subseteq DmaMembers
         /\ Rest(s) = Rest(Tail(s)) \cup {Head(s)} /\ Head(s) \notin Rest(Tail(s))
         /\ Head(s) = "buf_umem" => "buf" \notin Rest(s)
         /\ Head(s) = "db_umem" => "db" \notin Rest(s)
         /\ Len(s) = 1 <=> Tail(s) = <<>>
<1> DEFINE n == Len(Memory)
<1>1. PICK i \in 1..(n + 1) : s = SubSeq(Memory, i, n)
  BY Zenon DEF RestOf
<1>2. /\ Rest(s) = {Memory[j] : j \in i..n} /\ Len(s) = n - i + 1 /\ i # n + 1
      /\ Head(s) = Memory[i] /\ Tail(s) = SubSeq(Memory, i + 1, n)
  <2>1. Memory \in Seq(Members)
    BY MemoryWhole
  <2>2. QED
    BY <1>1, <2>1, RestFacts
<1>3. n = 4 /\ i + 1 \in 1..(n + 1)
  BY MemoryWhole, <1>2
<1>4. /\ Rest(Tail(s)) = {Memory[j] : j \in (i + 1)..n}
      /\ Tail(s) = <<>> <=> i + 1 = n + 1
  <2>1. Memory \in Seq(Members)
    BY MemoryWhole
  <2>2. QED
    BY <1>2, <1>3, <2>1, RestFacts, Zenon
<1>5. RestOf(Tail(s), Memory)
  BY <1>2, <1>3, Zenon DEF RestOf
<1> HIDE DEF n
<1>6. Len(s) = 1 <=> Tail(s) = <<>>
  BY <1>2, <1>3, <1>4
<1>7. i \in {1, 2, 3, 4}
  BY <1>2, <1>3
<1>8. /\ i = 1 => Rest(s) = DmaMembers /\ Rest(Tail(s)) = {"buf_umem", "db", "db_umem"}
      /\ i = 2 => Rest(s) = {"buf_umem", "db", "db_umem"} /\ Rest(Tail(s)) = {"db", "db_umem"}
      /\ i = 3 => Rest(s) = {"db", "db_umem"} /\ Rest(Tail(s)) = {"db_umem"}
      /\ i = 4 => Rest(s) = {"db_umem"} /\ Rest(Tail(s)) = {}
  BY MemoryWhole, <1>2, <1>3, <1>4 DEF DmaMembers
<1>9. QED
  BY MemoryWhole, <1>2, <1>5, <1>6, <1>7, <1>8, Zenon DEF DmaMembers

AQueue == {"cq", "striding_rq", "regular_rq", "ibq_rq", "pp_sq"}

(* The orders of destroy() are orderly and complete but for the pacing     *)
(* entry, those of the destructors are complete.                           *)
LEMMA OrderFacts ==
  ASSUME NEW k \in AQueue
  PROVE  /\ DestroyOrder(k) \in Seq(Members) /\ Orderly(DestroyOrder(k))
         /\ RestOf(DestroyOrder(k), DestroyOrder(k))
         /\ ClassMembers(k) \subseteq Rest(DestroyOrder(k)) \cup {"pp"}
         /\ DeleteOrder(k) \in Seq(Members) /\ Orderly(DeleteOrder(k))
         /\ RestOf(DeleteOrder(k), DeleteOrder(k))
         /\ ClassMembers(k) \subseteq Rest(DeleteOrder(k))
<1> DEFINE D == <<"hw", "uar_t", "buf_umem", "db_umem", "buf", "db">>
           E == <<"pp", "hw", "uar_t", "buf_umem", "db_umem", "buf", "db">>
           I == <<"hw">>
<1> USE DEF Members, CqMembers, RqMembers, IbqMembers, SqMembers
<1>1. /\ D \in Seq(Members) /\ Orderly(D)
      /\ Rest(D) = {"hw", "uar_t", "buf_umem", "db_umem", "buf", "db"}
  BY DEF Orderly, Rest, DmaMembers
<1>2. I \in Seq(Members) /\ Orderly(I) /\ Rest(I) = {"hw"}
  BY DEF Orderly, Rest, DmaMembers
<1>3. /\ E \in Seq(Members) /\ Orderly(E)
      /\ Rest(E) = {"pp", "hw", "uar_t", "buf_umem", "db_umem", "buf", "db"}
  BY DEF Orderly, Rest, DmaMembers
<1>4. <<"pp">> \o D = E
  <2>1. Len(<<"pp">> \o D) = Len(E) /\ Len(E) = 7
    OBVIOUS
  <2>2. \A j \in 1..7 : (<<"pp">> \o D)[j] = E[j]
    OBVIOUS
  <2>3. <<"pp">> \o D \in Seq(Members) /\ E \in Seq(Members)
    <3>1. <<"pp">> \in Seq(Members) /\ D \in Seq(Members)
      BY <1>1
    <3>2. \A v, w \in Seq(Members) : v \o w \in Seq(Members)
      OBVIOUS
    <3>3. QED
      BY <1>3, <3>1, <3>2, Zenon
  <2>4. \A v, w \in Seq(Members) : Len(v) = Len(w) /\ (\A j \in 1..Len(w) : v[j] = w[j]) => v = w
    OBVIOUS
  <2>5. QED
    BY <2>1, <2>2, <2>3, <2>4, Zenon
<1>5. DestroyOrder(k) = IF k = "ibq_rq" THEN I ELSE D
  BY DEF AQueue, DestroyOrder, CqDestroy, RqDestroy, IbqDestroy, SqDestroy
<1>6. DeleteOrder(k) = IF k = "pp_sq" THEN E ELSE DestroyOrder(k)
  BY <1>4, Zenon DEF DeleteOrder, SqDestroy
<1>7. RestOf(D, D) /\ RestOf(E, E) /\ RestOf(I, I)
  BY <1>1, <1>2, <1>3, WholeOrder, Zenon
<1> HIDE DEF D, E, I
<1>8. ClassMembers(k) \subseteq IF k = "ibq_rq" THEN {"hw"}
        ELSE IF k = "pp_sq" THEN {"pp", "hw", "uar_t", "buf_umem", "db_umem", "buf", "db"}
        ELSE {"hw", "uar_t", "buf_umem", "db_umem", "buf", "db"}
  BY DEF AQueue, ClassMembers
<1>9. QED
  BY <1>1, <1>2, <1>3, <1>5, <1>6, <1>7, <1>8

----------------------------------------------------------------------------
(* What the invariant says of one queue apart from its UAR, and that a     *)
(* step leaves everything this depends on alone but at q.                  *)
Local(q) == MembersBacked(q) /\ MembersByPhase(q) /\ KindByPhase(q)
Frame(q) == \A p \in Key \ {q} :
  /\ kind'[p] = kind[p] /\ phase'[p] = phase[p] /\ todo'[p] = todo[p]
  /\ members'[p] = members[p] /\ out'[p] = out[p] /\ (p \in refused' <=> p \in refused)
  /\ \A r \in Members : <<p, r>> \in mem' <=> <<p, r>> \in mem

(* What is to be shown of a step of queue q. *)
Kept(q) == QueueTypes' /\ Frame(q) /\ Local(q)'

(* The other queues, and those that have their UAR, keep the invariant. *)
LEMMA KeptSuffices ==
  ASSUME QueueInv, NEW q \in Key, Kept(q), \A p \in Key : HasUar(p)'
  PROVE  QueueInv'
<1>1. ASSUME NEW p \in Key, p # q PROVE Local(p)'
  <2>1. /\ kind'[p] = kind[p] /\ phase'[p] = phase[p] /\ todo'[p] = todo[p]
        /\ members'[p] = members[p] /\ out'[p] = out[p] /\ (p \in refused' <=> p \in refused)
        /\ \A r \in Members : <<p, r>> \in mem' <=> <<p, r>> \in mem
    BY <1>1 DEF Kept, Frame
  <2>2. MembersBacked(p) /\ MembersByPhase(p) /\ KindByPhase(p) /\ members[p] \subseteq Members
    BY DEF QueueInv, QueueTypes
  <2>3. MembersBacked(p)'
    BY <2>1, <2>2, Zenon DEF MembersBacked, GivenUp
  <2>4. MembersByPhase(p)'
    BY <2>1, <2>2 DEF MembersByPhase
  <2>5. KindByPhase(p)'
    BY <2>1, <2>2, Zenon DEF KindByPhase
  <2>6. QED
    BY <2>3, <2>4, <2>5 DEF Local
<1>2. QED
  BY <1>1 DEF Kept, Local, QueueInv

(* A step that does not call the pool keeps the UARs. *)
LEMMA KeptUars ==
  ASSUME QueueInv, NEW q \in Key, Kept(q), UNCHANGED vars,
         phase'[q] \in {"memory", "init"} \/ "uar_t" \in members'[q] =>
           phase[q] \in {"memory", "init"} \/ "uar_t" \in members[q]
  PROVE  QueueInv'
<1>1. heldSh' = heldSh /\ m_shared_uar' = m_shared_uar /\ live' = live
  BY DEF vars
<1>2. ASSUME NEW p \in Key PROVE HasUar(p)'
  <2>1. phase'[p] \in {"memory", "init"} \/ "uar_t" \in members'[p] =>
          phase[p] \in {"memory", "init"} \/ "uar_t" \in members[p]
    BY DEF Kept, Frame
  <2>2. HasUar(p)
    BY DEF QueueInv
  <2>3. QED
    BY <1>1, <2>1, <2>2 DEF HasUar
<1>3. QED
  BY <1>2, KeptSuffices

(* Creation fails, at whatever point. *)
LEMMA FailKeeps ==
  ASSUME QueueInv, NEW q \in Key, Fail(q), kind' = kind, refused' = refused,
         phase[q] \in {"get_uar", "memory", "init", "pacing", "command"}
  PROVE  Kept(q) /\ phase'[q] \in {"deleting", "partial"} /\ members' = members
<1>1. /\ QueueTypes /\ MembersBacked(q) /\ MembersByPhase(q) /\ KindByPhase(q)
      /\ members' = members /\ out' = out
  BY DEF QueueInv, Fail
<1>2. kind[q] \in AQueue /\ ~GivenUp(q) /\ (kind[q] = "cq" => ~out[q]) /\ q \notin refused
  BY <1>1 DEF QueueTypes, KindByPhase, GivenUp, AQueue
<1>3. \A r \in Members : <<q, r>> \in mem <=> r \in members[q]
  BY <1>1, <1>2, Zenon DEF MembersBacked
<1>4. members[q] \subseteq Members /\ members[q] \subseteq ClassMembers(kind[q])
  BY <1>1 DEF QueueTypes, MembersBacked
<1>5. ASSUME Deleting(q), kind[q] # "pp_sq",
             \A p \in Key \ {q}, r \in Members : <<p, r>> \in mem' <=> <<p, r>> \in mem,
             \A r \in Members : <<q, r>> \in mem' <=>
                r \in members[q] /\ (kind[q] = "cq" => r = "uar_t")
      PROVE  Kept(q) /\ phase'[q] = "deleting"
  <2>1. /\ phase'[q] = "deleting" /\ todo'[q] = DeleteOrder(kind[q])
        /\ phase' = [phase EXCEPT ![q] = "deleting"]
        /\ todo' = [todo EXCEPT ![q] = DeleteOrder(kind[q])]
    BY <1>1, <1>5 DEF Deleting, QueueTypes
  <2>2. QueueTypes' /\ Frame(q)
    BY <1>1, <1>5, <2>1 DEF QueueTypes, Frame, Phase
  <2>3. MembersBacked(q)'
    <3>1. GivenUp(q)' <=> kind[q] = "cq"
      BY <1>1, <1>2, <2>1 DEF GivenUp
    <3>2. /\ \A r \in members'[q] : (GivenUp(q)' => r = "uar_t") => <<q, r>> \in mem'
          /\ \A r \in Members : <<q, r>> \in mem' => r \in members'[q] /\ (GivenUp(q)' => r = "uar_t")
      BY <1>1, <1>4, <1>5, <3>1, Zenon
    <3>3. QED
      BY <1>1, <3>2, Zenon DEF MembersBacked
  <2>4. MembersByPhase(q)'
    <3>1. /\ RestOf(DeleteOrder(kind[q]), DeleteOrder(kind[q]))
          /\ members[q] \subseteq Rest(DeleteOrder(kind[q]))
      BY <1>2, <1>4, OrderFacts
    <3>2. QED
      BY <1>1, <2>1, <3>1, Zenon DEF MembersByPhase
  <2>5. KindByPhase(q)'
    BY <1>2, <2>1 DEF KindByPhase, AQueue
  <2>6. QED
    BY <2>1, <2>2, <2>3, <2>4, <2>5 DEF Kept, Local
<1>6. CASE FailCq(q)
  <2>1. \A p \in Key \ {q}, r \in Members : <<p, r>> \in mem' <=> <<p, r>> \in mem
    BY <1>6 DEF FailCq
  <2>2. \A r \in Members : <<q, r>> \in mem' <=> r \in members[q] /\ r = "uar_t"
    BY <1>3, <1>6 DEF FailCq
  <2>3. QED
    BY <1>1, <1>5, <1>6, <2>1, <2>2 DEF FailCq
<1>7. CASE FailRq(q)
  BY <1>1, <1>3, <1>5, <1>7 DEF FailRq
<1>8. CASE FailSq(q)
  <2>1. /\ phase'[q] = "partial" /\ mem' = mem /\ kind[q] = "pp_sq"
        /\ phase' = [phase EXCEPT ![q] = "partial"] /\ todo' = [todo EXCEPT ![q] = <<>>]
    BY <1>1, <1>8 DEF FailSq, QueueTypes
  <2>2. QueueTypes' /\ Frame(q)
    BY <1>1, <2>1, Zenon DEF QueueTypes, Frame, Phase
  <2>3. MembersBacked(q)'
    BY <1>1, <2>1, Zenon DEF MembersBacked, GivenUp
  <2>4. MembersByPhase(q)'
    BY <1>1, <2>1, Zenon DEF MembersByPhase, DmaMembers
  <2>5. KindByPhase(q)'
    BY <1>1, <1>2, <2>1 DEF KindByPhase
  <2>6. QED
    BY <1>1, <2>1, <2>2, <2>3, <2>4, <2>5 DEF Kept, Local
<1>9. QED
  BY <1>1, <1>6, <1>7, <1>8 DEF Fail

(* create_cq, create_rq, create_ibq_rq, create_pp_sq *)
LEMMA NewKeeps ==
  ASSUME QueueInv, NEW q \in Key, NEW k \in AQueue, NEW cq, NEW next, NEW handedOut \in BOOLEAN,
         New(q, k, cq, next, handedOut), k = "cq" => ~handedOut,
         next = IF k = "ibq_rq" THEN "command" ELSE "get_uar"
  PROVE  QueueInv'
<1>1. /\ QueueTypes /\ MembersBacked(q) /\ MembersByPhase(q) /\ phase[q] = "none"
      /\ kind' = [kind EXCEPT ![q] = k] /\ phase' = [phase EXCEPT ![q] = next]
      /\ out' = [out EXCEPT ![q] = handedOut]
      /\ todo' = todo /\ members' = members /\ mem' = mem /\ refused' = refused /\ UNCHANGED vars
      /\ q \notin refused
  BY DEF QueueInv, New
<1>2. kind'[q] = k /\ phase'[q] = next /\ out'[q] = handedOut /\ members[q] = {}
  BY <1>1 DEF QueueTypes, MembersByPhase
<1>3. QueueTypes' /\ Frame(q)
  BY <1>1 DEF QueueTypes, Frame, Phase, AQueue
<1>4. MembersBacked(q)'
  BY <1>1, <1>2, Zenon DEF MembersBacked, GivenUp
<1>5. MembersByPhase(q)' /\ KindByPhase(q)'
  BY <1>1, <1>2 DEF MembersByPhase, KindByPhase, AQueue
<1>6. Kept(q)
  BY <1>3, <1>4, <1>5 DEF Kept, Local
<1>7. QED
  BY <1>1, <1>2, <1>6, KeptUars

(* get_uar: the queue shares the UAR, or fails. *)
LEMMA GetUarKeeps ==
  ASSUME QueueInv, IInv, NEW q \in Key, GetUar(q)
  PROVE  QueueInv'
<1>1. /\ QueueTypes /\ MembersBacked(q) /\ MembersByPhase(q) /\ KindByPhase(q)
      /\ phase[q] = "get_uar" /\ kind' = kind /\ refused' = refused /\ members[q] = {}
  BY Zenon DEF QueueInv, GetUar, MembersByPhase
<1>2. /\ ret' = heldSh'[q] /\ heldSh'[q] = m_shared_uar' /\ (ret' # Null => ret' \in live')
      /\ \A p \in Key \ {q} : heldSh'[p] = heldSh[p]
      /\ m_shared_uar \in live => m_shared_uar' = m_shared_uar /\ live' = live
  <2>1. /\ heldSh \in [Key -> Uar \cup {Null}] /\ live \subseteq Uar
        /\ m_shared_uar \in live \cup {Null} /\ Null \notin Uar
    BY NullAssumption DEF IInv, TypeOK, EntriesLive
  <2>2. CASE GetSharedFirst(q)
    BY <2>1, <2>2 DEF GetSharedFirst, allocate
  <2>3. CASE GetSharedAgain(q)
    BY <2>1, <2>3 DEF GetSharedAgain
  <2>4. QED
    BY <2>2, <2>3 DEF GetUar
<1>3. Kept(q) /\ members' = members /\ (ret' = Null => phase'[q] \in {"deleting", "partial"})
  <2>1. CASE ret' = Null
    <3>1. Fail(q)
      BY <2>1 DEF GetUar
    <3>2. QED
      BY <1>1, <3>1, FailKeeps
  <2>2. CASE ret' # Null
    <3>1. /\ phase' = [phase EXCEPT ![q] = "memory"] /\ todo' = [todo EXCEPT ![q] = Memory]
          /\ members' = members /\ mem' = mem /\ out' = out
      BY <2>2 DEF GetUar
    <3>2. phase'[q] = "memory" /\ todo'[q] = Memory
      BY <1>1, <3>1 DEF QueueTypes
    <3>3. QueueTypes' /\ Frame(q)
      BY <1>1, <3>1 DEF QueueTypes, Frame, Phase
    <3>4. MembersBacked(q)'
      BY <1>1, <3>1, <3>2 DEF MembersBacked, GivenUp
    <3>5. MembersByPhase(q)'
      BY <1>1, <3>1, <3>2, MemoryWhole, Zenon DEF MembersByPhase
    <3>6. KindByPhase(q)'
      BY <1>1, <3>1, <3>2, Zenon DEF KindByPhase
    <3>7. QED
      BY <2>2, <3>1, <3>3, <3>4, <3>5, <3>6 DEF Kept, Local
  <2>3. QED
    BY <2>1, <2>2
<1>4. ASSUME NEW p \in Key PROVE HasUar(p)'
  <2>1. CASE p = q
    BY <1>1, <1>2, <1>3, <2>1 DEF HasUar
  <2>2. CASE p # q
    <3>1. phase'[p] = phase[p] /\ members'[p] = members[p] /\ HasUar(p)
      BY <1>3, <2>2 DEF Kept, Frame, QueueInv
    <3>2. QED
      BY <1>2, <2>2, <3>1 DEF HasUar
  <2>3. QED
    BY <2>1, <2>2
<1>5. QED
  BY <1>3, <1>4, KeptSuffices

(* A member is set to what was allocated. *)
LEMMA AcquiredFacts ==
  ASSUME QueueTypes, NEW q \in Key, NEW r \in Members, Acquired(q, r), MembersBacked(q), ~GivenUp(q),
         q \notin refused
  PROVE  /\ members' \in [Key -> SUBSET Members] /\ members'[q] = members[q] \cup {r}
         /\ \A p \in Key \ {q} : /\ members'[p] = members[p]
                                 /\ \A x \in Members : <<p, x>> \in mem' <=> <<p, x>> \in mem
         /\ \A x \in Members : <<q, x>> \in mem' <=> x \in members'[q]
<1>1. members \in [Key -> SUBSET Members]
  BY DEF QueueTypes
<1>2. members' = [members EXCEPT ![q] = @ \cup {r}] /\ mem' = mem \cup {<<q, r>>}
  BY DEF Acquired
<1>3. members' \in [Key -> SUBSET Members] /\ members'[q] = members[q] \cup {r}
  BY <1>1, <1>2
<1>4. \A x \in Members : <<q, x>> \in mem <=> x \in members[q]
  BY Zenon DEF MembersBacked
<1>5. QED
  BY <1>1, <1>2, <1>3, <1>4

(* allocate_cq_buf or allocate_wq_buf, reg_mem, allocate_db_rec, reg_mem *)
LEMMA AcquireMemoryKeeps ==
  ASSUME QueueInv, NEW q \in Key, AcquireMemory(q)
  PROVE  QueueInv'
<1> DEFINE r == Head(todo[q])
<1>1. /\ QueueTypes /\ MembersBacked(q) /\ MembersByPhase(q) /\ KindByPhase(q)
      /\ phase[q] = "memory" /\ kind' = kind /\ refused' = refused /\ UNCHANGED vars
  BY DEF QueueInv, AcquireMemory
<1>2. /\ RestOf(todo[q], Memory) /\ todo[q] # <<>> /\ members[q] = DmaMembers \ Rest(todo[q])
      /\ kind[q] \in AQueue \ {"ibq_rq"} /\ ~GivenUp(q) /\ q \notin refused
  BY <1>1 DEF MembersByPhase, KindByPhase, QueueTypes, GivenUp, AQueue
<1>3. /\ RestOf(Tail(todo[q]), Memory) /\ r \in DmaMembers /\ Rest(todo[q]) \subseteq DmaMembers
      /\ Rest(todo[q]) = Rest(Tail(todo[q])) \cup {r} /\ r \notin Rest(Tail(todo[q]))
      /\ r = "buf_umem" => "buf" \notin Rest(todo[q])
      /\ r = "db_umem" => "db" \notin Rest(todo[q])
      /\ Len(todo[q]) = 1 <=> Tail(todo[q]) = <<>>
  BY <1>2, MemoryFacts, Zenon
<1>4. CASE Fail(q)
  BY <1>1, <1>4, FailKeeps, KeptUars
<1>5. CASE /\ Acquired(q, r) /\ todo' = [todo EXCEPT ![q] = Tail(@)] /\ out' = out
           /\ phase' = [phase EXCEPT ![q] = IF Len(todo[q]) = 1 THEN "init" ELSE @]
  <2>1. r \in Members
    BY <1>3 DEF DmaMembers, Members, CqMembers
  <2>2. /\ todo'[q] = Tail(todo[q])
        /\ phase'[q] = IF Len(todo[q]) = 1 THEN "init" ELSE "memory"
    BY <1>1, <1>5, Zenon DEF QueueTypes
  <2>3. /\ members' \in [Key -> SUBSET Members] /\ members'[q] = members[q] \cup {r}
        /\ \A p \in Key \ {q} : /\ members'[p] = members[p]
                                /\ \A x \in Members : <<p, x>> \in mem' <=> <<p, x>> \in mem
        /\ \A x \in Members : <<q, x>> \in mem' <=> x \in members'[q]
    BY <1>1, <1>2, <1>5, <2>1, AcquiredFacts
  <2>4. QueueTypes' /\ Frame(q)
    BY <1>1, <1>5, <2>3, Zenon DEF QueueTypes, Frame, Phase
  <2>5. members'[q] = DmaMembers \ Rest(todo'[q])
    BY <1>2, <1>3, <2>2, <2>3
  <2>6. MembersByPhase(q)'
    BY <1>1, <1>3, <2>2, <2>5, MemoryWhole, Zenon DEF MembersByPhase
  <2>7. KindByPhase(q)'
    BY <1>1, <1>2, <1>5, <2>2 DEF KindByPhase
  <2>8. MembersBacked(q)'
    <3>1. members'[q] \subseteq ClassMembers(kind[q])
      BY <1>2, <2>5 DEF ClassMembers, CqMembers, RqMembers, SqMembers, DmaMembers, AQueue
    <3>2. /\ "buf_umem" \in members'[q] => "buf" \in members'[q]
          /\ "db_umem" \in members'[q] => "db" \in members'[q]
          /\ "hw" \notin members'[q]
      BY <1>1, <1>2, <1>3, <2>3, <2>5 DEF MembersBacked, DmaMembers
    <3>3. ~GivenUp(q)'
      BY <2>2 DEF GivenUp
    <3>4. QED
      BY <1>1, <2>3, <3>1, <3>2, <3>3 DEF MembersBacked
  <2>9. Kept(q)
    BY <2>4, <2>6, <2>7, <2>8 DEF Kept, Local
  <2>10. QED
    BY <1>1, <2>9, KeptUars
<1>6. QED
  BY <1>4, <1>5 DEF AcquireMemory

(* A member other than the registrations, set when the queue has its       *)
(* memory.                                                                 *)
LEMMA SetMember ==
  ASSUME QueueInv, NEW q \in Key, NEW r \in ClassMembers(kind[q]) \ DmaMembers, Acquired(q, r),
         NEW f \in Phase, phase[q] # "deleting", f # "deleting",
         phase' = [phase EXCEPT ![q] = f], kind' = kind, todo' = todo, refused' = refused,
         q \notin refused,
         NEW g \in BOOLEAN, out' = [out EXCEPT ![q] = g],
         kind[q] # "ibq_rq" => DmaMembers \subseteq members[q]
  PROVE  /\ QueueTypes' /\ Frame(q) /\ MembersBacked(q)'
         /\ phase'[q] = f /\ out'[q] = g /\ members'[q] = members[q] \cup {r}
<1>1. QueueTypes /\ MembersBacked(q) /\ ~GivenUp(q)
  BY DEF QueueInv, GivenUp
<1>2. r \in Members
  BY <1>1, Zenon DEF ClassMembers, Members, QueueTypes
<1>3. /\ members' \in [Key -> SUBSET Members] /\ members'[q] = members[q] \cup {r}
      /\ \A p \in Key \ {q} : /\ members'[p] = members[p]
                              /\ \A x \in Members : <<p, x>> \in mem' <=> <<p, x>> \in mem
      /\ \A x \in Members : <<q, x>> \in mem' <=> x \in members'[q]
  BY <1>1, <1>2, AcquiredFacts
<1>4. phase'[q] = f /\ out'[q] = g
  BY <1>1 DEF QueueTypes
<1>5. QueueTypes' /\ Frame(q)
  BY <1>1, <1>3 DEF QueueTypes, Frame
<1>6. MembersBacked(q)'
  <2>1. ~GivenUp(q)'
    BY <1>4 DEF GivenUp
  <2>2. QED
    BY <1>1, <1>3, <2>1 DEF MembersBacked, DmaMembers
<1>7. QED
  BY <1>3, <1>4, <1>5, <1>6, Zenon

(* cq::init, basic_rq::init and the first half of pp_sq::init *)
LEMMA InitToKeeps ==
  ASSUME QueueInv, NEW q \in Key, NEW next, InitTo(q, next), kind[q] \in AQueue \ {"ibq_rq"},
         next = IF kind[q] = "pp_sq" THEN "pacing" ELSE "command"
  PROVE  QueueInv'
<1>1. /\ QueueTypes /\ MembersByPhase(q) /\ KindByPhase(q) /\ members[q] = DmaMembers
      /\ phase[q] = "init" /\ kind' = kind /\ refused' = refused /\ UNCHANGED vars
  BY Zenon DEF QueueInv, InitTo, MembersByPhase
<1>0. q \notin refused
  BY <1>1 DEF KindByPhase
<1>2. CASE Fail(q)
  BY <1>1, <1>2, FailKeeps, KeptUars, Zenon
<1>3. CASE /\ Acquired(q, "uar_t") /\ phase' = [phase EXCEPT ![q] = next]
           /\ todo' = todo /\ out' = out
  <2>1. "uar_t" \in ClassMembers(kind[q]) \ DmaMembers
    BY DEF ClassMembers, CqMembers, RqMembers, SqMembers, DmaMembers, AQueue
  <2>2. next \in Phase /\ next # "deleting" /\ out' = [out EXCEPT ![q] = out[q]] /\ out[q] \in BOOLEAN
    BY <1>1, <1>3 DEF Phase, QueueTypes
  <2>3. /\ QueueTypes' /\ Frame(q) /\ MembersBacked(q)'
        /\ phase'[q] = next /\ out'[q] = out[q] /\ members'[q] = members[q] \cup {"uar_t"}
    BY <1>0, <1>1, <1>3, <2>1, <2>2, SetMember, Zenon
  <2>4. MembersByPhase(q)'
    BY <1>1, <2>3, Zenon DEF MembersByPhase, DmaMembers
  <2>5. KindByPhase(q)'
    BY <1>0, <1>1, <2>3, Zenon DEF KindByPhase
  <2>6. Kept(q)
    BY <2>3, <2>4, <2>5, Zenon DEF Kept, Local
  <2>7. QED
    BY <1>1, <2>6, KeptUars, Zenon
<1>4. QED
  BY <1>2, <1>3, Zenon DEF InitTo

(* The second half of pp_sq::init *)
LEMMA PacingKeeps ==
  ASSUME QueueInv, NEW q \in Key, InitSq(q), phase[q] = "pacing"
  PROVE  QueueInv'
<1>1. /\ QueueTypes /\ MembersBacked(q) /\ MembersByPhase(q) /\ KindByPhase(q) /\ kind[q] = "pp_sq"
      /\ members[q] = DmaMembers \cup {"uar_t"} /\ kind' = kind /\ refused' = refused /\ UNCHANGED vars
  BY Zenon DEF QueueInv, InitSq, InitTo, MembersByPhase
<1>0. q \notin refused
  BY <1>1 DEF KindByPhase
<1>2. CASE Fail(q)
  BY <1>1, <1>2, FailKeeps, KeptUars, Zenon
<1>3. CASE /\ Acquired(q, "pp") /\ phase' = [phase EXCEPT ![q] = "command"]
           /\ todo' = todo /\ out' = out
  <2>1. "pp" \in ClassMembers(kind[q]) \ DmaMembers
    BY <1>1 DEF ClassMembers, SqMembers, DmaMembers
  <2>2. "command" \in Phase /\ out' = [out EXCEPT ![q] = out[q]] /\ out[q] \in BOOLEAN
    BY <1>1, <1>3 DEF Phase, QueueTypes
  <2>3. /\ QueueTypes' /\ Frame(q) /\ MembersBacked(q)'
        /\ phase'[q] = "command" /\ out'[q] = out[q] /\ members'[q] = members[q] \cup {"pp"}
    BY <1>0, <1>1, <1>3, <2>1, <2>2, SetMember, Zenon
  <2>4. MembersByPhase(q)'
    BY <1>1, <2>3, Zenon DEF MembersByPhase, DmaMembers
  <2>5. KindByPhase(q)'
    BY <1>0, <1>1, <2>3, Zenon DEF KindByPhase
  <2>6. Kept(q)
    BY <2>3, <2>4, <2>5, Zenon DEF Kept, Local
  <2>7. QED
    BY <1>1, <2>6, KeptUars, Zenon
<1>4. ASSUME NEW f \in {"command", "partial"}, phase' = [phase EXCEPT ![q] = f],
             mem' \in {mem, mem \cup {<<q, "pp_obj">>}}, UNCHANGED <<todo, members, out>>
      PROVE  QueueInv'
  <2>1. phase'[q] = f
    BY <1>1, <1>4 DEF QueueTypes
  <2>2. "pp_obj" \notin Members
    BY DEF Members, CqMembers, RqMembers, IbqMembers, SqMembers
  <2>3. \A p \in Key, r \in Members : <<p, r>> \in mem' <=> <<p, r>> \in mem
    BY <1>4, <2>2
  <2>4. QueueTypes' /\ Frame(q)
    BY <1>1, <1>4, <2>3, Zenon DEF QueueTypes, Frame, Phase
  <2>5. MembersBacked(q)'
    BY <1>1, <1>4, <2>1, <2>3 DEF MembersBacked, GivenUp
  <2>6. MembersByPhase(q)' /\ KindByPhase(q)'
    BY <1>0, <1>1, <1>4, <2>1, Zenon DEF MembersByPhase, KindByPhase, DmaMembers
  <2>7. Kept(q)
    BY <2>4, <2>5, <2>6 DEF Kept, Local
  <2>8. QED
    BY <1>1, <1>4, <2>7, KeptUars, Zenon
<1>5. QED
  BY <1>2, <1>3, <1>4 DEF InitSq, InitTo

(* The device creates the queue, or refuses. *)
LEMMA CommandKeeps ==
  ASSUME QueueInv, NEW q \in Key, Command(q)
  PROVE  QueueInv'
<1>1. /\ QueueTypes /\ MembersByPhase(q) /\ KindByPhase(q) /\ kind[q] \in AQueue
      /\ phase[q] = "command" /\ kind' = kind /\ refused' = refused /\ UNCHANGED vars
  BY Zenon DEF QueueInv, Command, KindByPhase, QueueTypes, AQueue
<1>0. q \notin refused
  BY <1>1 DEF KindByPhase
<1>2. CASE Fail(q)
  BY <1>1, <1>2, FailKeeps, KeptUars
<1>3. CASE /\ Acquired(q, "hw") /\ phase' = [phase EXCEPT ![q] = "ready"]
           /\ out' = [out EXCEPT ![q] = TRUE] /\ todo' = todo
  <2>1. "hw" \in ClassMembers(kind[q]) \ DmaMembers
    BY <1>1 DEF ClassMembers, CqMembers, RqMembers, IbqMembers, SqMembers, DmaMembers, AQueue
  <2>2. "ready" \in Phase /\ (kind[q] # "ibq_rq" => DmaMembers \subseteq members[q])
    BY <1>1, Zenon DEF Phase, MembersByPhase
  <2>3. /\ QueueTypes' /\ Frame(q) /\ MembersBacked(q)'
        /\ phase'[q] = "ready" /\ out'[q] = TRUE /\ members'[q] = members[q] \cup {"hw"}
    BY <1>0, <1>1, <1>3, <2>1, <2>2, SetMember, Zenon
  <2>4. MembersByPhase(q)' /\ KindByPhase(q)'
    BY <1>0, <1>1, <2>3, Zenon DEF MembersByPhase, KindByPhase
  <2>5. Kept(q)
    BY <2>3, <2>4, Zenon DEF Kept, Local
  <2>6. QED
    BY <1>1, <2>3, <2>5, KeptUars, Zenon
<1>4. QED
  BY <1>2, <1>3 DEF Command

(* The application calls destroy() or deletes the queue. *)
LEMMA EndKeeps ==
  ASSUME QueueInv, NEW q \in Key, destroy(q) \/ Delete(q)
  PROVE  QueueInv'
<1> DEFINE f == phase'[q]
<1>1. /\ QueueTypes /\ MembersBacked(q) /\ MembersByPhase(q) /\ KindByPhase(q)
      /\ kind' = kind /\ members' = members /\ mem' = mem /\ out' = out /\ refused' = refused
      /\ UNCHANGED vars /\ phase[q] \in {"ready", "partial", "destroyed"}
  BY DEF QueueInv, destroy, Delete
<1>2. kind[q] \in AQueue /\ ~GivenUp(q) /\ (kind[q] = "cq" => out[q])
  BY <1>1 DEF QueueTypes, KindByPhase, MembersByPhase, GivenUp, AQueue
<1>3. \/ /\ f = "destroying" /\ phase' = [phase EXCEPT ![q] = "destroying"]
         /\ todo' = [todo EXCEPT ![q] = DestroyOrder(kind[q])] /\ todo'[q] = DestroyOrder(kind[q])
      \/ /\ f = "deleting" /\ phase' = [phase EXCEPT ![q] = "deleting"]
         /\ todo' = [todo EXCEPT ![q] = DeleteOrder(kind[q])] /\ todo'[q] = DeleteOrder(kind[q])
  BY <1>1 DEF destroy, Delete, Deleting, QueueTypes
<1>4. QueueTypes' /\ Frame(q)
  BY <1>1, <1>3 DEF QueueTypes, Frame, Phase
<1>5. MembersBacked(q)'
  <2>1. ~GivenUp(q)'
    BY <1>1, <1>2 DEF GivenUp
  <2>2. QED
    BY <1>1, <1>2, <2>1, Zenon DEF MembersBacked
<1>6. MembersByPhase(q)'
  <2>1. /\ RestOf(DestroyOrder(kind[q]), DestroyOrder(kind[q]))
        /\ RestOf(DeleteOrder(kind[q]), DeleteOrder(kind[q]))
        /\ ClassMembers(kind[q]) \subseteq Rest(DestroyOrder(kind[q])) \cup {"pp"}
        /\ ClassMembers(kind[q]) \subseteq Rest(DeleteOrder(kind[q]))
    BY <1>2, OrderFacts, Zenon
  <2>2. members[q] \subseteq ClassMembers(kind[q])
    BY <1>1, Zenon DEF MembersBacked
  <2>3. QED
    BY <1>1, <1>3, <2>1, <2>2, Zenon DEF MembersByPhase
<1>7. KindByPhase(q)'
  BY <1>1, <1>2, <1>3, Zenon DEF KindByPhase, AQueue
<1>8. Kept(q)
  BY <1>4, <1>5, <1>6, <1>7 DEF Kept, Local
<1>9. QED
  BY <1>1, <1>3, <1>8, KeptUars

(* One resource is released; what it was released for keeps its order. *)
LEMMA ReleaseNextKeeps ==
  ASSUME QueueInv, NEW q \in Key, ReleaseNext(q)
  PROVE  QueueInv'
<1> DEFINE r == Head(todo[q])
           order == IF phase[q] = "destroying" THEN DestroyOrder(kind[q]) ELSE DeleteOrder(kind[q])
<1>1. /\ QueueTypes /\ MembersBacked(q) /\ MembersByPhase(q) /\ KindByPhase(q)
      /\ kind' = kind /\ phase' = phase /\ out' = out /\ UNCHANGED vars
      /\ phase[q] \in {"destroying", "deleting"} /\ todo[q] # <<>>
      /\ members' = [members EXCEPT ![q] = members[q] \ {r}]
      /\ todo' = [todo EXCEPT ![q] = Tail(@)]
  BY Zenon DEF QueueInv, ReleaseNext, Nulled
<1>0. PICK kept \in Keeps(q, r) :
        /\ mem' = IF r \in members[q] /\ ~kept THEN mem \ {<<q, r>>} ELSE mem
        /\ refused' = IF r \in members[q] /\ kept /\ r = "hw" THEN refused \cup {q} ELSE refused
  BY Zenon DEF ReleaseNext
<1>2. kind[q] \in AQueue
  BY <1>1 DEF QueueTypes, KindByPhase, AQueue
<1>3. order \in Seq(Members) /\ Orderly(order)
  BY <1>2, OrderFacts, Zenon
<1>4. RestOf(todo[q], order) /\ members[q] \subseteq Rest(todo[q]) \cup {"pp"}
      /\ (phase[q] = "deleting" => members[q] \subseteq Rest(todo[q]))
  BY <1>1, Zenon DEF MembersByPhase
<1> HIDE DEF order
<1>5. /\ RestOf(Tail(todo[q]), order) /\ r \in Members
      /\ Rest(todo[q]) = Rest(Tail(todo[q])) \cup {r}
      /\ r = "buf" => "buf_umem" \notin Rest(todo[q])
      /\ r = "db" => "db_umem" \notin Rest(todo[q])
      /\ r \in DmaMembers => "hw" \notin Rest(todo[q])
  BY <1>1, <1>3, <1>4, StepFacts
<1>6. todo'[q] = Tail(todo[q]) /\ members'[q] = members[q] \ {r}
  BY <1>1 DEF QueueTypes
<1>7. QueueTypes' /\ Frame(q)
  <2>1. QueueTypes'
    BY <1>1, Zenon DEF QueueTypes
  <2>2. \A p \in Key \ {q} : /\ p \in refused' <=> p \in refused
                             /\ \A x \in Members : <<p, x>> \in mem' <=> <<p, x>> \in mem
    BY <1>0
  <2>3. QED
    BY <1>1, <2>1, <2>2, Zenon DEF QueueTypes, Frame
(* What is told to the device and kept there. *)
<1>13. r \in members[q] /\ kept = TRUE => q \in refused' /\ r \in DeviceHeld
  <2>1. CASE r = "hw"
    BY <1>0, <2>1 DEF DeviceHeld
  <2>2. CASE r \in DeviceHeld \ {"hw"}
    <3>1. "hw" \notin members[q]
      BY <1>4, <1>5, <2>2 DEF DmaMembers, DeviceHeld
    <3>2. kept = TRUE => <<q, "hw">> \in mem
      BY <1>0, <2>2 DEF Keeps, DeviceHeld
    <3>3. <<q, "hw">> \in mem => q \in refused
      BY <1>1, <3>1, Zenon DEF MembersBacked, Members, CqMembers
    <3>4. QED
      BY <1>0, <2>2, <3>2, <3>3
  <2>3. CASE r \notin DeviceHeld
    BY <1>0, <2>3 DEF Keeps, DeviceHeld
  <2>4. QED
    BY <2>1, <2>2, <2>3
<1>14. kept \in BOOLEAN
  <2>1. Keeps(q, r) \subseteq BOOLEAN
    <3>1. CASE r = "hw" /\ kind[q] = "cq"
      BY <3>1, Zenon DEF Keeps, Busy
    <3>2. CASE r = "hw" /\ kind[q] \in {"striding_rq", "regular_rq", "ibq_rq"}
      BY <3>2 DEF Keeps
    <3>5. CASE r = "hw" /\ kind[q] \notin {"cq", "striding_rq", "regular_rq", "ibq_rq"}
      BY <3>5 DEF Keeps
    <3>3. CASE r \in DeviceHeld \ {"hw"}
      <4>1. Keeps(q, r) = {(<<q, "hw">> \in mem)}
        BY <3>3 DEF Keeps
      <4>2. (<<q, "hw">> \in mem) \in BOOLEAN
        OBVIOUS
      <4>3. QED
        BY <4>1, <4>2, Zenon
    <3>6. CASE r # "hw" /\ r \notin DeviceHeld
      BY <3>6 DEF Keeps
    <3>4. QED
      BY <3>1, <3>2, <3>3, <3>5, <3>6
  <2>2. QED
    BY <1>0, <2>1, Zenon
<1>8. MembersBacked(q)'
  <2>1. \A x \in Members : <<q, x>> \in mem' =>
          \/ x \in members'[q] /\ (GivenUp(q) => x = "uar_t")
          \/ q \in refused' /\ x \in DeviceHeld
    <3> SUFFICES ASSUME NEW x \in Members, <<q, x>> \in mem', ~(q \in refused' /\ x \in DeviceHeld)
                 PROVE  x \in members'[q] /\ (GivenUp(q) => x = "uar_t")
      OBVIOUS
    <3>1. <<q, x>> \in mem /\ (q \in refused => q \in refused') /\ kept \in BOOLEAN
      BY <1>0, <1>14, Zenon
    <3>2. x \in members[q] /\ (GivenUp(q) => x = "uar_t")
      BY <1>1, <3>1, Zenon DEF MembersBacked
    <3>3. x # r
      BY <1>0, <1>13, <3>1, <3>2
    <3>4. QED
      BY <1>6, <3>2, <3>3
  <2>7. \A x \in members'[q] : (GivenUp(q) => x = "uar_t") => <<q, x>> \in mem'
    <3>1. \A x : x # r /\ <<q, x>> \in mem => <<q, x>> \in mem'
      BY <1>0
    <3>2. QED
      BY <1>1, <1>6, <3>1 DEF MembersBacked
  <2>2. GivenUp(q)' <=> GivenUp(q)
    BY <1>1, Zenon DEF GivenUp
  <2>3. /\ "buf_umem" \in members'[q] => "buf" \in members'[q]
        /\ "db_umem" \in members'[q] => "db" \in members'[q]
    BY <1>1, <1>4, <1>5, <1>6, Zenon DEF MembersBacked
  <2>4. "hw" \in members'[q] /\ kind[q] # "ibq_rq" => DmaMembers \subseteq members'[q]
    BY <1>1, <1>4, <1>5, <1>6, Zenon DEF MembersBacked
  <2>5. members'[q] \subseteq ClassMembers(kind[q])
    BY <1>1, <1>6, Zenon DEF MembersBacked
  <2>6. QED
    BY <1>1, <2>1, <2>2, <2>3, <2>4, <2>5, <2>7, Zenon DEF MembersBacked
<1>9. MembersByPhase(q)'
  <2>1. /\ members'[q] \subseteq Rest(todo'[q]) \cup {"pp"}
        /\ phase[q] = "deleting" => members'[q] \subseteq Rest(todo'[q])
    BY <1>4, <1>5, <1>6, Zenon
  <2>2. RestOf(todo'[q], order)
    BY <1>5, <1>6, Zenon
  <2>3. QED
    BY <1>1, <2>1, <2>2, Zenon DEF MembersByPhase, order
<1>10. KindByPhase(q)'
  BY <1>1 DEF KindByPhase
<1>11. Kept(q)
  BY <1>7, <1>8, <1>9, <1>10 DEF Kept, Local
<1>12. QED
  BY <1>1, <1>6, <1>11, KeptUars, Zenon

(* destroy() or the destructor is through. *)
LEMMA ReleasedKeeps ==
  ASSUME QueueInv, NEW q \in Key, Released(q)
  PROVE  QueueInv'
<1>1. /\ QueueTypes /\ MembersBacked(q) /\ MembersByPhase(q) /\ KindByPhase(q)
      /\ todo' = todo /\ members' = members /\ mem' = mem /\ refused' = refused /\ UNCHANGED vars
      /\ phase[q] \in {"destroying", "deleting"} /\ todo[q] = <<>>
  BY Zenon DEF QueueInv, Released
<1>2. members[q] \subseteq {"pp"} /\ (phase[q] = "deleting" => members[q] = {})
  BY <1>1, MemoryWhole DEF MembersByPhase
<1>3. CASE phase[q] = "destroying"
  <2>1. /\ phase' = [phase EXCEPT ![q] = "destroyed"] /\ kind' = kind /\ out' = out
        /\ phase'[q] = "destroyed"
    BY <1>1, <1>3 DEF Released, QueueTypes
  <2>2. QueueTypes' /\ Frame(q)
    BY <1>1, <2>1, Zenon DEF QueueTypes, Frame, Phase
  <2>3. MembersBacked(q)'
    BY <1>1, <1>3, <2>1 DEF MembersBacked, GivenUp
  <2>4. MembersByPhase(q)' /\ KindByPhase(q)'
    BY <1>1, <1>2, <1>3, <2>1, Zenon DEF MembersByPhase, KindByPhase
  <2>5. Kept(q)
    BY <2>2, <2>3, <2>4, Zenon DEF Kept, Local
  <2>6. QED
    BY <1>1, <2>1, <2>5, KeptUars, Zenon
<1>4. CASE phase[q] = "deleting"
  <2>1. /\ phase' = [phase EXCEPT ![q] = "none"] /\ kind' = [kind EXCEPT ![q] = "none"]
        /\ out' = [out EXCEPT ![q] = FALSE]
        /\ phase'[q] = "none" /\ kind'[q] = "none"
    BY <1>1, <1>4 DEF Released, QueueTypes
  <2>2. QueueTypes' /\ Frame(q)
    BY <1>1, <2>1, Zenon DEF QueueTypes, Frame, Phase
  <2>3. MembersBacked(q)'
    BY <1>1, <1>2, <1>4, <2>1 DEF MembersBacked, GivenUp
  <2>4. MembersByPhase(q)' /\ KindByPhase(q)'
    BY <1>1, <1>2, <1>4, <2>1, Zenon DEF MembersByPhase, KindByPhase
  <2>5. Kept(q)
    BY <2>2, <2>3, <2>4 DEF Kept, Local
  <2>6. QED
    BY <1>1, <2>1, <2>5, KeptUars
<1>5. QED
  BY <1>1, <1>3, <1>4, Zenon

----------------------------------------------------------------------------
(* The queues call the pool for their UAR and do nothing else to it. *)
LEMMA PoolStep == [QNext]_allVars => [Next]_vars
<1> SUFFICES ASSUME [QNext]_allVars PROVE [Next]_vars
  OBVIOUS
<1>1. CASE UNCHANGED allVars
  BY <1>1 DEF allVars
<1>2. ASSUME NEW q \in Key, GetUar(q) PROVE [Next]_vars
  BY <1>2 DEF GetUar, Next, get_uar
<1>3. ASSUME NEW q \in Key, create_cq(q) \/ create_rq(q) \/ create_ibq_rq(q) \/ create_pp_sq(q)
      PROVE  UNCHANGED vars
  BY <1>3, Zenon DEF create_cq, create_rq, create_ibq_rq, create_pp_sq, New
<1>4. ASSUME NEW q \in Key, AcquireMemory(q) \/ InitCq(q) \/ InitRq(q) \/ InitSq(q)
      PROVE  UNCHANGED vars
  BY <1>4, Zenon DEF AcquireMemory, InitCq, InitRq, InitSq, InitTo
<1>5. ASSUME NEW q \in Key,
             CreateCq(q) \/ CreateStriding(q) \/ CreateRegular(q) \/ CreateIbq(q) \/ CreateSq(q)
      PROVE  UNCHANGED vars
  BY <1>5 DEF CreateCq, CreateStriding, CreateRegular, CreateIbq, CreateSq, Command
<1>6. ASSUME NEW q \in Key, destroy(q) \/ Delete(q) \/ ReleaseNext(q) \/ Released(q)
      PROVE  UNCHANGED vars
  BY <1>6 DEF destroy, Delete, ReleaseNext, Released
<1>7. QED
  BY <1>1, <1>2, <1>3, <1>4, <1>5, <1>6 DEF QNext

(* Under the queues the pool behaves as UarPool specifies, so that all     *)
(* that is proved of the pool holds for create_cq, prepare_basic_rq and    *)
(* create_pp_sq, its callers.                                              *)
THEOREM QueuesUsePool == QSpec => Spec
<1>1. QInit => Init
  BY DEF QInit
<1>2. QED
  BY <1>1, PoolStep, PTL DEF QSpec, Spec

(* There is no queue at first. *)
LEMMA InitQueues == QInit => QueueInv
<1> SUFFICES ASSUME QInit PROVE QueueInv
  OBVIOUS
<1>1. QueueTypes
  BY DEF QInit, QueueTypes, Phase
<1>2. ASSUME NEW q \in Key
      PROVE  /\ kind[q] = "none" /\ phase[q] = "none" /\ members[q] = {} /\ mem = {} /\ refused = {}
  BY DEF QInit
<1>3. ASSUME NEW q \in Key PROVE MembersBacked(q) /\ MembersByPhase(q) /\ KindByPhase(q) /\ HasUar(q)
  BY <1>2, Zenon DEF MembersBacked, MembersByPhase, KindByPhase, HasUar, GivenUp
<1>4. QED
  BY <1>1, <1>3 DEF QueueInv

(* Every step of a queue preserves the invariant. *)
LEMMA StepQueues == IInv /\ QueueInv /\ [QNext]_allVars => QueueInv'
<1> SUFFICES ASSUME IInv, QueueInv, [QNext]_allVars PROVE QueueInv'
  OBVIOUS
<1>1. CASE UNCHANGED allVars
  <2>1. /\ kind' = kind /\ phase' = phase /\ todo' = todo /\ members' = members /\ mem' = mem
        /\ out' = out /\ refused' = refused /\ heldSh' = heldSh /\ m_shared_uar' = m_shared_uar /\ live' = live
    BY <1>1 DEF allVars, queueVars, vars
  <2>2. QueueTypes'
    BY <2>1, Zenon DEF QueueInv, QueueTypes
  <2>3. ASSUME NEW q \in Key PROVE MembersByPhase(q)' /\ KindByPhase(q)'
    BY <2>1, Zenon DEF QueueInv, MembersByPhase, KindByPhase
  <2>4. ASSUME NEW q \in Key PROVE MembersBacked(q)' /\ HasUar(q)'
    BY <2>1, Zenon DEF QueueInv, MembersBacked, HasUar, GivenUp
  <2>5. QED
    BY <2>2, <2>3, <2>4, Zenon DEF QueueInv
<1>2. ASSUME NEW q \in Key, create_cq(q) \/ create_rq(q) \/ create_ibq_rq(q) \/ create_pp_sq(q)
      PROVE  QueueInv'
  <2>1. CASE create_cq(q)
    BY <2>1, NewKeeps, Zenon DEF create_cq, AQueue
  <2>2. CASE create_rq(q)
    BY <2>2, NewKeeps, Zenon DEF create_rq, AQueue
  <2>3. CASE create_ibq_rq(q)
    BY <2>3, NewKeeps, Zenon DEF create_ibq_rq, AQueue
  <2>4. CASE create_pp_sq(q)
    BY <2>4, NewKeeps, Zenon DEF create_pp_sq, AQueue
  <2>5. QED
    BY <1>2, <2>1, <2>2, <2>3, <2>4
<1>3. ASSUME NEW q \in Key, GetUar(q) \/ AcquireMemory(q) PROVE QueueInv'
  BY <1>3, GetUarKeeps, AcquireMemoryKeeps
<1>4. ASSUME NEW q \in Key, InitCq(q) \/ InitRq(q) \/ InitSq(q) PROVE QueueInv'
  <2>1. CASE InitCq(q)
    BY <2>1, InitToKeeps DEF InitCq, AQueue
  <2>2. CASE InitRq(q)
    BY <2>2, InitToKeeps DEF InitRq, AQueue
  <2>3. CASE kind[q] = "pp_sq" /\ InitTo(q, "pacing")
    BY <2>3, InitToKeeps DEF AQueue
  <2>4. CASE InitSq(q) /\ phase[q] = "pacing"
    BY <2>4, PacingKeeps
  <2>5. QED
    BY <1>4, <2>1, <2>2, <2>3, <2>4 DEF InitSq
<1>5. ASSUME NEW q \in Key,
             CreateCq(q) \/ CreateStriding(q) \/ CreateRegular(q) \/ CreateIbq(q) \/ CreateSq(q)
      PROVE  QueueInv'
  BY <1>5, CommandKeeps DEF CreateCq, CreateStriding, CreateRegular, CreateIbq, CreateSq
<1>6. ASSUME NEW q \in Key, destroy(q) \/ Delete(q) \/ ReleaseNext(q) \/ Released(q)
      PROVE  QueueInv'
  BY <1>6, EndKeeps, ReleaseNextKeeps, ReleasedKeeps
<1>7. QED
  BY <1>1, <1>2, <1>3, <1>4, <1>5, <1>6 DEF QNext

(* The members of every queue agree with what is allocated for it, at      *)
(* every point of its creation and destruction.                            *)
THEOREM QueueInvariance == QSpec => [](IInv /\ QueueInv)
<1>1. QInit => IInv /\ QueueInv
  BY InitIInv, InitQueues DEF QInit
<1>2. IInv /\ QueueInv /\ [QNext]_allVars => (IInv /\ QueueInv)'
  BY PoolStep, StepIInv, StepQueues
<1>3. QED
  BY <1>1, <1>2, PTL DEF QSpec

(* While the device has a queue its ring and doorbell record are allocated *)
(* and registered, and registered memory is not freed, in create_cq,       *)
(* basic_rq::destroy and the rest; of queues that are not destroyed while  *)
(* the device needs them.                                                  *)
THEOREM DmaBackedHolds == QSpec => []DmaBacked
<1>1. ASSUME QueueInv PROVE DmaBacked
  <2> SUFFICES ASSUME NEW q \in Key \ refused
               PROVE  /\ <<q, "hw">> \in mem /\ kind[q] # "ibq_rq" =>
                           \A r \in {"buf", "buf_umem", "db", "db_umem"} : <<q, r>> \in mem
                      /\ <<q, "buf_umem">> \in mem => <<q, "buf">> \in mem
                      /\ <<q, "db_umem">> \in mem => <<q, "db">> \in mem
    BY Zenon DEF DmaBacked
  <2>1. MembersBacked(q)
    BY <1>1 DEF QueueInv
  <2>2. {"hw", "buf", "buf_umem", "db", "db_umem"} \subseteq Members
    BY Zenon DEF Members, CqMembers
  <2>3. \A r \in Members : <<q, r>> \in mem => r \in members[q] /\ (GivenUp(q) => r = "uar_t")
    BY <2>1, Zenon DEF MembersBacked
  <2>4. QED
    BY <2>1, <2>2, <2>3 DEF MembersBacked, DmaMembers
<1>2. QED
  BY <1>1, QueueInvariance, PTL

(* Once a queue is deleted, whichever way its creation ended, nothing its  *)
(* class has a member for is left in the process; and nothing in the       *)
(* device, but for the queues and registrations obj::destroy and ~umem     *)
(* could not take from a device that still needed them.                    *)
THEOREM NothingLeftHolds == QSpec => []NothingLeft
<1>1. ASSUME QueueInv PROVE NothingLeft
  <2> SUFFICES ASSUME NEW q \in Key, phase[q] = "none", NEW r \in Members, <<q, r>> \in mem
               PROVE  q \in refused /\ r \in DeviceHeld
    BY Zenon DEF NothingLeft
  <2>1. MembersBacked(q) /\ members[q] = {}
    BY <1>1, Zenon DEF QueueInv, MembersByPhase
  <2>2. QED
    BY <2>1, Zenon DEF MembersBacked
<1>2. QED
  BY <1>1, QueueInvariance, PTL

(* Only create_cq releases what is already released. *)
THEOREM BadFreeOnlyFailedCqHolds == QSpec => []BadFreeOnlyFailedCq
<1>1. QInit => BadFreeOnlyFailedCq
  BY DEF QInit, BadFreeOnlyFailedCq
<1>2. ASSUME QueueInv, BadFreeOnlyFailedCq, [QNext]_allVars PROVE BadFreeOnlyFailedCq'
  <2>1. CASE badFree' = badFree
    BY <1>2, <2>1 DEF BadFreeOnlyFailedCq
  <2>2. ASSUME NEW q \in Key, ReleaseNext(q) PROVE BadFreeOnlyFailedCq'
    <3> DEFINE r == Head(todo[q])
    <3>1. \/ badFree' = badFree
          \/ /\ r \in members[q] /\ <<q, r>> \notin mem
             /\ badFree' = badFree \cup {<<kind[q], out[q], r>>}
      BY <2>2, Zenon DEF ReleaseNext
    <3>2. r \in members[q] /\ <<q, r>> \notin mem => kind[q] = "cq" /\ ~out[q]
      <4>1. MembersBacked(q) /\ members[q] \subseteq Members
        BY <1>2 DEF QueueInv, QueueTypes
      <4>2. QED
        BY <4>1 DEF MembersBacked, GivenUp
    <3>3. QED
      BY <1>2, <3>1, <3>2 DEF BadFreeOnlyFailedCq
  <2>3. badFree' = badFree \/ \E q \in Key : ReleaseNext(q)
    BY <1>2, Zenon DEF QNext, allVars, queueVars, create_cq, create_rq, create_ibq_rq, create_pp_sq, New,
       GetUar, AcquireMemory, InitCq, InitRq, InitSq, InitTo, CreateCq, CreateStriding,
       CreateRegular, CreateIbq, CreateSq, Command, destroy, Delete, Released
  <2>4. QED
    BY <2>1, <2>2, <2>3
<1>3. QED
  BY <1>1, <1>2, QueueInvariance, PTL DEF QSpec

(* What the getters return is there: the buffers are allocated, the page   *)
(* is the pool's and is allocated.                                         *)
THEOREM GettersBackedHolds == QSpec => []GettersBacked
<1>1. ASSUME QueueInv PROVE GettersBacked
  <2> SUFFICES ASSUME NEW q \in Key, phase[q] \in {"ready", "partial", "destroyed"}, NEW r \in Got(q)
               PROVE  /\ <<q, r>> \in mem
                      /\ r = "uar_t" => heldSh[q] = m_shared_uar /\ m_shared_uar \in live
    BY Zenon DEF GettersBacked
  <2>1. MembersBacked(q) /\ HasUar(q) /\ members[q] \subseteq Members
    BY <1>1 DEF QueueInv, QueueTypes
  <2>2. r \in members[q] /\ ~GivenUp(q)
    BY DEF Got, cq_getters, rq_getters, sq_getters, GivenUp
  <2>3. QED
    BY <2>1, <2>2, Zenon DEF MembersBacked, HasUar
<1>2. QED
  BY <1>1, QueueInvariance, PTL
=============================================================================
