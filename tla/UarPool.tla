------------------------------ MODULE UarPool ------------------------------
(***************************************************************************)
(* uar_collection (src/src/dpcp/adapter.cpp): the pool from which the      *)
(* adapter gives every completion, receive and send queue the UAR (user    *)
(* access region, the doorbell page) it rings.  A key is the address of    *)
(* the queue.  One UAR is shared by every key that asks for SHARED_UAR; a  *)
(* key that asks for EXCLUSIVE_UAR gets one of its own, which goes back to *)
(* the entries of the null key when it is released.                        *)
(*                                                                         *)
(* get_uar and release_uar hold m_mutex for their whole body, so one call  *)
(* of any thread is one step.                                              *)
(***************************************************************************)
EXTENDS Naturals

CONSTANTS Key,    \* addresses of queue objects
          Uar,    \* the UARs the device can provide
          Null    \* nullptr, both as a UAR and as the key of the free entries

ASSUME NullAssumption == Null \notin Key \cup Uar

VARIABLES
  m_ex_uars,      \* multimap: how often it holds each <<key, uar>> entry
  m_sh_vc,        \* vector: how often it holds each key
  m_shared_uar,
  live,           \* UARs the device has allocated and not freed
  constructed,    \* FALSE once the collection is destroyed
  ret,            \* what the last call returned
  heldSh,         \* the callers' view: the shared UAR a key got and keeps
  heldEx          \* the callers' view: the exclusive UAR a key got and keeps

pool == <<m_ex_uars, m_sh_vc, m_shared_uar, live, constructed>>
vars == <<m_ex_uars, m_sh_vc, m_shared_uar, live, constructed, ret, heldSh, heldEx>>

Status == {"DPCP_OK", "DPCP_ERR_INVALID_PARAM"}
Entry  == (Key \cup {Null}) \X Uar

(* Types of the members of uar_collection and of the callers' view. *)
TypeOK ==
  /\ m_ex_uars \in [Entry -> Nat]
  /\ m_sh_vc \in [Key -> Nat]
  /\ m_shared_uar \in Uar \cup {Null}
  /\ live \in SUBSET Uar
  /\ constructed \in BOOLEAN
  /\ ret \in Uar \cup {Null} \cup Status
  /\ heldSh \in [Key -> Uar \cup {Null}]
  /\ heldEx \in [Key -> Uar \cup {Null}]

(* std::multimap::find: the UARs of the entries of key k (Null: free). *)
UarsOf(k) == {u \in Uar : m_ex_uars[<<k, u>>] > 0}

(* dcmd::ctx::create_uar: a UAR not in use, or nullptr when devx refuses. *)
allocate == (Uar \ live) \cup {Null}

Init ==
  /\ m_ex_uars = [e \in Entry |-> 0]
  /\ m_sh_vc = [k \in Key |-> 0]
  /\ m_shared_uar = Null
  /\ live = {}
  /\ constructed = TRUE
  /\ ret = Null
  /\ heldSh = [k \in Key |-> Null]
  /\ heldEx = [k \in Key |-> Null]

----------------------------------------------------------------------------
(* Variants of the calls with a slip of the kind the code could contain.   *)
(* Each breaks a property below and shows that the property depends on     *)
(* that detail; no specification uses them.                                *)

(* The free entry stays where it was. *)
GetExclusiveFree_NoErase(k) ==
  /\ constructed
  /\ UarsOf(k) = {}
  /\ \E u \in UarsOf(Null) :
       /\ m_ex_uars' = [m_ex_uars EXCEPT ![<<k, u>>] = @ + 1]
       /\ heldEx' = [heldEx EXCEPT ![k] = u]
       /\ ret' = u
  /\ UNCHANGED <<m_sh_vc, m_shared_uar, live, constructed, heldSh>>

(* A second call for the same key is not recognised. *)
GetExclusiveNew_NoFind(k) ==
  /\ constructed
  /\ UarsOf(Null) = {}
  /\ \E u \in allocate :
       /\ m_ex_uars' = [e \in Entry |->
            IF e = <<k, u>> THEN m_ex_uars[e] + 1 ELSE m_ex_uars[e]]
       /\ live' = live \cup ({u} \ {Null})
       /\ heldEx' = [heldEx EXCEPT ![k] = u]
       /\ ret' = u
  /\ UNCHANGED <<m_sh_vc, m_shared_uar, constructed, heldSh>>

(* The shared UAR becomes a free entry when one of its users leaves. *)
ReleaseShared_ToFree(k) ==
  /\ constructed
  /\ m_sh_vc[k] > 0
  /\ m_sh_vc' = [m_sh_vc EXCEPT ![k] = 0]
  /\ heldSh' = [heldSh EXCEPT ![k] = Null]
  /\ m_ex_uars' = [m_ex_uars EXCEPT ![<<Null, m_shared_uar>>] = @ + 1]
  /\ ret' = "DPCP_OK"
  /\ UNCHANGED <<m_shared_uar, live, constructed, heldEx>>

(* The entry is erased without becoming free. *)
ReleaseExclusive_Forgets(k) ==
  /\ constructed
  /\ m_sh_vc[k] = 0
  /\ \E u \in UarsOf(k) : m_ex_uars' = [m_ex_uars EXCEPT ![<<k, u>>] = @ - 1]
  /\ heldEx' = [heldEx EXCEPT ![k] = Null]
  /\ ret' = "DPCP_OK"
  /\ UNCHANGED <<m_sh_vc, m_shared_uar, live, constructed, heldSh>>
----------------------------------------------------------------------------
(* get_uar(k, SHARED_UAR), first successful call: allocate the UAR.  The   *)
(* key is recorded only when the allocation succeeded.                     *)
GetSharedFirst(k) ==
  /\ constructed
  /\ m_shared_uar = Null
  /\ \E u \in allocate :
       /\ m_shared_uar' = u
       /\ live' = live \cup ({u} \ {Null})
       /\ m_sh_vc' = IF u = Null THEN m_sh_vc ELSE [m_sh_vc EXCEPT ![k] = @ + 1]
       /\ heldSh' = [heldSh EXCEPT ![k] = u]
       /\ ret' = u
  /\ UNCHANGED <<m_ex_uars, constructed, heldEx>>

(* get_uar(k, SHARED_UAR) once the shared UAR exists. *)
GetSharedAgain(k) ==
  /\ constructed
  /\ m_shared_uar # Null
  /\ m_sh_vc' = IF m_sh_vc[k] > 0 THEN m_sh_vc ELSE [m_sh_vc EXCEPT ![k] = @ + 1]
  /\ heldSh' = [heldSh EXCEPT ![k] = m_shared_uar]
  /\ ret' = m_shared_uar
  /\ UNCHANGED <<m_ex_uars, m_shared_uar, live, constructed, heldEx>>

(* get_uar(k, EXCLUSIVE_UAR), k already has one. *)
GetExclusiveKnown(k) ==
  /\ constructed
  /\ \E u \in UarsOf(k) :
       /\ heldEx' = [heldEx EXCEPT ![k] = u]
       /\ ret' = u
  /\ UNCHANGED <<pool, heldSh>>

(* get_uar(k, EXCLUSIVE_UAR) from a free entry.  The code moves the UAR it *)
(* found to k and then erases the key 0, that is, every free entry.        *)
GetExclusiveFree(k) ==
  /\ constructed
  /\ UarsOf(k) = {}
  /\ \E u \in UarsOf(Null) :
       /\ m_ex_uars' = [e \in Entry |->
            IF e[1] = Null THEN 0
            ELSE IF e = <<k, u>> THEN m_ex_uars[e] + 1 ELSE m_ex_uars[e]]
       /\ heldEx' = [heldEx EXCEPT ![k] = u]
       /\ ret' = u
  /\ UNCHANGED <<m_sh_vc, m_shared_uar, live, constructed, heldSh>>

(* get_uar(k, EXCLUSIVE_UAR) with no free entry: allocate, or return null. *)
GetExclusiveNew(k) ==
  /\ constructed
  /\ UarsOf(k) = {} /\ UarsOf(Null) = {}
  /\ \E u \in allocate :
       /\ m_ex_uars' = [e \in Entry |->
            IF e = <<k, u>> THEN m_ex_uars[e] + 1 ELSE m_ex_uars[e]]
       /\ live' = live \cup ({u} \ {Null})
       /\ heldEx' = [heldEx EXCEPT ![k] = u]
       /\ ret' = u
  /\ UNCHANGED <<m_sh_vc, m_shared_uar, constructed, heldSh>>

(* release_uar(k) for a key of the shared UAR: remove every occurrence. *)
ReleaseShared(k) ==
  /\ constructed
  /\ m_sh_vc[k] > 0
  /\ m_sh_vc' = [m_sh_vc EXCEPT ![k] = 0]
  /\ heldSh' = [heldSh EXCEPT ![k] = Null]
  /\ ret' = "DPCP_OK"
  /\ UNCHANGED <<m_ex_uars, m_shared_uar, live, constructed, heldEx>>

(* release_uar(k) otherwise: the entry of k moves to the free entries. *)
ReleaseExclusive(k) ==
  /\ constructed
  /\ m_sh_vc[k] = 0
  /\ \E u \in UarsOf(k) :
       m_ex_uars' = [m_ex_uars EXCEPT ![<<k, u>>] = @ - 1, ![<<Null, u>>] = @ + 1]
  /\ heldEx' = [heldEx EXCEPT ![k] = Null]
  /\ ret' = "DPCP_OK"
  /\ UNCHANGED <<m_sh_vc, m_shared_uar, live, constructed, heldSh>>

(* release_uar(k) of a key the pool does not know. *)
ReleaseUnknown(k) ==
  /\ constructed
  /\ m_sh_vc[k] = 0 /\ UarsOf(k) = {}
  /\ ret' = "DPCP_ERR_INVALID_PARAM"
  /\ UNCHANGED <<pool, heldSh, heldEx>>

(* ~uar_collection: only the shared UAR is freed, both containers are cleared. *)
Destroy ==
  /\ constructed
  /\ live' = live \ {m_shared_uar}
  /\ m_ex_uars' = [e \in Entry |-> 0]
  /\ m_sh_vc' = [k \in Key |-> 0]
  /\ m_shared_uar' = Null
  /\ constructed' = FALSE
  /\ heldSh' = [k \in Key |-> Null]
  /\ heldEx' = [k \in Key |-> Null]
  /\ ret' = Null

get_uar(k) ==
  \/ GetSharedFirst(k) \/ GetSharedAgain(k)
  \/ GetExclusiveKnown(k) \/ GetExclusiveFree(k) \/ GetExclusiveNew(k)

release_uar(k) == ReleaseShared(k) \/ ReleaseExclusive(k) \/ ReleaseUnknown(k)

Next == (\E k \in Key : get_uar(k) \/ release_uar(k)) \/ Destroy

Spec == Init /\ [][Next]_vars

----------------------------------------------------------------------------
(* No UAR handed out as exclusive is held by a second queue, be it as      *)
(* exclusive or as shared: two queues never ring each other's doorbell     *)
(* page unless both asked to share (get_uar, release_uar).                 *)
ExclusiveOwnership ==
  \A k1, k2 \in Key : heldEx[k1] # Null =>
     /\ heldEx[k1] = heldEx[k2] => k1 = k2
     /\ heldEx[k1] # heldSh[k2]

(* What a queue got from get_uar and has not released is still allocated   *)
(* in the device, and all sharers got the same UAR, whatever was released  *)
(* or refused by the device in between.                                    *)
HeldIsLive ==
  \A k \in Key : /\ heldEx[k] \in live \cup {Null}
                 /\ heldSh[k] # Null => heldSh[k] = m_shared_uar /\ heldSh[k] \in live

(* The containers record exactly the holders: release_uar succeeds for a   *)
(* key that holds a UAR and fails with DPCP_ERR_INVALID_PARAM for any      *)
(* other, a refused allocation leaves no trace.                            *)
PoolKnowsHolders ==
  \A k \in Key : /\ heldSh[k] # Null <=> m_sh_vc[k] > 0
                 /\ UarsOf(k) = {heldEx[k]} \ {Null}

(* A queue keeps the exclusive UAR it was given until a successful release *)
(* or the end of the pool: no call of another queue, and no repeated call  *)
(* of its own, replaces it.                                                *)
GrantIsStable ==
  [][\A k \in Key : heldEx[k] # Null /\ heldEx'[k] # heldEx[k] =>
        heldEx'[k] = Null /\ (ret' = "DPCP_OK" \/ ~constructed')]_vars

(* The pool can still find the UAR u: it is shared, free or of some key. *)
Accounted(u) == u = m_shared_uar \/ \E k \in Key \cup {Null} : u \in UarsOf(k)

(* A UAR the pool has allocated stays where a later call finds it, with    *)
(* one exception: taking one of several free UARs drops the others,        *)
(* because get_uar erases all the entries of the null key.                 *)
LostOnlyBesideTaken ==
  [][constructed' => \A u \in Uar : Accounted(u) /\ ~Accounted(u)' =>
        u \in UarsOf(Null) /\ \E v \in UarsOf(Null) \ {u}, k \in Key : heldEx'[k] = v]_vars

(* The abstract service, seen from the callers. *)
Service == INSTANCE UarService WITH
             sharedUar <- m_shared_uar,
             sharers   <- {k \in Key : heldSh[k] # Null},
             excl      <- heldEx

(* The pool implements the abstract service: what get_uar and release_uar  *)
(* do with the containers is, for the callers, a grant, a release or       *)
(* nothing.                                                                *)
ImplementsService == Service!SSpec

(* The inductive invariant behind ExclusiveOwnership: no UAR has two       *)
(* entries, and none of the entries is the shared UAR or a freed one.      *)
EntriesDistinct ==
  \A e, f \in Entry : m_ex_uars[e] > 0 /\ m_ex_uars[f] > 0 /\ e[2] = f[2] => e = f

EntriesLive ==
  /\ \A e \in Entry : m_ex_uars[e] > 0 =>
       m_ex_uars[e] = 1 /\ e[2] \in live /\ e[2] # m_shared_uar
  /\ m_shared_uar \in live \cup {Null}

SharersGotShared ==
  \A k \in Key : heldSh[k] # Null => heldSh[k] = m_shared_uar

(* The containers hold each UAR once, hold neither the shared UAR nor a    *)
(* freed one, and agree with what get_uar gave to the callers.             *)
IInv == TypeOK /\ EntriesDistinct /\ EntriesLive /\ SharersGotShared /\ PoolKnowsHolders
=============================================================================
