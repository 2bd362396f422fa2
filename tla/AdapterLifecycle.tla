-------------------------- MODULE AdapterLifecycle --------------------------
(***************************************************************************)
(* An adapter from its constructor to its destructor                       *)
(* (src/src/dpcp/adapter.cpp): how it obtains its protection domain (PD),  *)
(* transport domain (TD) and UAR pool through set_pd, create_ibv_pd,       *)
(* create_own_pd, set_td and open, any of which the device may refuse at   *)
(* each step, and what ~adapter gives back.  The adapter has no lock and   *)
(* is used by one thread, so a call is one step.                           *)
(*                                                                         *)
(* A PD stands for its number and for its ibv_pd pointer alike.            *)
(***************************************************************************)
EXTENDS FiniteSets

CONSTANTS
  Pd,        \* PDs the device can give to the adapter
  UserPd,    \* PDs that belong to the application
  Td,        \* TDs the device can give to the adapter
  UserTd,    \* TD numbers the application may set
  None       \* nullptr, and the number 0

ASSUME LifecycleAssumption ==
  /\ None \notin Pd \cup UserPd \cup Td \cup UserTd
  /\ Pd \cap UserPd = {} /\ Td \cap UserTd = {}
  /\ None \notin [td : Td \cup {None}]     \* an object is not a null pointer
  /\ None \notin [pd : Pd \cup UserPd \cup {None}, external : BOOLEAN]

VARIABLES
  m_pd,        \* the pd object: None, or its PD and who owns it
  m_ibv_pd,
  m_pd_id,
  m_td,        \* the td object: None, or the TD it holds (None if creation failed)
  m_td_id,
  m_uarpool,   \* the pool exists
  m_opened,
  mapped,      \* hca_iseg_mapping has succeeded
  alive,       \* FALSE after ~adapter
  hwPd, hwTd,  \* PDs and TDs of the adapter that exist in the device
  badFree,     \* a PD or TD was freed twice, or one of the application was
  pdFailed,    \* history: some PD creation has failed
  call, ret    \* the last call and the status it returned

pdVars == <<m_pd, m_ibv_pd, m_pd_id, hwPd, pdFailed>>
tdVars == <<m_td, m_td_id, hwTd>>
rest   == <<m_uarpool, m_opened, mapped>>
adapterVars == <<pdVars, tdVars, rest, alive, badFree, call, ret>>

(* Before the first adapter, or (there) in its constructor. *)
AdapterInit(there) ==
  /\ m_pd = None /\ m_ibv_pd = None /\ m_pd_id = None
  /\ m_td = None /\ m_td_id = None
  /\ m_uarpool = FALSE /\ m_opened = FALSE /\ mapped = FALSE
  /\ alive = there /\ badFree = FALSE /\ pdFailed = FALSE
  /\ hwPd = {} /\ hwTd = {}
  /\ call = "new" /\ ret = "DPCP_OK"

Returns(c, r) == alive /\ alive' = TRUE /\ call' = c /\ ret' = r

----------------------------------------------------------------------------
(* The outcomes of a call that may create a PD: the new values of the PD   *)
(* fields and the status.                                                  *)
PdOutcome(obj, ibv, id, hw, r) ==
  [m_pd |-> obj, m_ibv_pd |-> ibv, m_pd_id |-> id, hwPd |-> hw, ret |-> r]

ApplyPd(o) ==
  /\ m_pd' = o.m_pd /\ m_ibv_pd' = o.m_ibv_pd /\ m_pd_id' = o.m_pd_id /\ hwPd' = o.hwPd
  /\ pdFailed' = (pdFailed \/ o.ret # "DPCP_OK")

(* adapter::create_ibv_pd(p), p = None for the default argument.  When a   *)
(* pd object exists nothing is created.  pd_ibv::create allocates a PD     *)
(* (unless p is given) and asks for its number; a pd object whose creation *)
(* failed stays in m_pd.                                                   *)
IbvPdOutcomes(p) ==
  IF m_pd # None
  THEN {PdOutcome(m_pd, m_ibv_pd, m_pd_id, hwPd,
                  IF m_ibv_pd = p THEN "DPCP_OK" ELSE "DPCP_ERR_CREATE")}
  ELSE LET fresh   == IF p = None THEN Pd \ hwPd ELSE {p}
           obj(q)  == [pd |-> q, external |-> p # None]
           hw(q)   == IF p = None THEN hwPd \cup {q} ELSE hwPd
       IN  {PdOutcome(None, m_ibv_pd, m_pd_id, hwPd, "DPCP_ERR_NO_MEMORY")}
           \cup (IF p = None
                 THEN {PdOutcome(obj(None), m_ibv_pd, m_pd_id, hwPd, "DPCP_ERR_CREATE")}
                 ELSE {})
           \cup {PdOutcome(obj(q), m_ibv_pd, m_pd_id, hw(q), "DPCP_ERR_INVALID_ID") : q \in fresh}
           \cup {PdOutcome(obj(q), q, q, hw(q), "DPCP_OK") : q \in fresh}

(* Variant with a slip: set_td leaves m_td as it is. *)
set_td_KeepsPointer(tdn) ==
  /\ tdn # None
  /\ Returns("set_td", "DPCP_OK")
  /\ m_td_id' = tdn
  /\ hwTd' = hwTd \ (IF m_td = None THEN {} ELSE {m_td.td})
  /\ badFree' = (badFree \/ (m_td # None /\ m_td.td # None /\ m_td.td \notin hwTd))
  /\ UNCHANGED <<m_td, pdVars, rest>>

create_ibv_pd(p) ==
  /\ \E o \in IbvPdOutcomes(p) : ApplyPd(o) /\ Returns("create_ibv_pd", o.ret)
  /\ UNCHANGED <<tdVars, rest, badFree>>

(* adapter::create_own_pd: a devx PD replaces whatever m_pd points to. *)
create_own_pd ==
  /\ \E o \in {PdOutcome(None, m_ibv_pd, m_pd_id, hwPd, "DPCP_ERR_NO_MEMORY"),
               PdOutcome([pd |-> None, external |-> FALSE], m_ibv_pd, m_pd_id, hwPd,
                         "DPCP_ERR_CREATE")}
              \cup {PdOutcome([pd |-> q, external |-> FALSE], m_ibv_pd, q, hwPd \cup {q},
                              "DPCP_OK") : q \in Pd \ hwPd} :
       ApplyPd(o) /\ Returns("create_own_pd", o.ret)
  /\ UNCHANGED <<tdVars, rest, badFree>>

(* adapter::set_pd(pdn, ibv_pd) *)
set_pd(pdn, ibv_pd) ==
  /\ IF pdn = None \/ ibv_pd = None
     THEN Returns("set_pd", "DPCP_ERR_INVALID_PARAM") /\ UNCHANGED <<m_pd_id, m_ibv_pd>>
     ELSE Returns("set_pd", "DPCP_OK") /\ m_pd_id' = pdn /\ m_ibv_pd' = ibv_pd
  /\ UNCHANGED <<m_pd, hwPd, pdFailed, tdVars, rest, badFree>>

(* delete m_td *)
TdFreed == IF m_td = None THEN {} ELSE {m_td.td} \ {None}

(* adapter::set_td(tdn) drops the TD of the adapter. *)
set_td(tdn) ==
  /\ IF tdn = None
     THEN Returns("set_td", "DPCP_ERR_INVALID_PARAM") /\ UNCHANGED <<tdVars, badFree>>
     ELSE /\ Returns("set_td", "DPCP_OK")
          /\ m_td_id' = tdn
          /\ m_td' = None
          /\ hwTd' = hwTd \ TdFreed
          /\ badFree' = (badFree \/ ~(TdFreed \subseteq hwTd))
  /\ UNCHANGED <<pdVars, rest>>

(* The transport domain step of open: the fields and the status. *)
TdOutcomes ==
  IF m_td_id # None
  THEN {[m_td |-> m_td, m_td_id |-> m_td_id, hwTd |-> hwTd, ret |-> "DPCP_OK"]}
  ELSE {[m_td |-> None, m_td_id |-> m_td_id, hwTd |-> hwTd, ret |-> "DPCP_ERR_NO_MEMORY"],
        [m_td |-> [td |-> None], m_td_id |-> m_td_id, hwTd |-> hwTd, ret |-> "DPCP_ERR_CREATE"]}
       \cup {[m_td |-> [td |-> t], m_td_id |-> t, hwTd |-> hwTd \cup {t}, ret |-> "DPCP_OK"]
               : t \in Td \ hwTd}

(* What follows the PD in open: TD, UAR pool, mapping of the initial segment. *)
OpenRest ==
  \E o \in TdOutcomes, pool \in BOOLEAN, seg \in BOOLEAN :
    /\ m_td' = o.m_td /\ m_td_id' = o.m_td_id /\ hwTd' = o.hwTd
    /\ IF o.ret # "DPCP_OK"
       THEN Returns("open", o.ret) /\ UNCHANGED rest
       ELSE /\ m_uarpool' = (m_uarpool \/ pool)
            /\ IF ~m_uarpool'
               THEN Returns("open", "DPCP_ERR_NO_MEMORY") /\ UNCHANGED <<m_opened, mapped>>
               ELSE /\ mapped' = (mapped \/ seg)
                    /\ m_opened' = seg
                    /\ Returns("open", IF seg THEN "DPCP_OK" ELSE "DPCP_ERR_NO_CONTEXT")

(* adapter::open *)
open ==
  /\ IF m_opened
     THEN Returns("open", "DPCP_OK") /\ UNCHANGED <<pdVars, tdVars, rest>>
     ELSE IF m_pd_id # None
     THEN OpenRest /\ UNCHANGED pdVars
     ELSE \E o \in IbvPdOutcomes(None) :
            /\ ApplyPd(o)
            /\ IF o.ret = "DPCP_OK"
               THEN OpenRest
               ELSE Returns("open", o.ret) /\ UNCHANGED <<tdVars, rest>>
  /\ UNCHANGED badFree

(* delete m_pd: pd_ibv frees its PD unless the application gave it. *)
PdFreed == IF m_pd = None \/ m_pd.external THEN {} ELSE {m_pd.pd} \ {None}

(* ~adapter; its members are gone with it. *)
delete ==
  /\ alive
  /\ alive' = FALSE
  /\ hwPd' = hwPd \ PdFreed
  /\ hwTd' = hwTd \ TdFreed
  /\ badFree' = (badFree \/ ~(PdFreed \subseteq hwPd) \/ ~(TdFreed \subseteq hwTd))
  /\ m_pd' = None /\ m_ibv_pd' = None /\ m_pd_id' = None
  /\ m_td' = None /\ m_td_id' = None
  /\ m_uarpool' = FALSE /\ m_opened' = FALSE /\ mapped' = FALSE
  /\ pdFailed' = FALSE /\ call' = "delete" /\ ret' = "DPCP_OK"

(* The constructor of a further adapter: the device still has what the     *)
(* adapters before it lost.                                                *)
new_adapter ==
  /\ ~alive /\ alive' = TRUE
  /\ m_pd' = None /\ m_ibv_pd' = None /\ m_pd_id' = None
  /\ m_td' = None /\ m_td_id' = None
  /\ m_uarpool' = FALSE /\ m_opened' = FALSE /\ mapped' = FALSE
  /\ pdFailed' = FALSE /\ call' = "new" /\ ret' = "DPCP_OK"
  /\ UNCHANGED <<hwPd, hwTd, badFree>>

AdapterCalls ==
  \/ \E p \in UserPd \cup {None, m_ibv_pd} : create_ibv_pd(p)
  \/ create_own_pd
  \/ \E n \in UserPd \cup {None}, p \in UserPd \cup {None, m_ibv_pd} : set_pd(n, p)
  \/ \E t \in UserTd \cup {None} : set_td(t)
  \/ open

AdapterNext == AdapterCalls \/ delete

AdapterSpec == AdapterInit(TRUE) /\ [][AdapterNext]_adapterVars

----------------------------------------------------------------------------
(* The PDs of the adapter that deleting m_pd would not free. *)
PdLost == hwPd \ PdFreed

(* An adapter is open only with a TD, a UAR pool and the mapped segment,   *)
(* however often open failed before; and with a PD if no creation of a PD  *)
(* has failed.                                                             *)
OpenedIsComplete ==
  m_opened /\ alive => /\ m_td_id # None /\ m_uarpool /\ mapped
                       /\ pdFailed \/ m_pd_id # None

(* Whatever calls failed and were repeated before ~adapter, no PD or TD is *)
(* freed twice and none of the application ever is; an allocated TD is     *)
(* always the one m_td holds, so that none stays behind in the device; a   *)
(* PD is lost only by create_own_pd, which overwrites m_pd; and an opened  *)
(* adapter has all that open was to give it.                               *)
DomainsAccounted ==
  /\ []~badFree
  /\ [](hwTd \subseteq (IF m_td = None THEN {} ELSE {m_td.td}))
  /\ [][PdLost' \subseteq PdLost \/ call' = "create_own_pd"]_adapterVars
  /\ []OpenedIsComplete

(* What the theorems rest on: members and device agree in each state.  The *)
(* td object holds the TD of the device, and there is none without m_td_id;*)
(* the PD of a pd object that is to free it is allocated; and an object    *)
(* without a number in m_pd_id comes from a creation that failed.          *)
LifecycleInv ==
  /\ m_pd \in {None} \cup [pd : Pd \cup UserPd \cup {None}, external : BOOLEAN]
  /\ m_td \in {None} \cup [td : Td \cup {None}]
  /\ m_ibv_pd \in Pd \cup UserPd \cup {None}
  /\ PdFreed \subseteq hwPd
  /\ hwTd = TdFreed
  /\ hwTd # {} => m_td_id # None
  /\ m_pd # None /\ m_pd_id = None => pdFailed
  /\ m_opened => /\ m_td_id # None /\ m_uarpool /\ mapped
                 /\ pdFailed \/ m_pd_id # None
  /\ ~alive => m_pd = None /\ m_td = None
  /\ badFree = FALSE

(* dpcp.h:3147, "the adapter will allocate its own Protection Domain" and  *)
(* "Returns DPCP_OK on success": an adapter that create_ibv_pd or open     *)
(* reported as ready has a PD.                                             *)
OkMeansPd ==
  alive /\ call \in {"create_ibv_pd", "open"} /\ ret = "DPCP_OK" => m_pd_id # None
=============================================================================
