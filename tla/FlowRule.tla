----------------------------- MODULE FlowRule -----------------------------
(***************************************************************************)
(* flow_rule (fr.cpp): the rule a client edits in memory, with its match   *)
(* value, flow id and list of destination TIRs, and the flow that          *)
(* apply_settings installs in the device from them.  The getters promise   *)
(* to tell when the two differ.  The calls on a rule come in any order;    *)
(* the device may refuse a flow.                                           *)
(***************************************************************************)
EXTENDS Naturals, Sequences, Functions

CONSTANTS Rule, Tir, Value,
          FlowId,     \* arguments of set_flow_id
          Flow,       \* flows the device has room for
          MaxTirs,    \* bound on the length of a destination list
          Null

ASSUME FlowRuleAssumption ==
  /\ Null \notin Flow /\ Null \notin Value /\ Null \notin Rule
  /\ MaxTirs \in Nat /\ FlowId \subseteq Nat

VARIABLES
  m_value, m_flow_id, m_dst_tir, m_changed,
  m_flow,      \* the flow the rule owns, or Null
  alive,       \* the rules a client holds
  installed,   \* flows in the device: what they match and where they send it
  ret,         \* the status of the last call
  reapplied    \* rules applied again while they owned a flow

vars == <<m_value, m_flow_id, m_dst_tir, m_changed, m_flow, alive, installed, ret, reapplied>>
logical == <<m_value, m_flow_id, m_dst_tir>>

MaxFlowId == 1048575   \* 0xFFFFF
Reply(status) == ret' = status

Init ==
  /\ m_value = [r \in Rule |-> Null]
  /\ m_flow_id = [r \in Rule |-> 0]
  /\ m_dst_tir = [r \in Rule |-> <<>>]
  /\ m_changed = [r \in Rule |-> FALSE]
  /\ m_flow = [r \in Rule |-> Null]
  /\ alive = {} /\ installed = <<>> /\ reapplied = {}
  /\ ret = "DPCP_OK"

----------------------------------------------------------------------------
(* Variants with a slip, for the properties below.                         *)

set_flow_id_NotChanged(r, id) ==
  /\ r \in alive
  /\ IF id > MaxFlowId
     THEN UNCHANGED m_flow_id /\ Reply("DPCP_ERR_OUT_OF_RANGE")
     ELSE m_flow_id' = [m_flow_id EXCEPT ![r] = id] /\ Reply("DPCP_OK")
  /\ UNCHANGED <<m_value, m_dst_tir, m_changed, m_flow, alive, installed, reapplied>>

Uninstall_Keeps(r) == UNCHANGED installed

Uninstall_Any(r) == installed' = <<>>

----------------------------------------------------------------------------
(* adapter::create_flow_rule *)
create_flow_rule(r) ==
  /\ r \notin alive
  /\ alive' = alive \cup {r}
  /\ m_value' = [m_value EXCEPT ![r] = Null]
  /\ m_flow_id' = [m_flow_id EXCEPT ![r] = 0]
  /\ m_dst_tir' = [m_dst_tir EXCEPT ![r] = <<>>]
  /\ m_changed' = [m_changed EXCEPT ![r] = FALSE]
  /\ m_flow' = [m_flow EXCEPT ![r] = Null]
  /\ Reply("DPCP_OK")
  /\ UNCHANGED <<installed, reapplied>>

set_match_value(r, v) ==
  /\ r \in alive
  /\ m_value' = [m_value EXCEPT ![r] = v]
  /\ m_changed' = [m_changed EXCEPT ![r] = TRUE]
  /\ Reply("DPCP_OK")
  /\ UNCHANGED <<m_flow_id, m_dst_tir, m_flow, alive, installed, reapplied>>

set_flow_id(r, id) ==
  /\ r \in alive
  /\ IF id > MaxFlowId
     THEN UNCHANGED <<m_flow_id, m_changed>> /\ Reply("DPCP_ERR_OUT_OF_RANGE")
     ELSE /\ m_flow_id' = [m_flow_id EXCEPT ![r] = id]
          /\ m_changed' = [m_changed EXCEPT ![r] = TRUE]
          /\ Reply("DPCP_OK")
  /\ UNCHANGED <<m_value, m_dst_tir, m_flow, alive, installed, reapplied>>

add_dest_tir(r, t) ==
  /\ r \in alive /\ Len(m_dst_tir[r]) < MaxTirs
  /\ m_dst_tir' = [m_dst_tir EXCEPT ![r] = Append(@, t)]
  /\ m_changed' = [m_changed EXCEPT ![r] = TRUE]
  /\ Reply("DPCP_OK")
  /\ UNCHANGED <<m_value, m_flow_id, m_flow, alive, installed, reapplied>>

Without(tirs, t) == SelectSeq(tirs, LAMBDA u : u # t)

(* Removes every occurrence; only a TIR that is not there marks a change. *)
remove_dest_tir(r, t) ==
  /\ r \in alive
  /\ IF t \in Range(m_dst_tir[r])
     THEN /\ m_dst_tir' = [m_dst_tir EXCEPT ![r] = Without(@, t)]
          /\ UNCHANGED m_changed
          /\ Reply("DPCP_OK")
     ELSE /\ m_changed' = [m_changed EXCEPT ![r] = TRUE]
          /\ UNCHANGED m_dst_tir
          /\ Reply("DPCP_ERR_INVALID_PARAM")
  /\ UNCHANGED <<m_value, m_flow_id, m_flow, alive, installed, reapplied>>

(* What get_match_value and get_flow_id return. *)
GetStatus(r) == IF m_changed[r] /\ m_flow[r] # Null THEN "DPCP_ERR_NOT_APPLIED" ELSE "DPCP_OK"

get(r) ==
  /\ r \in alive
  /\ Reply(GetStatus(r))
  /\ UNCHANGED <<logical, m_changed, m_flow, alive, installed, reapplied>>

(* get_tir: size() - 1 wraps for an empty list, and every index passes.    *)
TirStatus(r, index) ==
  IF Len(m_dst_tir[r]) > 0 /\ index > Len(m_dst_tir[r]) - 1 THEN "DPCP_ERR_OUT_OF_RANGE"
  ELSE IF index < Len(m_dst_tir[r]) THEN "DPCP_OK"
  ELSE "reads past the end"

get_tir(r, index) ==
  /\ r \in alive
  /\ Reply(TirStatus(r, index))
  /\ UNCHANGED <<logical, m_changed, m_flow, alive, installed, reapplied>>

----------------------------------------------------------------------------
CurrentSetting(r) ==
  [rule |-> r, value |-> m_value[r], flow_id |-> m_flow_id[r], tirs |-> m_dst_tir[r]]

(* apply_settings refuses a rule without destinations. *)
ApplyRefused(r) ==
  /\ r \in alive /\ m_dst_tir[r] = <<>>
  /\ Reply("DPCP_ERR_NOT_APPLIED")
  /\ UNCHANGED <<logical, m_changed, m_flow, alive, installed, reapplied>>

(* No memory for the destination arrays: nothing is done. *)
ApplyNoMemory(r) ==
  /\ r \in alive /\ m_dst_tir[r] # <<>>
  /\ Reply("DPCP_ERR_NO_MEMORY")
  /\ UNCHANGED <<logical, m_changed, m_flow, alive, installed, reapplied>>

(* m_flow is overwritten, whatever it was. *)
Overwritten(r) == reapplied' = IF m_flow[r] = Null THEN reapplied ELSE reapplied \cup {r}

ApplySucceeds(r) ==
  /\ r \in alive /\ m_dst_tir[r] # <<>>
  /\ \E f \in Flow \ DOMAIN installed :
       /\ m_flow' = [m_flow EXCEPT ![r] = f]
       /\ installed' = [g \in DOMAIN installed \cup {f} |->
                          IF g = f THEN CurrentSetting(r) ELSE installed[g]]
  /\ m_changed' = [m_changed EXCEPT ![r] = FALSE]
  /\ Overwritten(r)
  /\ Reply("DPCP_OK")
  /\ UNCHANGED <<logical, alive>>

(* create_flow returns nullptr: m_changed is cleared all the same. *)
ApplyFails(r) ==
  /\ r \in alive /\ m_dst_tir[r] # <<>>
  /\ m_flow' = [m_flow EXCEPT ![r] = Null]
  /\ m_changed' = [m_changed EXCEPT ![r] = FALSE]
  /\ Overwritten(r)
  /\ Reply("DPCP_ERR_CREATE")
  /\ UNCHANGED <<logical, alive, installed>>

(* ibv_destroy_flow on the flow the rule owns. *)
Uninstall(r) == installed' = [f \in DOMAIN installed \ {m_flow[r]} |-> installed[f]]

revoke_settings(r) ==
  /\ r \in alive
  /\ Uninstall(r)
  /\ m_flow' = [m_flow EXCEPT ![r] = Null]
  /\ Reply("DPCP_OK")
  /\ UNCHANGED <<logical, m_changed, alive, reapplied>>

(* The destructor revokes and clears the list. *)
DeleteRule(r) ==
  /\ r \in alive
  /\ Uninstall(r)
  /\ m_flow' = [m_flow EXCEPT ![r] = Null]
  /\ m_dst_tir' = [m_dst_tir EXCEPT ![r] = <<>>]
  /\ alive' = alive \ {r}
  /\ Reply("DPCP_OK")
  /\ UNCHANGED <<m_value, m_flow_id, m_changed, reapplied>>

Next ==
  \E r \in Rule :
    \/ create_flow_rule(r) \/ get(r) \/ revoke_settings(r) \/ DeleteRule(r)
    \/ ApplyRefused(r) \/ ApplyNoMemory(r) \/ ApplySucceeds(r) \/ ApplyFails(r)
    \/ \E v \in Value : set_match_value(r, v)
    \/ \E id \in FlowId : set_flow_id(r, id)
    \/ \E t \in Tir : add_dest_tir(r, t) \/ remove_dest_tir(r, t)
    \/ \E index \in 0..MaxTirs : get_tir(r, index)

Spec == Init /\ [][Next]_vars

----------------------------------------------------------------------------
(* A getter that returns DPCP_OK for a rule that owns a flow returns what  *)
(* the device has: the match value and the flow id are the installed ones, *)
(* after any sequence of edits, failed and repeated applies and revokes.   *)
GetMeansInstalled ==
  \A r \in alive : m_flow[r] # Null /\ GetStatus(r) = "DPCP_OK" =>
    /\ installed[m_flow[r]].value = m_value[r]
    /\ installed[m_flow[r]].flow_id = m_flow_id[r]

(* A flow is owned by at most one rule, the one it was installed for, and  *)
(* a rule never holds on to a flow that is gone from the device.           *)
OwnFlow ==
  \A r \in Rule : m_flow[r] # Null =>
    m_flow[r] \in DOMAIN installed /\ installed[m_flow[r]].rule = r

(* A flow no rule owns any more stays in the device for ever.  Only a rule *)
(* applied again without a revoke_settings in between leaves one behind;   *)
(* failures and deletions never do.                                        *)
OrphanOnlyByReapply ==
  \A f \in DOMAIN installed :
    m_flow[installed[f].rule] = f \/ installed[f].rule \in reapplied

(* The three together, with the types they rest on and the fact that only  *)
(* a live rule owns a flow, are inductive.                                 *)
IInv ==
  /\ m_value \in [Rule -> Value \cup {Null}] /\ m_flow_id \in [Rule -> Nat]
  /\ m_changed \in [Rule -> BOOLEAN] /\ m_flow \in [Rule -> Flow \cup {Null}]
  /\ alive \subseteq Rule
  /\ \A f \in DOMAIN installed : f # Null /\ installed[f].rule \in Rule
  /\ \A r \in Rule \ alive : m_flow[r] = Null
  /\ OwnFlow /\ GetMeansInstalled /\ OrphanOnlyByReapply
============================================================================
