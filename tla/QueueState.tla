---------------------------- MODULE QueueState ----------------------------
(***************************************************************************)
(* One receive or send queue after its creation: modify_state, which       *)
(* changes the state of the queue with one command and reads it back with  *)
(* a second (rq.cpp, sq.cpp, the same code in both), and for a send queue  *)
(* pp_sq::modify, which replaces its packet pacing entry, and its          *)
(* destructor.  The device moves a ready queue to the error state whenever *)
(* it likes, also between the two commands, and may refuse any command.    *)
(***************************************************************************)
EXTENDS Naturals

CONSTANTS PacingEntry,   \* entries of the pacing table; {} for a receive queue
          None

ASSUME NoneAssumption == None \notin PacingEntry

VARIABLES
  m_state,     \* what the object takes for the state of the queue
  hwState,     \* the state of the queue in the device
  pc,          \* where the call in progress is
  new_state,   \* its argument
  pp,          \* modify's new entry
  ret,         \* the status of the last call
  m_pp,        \* the entry the object owns
  hwPp,        \* the entry the device applies to the queue
  allocated,   \* entries allocated in the device
  exists,      \* the queue exists in the device
  failedSince, \* the device moved the queue to the error state since it was last read
  lostSince    \* a command changed the state and reading it back failed

vars == <<m_state, hwState, pc, new_state, pp, ret, m_pp, hwPp, allocated, exists,
          failedSince, lostSince>>
stateVars  == <<m_state, hwState, new_state, failedSince, lostSince>>
pacingVars == <<pp, m_pp, hwPp, allocated>>

State == {"RST", "RDY", "ERR"}

(* Types of the members of rq, sq and pp_sq and of the device's state. *)
TypeOK ==
  /\ m_state \in State /\ hwState \in State /\ new_state \in State
  /\ pc \in {"idle", "query", "pp_command", "pp_delete_old", "deleting", "deleted"}
  /\ ret \in {"DPCP_OK", "DPCP_ERR_INVALID_PARAM", "DPCP_ERR_MODIFY", "DPCP_ERR_QUERY",
              "DPCP_ERR_CREATE"}
  /\ pp \in PacingEntry \cup {None} /\ m_pp \in PacingEntry \cup {None}
  /\ hwPp \in PacingEntry \cup {None} /\ allocated \subseteq PacingEntry
  /\ exists \in BOOLEAN /\ failedSince \in BOOLEAN /\ lostSince \in BOOLEAN

(* A queue that create() has just made, with or without a pacing entry. *)
Init ==
  /\ m_state = "RST" /\ hwState = "RST" /\ new_state = "RST"
  /\ pc = "idle" /\ ret = "DPCP_OK"
  /\ m_pp \in PacingEntry \cup {None}
  /\ hwPp = m_pp /\ pp = None /\ allocated = {m_pp} \ {None}
  /\ exists = TRUE /\ failedSince = FALSE /\ lostSince = FALSE

----------------------------------------------------------------------------
(* Variants with a slip, for the properties below: modify_state lets a     *)
(* queue in the error state become ready, or keeps the requested state;    *)
(* the old entry goes before the command.                                  *)
Forbidden_FromErr(s) == s = "ERR" /\ m_state = "RST"
QuerySucceeds_Requested ==
  /\ pc = "query" /\ pc' = "idle"
  /\ m_state' = new_state
  /\ ret' = IF new_state = hwState THEN "DPCP_OK" ELSE "DPCP_ERR_MODIFY"
  /\ failedSince' = FALSE /\ lostSince' = FALSE
  /\ UNCHANGED <<hwState, new_state, pacingVars, exists>>
PacingAllocated_FreesOld ==
  /\ pc = "idle" /\ pc' = "pp_command"
  /\ \E e \in (PacingEntry \ allocated) \cup {None} :
       pp' = e /\ allocated' = (allocated \cup {e}) \ {None, m_pp}
  /\ UNCHANGED <<stateVars, m_pp, hwPp, ret, exists>>
----------------------------------------------------------------------------
(* The transitions modify_state refuses by itself. *)
Forbidden(s) == (s = "ERR" /\ m_state = "RST") \/ (s = "RDY" /\ m_state = "ERR")

ModifyRefused(s) ==
  /\ pc = "idle" /\ Forbidden(s)
  /\ ret' = "DPCP_ERR_INVALID_PARAM"
  /\ UNCHANGED <<stateVars, pc, pacingVars, exists>>

(* MODIFY_RQ, MODIFY_SQ: the device takes the command only if the current  *)
(* state it names is the state of the queue.                               *)
ModifySucceeds(s) ==
  /\ pc = "idle" /\ ~Forbidden(s)
  /\ m_state = hwState
  /\ hwState' = s
  /\ new_state' = s
  /\ pc' = "query"
  /\ UNCHANGED <<m_state, ret, failedSince, lostSince, pacingVars, exists>>

ModifyFails(s) ==
  /\ pc = "idle" /\ ~Forbidden(s)
  /\ ret' = "DPCP_ERR_MODIFY"
  /\ UNCHANGED <<stateVars, pc, pacingVars, exists>>

(* The state is read back and kept, whatever it is. *)
QuerySucceeds ==
  /\ pc = "query" /\ pc' = "idle"
  /\ m_state' = hwState
  /\ ret' = IF new_state = hwState THEN "DPCP_OK" ELSE "DPCP_ERR_MODIFY"
  /\ failedSince' = FALSE /\ lostSince' = FALSE
  /\ UNCHANGED <<hwState, new_state, pacingVars, exists>>

QueryFails ==
  /\ pc = "query" /\ pc' = "idle"
  /\ ret' = "DPCP_ERR_QUERY"
  /\ lostSince' = TRUE
  /\ UNCHANGED <<m_state, hwState, new_state, failedSince, pacingVars, exists>>

(* The device reports a fatal completion on a ready queue. *)
DeviceError ==
  /\ exists /\ hwState = "RDY"
  /\ hwState' = "ERR"
  /\ failedSince' = TRUE
  /\ UNCHANGED <<m_state, pc, new_state, pp, ret, m_pp, hwPp, allocated, exists, lostSince>>

----------------------------------------------------------------------------
(* pp_sq::modify: a new entry, or none for rate 0; refused for attributes  *)
(* without pacing, or by the device.                                       *)
PacingAllocated ==
  /\ pc = "idle" /\ pc' = "pp_command"
  /\ \E e \in (PacingEntry \ allocated) \cup {None} :
       pp' = e /\ allocated' = (allocated \cup {e}) \ {None}
  /\ UNCHANGED <<stateVars, m_pp, hwPp, ret, exists>>

PacingRefused ==
  /\ pc = "idle"
  /\ ret' \in {"DPCP_ERR_INVALID_PARAM", "DPCP_ERR_CREATE"}
  /\ UNCHANGED <<stateVars, pc, pacingVars, exists>>

(* The command names SQ_RDY as the current and the new state. *)
PacingSucceeds ==
  /\ pc = "pp_command" /\ pc' = "pp_delete_old"
  /\ hwState = "RDY"
  /\ hwPp' = pp
  /\ UNCHANGED <<stateVars, pp, ret, m_pp, allocated, exists>>

PacingFails ==
  /\ pc = "pp_command" /\ pc' = "idle"
  /\ ret' = "DPCP_ERR_MODIFY"
  /\ pp' = None
  /\ allocated' = allocated \ {pp}
  /\ UNCHANGED <<stateVars, m_pp, hwPp, exists>>

PacingSwap ==
  /\ pc = "pp_delete_old" /\ pc' = "idle"
  /\ allocated' = allocated \ {m_pp}
  /\ m_pp' = pp /\ pp' = None
  /\ ret' = "DPCP_OK"
  /\ UNCHANGED <<stateVars, hwPp, exists>>

(* ~pp_sq: the entry first, then the queue. *)
DeletePacing ==
  /\ pc = "idle" /\ pc' = "deleting"
  /\ allocated' = allocated \ {m_pp}
  /\ m_pp' = None
  /\ UNCHANGED <<stateVars, pp, hwPp, ret, exists>>

DestroyQueue ==
  /\ pc = "deleting" /\ pc' = "deleted"
  /\ exists' = FALSE
  /\ UNCHANGED <<stateVars, pacingVars, ret>>

modify_state(s) == ModifyRefused(s) \/ ModifySucceeds(s) \/ ModifyFails(s)

Next ==
  \/ \E s \in State : modify_state(s)
  \/ QuerySucceeds \/ QueryFails \/ DeviceError
  \/ PacingEntry # {} /\ (PacingAllocated \/ PacingRefused)
  \/ PacingSucceeds \/ PacingFails \/ PacingSwap
  \/ DeletePacing \/ DestroyQueue

Spec == Init /\ [][Next]_vars

----------------------------------------------------------------------------
(* Between calls the object knows the state of the queue, unless the       *)
(* device changed it since the last reading, or the reading after a        *)
(* change failed.                                                          *)
SyncedUnlessLost == pc = "idle" => m_state = hwState \/ failedSince \/ lostSince

(* An object that is wrong about the state of its queue between calls, be  *)
(* it that the device moved the queue to the error state or that the state *)
(* could not be read back, stays wrong, and no modify_state is accepted    *)
(* any more: the state is only read after a command that names m_state was *)
(* accepted, and no error the device meets later brings the queue to       *)
(* m_state.  Such a queue can only be destroyed.                           *)
StaleForGood ==
  [][pc # "query" /\ m_state # hwState => m_state' # hwState' /\ pc' # "query"]_vars

(* pp_sq::modify and the destructor, whatever command fails: while the     *)
(* queue is in use the pacing entry the device applies to it is allocated; *)
(* between calls it is the one the object owns; and no call leaves an      *)
(* entry behind that the object does not own.                              *)
PacingSound ==
  /\ exists /\ pc \notin {"deleting", "deleted"} => hwPp \in allocated \cup {None}
  /\ pc = "idle" => hwPp = m_pp
  /\ pc \in {"idle", "deleting", "deleted"} => allocated \subseteq {m_pp}

(* The inductive invariant behind the properties of the pacing entry: at   *)
(* each point of modify and of the destructor, what is allocated, owned    *)
(* and applied.                                                            *)
PacingInv ==
  /\ pc \in {"idle", "query"} => pp = None /\ hwPp = m_pp /\ allocated = {m_pp} \ {None}
  /\ pc = "pp_command" => hwPp = m_pp /\ allocated = {m_pp, pp} \ {None} /\ (pp = m_pp => pp = None)
  /\ pc = "pp_delete_old" => hwPp = pp /\ allocated = {m_pp, pp} \ {None} /\ (pp = m_pp => pp = None)
  /\ pc \in {"deleting", "deleted"} => allocated = {} /\ m_pp = None

(* SyncedUnlessLost at every point but between the two commands. *)
StateInv == pc # "query" => m_state = hwState \/ failedSince \/ lostSince

(* An object that takes its queue for one in the error state is right, or  *)
(* the queue is reset: modify_state makes no such queue ready.             *)
ErrInv == m_state = "ERR" => hwState # "RDY"

(* The inductive invariant. *)
IInv == TypeOK /\ PacingInv /\ StateInv /\ ErrInv
=============================================================================
