------------------------------ MODULE Provider ------------------------------
(***************************************************************************)
(* The provider (dpcp.cpp over dcmd::provider, dcmd::device and dcmd::ctx  *)
(* of the Linux back end): an application asks for the instance with the   *)
(* version it was built for, asks how many adapters there are and what     *)
(* they are, opens one and deletes it, as often as it likes.  The first    *)
(* list of devices is kept; a device is listed if it could be opened then, *)
(* and may refuse to be opened at any other time.  What the application    *)
(* does with the adapter in between is AdapterLifecycle.                   *)
(***************************************************************************)
EXTENDS AdapterLifecycle, Naturals, Sequences, Functions

CONSTANTS
  Device,        \* devices of the host, a sequence
  Version,       \* versions the application may ask for: <<major, minor>>
  dpcp_version,  \* version of the library
  Ctx            \* bound: contexts that can be open at the same time

ASSUME ProviderAssumption ==
  /\ dpcp_version \in Nat \X Nat /\ Version \subseteq Nat \X Nat
  /\ None \notin Ctx /\ None \notin Range(Device)

VARIABLES
  m_dev_array,   \* the listed devices, None before the list was made
  self,          \* the application has the provider
  m_num_devices,
  open_ctx,      \* contexts open in a device: a partial function to devices
  m_dcmd_ctx,    \* context of the adapter, None if there is no adapter
  asked,         \* history: the device the adapter was opened for
  lost_ctx,      \* history: contexts that nothing refers to
  told,          \* history: number of adapters the application was told, or None
  answer         \* the latest call of the provider and its status

providerVars == <<m_dev_array, self, m_num_devices, open_ctx, m_dcmd_ctx, asked, lost_ctx,
                  told, answer>>

Answers(op, r) == answer' = [op |-> op, ret |-> r]

(* There is no adapter before the first open_adapter. *)
ProviderInit ==
  /\ m_dev_array = None /\ self = FALSE /\ m_num_devices = 0
  /\ open_ctx = [c \in Ctx |-> None] /\ m_dcmd_ctx = None /\ asked = None /\ lost_ctx = {}
  /\ told = None /\ answer = [op |-> "none", ret |-> "none"]

FreeCtx == {c \in Ctx : open_ctx[c] = None}

----------------------------------------------------------------------------
(* provider::get_instance: the checks of the version *)
VersionStatus(v) ==
  CASE v \notin Version -> "DPCP_ERR_INVALID_PARAM"   \* null, or not three numbers
    [] v \in Version /\ (v[1] # dpcp_version[1] \/ v[2] > dpcp_version[2]) -> "DPCP_ERR_NO_SUPPORT"
    [] OTHER -> "DPCP_OK"

(* dcmd::provider::create_device opens the device to see whether it can,   *)
(* and closes it again: those of the devices that could be opened.         *)
create_devices ==
  {SelectSeq(Device, LAMBDA d : d \in able) : able \in SUBSET Range(Device)}

(* Variant with a slip: the list is made anew. *)
get_device_list_Again == {None} \cup create_devices

(* dcmd::provider::get_device_list: None if there is no list or no memory. *)
get_device_list == IF m_dev_array = None THEN {None} \cup create_devices ELSE {m_dev_array}

GetInstanceRefused(v) ==
  /\ VersionStatus(v) # "DPCP_OK" /\ Answers("get_instance", VersionStatus(v))
  /\ UNCHANGED <<m_dev_array, self, m_num_devices, open_ctx, m_dcmd_ctx, asked, lost_ctx, told>>

GetInstanceNoDevices(v) ==
  /\ VersionStatus(v) = "DPCP_OK" /\ None \in get_device_list
  /\ m_num_devices' = 0 /\ Answers("get_instance", "DPCP_ERR_NO_DEVICES")
  /\ UNCHANGED <<m_dev_array, self, open_ctx, m_dcmd_ctx, asked, lost_ctx, told>>

(* The instance is given out, and init_mkeys resets the counter of the     *)
(* memory keys, which is in MkeyTags.                                      *)
GetInstance(v) ==
  /\ VersionStatus(v) = "DPCP_OK"
  /\ \E l \in get_device_list \ {None} : m_dev_array' = l /\ m_num_devices' = Len(l)
  /\ self' = TRUE /\ Answers("get_instance", "DPCP_OK")
  /\ UNCHANGED <<open_ctx, m_dcmd_ctx, asked, lost_ctx, told>>

(* provider::get_adapter_info_lst with room for n adapters *)
get_adapter_info_lst(n) ==
  /\ self
  /\ IF n = 0 \/ n < m_num_devices
     THEN told' = m_num_devices /\ Answers("get_adapter_info_lst", "DPCP_ERR_OUT_OF_RANGE")
     ELSE UNCHANGED told /\ Answers("get_adapter_info_lst", "DPCP_OK")
  /\ UNCHANGED <<m_dev_array, self, m_num_devices, open_ctx, m_dcmd_ctx, asked, lost_ctx>>

----------------------------------------------------------------------------
Listed == {m_dev_array[i] : i \in 1 .. m_num_devices}

(* provider::open_adapter fails: an empty or unknown id, or a device that  *)
(* does not open.                                                          *)
OpenRefused(id) ==
  /\ self /\ ~alive
  /\ Answers("open_adapter", IF id = None THEN "DPCP_ERR_INVALID_ID" ELSE "DPCP_ERR_NO_DEVICES")
  /\ UNCHANGED <<m_dev_array, self, m_num_devices, open_ctx, m_dcmd_ctx, asked, lost_ctx, told>>

(* No memory for the adapter: its context stays open, and the loop goes on *)
(* to look for a device with the same id.                                  *)
OpenNoMemory(id) ==
  /\ self /\ ~alive /\ id \in Listed
  /\ \E c \in FreeCtx :
       open_ctx' = [open_ctx EXCEPT ![c] = id] /\ lost_ctx' = lost_ctx \cup {c}
  /\ Answers("open_adapter", "DPCP_ERR_NO_DEVICES")
  /\ UNCHANGED <<m_dev_array, self, m_num_devices, m_dcmd_ctx, asked, told>>

open_adapter(id) ==
  /\ self /\ ~alive /\ id \in Listed
  /\ \E c \in FreeCtx : open_ctx' = [open_ctx EXCEPT ![c] = id] /\ m_dcmd_ctx' = c
  /\ asked' = id /\ Answers("open_adapter", "DPCP_OK")
  /\ UNCHANGED <<m_dev_array, self, m_num_devices, lost_ctx, told>>

(* ~adapter deletes its context, which closes the device. *)
CloseCtx ==
  /\ open_ctx' = [open_ctx EXCEPT ![m_dcmd_ctx] = None] /\ m_dcmd_ctx' = None
  /\ Answers("delete", "DPCP_OK")
  /\ UNCHANGED <<m_dev_array, self, m_num_devices, asked, lost_ctx, told>>

(* One step of the application with the provider and its adapter; v and id *)
(* None stand for a version that is not one and for an empty id.           *)
ProviderCall ==
  \/ (\E v \in Version \cup {None} : GetInstanceRefused(v) \/ GetInstanceNoDevices(v))
     /\ UNCHANGED adapterVars
  \/ (\E n \in 0 .. Len(Device) : get_adapter_info_lst(n)) /\ UNCHANGED adapterVars
  \/ (\E id \in Range(Device) \cup {None} : OpenRefused(id)) /\ UNCHANGED adapterVars
  \/ (\E id \in Range(Device) : OpenNoMemory(id)) /\ UNCHANGED adapterVars
  \/ (\E id \in Range(Device) : open_adapter(id)) /\ new_adapter

DeleteAdapter == delete /\ CloseCtx

(* A process without its memory keys *)
ProviderNext ==
  \/ ProviderCall
  \/ (\E v \in Version \cup {None} : GetInstance(v)) /\ UNCHANGED adapterVars
  \/ AdapterCalls /\ UNCHANGED providerVars
  \/ DeleteAdapter
ProviderSpec ==
  AdapterInit(FALSE) /\ ProviderInit /\ [][ProviderNext]_<<adapterVars, providerVars>>

----------------------------------------------------------------------------
(* The contexts open are that of the adapter, which is one of the device   *)
(* the application asked for, and those lost when there was no memory for  *)
(* an adapter; the number of adapters the application was told stays true, *)
(* so that a list of that length is long enough, and every adapter of it   *)
(* can be asked for, however often the instance is asked for again.        *)
ProviderConsistent ==
  /\ {c \in Ctx : open_ctx[c] # None} = ({m_dcmd_ctx} \ {None}) \cup lost_ctx
  /\ alive <=> m_dcmd_ctx # None
  /\ alive => open_ctx[m_dcmd_ctx] = asked /\ m_dcmd_ctx \notin lost_ctx
  /\ told # None => told = m_num_devices /\ m_dev_array # None /\ Len(m_dev_array) = told

(* What the theorem rests on: who has the provider has the list, and whoever *)
(* was told a number has the provider.                                       *)
ProviderInv ==
  /\ open_ctx \in [Ctx -> Range(Device) \cup {None}]
  /\ m_dcmd_ctx \in Ctx \cup {None} /\ lost_ctx \subseteq Ctx
  /\ alive \in BOOLEAN
  /\ self => m_dev_array # None /\ Len(m_dev_array) = m_num_devices
  /\ told # None => self
  /\ ProviderConsistent
=============================================================================
