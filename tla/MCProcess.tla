----------------------------- MODULE MCProcess -----------------------------
(***************************************************************************)
(* A process that uses the library: it asks for the provider, opens and    *)
(* deletes adapters, brings them up, and creates and destroys memory keys  *)
(* in several threads, during which any thread may ask for the provider    *)
(* again, which resets the counter of the keys.                            *)
(*                                                                         *)
(* The three parts are explored one inside the other, each from a state    *)
(* that the others have to be in anyway: an adapter is brought up in a     *)
(* process that has done nothing else than open it (or one before it), and *)
(* keys are created once the adapter is open, at the first attempt.        *)
(***************************************************************************)
EXTENDS MkeyTags, Provider, TLC

MCDevice == <<"mlx5_0", "mlx5_1">>
MCVersion == {<<1, 0>>, <<1, 1>>, <<1, 2>>, <<2, 0>>}
MCdpcp_version == <<1, 1>>

processVars == <<vars, adapterVars, providerVars>>

First(S) == CHOOSE x \in S : TRUE

ProviderSettled ==
  /\ self /\ m_dev_array = Device /\ lost_ctx = {} /\ told = None
  /\ m_dcmd_ctx = First(Ctx) /\ asked = Device[1]

AdapterSettled ==
  /\ alive /\ m_opened /\ call = "open" /\ ret = "DPCP_OK" /\ ~pdFailed
  /\ m_pd = [pd |-> First(Pd), external |-> FALSE] /\ m_pd_id = First(Pd)
  /\ m_ibv_pd = First(Pd) /\ hwPd = {First(Pd)}
  /\ m_td = [td |-> First(Td)] /\ m_td_id = First(Td)

KeysIdle == draws = {} /\ \A t \in Thread : pc[t] = "idle"

MCInit == Init /\ AdapterInit(FALSE) /\ ProviderInit

(* GetInstance and the reset of g_mkey_cnt at its end *)
AskForInstance ==
  /\ \E v \in Version \cup {None} : GetInstance(v)
  /\ init_mkeys
  /\ UNCHANGED adapterVars

KeysNext ==
  /\ ProviderSettled /\ AdapterSettled
  /\ (\E t \in Thread : create(t)) \/ (\E k \in keys : DestroyMkey(k))
  /\ UNCHANGED <<adapterVars, providerVars>>

JustOpened == ProviderSettled /\ KeysIdle /\ epoch = 1 /\ answer.op = "open_adapter"

MCNext ==
  \/ call \in {"new", "delete"} /\ KeysIdle /\ ProviderCall /\ UNCHANGED vars
  \/ ((call \in {"new", "delete"} /\ KeysIdle) \/ AdapterSettled) /\ AskForInstance
  \/ JustOpened /\ AdapterCalls /\ UNCHANGED <<providerVars, vars>>
  \/ KeysIdle /\ DeleteAdapter /\ UNCHANGED vars
  \/ KeysNext

MCSpec ==
  /\ MCInit /\ [][MCNext]_processVars
  /\ \A t \in Thread : WF_processVars(pc[t] # "idle" /\ ProviderSettled /\ AdapterSettled
                                       /\ create(t) /\ UNCHANGED <<adapterVars, providerVars>>)
=============================================================================
