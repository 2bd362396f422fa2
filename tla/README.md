# Verification of libdpcp

TLA+ models of libdpcp, the Direct Packet Control Plane library: what its code
does, what TLC shows of it on small instances, and what TLAPS proves of it for
every instance. `PROJECT.json` lists the components, the runs, the lines of
source behind every definition, the hazards and the theorems.

## The system

An application obtains a `provider`, opens an `adapter` on a device and creates
objects through it. Every object is a command to the device (class `obj`, over
`dcmd::obj`) and memory or registrations in the process.

| Part | Source (src/src/) | Modules |
|---|---|---|
| Provider, devices, contexts | dpcp/dpcp.cpp, dcmd/linux/provider.cpp, device.cpp, ctx.cpp | Provider |
| Adapter: domains, open, destruction | dpcp/adapter.cpp, internal.h | AdapterLifecycle |
| Adapter: HCA capabilities | dpcp/adapter.cpp | Capabilities |
| UAR pool, `uar_collection` | dpcp/adapter.cpp | UarPool, UarService |
| Memory keys: the tag counter | dpcp/mkey.cpp | MkeyTags |
| Memory keys: all kinds | dpcp/mkey.cpp, adapter.cpp | MemoryKeys |
| Queues: creation and release | dpcp/adapter.cpp, cq.cpp, rq.cpp, sq.cpp | QueueResources (over UarPool) |
| Queues: sizes of rings, `ilog2` | dpcp/cq.cpp, rq.cpp, sq.cpp, internal.h | RingSizes |
| Queues: what the device is told | dpcp/cq.cpp, rq.cpp, sq.cpp | QueueContexts |
| Queues: states, packet pacing | dpcp/rq.cpp, sq.cpp | QueueState |
| TIR, TIS, encryption keys, tag buffer tables | dpcp/tir.cpp, tis.cpp, dek.cpp, tag_buffer_table_obj.cpp, dpcp_obj.cpp | DeviceObjects |
| Parser graph node | dpcp/parser_graph_node.cpp | Capabilities |
| Flow rules, legacy interface | dpcp/fr.cpp, dcmd/linux/flow.cpp | FlowRule, FlowMatch |
| Flow tables, groups, rules: ownership | dpcp/flow_table.cpp, flow_group.cpp, flow_rule_ex.cpp | FlowTables |
| Flow matcher | dpcp/flow_matcher.cpp | FlowMatch |
| Flow actions | dpcp/flow_action.cpp, dcmd/linux/flow.cpp, action.cpp | FlowActions |
| Command layouts | dcmd/prm.h | Layouts (the fields that are used) |

How the parts interact:

- Provider EXTENDS AdapterLifecycle: `open_adapter` constructs an adapter,
  `~adapter` closes its context. MCProcess adds the threads of MkeyTags, whose
  counter every successful `get_instance` resets.
- QueueResources EXTENDS UarPool, so a queue's creation takes the real steps of
  the pool. UarPool implements UarService.
- DeviceObjects EXTENDS Capabilities: the capabilities the constructor could
  query decide what the adapter lets the application create.
- FlowMatch, FlowActions, QueueContexts and DeviceObjects write and read
  mailboxes through the same Layouts.

The device, the verbs library and the allocator are not in `src/`. They appear
as choices: a command succeeds or is refused, an allocation may fail. One
assumption about the device is used: it refuses to destroy what another device
object refers to (the CQ of a queue, the RQ of a TIR, the registrations of a queue
it kept, a table in use). `obj::destroy` in a destructor and `~umem` do not tell.

## Modules, their state and the code

**Provider.** `m_dev_array`, `m_num_devices` of the two provider classes, the
contexts open in the devices, and what the application was told. `get_instance`
(the checks of the version, the list that is made once), `get_adapter_info_lst`,
`open_adapter` with each way to fail, and deletion of the adapter.

**AdapterLifecycle.** The members `m_pd`, `m_ibv_pd`, `m_pd_id`, `m_td`,
`m_td_id`, `m_uarpool`, `m_opened` of an adapter, and the PDs and TDs that exist
in the device. Every call is one action with all its outcomes (`IbvPdOutcomes`,
`TdOutcomes`).

**Capabilities.** The constructor's nine queries, any of which may fail and
leave zeroes; the report the callbacks build; the checks of `create_*_dek`,
`create_flow_table` and `create_parser_graph_node`; repeated queries of a parser
graph node. Bit masks are sets of bits.

**DeviceObjects.** One object of the application at a time: its kind, handle,
cached attributes and the mailbox the device holds for it. A function of an
object takes a state and gives the states it may leave, because `create` of a
TIR or TIS calls `query`, and `query` may answer from the cache. `lost` records
device objects nobody can destroy, and why.

**UarPool.** `m_ex_uars` (the multimap, as a count per entry), `m_sh_vc`,
`m_shared_uar` are the members of `uar_collection`; `live` is what the device
has allocated; `heldSh`, `heldEx` record what the callers got and did not
release. `get_uar` and `release_uar` hold `m_mutex` throughout, so a call is one
action; each branch of the code is an action of its own. **UarService** is what
the callers may rely on, without containers: one shared UAR, every other UAR of
one key.

**MkeyTags.** `g_mkey_cnt` is the process-wide atomic. The load,
`compare_exchange_strong` and the re-read of the loop condition in
`direct_mkey::create` are separate actions per thread. `draws`, `mine` and
`dead` are histories.

**MemoryKeys.** Every kind of key as an object with an address, a length and an
identifier; the device's table of keys; `top`, a history of the key a chain of
references starts from. References copy an identifier and patterns write
identifiers to the device, and neither keeps the other key alive, so any key may
be deleted at any time and its identifier given out again.

**QueueResources.** Per queue: its kind, the phase of its creation or
destruction, the members that are not null, and what is allocated. Each
acquisition and each release is a step, so creations and destructions of several
queues interleave. The orders of release are data (`CqDestroy`, `RqDestroy`,
`SqDestroy`), each from its `destroy()`. `refused` holds the queues the device
would not destroy: the rest of the destructor runs all the same.

**QueueState.** `modify_state` as two commands with the device free to move the
queue to the error state between them; `pp_sq::modify` step by step: new entry,
command, deletion of the old entry; and the destructor.

**FlowRule.** The members of `flow_rule` and the flows of the device. Match
parameters are one value here; FlowMatch has their bits. Setters, getters,
`apply_settings` with each way to fail, `revoke_settings` and deletion.

**FlowTables.** `refs` is the set of `shared_ptr`s (who holds whom), `parent` the
`weak_ptr`s, `handle` and `uses` the device objects and what they refer to. The
destructor of an object runs member by member, in the order C++ prescribes, with
the device object of the base class last. `left` is what `dcmd::flow` made for a
rule of the root table and nobody can destroy any more (`FlowLeaves`).
`disciplined` says whether the client
keeps what is in use and calls `create()` of a rule once; it is chosen at the
start, so both clients are explored.

**RingSizes, QueueContexts, FlowMatch, FlowActions** are functions of their
arguments. **Calls** gives them a state: the last call with its arguments and its
outcome. RingSizes computes in `W` bits instead of 32. The others use
**Layouts**: a number is the set of its bits, a mailbox the set of the positions
that hold a one, `DEVX_SET` and `DEVX_GET` go through the offsets and widths of
`prm.h`. FlowMatch then asks packet by packet what an entry selects; FlowActions
reads back what an entry does, with the actions applied in any order of the hash
map.

`MC*` modules hold the values of constants, symmetry sets and compositions.
Definitions named `X_Something` are variants of `X` with a plausible slip. No
specification uses them; they show that each property can fail.

## Runs

| Run | Checks | Instance | States |
|---|---|---|---|
| process | CounterAccounted, StaleIdsDetected, ProviderConsistent, LoopEnds, DomainsAccounted | 2 devices, 3 contexts, versions 1.0 to 2.0 against 1.1, 2 PDs, 2 TDs, 2 PDs and 1 TD of the application, 2 threads, 2 indices, 2 tags, 3 draws, 2 resets | 113269 |
| memory_keys | OwnersAgree, RefsBacked, PatternsAgree | 3 keys, 2 identifiers, addresses of 3 bits, words of 2, halves of 1 | 501,996 |
| queue_resources | DmaBacked, BadFreeOnlyFailedCq, NothingLeft, GettersBacked, ExclusiveOwnership, GrantIsStable, LostOnlyBesideTaken, ImplementsService | the pool alone with 2 callers, and 2 queues of any of 5 kinds over it; 3 UARs | 2692885 |
| encodings | RingFits, CqAsAsked, WqAsAsked, EntrySelects, RuleSelects, EntryActs, RootActs | 20-bit integers, about 7500 calls, 17 packets | 7593 |
| flow_rule | GetMeansInstalled, OwnFlow, OrphanOnlyByReapply | 2 rules, 2 flows, 1 TIR, lists up to 2 | 529269 |
| flow_tables | NoPremature, NothingLeft, NoCrash, MissClimbs, ExpiredOnlyIfHeld | root and 2 tables, 1 group, 1 rule, 1 action, both clients | 3181318 |
| device_objects | NothingOverstated, RefusedOnlyBeyondCaps, QueryTells, ObjectsAccounted, KeyAsAsked, SyncedUnlessLost, PacingSound, StaleForGood | 25 devices, up to 2 failed queries, 13 nodes, 9 tables, 2 handles, 3 pacing entries | 188117 |
| mkey_tags_unique | UniqueValue, **violated** | 2 threads, 3 tags, no reset | |
| adapter_ok_means_pd | OkMeansPd, **violated** | 2 PDs, 2 TDs, 2 PDs and 1 TD of the application | |
| queue_released_once | ReleasedOnce, **violated** | as queue_resources | |
| cq_flags | CqFlagsAsMarked, **violated** | as encodings | |
| root_copies | RootCopies, **violated** | as encodings | |

Why the bounds are enough to be interesting:

- process: a context can be lost, another be the adapter's and a third be free.
  Two PDs and two TDs let one be lost beside another. Two threads already make an
  exchange fail, and three draws wrap two tags (`Window` stands for the 255 of
  the code). The three parts are explored one inside the other, each from a state
  the others have to be in anyway (see MCProcess): they meet in the reset of the
  counter and in the construction and deletion of the adapter, which are joint
  steps.
- memory_keys: three keys give a reference of a reference, a pattern over two
  keys, and the reuse of an identifier. The regions pass the end of the address
  space and the widths of 32 and 16 bits. Keys are symmetric, and so are
  identifiers.
- queue_resources: a CQ and a queue that uses it, or two of any kind; creation may
  fail at every step, and the device may refuse to destroy. Three UARs let two lie
  free in the pool when a third is taken, the case where `get_uar` erases more than
  it takes; they can run out. A variable chosen at the start says whether the pool
  is called directly, in any order and with releases (MCQueueResources), or by the
  queues only, which never release a UAR.
- encodings: `W = 20` lets a product wrap and `ilog2` reach its limit at numbers
  TLC can enumerate. The fields of commands keep their width: every attribute is
  tried with its lowest bit, the highest that arrives and one that may not. Every
  pair of match aspects is combined, and packets differ from a base packet in one
  field each. Lists of actions have every combination of kinds, and memory that
  is not initialised is all zero or all one.
- flow_rule: flow ids on both sides of the limit 0xFFFFF, and a device that can
  be full. The rules are symmetric, and so are the flows.
- flow_tables: two tables besides the root give a chain of miss tables. They are
  symmetric.
- device_objects: devices differ from a full one, and requests from a plain one,
  in one attribute each, so each check decides some case alone. `MaxIds = 6`
  allows three queries of two samples; two handles let one be lost beside another;
  an old, a new and a further pacing entry. Nodes, objects and the queue do
  not look at each other's state and are explored side by side, not
  interleaved.

Deadlock is checked for encodings and flow_rule. Elsewhere the program really
stops: a pool or a queue that is destroyed, or queues the device kept
(queue_resources, device_objects), a call that followed a dangling pointer
(flow_tables), identifiers that are all lost (memory_keys), or the bound on
draws and resets (process).

Fairness is used once, in process: weak fairness of each thread while it is
inside `create()`. The loop takes no lock and waits for nobody, so the operating
system scheduling a runnable thread is all it needs. Starting a creation is not
fair. `LoopEnds` holds in the bounded instance, where other threads move the
counter finitely often.

## What is proved

Every safety property of a passing run is also a theorem, for any constants
under the named assumptions. TLAPS checks 14967 obligations in eight modules.
The assumptions keep null values apart from the others and give arguments the
widths of the interface; what else they say is named below.

**ProcessProofs** (`MkeyTagsAssumption`, `LifecycleAssumption`,
`ProviderAssumption`, `RingAssumption`): the counter of the memory keys, for any
number of threads, the provider with the adapters it opens one after the other, and
the sizes of rings.

- CounterAccountedHolds: `IInv` is the types, the property, and that no draw comes
  from a future epoch, which a reset needs.
- StaleIdsDetectedHolds: `TagsInv` numbers the draws without gaps, says that the
  counter is one above the latest won draw, and that values advance like the
  numbers of the draws wherever no reset and no lost exchange lies between. Two
  values less than `Window` apart then have different tags (`SameTag`).
- DomainsHold: `LifecycleInv` says that the td object holds the TD the device has,
  that there is none without `m_td_id` (or `open` would allocate a second one over
  it), that the PD a pd object is to free is allocated, and that an object without
  a number comes from a creation that failed. `SoundPd` says what every attempt to
  get a PD has in common; only `create_own_pd` lacks `LosesNone`.
- ProviderBooks: whoever was told a number has the provider, and whoever has the
  provider has the list, so no later `get_instance` makes another (`ProviderInv`).
- RingFitsHolds: that powers of two grow and add comes from the number of subsets
  of a set (`Powers`), and the loop of `ilog2` ends at the least exponent
  (`LogIsLeast`). A size that overflows is a power of two no smaller than the word,
  so its remainder is zero and `reg_mem` refuses it (`BytesOfPowers`).
  `RingAssumption` asks that the field for the count can hold the exponent of any
  word and the one for the stride no more than that, as in prm.h (5 bits and 4, for
  words of 32), and that the bytes of a CQ of `MAX_CQ_SZ` entries do not overflow.

**QueueResourcesProofs** (`NullAssumption`, `KindAssumption`): the UAR pool and the
queues over it.

- ExclusiveOwnershipHolds speaks of the callers and is not inductive. `IInv` adds
  that no UAR has two entries, that entries are live and not the shared UAR, that
  sharers got the shared UAR, and that the containers agree with the callers.
  HeldIsLiveHolds and the action properties GrantIsStableHolds and
  LostOnlyBesideTakenHolds follow. Refinement: every step of the pool is a step of
  UarService or leaves its variables alone.
- QueuesUsePool: every step of a queue is a step of the pool or leaves the pool
  alone, so what is proved of the pool holds under the queues. `QueueInv` ties
  members, allocations and registrations to the phase of each queue's creation or
  destruction, and what is left of a deleted one to the refusals of the device.
  DmaBackedHolds, NothingLeftHolds, BadFreeOnlyFailedCqHolds and GettersBackedHolds
  follow from it. DmaBacked excepts the queues the device refused to destroy, and
  NothingLeft lets such a queue and its registrations stay, nothing else.

**MemoryKeysProofs** (`SizeAssumption`: the widths divide each other, and the
blocks of a pattern can be counted in 16 bits;
`NoneAssumption`): OwnersAgreeHolds, RefsBackedHolds, PatternsAgreeHolds, from
`KeysInv`. It says who owns each key of the device, that a reference lies inside
the key its chain starts from, and what an entry of a pattern holds. The uncut and
the cut sums of a pattern's blocks agree modulo 16 bits by induction on their
number.

**AdapterProofs** (`CapsAssumption`, `ObjectsAssumption`, `NothingAssumption`,
`NoneAssumption`): what an adapter reports and the states of its queues.
`CapsAssumption` keeps the arcs and the mask widths of parser graph nodes below the
numbers by which an `int` cannot be shifted.

- NothingOverstatedHolds and RefusedOnlyBeyondCapsHolds: `CapsInv` says that the
  report is what the callbacks make of the device's answers, with zeroes for the
  queries that failed; `LastHonest` carries the decision of the last call.
- SyncedHolds, PacingHolds: `IInv` says what is allocated, owned and applied at each
  point of `modify` and of the destructor, and that the stored state is right except
  between the two commands and after an error of the device or a lost query.
- StaleForGoodHolds: a wrong stored state stays wrong, because every command names
  it as the current state and the device refuses. Only a stored ERR could become
  right without a command, when the device moves the queue to the error state;
  `ErrInv` says that the device is not ready then, and only a ready queue moves.

**DeviceObjectsProofs** (the same assumptions): ObjectsAccountedHolds,
KeyAsAskedHolds and QueryTellsHolds, from `ObjInv` (the device's mailbox reads as
what it last accepted, and handles are owned or counted as lost), `ToldInv` (so
does the answer of a query) and `IdsTold` for the ids of a parser graph node. Every
function of an object is shown to keep the agreement in each of the states it may
leave.

**FlowTablesProofs** (`FlowTablesAssumption`: tables, groups, rules and actions are
different things). Destructors run in steps, so the invariants speak of the moments
between two of them.

- MissClimbsHolds, ExpiredOnlyIfHeldHolds: `OwnersInv` says who may hold a
  `shared_ptr`: the client, the adapter, or an object that is alive or whose
  destructor runs. `DeviceInv` adds that a device table is alive or being destroyed
  and a lost one is neither, so that no call gives a table in the device another
  level.
- NoPrematureHolds, NoCrashHolds, NothingLeftHolds, of a client that keeps what is
  in use; what stays behind is what `dcmd::flow` made for a root rule with
  modifications: `DisciplineInv` says that what a device object refers to is held by
  somebody, and in which order the objects that are being destroyed refer to each
  other.

**MailboxProofs** (`MatchAssumption`: masks, values and packets of the interface's
widths; `AttrAssumption`: attributes of its widths): what is written in a mailbox is what
was asked for. Both parts rest on the same lemmas about a field of a mailbox: where
it is written (`SetPlace`), and what is read there (`GetCut`, `PartBack`).

- EntrySelectsHolds, RuleSelectsHolds: a header, a set of samples and a metadata
  register each agree with a packet exactly when their fields do; fields that do not
  overlap can be compared one by one (`FieldAlike`, `PartAlike`). Addresses are
  handled for IPv4 and IPv6 and for both styles of the legacy interface.
- CqAsAskedHolds, WqAsAskedHolds: a context is a union of written fields. One lemma
  per context shows that each field keeps its own bits because the others are clear
  of it (`SetClear`), and a read cuts the value to the width (`GetCut`).

**FlowActionsProofs** (`FlowRuleAssumption`, `ActionsAssumption`):

- GetMeansInstalledHolds, OwnFlowHolds, OrphanOnlyByReapplyHolds: `IInv` is the three
  properties, the types they need and that only a live rule owns a flow.
- EntryActsHolds: `Filled` says what the mailbox holds after any number of actions,
  in the order the map yields them; no action disturbs what an earlier one wrote.
  Lengths become bits and numbers again (`NumBin`, by induction on the number of
  bits). The property supposes fewer than 2^24 destinations and 256 modifications,
  which the fields can count; `ActionsAssumption` keeps the inserted data below
  2^10 bytes, the width of its length field.
- RootActsHolds: the same argument with `Described`, for the descriptions of the
  root table, whatever their memory held before.

Only model-checked: `LoopEnds`, because liveness under fairness is out of the
prover's reach. The compositions of MCProcess, MCQueueResources, MCDeviceObjects and MCEncodings are
model-checked; the theorems speak of the specifications they are composed of. The
bounds of MkeyTags (`MaxDraw`, `MaxReset`) and the values tried by RingSizes,
QueueContexts, FlowMatch and FlowActions are constants of the theorems too, so they
may be anything the assumptions allow.

## Where code and documentation disagree

With a run that shows it:

- *mkey_tags_unique.* mkey.cpp:218: a thread whose exchange failed can leave the
  loop with a value another thread draws too; mkey.cpp:222 calls it "unique".
  Two keys have the same tag then; their indices still differ.
- *adapter_ok_means_pd.* adapter.cpp:859: after a failed PD creation, `m_pd` stays
  set; the next `create_ibv_pd()` or `open()` returns `DPCP_OK` without a PD.
- *queue_released_once.* adapter.cpp:1194: the error paths of `create_cq` release
  what the destructor of the CQ releases again. BadFreeOnlyFailedCq shows that
  it is the only double release.
- *cq_flags.* cq.cpp:239: the flags of the attributes of a CQ are tested whether or
  not `CQ_FLAGS` is marked in `cq_attr_use`, which dpcp.h:795 calls the mask of the
  attributes "which should be applied and use". `ATTR_CQ_PERIOD_MODE_FLAG` is never
  looked at. CqAsAsked speaks of the flags where they are marked.
- *root_copies.* flow_action.cpp:201: on the root table a COPY action is written
  with its destination first, so that the device copies the other way round than
  on ordinary tables and than dpcp.h:1708 says.

Met while modelling, without a run of their own:

- adapter.cpp:1736: taking a free UAR erases every free entry, so the others are
  not reused, although internal.h:155 says the next `get_uar()` "will reuse it".
  LostOnlyBesideTaken states exactly when.
- fr.cpp:135: `remove_dest_tir` returns before `m_changed = true` when it removed
  the TIR, so getters return `DPCP_OK` where dpcp.h:119 promises "Flow is
  different on HW vs current". GetMeansInstalled therefore speaks of value and id.
- fr.cpp:317: a second `apply_settings` overwrites the flow (dpcp.h:2024);
  OrphanOnlyByReapply shows that nothing else leaves a flow behind.
- fr.cpp:336: `revoke_settings` returns `DPCP_OK` for a rule without a flow
  (dpcp.h:2025). fr.cpp:112: `get_tir` on an empty list passes its range test
  (dpcp.h:1996).
- fr.cpp:192: addresses of a legacy rule are dropped unless ethertype and version
  are matched in full. dcmd/linux/flow.cpp:49: the root table compares outer
  headers only. RuleSelects and EntrySelects state both limits.
- adapter.cpp:1452: `create_pp_sq` sets its out parameter before it can fail;
  dpcp.h:3092 says "On Success".
- internal.h:204: `ilog2` does not return for arguments above 2^30. RingFits
  states the limit.
- rq.cpp:337: the stride of a striding RQ is in units of 16 bytes, unlike what
  rq.cpp:336 and dpcp.h:1020 say.
- cq.cpp:224: attributes of 32 bits go to fields of 8, 12 and 16 bits. CqAsAsked
  says what arrives.
- mkey.cpp:653: the test that a reference lies in its parent adds address and
  length, which may pass the end of the address space. RefsBacked excludes such
  regions. mkey.cpp:455: the lengths of a pattern's blocks are cut to 16 bits, the
  stride is their uncut sum. mkey.cpp:441: their number is cut to 16 bits too.
- tis.cpp: a query does not tell whether NVMe/TCP is on. dek.cpp: `modify` does not
  set the tag bit of a key. dek.cpp:54, tag_buffer_table_obj.cpp: a second
  `create()` overwrites the handle of the first. QueryTells, KeyAsAsked and
  ObjectsAccounted name these as their only exceptions.
- eq.cpp:63: `bind` passes the handle of a device object on as an `ibv_cq`.
  `bind`, `request` and `flush` take a CQ and act on the one bound last;
  `flush` acknowledges no event; the constructor swallows a failure and leaves its
  pointer unset. compchannel.cpp gives a copy of the library's structure back to
  the library.
- dpcp.cpp:132: without memory for the adapter its context stays open.
  ProviderConsistent counts it as lost.
- adapter.cpp:1917: the offset mode of a sample is compared with the modes of the
  header length, not with `parse_graph_flow_match_sample_offset_mode`
  (dpcp.h:2368). adapter.cpp:1859: a mask needs one valid bit, although
  dpcp.h:2699 reserves all others. NothingOverstated names both as its only
  exceptions, and RefusedOnlyBeyondCaps the first.
- parser_graph_node.cpp:158: ids of repeated queries accumulate. A node with one
  of two samples disabled fails its first query, and its second returns
  `DPCP_OK` with the same id twice. QueryTells shows that this needs a disabled
  sample. `field_id` of a sample is checked and never sent.
- adapter.cpp:1890: a node without input arcs passes the test of their number and
  element 0 of the empty vector is read. The arc is a byte and shifts an `int`,
  which is undefined from 32 on.
- dcmd/linux/flow.cpp:77: the action that modifies headers on the root table is kept
  in no member and never destroyed; when it is refused the matcher stays as well.
  NothingLeft of FlowTables names this as its only exception.

Worth knowing: a queue object whose stored state is stale can only be destroyed,
`modify_state` fails for good (StaleForGood). When the device refuses to destroy a
queue its memory is freed all the same, and the device still has the queue.
Without the discipline of `disciplined`, NoPremature, NothingLeft
and NoCrash of FlowTables fail. A table drops its miss table before its own
device object goes, a forward action does not hold its destination, and
`create()` of a rule follows an expired `weak_ptr`. The library never calls
`release_uar`, so keys of deleted queues stay in `m_sh_vc`. The pacing entry of a
`pp_sq` is deleted before the queue (sq.cpp:193).
`m_flow_action_generator` copies the pointer to the capabilities while it is
null (adapter.cpp:834); nothing reads its copy yet.

## Not modelled

- The Windows back end, which offers the same calls over another library; the
  modules follow the Linux one. `NO_PROVIDER` of `get_instance` cannot be reached
  there.
- Logging, and the structures of `prm.h` the library does not use.
- `sync_crypto_tls`, `get_real_time` and `query_eqn` of the adapter: one command
  each, without state.
- Completion channels (eq.cpp, dcmd/linux/compchannel.cpp): `bind` casts the handle
  of a DEVX object to an `ibv_cq` (eq.cpp:63), and what the verbs library does with
  it when it is asked to arm it follows neither from the code nor from a document.
- Access flags of memory keys, which are passed on unread.
- A second `create()` of a parser graph node by its user.
- Concurrent use of objects that the documentation says are not thread-safe: two
  threads that create the first UAR pool at once, and an adapter that is deleted
  while rules of its root tables are installed (the context goes before
  `m_root_table_arr`). Both are among the hazards of `PROJECT.json`.
