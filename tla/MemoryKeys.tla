----------------------------- MODULE MemoryKeys -----------------------------
(***************************************************************************)
(* The memory keys of an adapter (src/src/dpcp/mkey.cpp and the create_*   *)
(* functions of adapter.cpp): direct keys over registered memory,          *)
(* references to a part of another key, pattern keys built from several    *)
(* keys, reserved, external and crypto keys.  A reference copies the       *)
(* identifier of its parent, a pattern writes the identifiers of its       *)
(* blocks to the device; neither keeps the other key alive.                *)
(*                                                                         *)
(* Addresses and lengths are numbers below Space (64 bits in the code), 0  *)
(* is nullptr.  U32 and U16 are the conversions of the code.  The tag bits *)
(* of an identifier are in MkeyTags; here an identifier is free again once *)
(* its key is gone.                                                        *)
(***************************************************************************)
EXTENDS Integers, Sequences

CONSTANTS
  Key,          \* key objects the application can have
  Id,           \* identifiers the device gives to keys
  Space,        \* size of the address space, 2^64
  Word, Half,   \* 2^32 and 2^16
  Regions,      \* address and length of the memory the application registers or refers to
  Unchecked,    \* address and length (or strides) of keys nobody checks
  Block,        \* sizes of a building block: [stride, len]
  MaxBlocks,    \* bound on the blocks of a pattern
  NoId,         \* identifier 0: not created
  ReservedId,   \* identifier 0x700
  None

ASSUME SizeAssumption ==
  /\ Space \in Nat \ {0} /\ Word \in 1 .. Space /\ Half \in 1 .. Word
  /\ Space % Word = 0 /\ Word % Half = 0
  /\ Regions \cup Unchecked \subseteq (0 .. Space - 1) \X (0 .. Space - 1)
  /\ Block \subseteq [stride : 0 .. Space - 1, len : 0 .. Space - 1]
  /\ NoId \notin Id /\ ReservedId \notin Id \cup {NoId} /\ None \notin Key
  /\ MaxBlocks \in Nat /\ MaxBlocks <= 65535   \* num_ent has 16 bits

VARIABLES
  ibv_pd, pd,   \* the adapter has an ibv_pd, a PD number
  key,          \* the key objects
  dev,          \* what the device knows under an identifier, or None
  lost,         \* identifiers whose release the device refused
  badFree,      \* a registration was released twice
  top           \* history: the key a reference descends from, None once it is deleted

vars == <<ibv_pd, pd, key, dev, lost, badFree, top>>

U64(n) == n % Space
U32(n) == n % Word
U16(n) == n % Half

(* The members of the classes of keys, m_idx = NoId before creation. *)
Addr == {r[1] : r \in Regions \cup Unchecked}
Length == {r[2] : r \in Regions \cup Unchecked}
KeyId == Id \cup {NoId, ReservedId}
DirectKey   == [kind : {"direct"}, addr : Addr, len : Length, idx : KeyId, ibv_mem : BOOLEAN]
PatternKey  == [kind : {"pattern"}, addr : Addr, len : 0 .. Space - 1, idx : KeyId,
                mkeys : UNION {[1 .. n -> Key \cup {None}] : n \in 0 .. MaxBlocks}]
ReservedKey == [kind : {"reserved"}, addr : Addr, len : 0 .. Word - 1, idx : KeyId]
RefKey      == [kind : {"ref"}, addr : Addr, len : Length, idx : KeyId]
ExternKey   == [kind : {"extern"}, addr : Addr, len : Length, idx : KeyId]
CryptoKey   == [kind : {"crypto"}, addr : {0}, len : {0}, idx : KeyId]
KeyObject   == DirectKey \cup PatternKey \cup ReservedKey \cup RefKey \cup ExternKey \cup CryptoKey

(* What the device holds: a registration, or the blocks of an indirect key. *)
Entry == [memkey : KeyId, va : Addr \cup {0}, byte_count : 0 .. Half - 1, stride : 0 .. Half - 1]
Registration == [kind : {"direct"}, addr : Addr, len : Length]
Lost == [kind : {"lost"}]   \* its contents do not matter any more
Indirect == [kind : {"pattern", "crypto"}, stride_sz : 0 .. Word - 1, repeat : 0 .. Word - 1,
             entries : UNION {[1 .. n -> Entry] : n \in 0 .. MaxBlocks}]

ASSUME NoneAssumption == None \notin KeyObject \cup Registration \cup Indirect \cup Lost

Live(k) == key[k] # None
Free == {i \in Id : dev[i] = None}

----------------------------------------------------------------------------
(* The virtual getters of mkey: their status and the value they store. *)
Got(r, v) == [ret |-> r, val |-> v]
Made(o) == o.idx # NoId

DirectId(o)      == Got("DPCP_OK", o.idx)
DirectAddress(o) == Got(IF o.addr = 0 THEN "DPCP_ERR_NO_MEMORY" ELSE "DPCP_OK", o.addr)
DirectLength(o)  == Got(IF o.len = 0 THEN "DPCP_ERR_OUT_OF_RANGE" ELSE "DPCP_OK", o.len)

PatternId(o)      == Got("DPCP_OK", o.idx)
PatternAddress(o) == Got(IF o.addr = 0 THEN "DPCP_ERR_NO_MEMORY" ELSE "DPCP_OK", o.addr)
PatternLength(o)  == Got(IF o.len = 0 THEN "DPCP_ERR_OUT_OF_RANGE" ELSE "DPCP_OK", o.len)

CryptoId(o) == Got("DPCP_OK", o.idx)
CryptoRegion(o) == Got("DPCP_OK", 0)

ReservedGet(o, v) == Got(IF Made(o) THEN "DPCP_OK" ELSE "DPCP_ERR_CREATE", v)
ReservedLength(o) ==
  Got(CASE ~Made(o) -> "DPCP_ERR_CREATE"
        [] Made(o) /\ o.len = 0 -> "DPCP_ERR_OUT_OF_RANGE"
        [] OTHER -> "DPCP_OK", o.len)

RefGet(o, v) == Got(IF Made(o) THEN "DPCP_OK" ELSE "DPCP_ERR_CREATE", v)
RefLength(o) ==
  Got(CASE ~Made(o) -> "DPCP_ERR_CREATE"
        [] Made(o) /\ o.len = 0 -> "DPCP_ERR_OUT_OF_RANGE"
        [] OTHER -> "DPCP_OK", o.len)

get_id(o) ==
  CASE o.kind = "direct" -> DirectId(o)
    [] o.kind = "pattern" -> PatternId(o)
    [] o.kind = "crypto" -> CryptoId(o)
    [] o.kind = "reserved" -> ReservedGet(o, o.idx)
    [] OTHER -> RefGet(o, o.idx)
get_address(o) ==
  CASE o.kind = "direct" -> DirectAddress(o)
    [] o.kind = "pattern" -> PatternAddress(o)
    [] o.kind = "crypto" -> CryptoRegion(o)
    [] o.kind = "reserved" -> ReservedGet(o, o.addr)
    [] OTHER -> RefGet(o, o.addr)
get_length(o) ==
  CASE o.kind = "direct" -> DirectLength(o)
    [] o.kind = "pattern" -> PatternLength(o)
    [] o.kind = "crypto" -> CryptoRegion(o)
    [] o.kind = "reserved" -> ReservedLength(o)
    [] OTHER -> RefLength(o)

(* The first of several calls that fails decides the status. *)
FirstError(rets) ==
  IF \E i \in DOMAIN rets : rets[i] # "DPCP_OK"
  THEN rets[CHOOSE i \in DOMAIN rets : /\ rets[i] # "DPCP_OK"
                                       /\ \A j \in 1 .. i - 1 : rets[j] = "DPCP_OK"]
  ELSE "DPCP_OK"

----------------------------------------------------------------------------
Init ==
  /\ ibv_pd \in BOOLEAN /\ pd \in BOOLEAN /\ (ibv_pd => pd)
  /\ key = [k \in Key |-> None]
  /\ dev = [i \in Id |-> None]
  /\ lost = {} /\ badFree = FALSE
  /\ top = [k \in Key |-> k]

(* A call that fails deletes the object it has built: nothing is left. *)
Refused == UNCHANGED vars

(* A new key object of its own, not derived from another. *)
New(k, o) ==
  /\ key' = [key EXCEPT ![k] = o]
  /\ top' = [top EXCEPT ![k] = k]
  /\ UNCHANGED <<ibv_pd, pd, lost, badFree>>

(* direct_mkey::reg_mem, then destroy() of the object when lkey is 0: the  *)
(* outcomes are the status, the identifier and what stays registered.      *)
RegMem(a, n) ==
  CASE a = 0 -> {[ret |-> "DPCP_ERR_NO_MEMORY", idx |-> NoId]}
    [] a # 0 /\ n = 0 -> {[ret |-> "DPCP_ERR_OUT_OF_RANGE", idx |-> NoId]}
    [] a # 0 /\ n # 0 /\ ~ibv_pd -> {[ret |-> "DPCP_ERR_UMEM", idx |-> NoId]}
    [] OTHER -> {[ret |-> "DPCP_ERR_UMEM", idx |-> NoId], [ret |-> "DPCP_ERR_NO_MEMORY", idx |-> NoId]}
                \cup {[ret |-> "DPCP_OK", idx |-> i] : i \in {j \in Free : a + n <= Space}}

(* adapter::create_direct_mkey: reg_mem sets m_ibv_mem, so that create()   *)
(* has nothing to do; the path over the umem is never taken.               *)
create_direct_mkey(k, a, n) ==
  /\ ~Live(k)
  /\ \E o \in RegMem(a, n) :
       IF o.ret # "DPCP_OK"
       THEN Refused
       ELSE /\ New(k, [kind |-> "direct", addr |-> a, len |-> n, idx |-> o.idx, ibv_mem |-> TRUE])
            /\ dev' = [dev EXCEPT ![o.idx] = [kind |-> "direct", addr |-> a, len |-> n]]

(* Variant with a slip: the end of the region is not compared. *)
RefStatus_NoEnd(p, a, n) ==
  IF a = 0 \/ n = 0 THEN "DPCP_ERR_INVALID_PARAM"
  ELSE FirstError(<<get_id(p).ret, get_address(p).ret, get_length(p).ret,
                    IF a < get_address(p).val THEN "DPCP_ERR_OUT_OF_RANGE" ELSE "DPCP_OK">>)

(* ref_mkey::create; the ends of the regions are computed modulo Space. *)
RefStatus(p, a, n) ==
  IF a = 0 \/ n = 0 THEN "DPCP_ERR_INVALID_PARAM"
  ELSE FirstError(<<get_id(p).ret, get_address(p).ret, get_length(p).ret,
                    IF \/ a < get_address(p).val
                       \/ U64(a + n) > U64(get_address(p).val + get_length(p).val)
                    THEN "DPCP_ERR_OUT_OF_RANGE" ELSE "DPCP_OK">>)

(* adapter::create_ref_mkey deletes a key whose creation failed; the out   *)
(* parameter then points to the deleted key.                               *)
create_ref_mkey(k, p, a, n) ==
  /\ ~Live(k) /\ Live(p)
  /\ LET ret == RefStatus(key[p], a, n)
     IN  IF ret # "DPCP_OK"
         THEN Refused
         ELSE /\ key' = [key EXCEPT ![k] = [kind |-> "ref", addr |-> a, len |-> n,
                                            idx |-> get_id(key[p]).val]]
              /\ top' = [top EXCEPT ![k] = top[p]]
              /\ UNCHANGED <<ibv_pd, pd, dev, lost, badFree>>

(* adapter::create_ref_mkey without a parent *)
create_ref_without_parent == Refused

(* adapter::create_extern_mkey takes the word of the application. *)
create_extern_mkey(k, a, n, i) ==
  /\ ~Live(k)
  /\ New(k, [kind |-> "extern", addr |-> a, len |-> n, idx |-> i])
  /\ UNCHANGED dev

(* adapter::create_reserved_mkey; the length is converted to 32 bits. *)
create_reserved_mkey(k, type, a, n) ==
  /\ ~Live(k)
  /\ IF type # "MKEY_RESERVED_DUMP_AND_FILL"
     THEN Refused
     ELSE /\ New(k, [kind |-> "reserved", addr |-> a, len |-> U32(n), idx |-> ReservedId])
          /\ UNCHANGED dev

(* The sum of a sequence of numbers, added up one by one. *)
Total(f) ==
  LET sum[n \in 0 .. Len(f)] == IF n = 0 THEN 0 ELSE sum[n - 1] + f[n]
  IN  sum[Len(f)]

(* The sum of the block lengths, m_stride_sz; and the sum of a loop that   *)
(* starts at the second block.                                             *)
StrideSize_SkipsFirst(blocks) ==
  U64(Total([i \in DOMAIN blocks |-> IF i = 1 THEN 0 ELSE blocks[i].len]))
StrideSize(blocks) == U64(Total([i \in DOMAIN blocks |-> blocks[i].len]))

(* get_id and get_address of every block's key. *)
BlockStatus(blocks) ==
  FirstError([i \in DOMAIN blocks |->
                FirstError(<<get_id(key[blocks[i].key]).ret, get_address(key[blocks[i].key]).ret>>)])

(* The entries of the repeated block, as the device reads them. *)
Entries(blocks) ==
  [i \in DOMAIN blocks |->
     LET o == key[blocks[i].key]
     IN  [memkey |-> get_id(o).val, va |-> get_address(o).val,
          byte_count |-> U16(blocks[i].len), stride |-> U16(blocks[i].stride)]]

(* adapter::create_pattern_mkey and pattern_mkey::create.  The lengths of  *)
(* the blocks are not compared with those of their keys.                   *)
create_pattern_mkey(k, a, num, blocks) ==
  /\ ~Live(k)
  /\ \A b \in DOMAIN blocks : Live(blocks[b].key)
  /\ \/ /\ \/ ~pd
           \/ pd /\ BlockStatus(blocks) # "DPCP_OK"
           \/ pd /\ BlockStatus(blocks) = "DPCP_OK"   \* memory, or the device refuses
        /\ Refused
     \/ /\ pd /\ BlockStatus(blocks) = "DPCP_OK"
        /\ \E i \in Free :
             /\ New(k, [kind |-> "pattern", addr |-> a, len |-> U64(StrideSize(blocks) * num),
                        idx |-> i, mkeys |-> [b \in DOMAIN blocks |-> blocks[b].key]])
             /\ dev' = [dev EXCEPT ![i] =
                          [kind |-> "pattern", stride_sz |-> U32(StrideSize(blocks)),
                           repeat |-> U32(num), entries |-> Entries(blocks)]]

(* adapter::create_crypto_mkey *)
create_crypto_mkey(k, max_sge) ==
  /\ ~Live(k)
  /\ \/ Refused
     \/ /\ pd /\ max_sge % 4 = 0
        /\ \E i \in Free :
             /\ New(k, [kind |-> "crypto", addr |-> 0, len |-> 0, idx |-> i])
             /\ dev' = [dev EXCEPT ![i] = [kind |-> "crypto", stride_sz |-> 0, repeat |-> 0,
                                           entries |-> <<>>]]

(* The identifier whose device object or registration deleting o releases; *)
(* and with a slip, where a reference releases what it refers to.          *)
Owned_Refs(o) == IF o.kind \in {"direct", "pattern", "crypto", "ref"} THEN {o.idx} \cap Id ELSE {}
Owned(o) == IF o.kind \in {"direct", "pattern", "crypto"} THEN {o.idx} \ {NoId} ELSE {}

(* The pointers to k in other patterns dangle from now on. *)
Forget(o, k) ==
  IF o # None /\ o.kind = "pattern"
  THEN [o EXCEPT !.mkeys = [i \in DOMAIN o.mkeys |-> IF o.mkeys[i] = k THEN None ELSE o.mkeys[i]]]
  ELSE o

(* The destructors: direct_mkey::destroy deregisters the memory, obj::~obj *)
(* destroys the device object of a pattern or crypto key.  A refusal is    *)
(* dropped: the object is gone and the device still has the key.           *)
delete_mkey(k) ==
  /\ Live(k)
  /\ key' = [q \in Key |-> IF q = k THEN None ELSE Forget(key[q], k)]
  /\ \/ /\ dev' = [i \in Id |-> IF i \in Owned(key[k]) THEN None ELSE dev[i]]
        /\ badFree' = (badFree \/ \E i \in Owned(key[k]) : dev[i] = None)
        /\ UNCHANGED lost
     \/ /\ Owned(key[k]) # {}
        /\ lost' = lost \cup Owned(key[k])
        /\ dev' = [i \in Id |-> IF i \in Owned(key[k]) THEN [kind |-> "lost"] ELSE dev[i]]
        /\ UNCHANGED badFree
  /\ top' = [c \in Key |-> CASE c = k -> k
                             [] c # k /\ top[c] = k -> None
                             [] OTHER -> top[c]]
  /\ UNCHANGED <<ibv_pd, pd>>

BlockLists(n) == UNION {[1 .. m -> {[key |-> p, stride |-> b.stride, len |-> b.len] :
                                      p \in {q \in Key : Live(q)}, b \in Block}] : m \in 0 .. n}

Next ==
  \/ \E k \in Key, r \in Regions :
       \/ create_direct_mkey(k, r[1], r[2])
       \/ \E p \in Key : create_ref_mkey(k, p, r[1], r[2])
  \/ create_ref_without_parent
  \/ \E k \in Key, r \in Unchecked :
       \/ \E i \in Id \cup {NoId} : create_extern_mkey(k, r[1], r[2], i)
       \/ \E t \in {"MKEY_RESERVED_NONE", "MKEY_RESERVED_DUMP_AND_FILL"} :
            create_reserved_mkey(k, t, r[1], r[2])
       \/ \E blocks \in BlockLists(MaxBlocks) : create_pattern_mkey(k, r[1], r[2], blocks)
  \/ \E k \in Key, sge \in {3, 4} : create_crypto_mkey(k, sge)
  \/ \E k \in Key : delete_mkey(k)

Spec == Init /\ [][Next]_vars

----------------------------------------------------------------------------
Region(o) == o.addr .. o.addr + o.len - 1
Wraps(o) == o.addr + o.len >= Space

(* Types of the keys and of what the device holds. *)
TypeOK ==
  /\ ibv_pd \in BOOLEAN /\ pd \in BOOLEAN /\ badFree \in BOOLEAN
  /\ key \in [Key -> KeyObject \cup {None}]
  /\ dev \in [Id -> Registration \cup Indirect \cup Lost \cup {None}]
  /\ lost \subseteq Id
  /\ top \in [Key -> Key \cup {None}]

(* The device has a key for exactly the live objects that own one and for  *)
(* those it refused to release; no two objects own the same, none is       *)
(* released twice, and a direct key's registration is the memory it names, *)
(* whatever references and patterns over it came and went before it.       *)
OwnersAgree ==
  /\ TypeOK
  /\ ~badFree
  /\ {i \in Id : dev[i] # None} = (UNION {Owned(key[k]) : k \in {q \in Key : Live(q)}}) \cup lost
  /\ \A k \in Key : Live(k) =>
       /\ Owned(key[k]) \cap lost = {}
       /\ \A q \in Key : Live(q) /\ Owned(key[k]) \cap Owned(key[q]) # {} => q = k
       /\ key[k].kind = "direct" => /\ key[k].ibv_mem
                                    /\ dev[key[k].idx] = [kind |-> "direct", addr |-> key[k].addr,
                                                          len |-> key[k].len]

(* Creation of a reference "validates that memory region ... is a          *)
(* subregion of parent's memory" (dpcp.h:554): through any chain of        *)
(* references, also when those in between are deleted, a reference names a *)
(* part of the key its chain starts from and carries its identifier, and   *)
(* the memory is registered if that is a direct key, until that key is     *)
(* deleted; unless the region reaches the end of the address space, where  *)
(* the comparison of the ends wraps.                                       *)
RefsBacked ==
  \A k \in Key :
    Live(k) /\ key[k].kind = "ref" /\ top[k] # None /\ ~Wraps(key[k]) =>
      /\ Live(top[k]) /\ key[k].idx = key[top[k]].idx
      /\ Region(key[k]) \subseteq Region(key[top[k]])
      /\ key[top[k]].kind = "direct" => /\ dev[key[k].idx] # None
                                       /\ Region(key[k]) \subseteq Region(dev[key[k].idx])

(* As long as the key of a block is alive a pattern names, in the device,  *)
(* its identifier and address, although other keys have been deleted and   *)
(* their identifiers reused; and the bytes of the entries add up to the    *)
(* stride, up to the 16 bits an entry has for them.                        *)
PatternsAgree ==
  \A k \in Key : Live(k) /\ key[k].kind = "pattern" =>
    LET d == dev[key[k].idx]
        m == key[k].mkeys
        total == Total([i \in DOMAIN d.entries |-> d.entries[i].byte_count])
    IN  /\ \A i \in DOMAIN m : m[i] # None => /\ d.entries[i].memkey = key[m[i]].idx
                                              /\ d.entries[i].va = key[m[i]].addr
        /\ U16(d.stride_sz) = U16(total)

----------------------------------------------------------------------------
(* What makes these inductive: a key that is no reference descends from    *)
(* itself, a reference from a key that is none, whose memory it is inside  *)
(* of; a key object that owns an identifier has one; and the device has a  *)
(* pattern for every pattern, whose pointers are those of live keys.       *)
Inside(o, p) == p.addr <= o.addr /\ o.addr + o.len <= p.addr + p.len

RefsInv ==
  \A k \in Key :
    /\ ~Live(k) \/ key[k].kind # "ref" => top[k] = k
    /\ Live(k) /\ key[k].kind = "ref" /\ top[k] # None =>
         /\ Live(top[k]) /\ key[top[k]].kind # "ref" /\ key[k].idx = key[top[k]].idx
         /\ ~Wraps(key[k]) => Inside(key[k], key[top[k]])

BlocksInv ==
  \A k \in Key : Live(k) /\ key[k].kind = "pattern" =>
    /\ dev[key[k].idx] \in Indirect
    /\ DOMAIN dev[key[k].idx].entries = DOMAIN key[k].mkeys
    /\ \A i \in DOMAIN key[k].mkeys : key[k].mkeys[i] # None => Live(key[k].mkeys[i])

IdsInv ==
  \A k \in Key : Live(k) /\ key[k].kind \in {"direct", "pattern", "crypto"} => key[k].idx \in Id

KeysInv == OwnersAgree /\ RefsInv /\ IdsInv /\ BlocksInv /\ PatternsAgree
=============================================================================
