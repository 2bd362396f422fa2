-------------------------- MODULE MemoryKeysProofs --------------------------
(***************************************************************************)
(* Memory keys, for any key objects, identifiers, regions and blocks and   *)
(* any widths of the addresses: who owns the keys of the device, what      *)
(* references refer to, and what the device was told of patterns.          *)
(***************************************************************************)
EXTENDS MemoryKeys, SequenceTheorems, WellFoundedInduction, TLAPS

(* Remainders. *)
LEMMA ModFacts ==
  ASSUME NEW m \in Nat \ {0}, NEW a \in Int
  PROVE  \E q \in Int, r \in 0 .. m - 1 : a % m = r /\ a = m * q + r
<1>1. a % m \in 0 .. m - 1 /\ a \div m \in Int /\ a = m * (a \div m) + (a % m)
  OBVIOUS
<1>2. QED
  BY <1>1, Zenon

(* A remainder is the only one of its number. *)
LEMMA ModUnique ==
  ASSUME NEW m \in Nat \ {0}, NEW q \in Int, NEW r \in 0 .. m - 1
  PROVE  (m * q + r) % m = r
  OBVIOUS

(* A multiple of the modulus makes no difference. *)
LEMMA ModAdd ==
  ASSUME NEW m \in Nat \ {0}, NEW a \in Int, NEW q \in Int
  PROVE  (a + m * q) % m = a % m
<1>1. PICK d \in Int, r \in 0 .. m - 1 : a % m = r /\ a = m * d + r
  BY ModFacts
<1>2. d + q \in Int /\ a + m * q = m * (d + q) + r
  BY <1>1
<1>3. (m * (d + q) + r) % m = r
  BY <1>2, ModUnique
<1>4. QED
  BY <1>1, <1>2, <1>3

(* Neither does a conversion to more bits that comes before one to fewer, *)
(* nor when the terms of a sum are converted before they are added.       *)
LEMMA ModOfMod ==
  ASSUME NEW m \in Nat \ {0}, NEW h \in Nat \ {0}, m % h = 0, NEW a \in Int
  PROVE  (a % m) % h = a % h
<1>1. PICK k \in Int : m = h * k
  <2>1. PICK q \in Int, r \in 0 .. h - 1 : m % h = r /\ m = h * q + r
    BY ModFacts
  <2>2. m = h * q
    BY <2>1
  <2>3. QED
    BY <2>2
<1>2. PICK q \in Int, r \in 0 .. m - 1 : a % m = r /\ a = m * q + r
  BY ModFacts, Zenon
<1>3. k * q \in Int /\ r \in Int /\ a = r + h * (k * q)
  BY <1>1, <1>2
<1>4. (r + h * (k * q)) % h = r % h
  BY <1>3, ModAdd, Zenon
<1>5. QED
  BY <1>2, <1>3, <1>4

(* The remainder of a sum is that of the sum of the remainders. *)
LEMMA ModSum ==
  ASSUME NEW h \in Nat \ {0}, NEW a \in Int, NEW b \in Int, NEW c \in Int, a % h = b % h
  PROVE  (a + c) % h = (b + (c % h)) % h
<1>1. PICK q \in Int, r \in 0 .. h - 1 : c % h = r /\ c = h * q + r
  BY ModFacts, Zenon
<1>2. PICK qa \in Int, ra \in 0 .. h - 1 : a % h = ra /\ a = h * qa + ra
  BY ModFacts, Zenon
<1>3. PICK qb \in Int, rb \in 0 .. h - 1 : b % h = rb /\ b = h * qb + rb
  BY ModFacts, Zenon
<1>4. (q + qa) - qb \in Int /\ b + r \in Int /\ a + c = (b + r) + h * ((q + qa) - qb)
  BY <1>1, <1>2, <1>3
<1>5. ((b + r) + h * ((q + qa) - qb)) % h = (b + r) % h
  BY <1>4, ModAdd, Zenon
<1>6. QED
  BY <1>1, <1>4, <1>5

(* A set of numbers that is not empty has a least one. *)
LEMMA LeastNatural ==
  ASSUME NEW T, T \subseteq Nat, T # {}
  PROVE  \E x \in T : \A y \in T : x <= y
<1>1. PICK x \in T : \A y \in T : ~(<<y, x>> \in OpToRel(<, Nat))
  BY NatLessThanWellFounded, WFMin, Zenon
<1>2. \A y \in T : ~(y < x)
  BY <1>1, Zenon DEF OpToRel
<1>3. ASSUME NEW y \in T PROVE x <= y
  <2>1. x \in Nat /\ y \in Nat
    OBVIOUS
  <2>2. QED
    BY <1>2, <2>1
<1>4. QED
  BY <1>3

(* Induction, for a property given as the set of the numbers that have it. *)
LEMMA Induction ==
  ASSUME NEW T, 0 \in T, \A n \in Nat : n \in T => n + 1 \in T
  PROVE  Nat \subseteq T
<1>1. SUFFICES ASSUME Nat \ T # {} PROVE FALSE
  OBVIOUS
<1>2. PICK x \in Nat \ T : \A y \in Nat \ T : x <= y
  <2>1. Nat \ T \subseteq Nat
    OBVIOUS
  <2>2. QED
    BY <1>1, <2>1, LeastNatural, Zenon
<1>3. x # 0 /\ x - 1 \in Nat
  BY <1>2
<1>4. x - 1 \in T
  BY <1>2, <1>3
<1>5. QED
  BY <1>2, <1>3, <1>4

(* The running sums of a sequence exist, ... *)
LEMMA SumExists ==
  ASSUME NEW L \in Nat, NEW f \in [1 .. L -> Nat]
  PROVE  \E g \in [0 .. L -> Nat] : g[0] = 0 /\ \A n \in 1 .. L : g[n] = g[n - 1] + f[n]
<1> DEFINE Sums(m, g) == g[0] = 0 /\ \A n \in 1 .. m : g[n] = g[n - 1] + f[n]
           T == {m \in Nat : m <= L => \E g \in [0 .. m -> Nat] : Sums(m, g)}
<1>1. 0 \in T
  <2>1. [n \in 0 .. 0 |-> 0] \in [0 .. 0 -> Nat] /\ Sums(0, [n \in 0 .. 0 |-> 0])
    OBVIOUS
  <2>2. QED
    BY <2>1, Zenon
<1>2. ASSUME NEW m \in Nat, m \in T PROVE m + 1 \in T
  <2>1. SUFFICES ASSUME m + 1 <= L PROVE \E g \in [0 .. m + 1 -> Nat] : Sums(m + 1, g)
    <3> HIDE DEF Sums
    <3>1. QED
      OBVIOUS
  <2>2. PICK g \in [0 .. m -> Nat] : Sums(m, g)
    BY <1>2, <2>1
  <2> DEFINE h == [n \in 0 .. m + 1 |-> IF n <= m THEN g[n] ELSE g[m] + f[m + 1]]
  <2>3. h \in [0 .. m + 1 -> Nat]
    <3>1. ASSUME NEW n \in 0 .. m + 1 PROVE (IF n <= m THEN g[n] ELSE g[m] + f[m + 1]) \in Nat
      <4>1. m \in 0 .. m /\ m + 1 \in 1 .. L
        BY <2>1
      <4>2. g[m] \in Nat /\ f[m + 1] \in Nat /\ (n <= m => g[n] \in Nat)
        BY <4>1
      <4>3. QED
        BY <4>2
    <3>2. QED
      BY <3>1
  <2>4. Sums(m + 1, h)
    <3>1. h[0] = 0
      BY <2>2
    <3>2. ASSUME NEW n \in 1 .. m + 1 PROVE h[n] = h[n - 1] + f[n]
      <4>1. CASE n <= m
        <5>1. n \in 1 .. m /\ n \in 0 .. m + 1 /\ n - 1 \in 0 .. m + 1 /\ n - 1 <= m
          BY <4>1
        <5>2. h[n] = g[n] /\ h[n - 1] = g[n - 1]
          BY <4>1, <5>1
        <5>3. QED
          BY <2>2, <5>1, <5>2
      <4>2. CASE n = m + 1
        BY <4>2
      <4>3. QED
        BY <4>1, <4>2
    <3>3. QED
      BY <3>1, <3>2, Zenon
  <2>5. QED
    BY <2>3, <2>4, Zenon
<1>3. Nat \subseteq T
  <2> HIDE DEF T
  <2>1. QED
    BY <1>1, <1>2, Induction, Zenon
<1>4. \E g \in [0 .. L -> Nat] : Sums(L, g)
  <2>1. L \in T /\ L <= L
    <3> HIDE DEF T
    <3>1. QED
      BY <1>3
  <2> HIDE DEF Sums
  <2>2. QED
    BY <2>1
<1>5. QED
  BY <1>4, Zenon

(* ... and Total is the last of them. *)
LEMMA TotalFacts ==
  ASSUME NEW L \in Nat, NEW f \in [1 .. L -> Nat]
  PROVE  \E g \in [0 .. L -> Nat] :
           g[0] = 0 /\ Total(f) = g[L] /\ \A n \in 1 .. L : g[n] = g[n - 1] + f[n]
<1>1. Len(f) = L
  <2>1. f \in Seq(Nat)
    BY SeqDef
  <2>2. Len(f) \in Nat /\ 1 .. Len(f) = 1 .. L
    BY <2>1, LenProperties
  <2>3. QED
    BY <2>2
<1> DEFINE Step(g) == [n \in 0 .. Len(f) |-> IF n = 0 THEN 0 ELSE g[n - 1] + f[n]]
           s == CHOOSE g : g = Step(g)
<1>2. Total(f) = s[L]
  BY <1>1 DEF Total
<1>3. PICK e \in [0 .. L -> Nat] : e[0] = 0 /\ \A n \in 1 .. L : e[n] = e[n - 1] + f[n]
  BY SumExists, Zenon
<1>4. e = Step(e)
  BY <1>1, <1>3
<1>5. s = Step(s)
  BY <1>4, Zenon
<1> HIDE DEF s
<1>6. s[0] = 0 /\ \A n \in 1 .. L : s[n] = s[n - 1] + f[n]
  BY <1>1, <1>5
<1>7. \A n \in 0 .. L : s[n] \in Nat
  <2> DEFINE T == {n \in Nat : n <= L => s[n] \in Nat}
  <2>1. 0 \in T
    BY <1>6
  <2>2. ASSUME NEW n \in Nat, n \in T PROVE n + 1 \in T
    <3>1. SUFFICES ASSUME n + 1 <= L PROVE s[n + 1] \in Nat
      OBVIOUS
    <3>2. n + 1 \in 1 .. L /\ s[n] \in Nat /\ f[n + 1] \in Nat /\ (n + 1) - 1 = n
      BY <2>2, <3>1
    <3>3. QED
      BY <1>6, <3>2
  <2>3. Nat \subseteq T
    <3> HIDE DEF T
    <3>1. QED
      BY <2>1, <2>2, Induction, Zenon
  <2>4. QED
    BY <2>3
<1>8. s \in [0 .. L -> Nat]
  BY <1>1, <1>5, <1>7
<1>9. QED
  BY <1>2, <1>6, <1>8, Zenon

(* The conversion of the terms of a sum does not change its lowest bits. *)
LEMMA TotalMod ==
  ASSUME NEW L \in Nat, NEW f \in [1 .. L -> Nat], NEW e \in [1 .. L -> Nat],
         NEW h \in Nat \ {0}, \A n \in 1 .. L : e[n] = f[n] % h
  PROVE  Total(f) \in Nat /\ Total(e) \in Nat /\ Total(f) % h = Total(e) % h
<1>1. PICK sf \in [0 .. L -> Nat] :
        sf[0] = 0 /\ Total(f) = sf[L] /\ \A n \in 1 .. L : sf[n] = sf[n - 1] + f[n]
  BY TotalFacts, Zenon
<1>2. PICK se \in [0 .. L -> Nat] :
        se[0] = 0 /\ Total(e) = se[L] /\ \A n \in 1 .. L : se[n] = se[n - 1] + e[n]
  BY TotalFacts, Zenon
<1> DEFINE T == {n \in Nat : n <= L => sf[n] % h = se[n] % h}
<1>3. 0 \in T
  BY <1>1, <1>2
<1>4. ASSUME NEW n \in Nat, n \in T PROVE n + 1 \in T
  <2>1. SUFFICES ASSUME n + 1 <= L PROVE sf[n + 1] % h = se[n + 1] % h
    OBVIOUS
  <2>2. /\ n + 1 \in 1 .. L /\ n \in 0 .. L /\ (n + 1) - 1 = n
        /\ sf[n] \in Int /\ se[n] \in Int /\ f[n + 1] \in Int /\ sf[n] % h = se[n] % h
    BY <1>4, <2>1
  <2>3. sf[n + 1] = sf[n] + f[n + 1] /\ se[n + 1] = se[n] + (f[n + 1] % h)
    BY <1>1, <1>2, <2>2
  <2>4. (sf[n] + f[n + 1]) % h = (se[n] + (f[n + 1] % h)) % h
    BY <2>2, ModSum, Zenon
  <2>5. QED
    BY <2>3, <2>4
<1>5. Nat \subseteq T
  <2> HIDE DEF T
  <2>1. QED
    BY <1>3, <1>4, Induction, Zenon
<1>6. L \in 0 .. L /\ L \in T
  BY <1>5
<1>7. QED
  BY <1>1, <1>2, <1>6

----------------------------------------------------------------------------
(* The members of a key object. *)
BlockKeys == UNION {[1 .. n -> Key \cup {None}] : n \in 0 .. MaxBlocks}

(* No identifier of the device is 0. *)
LEMMA NoIdApart == NoId \notin Id
  BY SizeAssumption

(* The members of a key object have their ranges, by its kind. *)
LEMMA ObjectFacts ==
  ASSUME NEW o \in KeyObject
  PROVE  /\ o # None
         /\ o.kind \in {"direct", "pattern", "reserved", "ref", "extern", "crypto"}
         /\ o.addr \in 0 .. Space - 1 /\ o.len \in 0 .. Space - 1 /\ o.idx \in KeyId
         /\ o.kind = "pattern" => o.mkeys \in BlockKeys
         /\ o.kind = "crypto" => o.addr = 0 /\ o.len = 0
<1>1. Addr \subseteq 0 .. Space - 1 /\ Length \subseteq 0 .. Space - 1
  BY SizeAssumption DEF Addr, Length
<1>2. 0 .. Word - 1 \subseteq 0 .. Space - 1 /\ 0 \in 0 .. Space - 1
  BY SizeAssumption
<1>3. o # None
  BY NoneAssumption
<1>4. CASE o \in DirectKey
  BY <1>1, <1>3, <1>4, Zenon DEF DirectKey
<1>5. CASE o \in PatternKey
  BY <1>1, <1>3, <1>5, Zenon DEF PatternKey, BlockKeys
<1>6. CASE o \in ReservedKey
  BY <1>1, <1>2, <1>3, <1>6, Zenon DEF ReservedKey
<1>7. CASE o \in RefKey
  BY <1>1, <1>3, <1>7, Zenon DEF RefKey
<1>8. CASE o \in ExternKey
  BY <1>1, <1>3, <1>8, Zenon DEF ExternKey
<1>9. CASE o \in CryptoKey
  BY <1>2, <1>3, <1>9 DEF CryptoKey
<1>10. QED
  BY <1>4, <1>5, <1>6, <1>7, <1>8, <1>9 DEF KeyObject

(* The getters store the members, whatever their status. *)
LEMMA GetterFacts ==
  ASSUME NEW o \in KeyObject
  PROVE  get_id(o).val = o.idx /\ get_address(o).val = o.addr /\ get_length(o).val = o.len
<1>1. /\ o.kind \in {"direct", "pattern", "reserved", "ref", "extern", "crypto"}
      /\ o.kind = "crypto" => o.addr = 0 /\ o.len = 0
  BY ObjectFacts
<1>2. get_id(o).val = o.idx
  BY <1>1 DEF get_id, DirectId, PatternId, CryptoId, ReservedGet, RefGet, Got
<1>3. get_address(o).val = o.addr
  BY <1>1 DEF get_address, DirectAddress, PatternAddress, CryptoRegion, ReservedGet, RefGet, Got
<1>4. get_length(o).val = o.len
  BY <1>1 DEF get_length, DirectLength, PatternLength, CryptoRegion, ReservedLength, RefLength, Got
<1>5. QED
  BY <1>2, <1>3, <1>4

(* No error is overlooked. *)
LEMMA NoErrorMissed ==
  ASSUME NEW a, NEW b, NEW c, NEW d, FirstError(<<a, b, c, d>>) = "DPCP_OK"
  PROVE  d = "DPCP_OK"
<1> DEFINE rets == <<a, b, c, d>>
           First(i) == rets[i] # "DPCP_OK" /\ \A j \in 1 .. i - 1 : rets[j] = "DPCP_OK"
<1>1. SUFFICES ASSUME d # "DPCP_OK" PROVE FALSE
  OBVIOUS
<1>2. DOMAIN rets = 1 .. 4 /\ rets[1] = a /\ rets[2] = b /\ rets[3] = c /\ rets[4] = d
  OBVIOUS
<1>3. \E i \in DOMAIN rets : First(i)
  <2>1. CASE a # "DPCP_OK"
    BY <1>2, <2>1
  <2>2. CASE a = "DPCP_OK" /\ b # "DPCP_OK"
    <3>1. First(2)
      BY <1>2, <2>2
    <3>2. QED
      BY <1>2, <3>1
  <2>3. CASE a = "DPCP_OK" /\ b = "DPCP_OK" /\ c # "DPCP_OK"
    <3>1. First(3)
      BY <1>2, <2>3
    <3>2. QED
      BY <1>2, <3>1
  <2>4. CASE a = "DPCP_OK" /\ b = "DPCP_OK" /\ c = "DPCP_OK"
    <3>1. First(4)
      BY <1>1, <1>2, <2>4
    <3>2. QED
      BY <1>2, <3>1
  <2>5. QED
    BY <2>1, <2>2, <2>3, <2>4
<1> DEFINE i == CHOOSE i \in DOMAIN rets : First(i)
<1>4. i \in DOMAIN rets /\ rets[i] # "DPCP_OK"
  BY <1>3
<1>5. FirstError(rets) = rets[i]
  BY <1>4 DEF FirstError
<1>6. QED
  BY <1>4, <1>5

(* The comparison of the ends, where they do not wrap. *)
LEMMA RefInside ==
  ASSUME NEW p \in KeyObject, NEW a \in 0 .. Space - 1, NEW n \in 0 .. Space - 1,
         RefStatus(p, a, n) = "DPCP_OK", a + n < Space
  PROVE  p.addr <= a /\ a + n <= p.addr + p.len /\ ~Wraps(p)
<1>1. p.addr \in 0 .. Space - 1 /\ p.len \in 0 .. Space - 1 /\ Space \in Nat \ {0}
  BY ObjectFacts, SizeAssumption
<1>2. a # 0 /\ n # 0 /\ p.addr <= a /\ U64(a + n) <= U64(p.addr + p.len)
  <2> DEFINE ends == IF \/ a < get_address(p).val
                         \/ U64(a + n) > U64(get_address(p).val + get_length(p).val)
                      THEN "DPCP_ERR_OUT_OF_RANGE" ELSE "DPCP_OK"
  <2>1. a # 0 /\ n # 0
    BY DEF RefStatus
  <2>2. FirstError(<<get_id(p).ret, get_address(p).ret, get_length(p).ret, ends>>) = "DPCP_OK"
    BY <2>1 DEF RefStatus
  <2>3. ends = "DPCP_OK"
    <3> HIDE DEF ends
    <3>1. QED
      BY <2>2, NoErrorMissed
  <2>4. ~(a < p.addr) /\ ~(U64(a + n) > U64(p.addr + p.len))
    BY <2>3, GetterFacts
  <2>5. U64(a + n) \in Int /\ U64(p.addr + p.len) \in Int
    BY <1>1 DEF U64
  <2>6. QED
    BY <1>1, <2>1, <2>4, <2>5
<1>3. U64(a + n) = a + n
  BY <1>1 DEF U64
<1>4. CASE p.addr + p.len < Space
  <2>1. U64(p.addr + p.len) = p.addr + p.len
    BY <1>1, <1>4 DEF U64
  <2>2. QED
    BY <1>1, <1>2, <1>3, <1>4, <2>1 DEF Wraps
<1>5. CASE p.addr + p.len >= Space
  <2>1. U64(p.addr + p.len) = p.addr + p.len - Space
    <3>1. p.addr + p.len - Space \in 0 .. Space - 1
      BY <1>1, <1>5
    <3>2. p.addr + p.len = Space * 1 + (p.addr + p.len - Space)
      BY <1>1
    <3>3. QED
      BY <1>1, <3>1, <3>2, ModUnique DEF U64
  <2>2. QED
    BY <1>1, <1>2, <1>3, <2>1
<1>6. QED
  BY <1>1, <1>4, <1>5

----------------------------------------------------------------------------
(* A live key and what it owns. *)
LEMMA LiveFacts ==
  ASSUME TypeOK, NEW k \in Key
  PROVE  Live(k) <=> key[k] \in KeyObject
  BY NoneAssumption DEF TypeOK, Live

(* The identifiers the device has a key for, one by one. *)
Used(i) == i \in Id /\ dev[i] # None
Taken(i) == i \in lost \/ \E k \in Key : Live(k) /\ i \in Owned(key[k])

(* The device has keys for what the key objects own and for what was lost. *)
LEMMA UsedIsTaken ==
  {i \in Id : dev[i] # None} = (UNION {Owned(key[k]) : k \in {q \in Key : Live(q)}}) \cup lost
    <=> \A i : Used(i) <=> Taken(i)
<1> DEFINE U == {i \in Id : dev[i] # None}
           W == (UNION {Owned(key[k]) : k \in {q \in Key : Live(q)}}) \cup lost
<1>1. \A i : i \in U <=> Used(i)
  BY DEF Used
<1>2. \A i : i \in W <=> Taken(i)
  BY DEF Taken
<1> HIDE DEF U, W
<1>3. U = W <=> \A i : i \in U <=> i \in W
  OBVIOUS
<1>4. U = W <=> \A i : Used(i) <=> Taken(i)
  BY <1>1, <1>2, <1>3
<1>5. QED
  BY <1>4 DEF U, W

(* A pattern and what the device holds for it, among the key objects K. *)
PatternIn(K, o, d) ==
  /\ d \in Indirect /\ DOMAIN d.entries = DOMAIN o.mkeys
  /\ \A i \in DOMAIN o.mkeys : o.mkeys[i] # None =>
       /\ K[o.mkeys[i]] # None
       /\ d.entries[i].memkey = K[o.mkeys[i]].idx /\ d.entries[i].va = K[o.mkeys[i]].addr
  /\ U16(d.stride_sz) = U16(Total([i \in DOMAIN d.entries |-> d.entries[i].byte_count]))

PatternsSound ==
  \A k \in Key : Live(k) /\ key[k].kind = "pattern" => PatternIn(key, key[k], dev[key[k].idx])

(* The two statements about patterns, as one. *)
LEMMA PatternForm == BlocksInv /\ PatternsAgree <=> PatternsSound
<1>1. BlocksInv /\ PatternsAgree => PatternsSound
  BY DEF BlocksInv, PatternsAgree, PatternsSound, PatternIn, Live
<1>2. PatternsSound => BlocksInv /\ PatternsAgree
  BY Zenon DEF BlocksInv, PatternsAgree, PatternsSound, PatternIn, Live
<1>3. QED
  BY <1>1, <1>2

(* Two live objects own different identifiers, none of which is lost, and  *)
(* a direct key the registration of its memory.                            *)
OwnershipOf(k) ==
  /\ Owned(key[k]) \cap lost = {}
  /\ \A q \in Key : Live(q) /\ Owned(key[k]) \cap Owned(key[q]) # {} => q = k
  /\ key[k].kind = "direct" => /\ key[k].ibv_mem
                               /\ dev[key[k].idx] = [kind |-> "direct", addr |-> key[k].addr,
                                                     len |-> key[k].len]

(* The invariant, key by key and identifier by identifier. *)
LEMMA KeysForm ==
  KeysInv <=> /\ TypeOK /\ ~badFree
              /\ \A i : Used(i) <=> Taken(i)
              /\ \A k \in Key : Live(k) => OwnershipOf(k)
              /\ RefsInv /\ IdsInv /\ PatternsSound
  BY UsedIsTaken, PatternForm, Zenon DEF KeysInv, OwnersAgree, OwnershipOf

(* ... and after a step. *)
LEMMA NextForm ==
  ASSUME TypeOK', (~badFree)', (\A i : Used(i) <=> Taken(i))',
         (\A k \in Key : Live(k) => OwnershipOf(k))', RefsInv', IdsInv', PatternsSound'
  PROVE  KeysInv'
  BY KeysForm, PTL

(* What a live object owns is an identifier the device uses. *)
LEMMA OwnedFacts ==
  ASSUME KeysInv, NEW k \in Key, Live(k)
  PROVE  /\ key[k].kind \in {"direct", "pattern", "crypto"} =>
              key[k].idx \in Id /\ Owned(key[k]) = {key[k].idx} /\ Used(key[k].idx)
         /\ key[k].kind \notin {"direct", "pattern", "crypto"} => Owned(key[k]) = {}
<1>1. \A i \in Owned(key[k]) : Used(i)
  BY KeysForm DEF Taken
<1>2. key[k].kind \in {"direct", "pattern", "crypto"} =>
        key[k].idx \in Id /\ Owned(key[k]) = {key[k].idx}
  BY SizeAssumption, KeysForm DEF IdsInv, Owned
<1>3. QED
  BY <1>1, <1>2 DEF Owned

(* A pattern does not notice changes of keys it has no pointer to. *)
LEMMA PatternStays ==
  ASSUME NEW K, NEW J, NEW o, NEW d, o.mkeys \in BlockKeys, PatternIn(K, o, d),
         \A q \in Key : K[q] # None => J[q] = K[q]
  PROVE  PatternIn(J, o, d)
<1>1. ASSUME NEW i \in DOMAIN o.mkeys, o.mkeys[i] # None
      PROVE  K[o.mkeys[i]] # None /\ J[o.mkeys[i]] = K[o.mkeys[i]]
  <2>1. o.mkeys[i] \in Key
    BY <1>1 DEF BlockKeys
  <2>2. QED
    BY <1>1, <2>1 DEF PatternIn
<1>2. QED
  BY <1>1 DEF PatternIn

(* A new object leaves the others, and what the device holds for them, as  *)
(* they were.                                                              *)
LEMMA OthersKept ==
  ASSUME KeysInv, NEW k \in Key, ~Live(k), NEW o \in KeyObject, key' = [key EXCEPT ![k] = o],
         \A i \in Id : dev[i] # None => dev'[i] = dev[i]
  PROVE  /\ key'[k] = o /\ Live(k)' /\ key' \in [Key -> KeyObject \cup {None}]
         /\ \A q \in Key : q # k => key'[q] = key[q] /\ (Live(q)' <=> Live(q))
         /\ \A q \in Key : Live(q) => q # k /\ Live(q)' /\ key'[q] = key[q]
         /\ \A q \in Key : Live(q) /\ key[q].kind = "pattern" =>
              PatternIn(key', key'[q], dev'[key'[q].idx])
<1>1. key \in [Key -> KeyObject \cup {None}] /\ o # None
  BY KeysForm, ObjectFacts DEF TypeOK
<1>2. /\ key'[k] = o /\ Live(k)' /\ key' \in [Key -> KeyObject \cup {None}]
      /\ \A q \in Key : q # k => key'[q] = key[q] /\ (Live(q)' <=> Live(q))
  BY <1>1 DEF Live
<1>3. \A q \in Key : Live(q) => q # k /\ Live(q)' /\ key'[q] = key[q]
  BY <1>2
<1>4. ASSUME NEW q \in Key, Live(q), key[q].kind = "pattern"
      PROVE  PatternIn(key', key'[q], dev'[key'[q].idx])
  <2>1. dev'[key[q].idx] = dev[key[q].idx] /\ key'[q] = key[q]
    BY <1>3, <1>4, OwnedFacts DEF Used
  <2>2. PatternIn(key, key[q], dev[key[q].idx])
    BY <1>4, KeysForm DEF PatternsSound
  <2>3. key[q].mkeys \in BlockKeys
    BY <1>4, <1>1, ObjectFacts DEF Live
  <2>4. \A r \in Key : key[r] # None => key'[r] = key[r]
    BY <1>3 DEF Live
  <2>5. PatternIn(key', key[q], dev[key[q].idx])
    BY <2>2, <2>3, <2>4, PatternStays, Zenon
  <2>6. QED
    BY <2>1, <2>5
<1>5. QED
  BY <1>2, <1>3, <1>4, Zenon

(* A reference among the key objects K, of which t tells what they descend *)
(* from.                                                                   *)
RefIn(K, t, q) ==
  /\ K[q] = None \/ K[q].kind # "ref" => t[q] = q
  /\ K[q] # None /\ K[q].kind = "ref" /\ t[q] # None =>
       /\ t[q] \in Key /\ K[t[q]] # None /\ K[t[q]].kind # "ref" /\ K[q].idx = K[t[q]].idx
       /\ ~Wraps(K[q]) => Inside(K[q], K[t[q]])

(* The invariant of references, reference by reference. *)
LEMMA RefsForm ==
  ASSUME TypeOK
  PROVE  RefsInv <=> \A q \in Key : RefIn(key, top, q)
  BY DEF TypeOK, RefsInv, RefIn, Live

(* It does not notice changes of other keys. *)
LEMMA RefStays ==
  ASSUME NEW K, NEW J, NEW t, NEW s, NEW q \in Key, RefIn(K, t, q), J[q] = K[q], s[q] = t[q],
         \A r \in Key : K[r] # None => J[r] = K[r]
  PROVE  RefIn(J, s, q)
  BY DEF RefIn

(* A refused call changes nothing. *)
LEMMA UnchangedKept ==
  ASSUME KeysInv, UNCHANGED vars
  PROVE  KeysInv'
<1>1. key' = key /\ dev' = dev /\ top' = top /\ lost' = lost /\ UNCHANGED <<ibv_pd, pd, badFree>>
  BY DEF vars
<1>2. OwnersAgree'
  BY <1>1 DEF KeysInv, OwnersAgree, TypeOK, Live
<1>3. RefsInv' /\ IdsInv'
  BY <1>1 DEF KeysInv, RefsInv, IdsInv, Live
<1>4. BlocksInv'
  BY <1>1 DEF KeysInv, BlocksInv, Live
<1>5. PatternsAgree'
  BY <1>1, Zenon DEF KeysInv, PatternsAgree, Live
<1>6. QED
  BY <1>2, <1>3, <1>4, <1>5 DEF KeysInv

(* Keys made over one another: a reference, ... *)
LEMMA NewRefKept ==
  ASSUME KeysInv, NEW k \in Key, NEW p \in Key, NEW a \in Addr, NEW n \in Length,
         create_ref_mkey(k, p, a, n)
  PROVE  KeysInv'
<1>1. CASE Refused
  BY <1>1, UnchangedKept DEF Refused
<1>2. CASE RefStatus(key[p], a, n) = "DPCP_OK"
  <2> DEFINE o == [kind |-> "ref", addr |-> a, len |-> n, idx |-> key[p].idx]
  <2>1. /\ TypeOK /\ ~badFree /\ RefsInv /\ IdsInv /\ PatternsSound
        /\ \A i : Used(i) <=> Taken(i)
        /\ \A q \in Key : Live(q) => OwnershipOf(q)
    BY KeysForm
  <2>2. key[p] \in KeyObject /\ key[p].idx \in KeyId /\ Live(p) /\ ~Live(k)
    BY <2>1, LiveFacts, ObjectFacts DEF create_ref_mkey
  <2>3. o \in KeyObject /\ o.kind = "ref" /\ Owned(o) = {}
    BY <2>2 DEF KeyObject, RefKey, Owned
  <2>4. /\ key' = [key EXCEPT ![k] = o] /\ top' = [top EXCEPT ![k] = top[p]]
        /\ UNCHANGED <<ibv_pd, pd, dev, lost, badFree>>
    BY <1>2, <2>2, GetterFacts DEF create_ref_mkey
  <2> HIDE DEF o
  <2>5. /\ key'[k] = o /\ Live(k)' /\ key' \in [Key -> KeyObject \cup {None}]
        /\ \A q \in Key : q # k => key'[q] = key[q] /\ (Live(q)' <=> Live(q))
        /\ \A q \in Key : Live(q) => q # k /\ Live(q)' /\ key'[q] = key[q]
        /\ \A q \in Key : Live(q) /\ key[q].kind = "pattern" =>
             PatternIn(key', key'[q], dev'[key'[q].idx])
    BY <2>2, <2>3, <2>4, OthersKept, Zenon
  <2>6. /\ top \in [Key -> Key \cup {None}] /\ top' \in [Key -> Key \cup {None}]
        /\ top'[k] = top[p] /\ \A q \in Key : q # k => top'[q] = top[q]
    BY <2>1, <2>4 DEF TypeOK
  <2>7. TypeOK'
    BY <2>1, <2>4, <2>5, <2>6 DEF TypeOK
  <2>8. (\A i : Used(i) <=> Taken(i))'
    BY <2>1, <2>3, <2>4, <2>5 DEF Used, Taken
  <2>9. (\A q \in Key : Live(q) => OwnershipOf(q))'
    BY <2>1, <2>3, <2>4, <2>5 DEF OwnershipOf
  <2>10. IdsInv'
    BY <2>1, <2>3, <2>5 DEF IdsInv
  <2>11. PatternsSound'
    BY <2>3, <2>5 DEF PatternsSound
  <2>12. RefIn(key', top', k)
    <3>1. RefIn(key, top, p)
      BY <2>1, RefsForm
    <3>2. a \in 0 .. Space - 1 /\ n \in 0 .. Space - 1 /\ Space \in Nat
      BY SizeAssumption DEF Addr, Length
    <3>3. ~Wraps(o) => Inside(o, key[p]) /\ ~Wraps(key[p])
      BY <1>2, <2>2, <3>2, RefInside DEF Wraps, Inside, o
    <3>4. SUFFICES ASSUME top[p] # None
                   PROVE  /\ top[p] \in Key /\ key'[top[p]] # None /\ key'[top[p]].kind # "ref"
                          /\ o.idx = key'[top[p]].idx
                          /\ ~Wraps(o) => Inside(o, key'[top[p]])
      BY <2>3, <2>5, <2>6, ObjectFacts DEF RefIn
    <3>5. /\ top[p] \in Key /\ key[top[p]] # None /\ key[top[p]].kind # "ref"
          /\ key[p].idx = key[top[p]].idx
          /\ ~Wraps(key[p]) => Inside(key[p], key[top[p]])
      <4>1. CASE key[p].kind = "ref"
        BY <2>2, <3>1, <3>4, <4>1 DEF RefIn, Live
      <4>2. CASE key[p].kind # "ref"
        <5>1. Inside(key[p], key[p])
          BY <2>2, ObjectFacts DEF Inside
        <5>2. QED
          BY <2>2, <3>1, <4>2, <5>1 DEF RefIn, Live
      <4>3. QED
        BY <4>1, <4>2
    <3>6. key'[top[p]] = key[top[p]] /\ o.idx = key[p].idx
      BY <2>5, <3>5 DEF Live, o
    <3>7. ~Wraps(o) => Inside(o, key[top[p]])
      <4>1. key[top[p]] \in KeyObject
        BY <2>1, <3>5, LiveFacts DEF Live
      <4>2. /\ o.addr \in Int /\ o.len \in Int /\ key[p].addr \in Int /\ key[p].len \in Int
            /\ key[top[p]].addr \in Int /\ key[top[p]].len \in Int
        BY <2>2, <2>3, <4>1, ObjectFacts
      <4>3. QED
        BY <3>3, <3>5, <4>2 DEF Inside
    <3>8. QED
      BY <3>5, <3>6, <3>7
  <2>13. ASSUME NEW q \in Key, q # k PROVE RefIn(key', top', q)
    <3>1. RefIn(key, top, q)
      BY <2>1, RefsForm
    <3>2. \A r \in Key : key[r] # None => key'[r] = key[r]
      BY <2>5 DEF Live
    <3>3. QED
      BY <2>5, <2>6, <2>13, <3>1, <3>2, RefStays
  <2>14. RefsInv'
    <3>1. \A q \in Key : RefIn(key', top', q)
      BY <2>12, <2>13
    <3>2. QED
      BY <2>7, <3>1 DEF TypeOK, RefsInv, RefIn, Live, Wraps, Inside
  <2>15. QED
    BY <2>1, <2>4, <2>7, <2>8, <2>9, <2>10, <2>11, <2>14, NextForm
<1>3. QED
  BY <1>1, <1>2 DEF create_ref_mkey

(* ... a key of its own, whether the device has one for it or not, ... *)
LEMMA NewKept ==
  ASSUME KeysInv, NEW k \in Key, ~Live(k), NEW o \in KeyObject, o.kind # "ref", New(k, o),
         dev' \in [Id -> Registration \cup Indirect \cup Lost \cup {None}],
         \A i \in Id : IF i \in Owned(o) THEN dev[i] = None /\ dev'[i] # None ELSE dev'[i] = dev[i],
         Owned(o) \subseteq Id,
         o.kind \in {"direct", "pattern", "crypto"} => o.idx \in Id,
         o.kind = "direct" => /\ o.ibv_mem
                              /\ dev'[o.idx] = [kind |-> "direct", addr |-> o.addr, len |-> o.len],
         o.kind = "pattern" => PatternIn(key, o, dev'[o.idx])
  PROVE  KeysInv'
<1>1. /\ TypeOK /\ ~badFree /\ RefsInv /\ IdsInv /\ PatternsSound
      /\ \A i : Used(i) <=> Taken(i)
      /\ \A q \in Key : Live(q) => OwnershipOf(q)
  BY KeysForm
<1>2. /\ key' = [key EXCEPT ![k] = o] /\ top' = [top EXCEPT ![k] = k]
      /\ UNCHANGED <<ibv_pd, pd, lost, badFree>>
  BY DEF New
<1>3. \A i \in Id : dev[i] # None => i \notin Owned(o) /\ dev'[i] = dev[i]
  OBVIOUS
<1>4. /\ key'[k] = o /\ Live(k)' /\ key' \in [Key -> KeyObject \cup {None}]
      /\ \A q \in Key : q # k => key'[q] = key[q] /\ (Live(q)' <=> Live(q))
      /\ \A q \in Key : Live(q) => q # k /\ Live(q)' /\ key'[q] = key[q]
      /\ \A q \in Key : Live(q) /\ key[q].kind = "pattern" =>
           PatternIn(key', key'[q], dev'[key'[q].idx])
  BY <1>2, <1>3, OthersKept, Zenon
<1>5. /\ top' \in [Key -> Key \cup {None}] /\ top'[k] = k
      /\ \A q \in Key : q # k => top'[q] = top[q]
  BY <1>1, <1>2 DEF TypeOK
<1>6. TypeOK'
  BY <1>1, <1>2, <1>4, <1>5 DEF TypeOK
<1>7. \A q \in Key : Live(q) => Owned(key[q]) \cap Owned(o) = {}
  <2>1. ASSUME NEW q \in Key, Live(q), NEW i \in Owned(key[q]) PROVE i \notin Owned(o)
    <3>1. Used(i)
      BY <1>1, <2>1 DEF Taken
    <3>2. QED
      BY <1>3, <3>1 DEF Used
  <2>2. QED
    BY <2>1
<1>8. (\A i : Used(i) <=> Taken(i))'
  <2>1. ASSUME NEW i PROVE (Used(i) <=> Taken(i))'
    <3>1. CASE i \in Owned(o)
      BY <1>4, <3>1 DEF Used, Taken
    <3>2. CASE i \notin Owned(o)
      <4>1. Used(i)' <=> Used(i)
        BY <3>2 DEF Used
      <4>2. Taken(i)' <=> Taken(i)
        BY <1>2, <1>4, <3>2 DEF Taken
      <4>3. QED
        BY <1>1, <4>1, <4>2
    <3>3. QED
      BY <3>1, <3>2
  <2>2. QED
    BY <2>1
<1>9. \A i \in Owned(o) : i \notin lost
  BY <1>1 DEF Taken, Used
<1>10. ASSUME NEW q \in Key, Live(q)' PROVE OwnershipOf(q)'
  <2>1. CASE q = k
    BY <1>2, <1>4, <1>7, <1>9, <2>1 DEF OwnershipOf
  <2>2. CASE q # k
    <3>1. Live(q) /\ key'[q] = key[q] /\ OwnershipOf(q)
      BY <1>1, <1>4, <1>10, <2>2
    <3>2. \A r \in Key : Live(r)' /\ Owned(key'[q]) \cap Owned(key'[r]) # {} => r = q
      BY <1>4, <1>7, <3>1 DEF OwnershipOf
    <3>3. key[q].kind = "direct" => dev'[key[q].idx] = dev[key[q].idx]
      BY <1>3, <3>1, OwnedFacts DEF Used
    <3>4. QED
      BY <1>2, <3>1, <3>2, <3>3 DEF OwnershipOf
  <2>3. QED
    BY <2>1, <2>2
<1>11. IdsInv'
  BY <1>1, <1>4 DEF IdsInv
<1>12. \A r \in Key : key[r] # None => key'[r] = key[r]
  BY <1>4 DEF Live
<1>13. PatternsSound'
  <2>1. o.kind = "pattern" => PatternIn(key', key'[k], dev'[key'[k].idx])
    BY <1>4, <1>12, PatternStays, ObjectFacts
  <2>2. QED
    BY <1>4, <2>1 DEF PatternsSound
<1>14. RefsInv'
  <2>1. ASSUME NEW q \in Key, q # k PROVE RefIn(key', top', q)
    <3>1. RefIn(key, top, q)
      BY <1>1, RefsForm
    <3>2. key'[q] = key[q] /\ top'[q] = top[q]
      BY <1>4, <1>5, <2>1
    <3>3. QED
      BY <1>12, <3>1, <3>2, RefStays, Zenon
  <2>2. RefIn(key', top', k)
    BY <1>4, <1>5 DEF RefIn
  <2>3. \A q \in Key : RefIn(key', top', q)
    BY <2>1, <2>2, Zenon
  <2>4. QED
    BY <1>6, <2>3 DEF TypeOK, RefsInv, RefIn, Live, Wraps, Inside
<1>15. QED
  BY <1>1, <1>2, <1>6, <1>8, <1>10, <1>11, <1>13, <1>14, NextForm

(* An identifier of the device that a new key takes. *)
LEMMA FreeFacts ==
  ASSUME TypeOK, NEW i \in Free, NEW d \in Registration \cup Indirect,
         dev' = [dev EXCEPT ![i] = d]
  PROVE  /\ i \in Id /\ dev[i] = None /\ dev'[i] = d /\ d # None
         /\ \A j \in Id : j # i => dev'[j] = dev[j]
         /\ dev' \in [Id -> Registration \cup Indirect \cup Lost \cup {None}]
<1>1. i \in Id /\ dev[i] = None /\ d # None
  BY NoneAssumption DEF Free
<1>2. QED
  BY <1>1 DEF TypeOK

(* ... a direct key: its registration may fail or take any free identifier, ... *)
LEMMA DirectKept ==
  ASSUME KeysInv, NEW k \in Key, NEW a \in Addr, NEW n \in Length, create_direct_mkey(k, a, n)
  PROVE  KeysInv'
<1>1. PICK r \in RegMem(a, n) :
        IF r.ret # "DPCP_OK"
        THEN Refused
        ELSE /\ New(k, [kind |-> "direct", addr |-> a, len |-> n, idx |-> r.idx, ibv_mem |-> TRUE])
             /\ dev' = [dev EXCEPT ![r.idx] = [kind |-> "direct", addr |-> a, len |-> n]]
  BY Zenon DEF create_direct_mkey
<1>2. CASE r.ret # "DPCP_OK"
  BY <1>1, <1>2, UnchangedKept DEF Refused
<1>3. CASE r.ret = "DPCP_OK"
  <2> DEFINE i == r.idx
             o == [kind |-> "direct", addr |-> a, len |-> n, idx |-> i, ibv_mem |-> TRUE]
             d == [kind |-> "direct", addr |-> a, len |-> n]
  <2>1. i \in Free
    BY <1>1, <1>3 DEF RegMem
  <2> HIDE DEF i
  <2>2. o \in KeyObject /\ d \in Registration
    BY <2>1 DEF KeyObject, DirectKey, Registration, KeyId, Free
  <2>3. New(k, o) /\ dev' = [dev EXCEPT ![i] = d] /\ ~Live(k) /\ TypeOK
    BY <1>1, <1>3, KeysForm DEF i, create_direct_mkey
  <2>4. /\ i \in Id /\ dev[i] = None /\ dev'[i] = d /\ d # None
        /\ \A j \in Id : j # i => dev'[j] = dev[j]
        /\ dev' \in [Id -> Registration \cup Indirect \cup Lost \cup {None}]
    <3> HIDE DEF d
    <3>1. QED
      BY <2>1, <2>2, <2>3, FreeFacts, Zenon
  <2>5. /\ Owned(o) = {i} /\ o.kind = "direct" /\ o.ibv_mem /\ o.idx = i
        /\ d = [kind |-> "direct", addr |-> o.addr, len |-> o.len]
    BY <2>4, SizeAssumption DEF Owned
  <2> HIDE DEF o, d
  <2>6. QED
    BY <2>2, <2>3, <2>4, <2>5, NewKept
<1>4. QED
  BY <1>2, <1>3

(* ... an external key, whose identifier comes from its user, ... *)
LEMMA ExternKept ==
  ASSUME KeysInv, NEW k \in Key, NEW a \in Addr, NEW n \in Length, NEW i \in Id \cup {NoId},
         create_extern_mkey(k, a, n, i)
  PROVE  KeysInv'
<1> DEFINE o == [kind |-> "extern", addr |-> a, len |-> n, idx |-> i]
<1>1. o \in KeyObject /\ o.kind = "extern" /\ Owned(o) = {}
  BY DEF KeyObject, ExternKey, KeyId, Owned
<1>2. New(k, o) /\ UNCHANGED dev /\ ~Live(k)
  BY DEF create_extern_mkey
<1>3. dev' \in [Id -> Registration \cup Indirect \cup Lost \cup {None}]
  BY <1>2, KeysForm DEF TypeOK
<1> HIDE DEF o
<1>4. QED
  BY <1>1, <1>2, <1>3, NewKept, Zenon

(* ... a reserved key, whose length is cut to 32 bits, ... *)
LEMMA ReservedKept ==
  ASSUME KeysInv, NEW k \in Key, NEW a \in Addr, NEW n \in Length, NEW type,
         create_reserved_mkey(k, type, a, n)
  PROVE  KeysInv'
<1> DEFINE o == [kind |-> "reserved", addr |-> a, len |-> U32(n), idx |-> ReservedId]
<1>1. U32(n) \in 0 .. Word - 1
  BY SizeAssumption DEF U32, Length
<1>2. o \in KeyObject /\ o.kind = "reserved" /\ Owned(o) = {}
  BY <1>1 DEF KeyObject, ReservedKey, KeyId, Owned
<1>3. CASE Refused
  BY <1>3, UnchangedKept DEF Refused
<1>4. CASE New(k, o) /\ UNCHANGED dev
  <2>1. dev' \in [Id -> Registration \cup Indirect \cup Lost \cup {None}] /\ ~Live(k)
    BY <1>4, KeysForm DEF TypeOK, create_reserved_mkey
  <2> HIDE DEF o
  <2>2. QED
    BY <1>2, <1>4, <2>1, NewKept, Zenon
<1>5. QED
  BY <1>3, <1>4 DEF create_reserved_mkey

(* ... a crypto key ... *)
LEMMA CryptoKept ==
  ASSUME KeysInv, NEW k \in Key, NEW sge, create_crypto_mkey(k, sge)
  PROVE  KeysInv'
<1> DEFINE d == [kind |-> "crypto", stride_sz |-> 0, repeat |-> 0, entries |-> <<>>]
<1>1. CASE Refused
  BY <1>1, UnchangedKept DEF Refused
<1>2. ASSUME NEW i \in Free, New(k, [kind |-> "crypto", addr |-> 0, len |-> 0, idx |-> i]),
             dev' = [dev EXCEPT ![i] = d]
      PROVE  KeysInv'
  <2> DEFINE o == [kind |-> "crypto", addr |-> 0, len |-> 0, idx |-> i]
  <2>1. o \in KeyObject
    BY <1>2 DEF KeyObject, CryptoKey, KeyId, Free
  <2>2. d \in Indirect
    <3>1. 0 \in 0 .. Word - 1 /\ 0 \in 0 .. MaxBlocks
      BY SizeAssumption
    <3>2. <<>> \in [1 .. 0 -> Entry]
      OBVIOUS
    <3>3. QED
      BY <3>1, <3>2 DEF Indirect
  <2>3. New(k, o) /\ ~Live(k) /\ TypeOK
    BY <1>2, KeysForm DEF create_crypto_mkey
  <2>4. /\ i \in Id /\ dev[i] = None /\ dev'[i] = d /\ d # None
        /\ \A j \in Id : j # i => dev'[j] = dev[j]
        /\ dev' \in [Id -> Registration \cup Indirect \cup Lost \cup {None}]
    <3> HIDE DEF d
    <3>1. QED
      BY <1>2, <2>2, <2>3, FreeFacts, Zenon
  <2>5. Owned(o) = {i} /\ o.kind = "crypto" /\ o.idx = i
    BY <2>4, SizeAssumption DEF Owned
  <2> HIDE DEF o, d
  <2>6. QED
    BY <2>1, <2>3, <2>4, <2>5, NewKept, Zenon
<1>3. QED
  BY <1>1, <1>2, Zenon DEF create_crypto_mkey

(* ... and a pattern over live keys, whose lengths add up. *)
LEMMA StrideFacts ==
  ASSUME NEW m \in Nat, NEW f \in [1 .. m -> 0 .. Space - 1]
  PROVE  /\ U64(Total(f)) \in 0 .. Space - 1
         /\ U16(U32(U64(Total(f)))) = U16(Total([i \in 1 .. m |-> U16(f[i])]))
<1>1. Space \in Nat \ {0} /\ Word \in Nat \ {0} /\ Half \in Nat \ {0} /\ Word <= Space
  BY SizeAssumption
<1> DEFINE e == [i \in 1 .. m |-> U16(f[i])]
<1>2. f \in [1 .. m -> Nat] /\ e \in [1 .. m -> Nat] /\ \A i \in 1 .. m : e[i] = f[i] % Half
  <2>1. \A i \in 1 .. m : f[i] \in Nat /\ f[i] % Half \in Nat
    BY <1>1
  <2>2. QED
    BY <2>1 DEF U16
<1> HIDE DEF e
<1>3. Total(f) \in Nat /\ Total(f) % Half = Total(e) % Half
  BY <1>1, <1>2, TotalMod, Zenon
<1> DEFINE t == Total(f)
<1> HIDE DEF t
<1>4. t \in Nat /\ t % Half = Total(e) % Half
  BY <1>3 DEF t
<1>5. t \in Int /\ Space % Word = 0 /\ Word % Half = 0
  BY <1>4, SizeAssumption
<1>6. (t % Space) % Word = t % Word
  BY <1>1, <1>5, ModOfMod, Zenon
<1>7. (t % Word) % Half = t % Half
  BY <1>1, <1>5, ModOfMod, Zenon
<1>8. t % Space \in 0 .. Space - 1
  BY <1>1, <1>4
<1>9. QED
  BY <1>4, <1>6, <1>7, <1>8 DEF t, e, U64, U32, U16

(* A pattern: its blocks are live keys and its stride is their sum. *)
LEMMA PatternKept ==
  ASSUME KeysInv, NEW k \in Key, NEW a \in Addr, NEW num \in Length,
         NEW blocks \in BlockLists(MaxBlocks), create_pattern_mkey(k, a, num, blocks)
  PROVE  KeysInv'
<1> DEFINE d == [kind |-> "pattern", stride_sz |-> U32(StrideSize(blocks)), repeat |-> U32(num),
                 entries |-> Entries(blocks)]
           obj(i) == [kind |-> "pattern", addr |-> a, len |-> U64(StrideSize(blocks) * num),
                      idx |-> i, mkeys |-> [b \in DOMAIN blocks |-> blocks[b].key]]
<1>1. CASE Refused
  BY <1>1, UnchangedKept DEF Refused
<1>2. ASSUME NEW i \in Free, New(k, obj(i)), dev' = [dev EXCEPT ![i] = d]
      PROVE  KeysInv'
  <2>1. PICK m \in 0 .. MaxBlocks :
          blocks \in [1 .. m -> {[key |-> p, stride |-> b.stride, len |-> b.len] :
                                   p \in {q \in Key : Live(q)}, b \in Block}]
    BY DEF BlockLists
  <2>2. \A j \in 1 .. m : /\ blocks[j].key \in Key /\ Live(blocks[j].key)
                          /\ blocks[j].len \in 0 .. Space - 1 /\ blocks[j].stride \in 0 .. Space - 1
    <3>1. TAKE j \in 1 .. m
    <3>2. PICK p \in {q \in Key : Live(q)}, b \in Block :
            blocks[j] = [key |-> p, stride |-> b.stride, len |-> b.len]
      BY <2>1
    <3>3. b.stride \in 0 .. Space - 1 /\ b.len \in 0 .. Space - 1
      BY SizeAssumption
    <3>4. QED
      BY <3>2, <3>3
  <2>3. /\ DOMAIN blocks = 1 .. m /\ m \in Nat
        /\ Space \in Nat \ {0} /\ Word \in Nat \ {0} /\ Half \in Nat \ {0}
    BY <2>1, SizeAssumption
  <2> DEFINE f == [j \in 1 .. m |-> blocks[j].len]
  <2>4. f \in [1 .. m -> 0 .. Space - 1] /\ StrideSize(blocks) = U64(Total(f))
    BY <2>2, <2>3 DEF StrideSize
  <2> DEFINE s == StrideSize(blocks)
  <2>5. /\ s \in 0 .. Space - 1
        /\ U16(U32(s)) = U16(Total([j \in 1 .. m |-> U16(f[j])]))
    <3> HIDE DEF f
    <3>1. QED
      BY <2>3, <2>4, StrideFacts
  <2> HIDE DEF s
  <2>6. U64(s * num) \in 0 .. Space - 1 /\ U32(s) \in 0 .. Word - 1 /\ U32(num) \in 0 .. Word - 1
    <3>1. s \in Nat /\ num \in Nat
      BY <2>5, SizeAssumption DEF Length
    <3>2. s * num \in Nat
      BY <3>1
    <3>3. QED
      BY <2>3, <3>1, <3>2 DEF U64, U32
  <2>7. ASSUME NEW j \in 1 .. m
        PROVE  /\ Entries(blocks)[j] \in Entry
               /\ Entries(blocks)[j].memkey = key[blocks[j].key].idx
               /\ Entries(blocks)[j].va = key[blocks[j].key].addr
               /\ Entries(blocks)[j].byte_count = U16(blocks[j].len)
    <3> DEFINE q == key[blocks[j].key]
    <3>1. q \in KeyObject
      BY <2>2, KeysForm, LiveFacts
    <3>2. q.idx \in KeyId /\ q.addr \in Addr \cup {0}
      BY <3>1, ObjectFacts DEF KeyObject, DirectKey, PatternKey, ReservedKey, RefKey, ExternKey,
         CryptoKey
    <3>3. get_id(q).val = q.idx /\ get_address(q).val = q.addr
      BY <3>1, GetterFacts
    <3>4. U16(blocks[j].len) \in 0 .. Half - 1 /\ U16(blocks[j].stride) \in 0 .. Half - 1
      BY <2>2, <2>3 DEF U16
    <3>5. Entries(blocks)[j] = [memkey |-> q.idx, va |-> q.addr, byte_count |-> U16(blocks[j].len),
                                stride |-> U16(blocks[j].stride)]
      BY <2>3, <3>3 DEF Entries
    <3> HIDE DEF q
    <3>6. Entries(blocks)[j] \in Entry
      BY <3>2, <3>4, <3>5 DEF Entry
    <3>7. /\ Entries(blocks)[j].memkey = q.idx /\ Entries(blocks)[j].va = q.addr
          /\ Entries(blocks)[j].byte_count = U16(blocks[j].len)
      BY <3>5
    <3>8. QED
      BY <3>6, <3>7, Zenon DEF q
  <2>8. Entries(blocks) \in [1 .. m -> Entry] /\ DOMAIN Entries(blocks) = 1 .. m
    BY <2>3, <2>7, Zenon DEF Entries
  <2>9. d \in Indirect
    BY <2>1, <2>6, <2>8, Zenon DEF Indirect, s
  <2> DEFINE o == obj(i)
             mk == [b \in 1 .. m |-> blocks[b].key]
  <2>10. mk \in [1 .. m -> Key \cup {None}] /\ o.mkeys = mk
    BY <2>2, <2>3, Zenon
  <2>11. o \in KeyObject
    <3>1. o \in PatternKey
      BY <1>2, <2>1, <2>3, <2>6, <2>10 DEF PatternKey, KeyId, Free, s
    <3>2. QED
      BY <3>1 DEF KeyObject
  <2>12. PatternIn(key, o, d)
    <3>1. d.entries = Entries(blocks) /\ d.stride_sz = U32(s)
      BY DEF s
    <3>2. U16(U32(s)) = U16(Total([j \in DOMAIN d.entries |-> d.entries[j].byte_count]))
      <4>1. [j \in DOMAIN Entries(blocks) |-> Entries(blocks)[j].byte_count]
              = [j \in 1 .. m |-> U16(f[j])]
        BY <2>7, <2>8
      <4>2. QED
        BY <2>5, <3>1, <4>1, Zenon
    <3> HIDE DEF d, o
    <3>3. QED
      BY <2>2, <2>7, <2>8, <2>9, <2>10, <3>1, <3>2, Zenon DEF PatternIn, Live
  <2>13. New(k, o) /\ ~Live(k) /\ TypeOK
    BY <1>2, KeysForm, Zenon DEF create_pattern_mkey
  <2>14. /\ i \in Id /\ dev[i] = None /\ dev'[i] = d /\ d # None
         /\ \A j \in Id : j # i => dev'[j] = dev[j]
         /\ dev' \in [Id -> Registration \cup Indirect \cup Lost \cup {None}]
    <3> HIDE DEF d
    <3>1. QED
      BY <1>2, <2>9, <2>13, FreeFacts, Zenon
  <2>15. Owned(o) = {i} /\ o.kind = "pattern" /\ o.idx = i
    <3>1. o.kind = "pattern" /\ o.idx = i
      BY Zenon
    <3> HIDE DEF o, d
    <3>2. i # NoId
      BY <2>14, NoIdApart, Zenon
    <3>3. QED
      BY <3>1, <3>2, Zenon DEF Owned
  <2> HIDE DEF o, d
  <2>16. QED
    BY <2>11, <2>12, <2>13, <2>14, <2>15, NewKept, Zenon
<1>3. QED
  BY <1>1, <1>2, Zenon DEF create_pattern_mkey

(* A deleted key: what is left of another one that may have pointed to it. *)
LEMMA ForgetFacts ==
  ASSUME NEW o \in KeyObject, NEW k \in Key
  PROVE  /\ Forget(o, k) \in KeyObject
         /\ Forget(o, k).kind = o.kind /\ Forget(o, k).addr = o.addr
         /\ Forget(o, k).len = o.len /\ Forget(o, k).idx = o.idx
         /\ Owned(Forget(o, k)) = Owned(o)
         /\ o.kind # "pattern" => Forget(o, k) = o
         /\ o.kind = "pattern" =>
              /\ DOMAIN Forget(o, k).mkeys = DOMAIN o.mkeys
              /\ \A i \in DOMAIN o.mkeys :
                   Forget(o, k).mkeys[i] = IF o.mkeys[i] = k THEN None ELSE o.mkeys[i]
<1>1. o # None
  BY ObjectFacts
<1>2. CASE o.kind # "pattern"
  BY <1>2 DEF Forget
<1>3. CASE o.kind = "pattern"
  <2>1. o \in PatternKey
    BY <1>3 DEF KeyObject, DirectKey, ReservedKey, RefKey, ExternKey, CryptoKey
  <2>2. PICK n \in 0 .. MaxBlocks : o.mkeys \in [1 .. n -> Key \cup {None}]
    BY <2>1 DEF PatternKey
  <2> DEFINE m == [i \in DOMAIN o.mkeys |-> IF o.mkeys[i] = k THEN None ELSE o.mkeys[i]]
             p == [o EXCEPT !.mkeys = m]
  <2>3. m \in [1 .. n -> Key \cup {None}] /\ DOMAIN m = DOMAIN o.mkeys
    BY <2>2
  <2>4. Forget(o, k) = p
    BY <1>1, <1>3 DEF Forget
  <2>5. \A i \in DOMAIN o.mkeys : m[i] = IF o.mkeys[i] = k THEN None ELSE o.mkeys[i]
    OBVIOUS
  <2> HIDE DEF m
  <2>6. /\ p \in PatternKey /\ p.mkeys = m
        /\ p.kind = o.kind /\ p.addr = o.addr /\ p.len = o.len /\ p.idx = o.idx
    BY <2>1, <2>2, <2>3 DEF PatternKey
  <2> HIDE DEF p
  <2>7. p \in KeyObject /\ Owned(p) = Owned(o)
    BY <2>6 DEF KeyObject, Owned
  <2>8. QED
    BY <1>3, <2>3, <2>4, <2>5, <2>6, <2>7
<1>4. QED
  BY <1>2, <1>3

(* A key deleted: what referred to it forgets it, what it owned is released. *)
LEMMA DeleteKept ==
  ASSUME KeysInv, NEW k \in Key, delete_mkey(k)
  PROVE  KeysInv'
<1>1. /\ TypeOK /\ ~badFree /\ RefsInv /\ IdsInv /\ PatternsSound
      /\ \A i : Used(i) <=> Taken(i)
      /\ \A q \in Key : Live(q) => OwnershipOf(q)
  BY KeysForm
<1> DEFINE D == Owned(key[k])
<1>2. Live(k) /\ key[k] \in KeyObject /\ D \subseteq Id /\ \A i \in D : dev[i] # None /\ i \notin lost
  <2>1. Live(k) /\ key[k] \in KeyObject
    BY <1>1, LiveFacts DEF delete_mkey
  <2>2. \A i \in D : Used(i)
    BY <1>1, <2>1 DEF Taken
  <2>3. \A i \in D : i \notin lost
    BY <1>1, <2>1, Zenon DEF OwnershipOf
  <2>4. QED
    BY <2>1, <2>2, <2>3 DEF Used
<1>3. /\ key'[k] = None
      /\ \A q \in Key : q # k => key'[q] = Forget(key[q], k)
  BY DEF delete_mkey
<1>4. \A q \in Key : q # k => (key'[q] # None <=> key[q] # None)
  <2>1. ASSUME NEW q \in Key, q # k, key[q] = None PROVE key'[q] = None
    BY <1>3, <2>1, Zenon DEF Forget
  <2>2. ASSUME NEW q \in Key, q # k, key[q] # None PROVE key'[q] # None
    BY <1>1, <1>3, <2>2, LiveFacts, ForgetFacts, ObjectFacts DEF Live
  <2>3. QED
    BY <2>1, <2>2
<1>5. ASSUME NEW q \in Key, q # k, key[q] # None
      PROVE  /\ key[q] \in KeyObject /\ key'[q] \in KeyObject
             /\ key'[q].kind = key[q].kind /\ key'[q].addr = key[q].addr
             /\ key'[q].len = key[q].len /\ key'[q].idx = key[q].idx
             /\ Owned(key'[q]) = Owned(key[q]) /\ Owned(key[q]) \cap D = {}
             /\ key[q].kind # "pattern" => key'[q] = key[q]
  <2>1. key[q] \in KeyObject
    BY <1>1, <1>5, LiveFacts DEF Live
  <2>2. Owned(key[q]) \cap D = {}
    BY <1>1, <1>2, <1>5, Zenon DEF OwnershipOf, Live
  <2>3. QED
    BY <1>3, <1>5, <2>1, <2>2, ForgetFacts
<1>6. /\ \A i \in Id \ D : dev'[i] = dev[i]
      /\ \/ lost' = lost /\ \A i \in D : dev'[i] = None
         \/ lost' = lost \cup D /\ \A i \in D : dev'[i] = [kind |-> "lost"]
      /\ badFree' = FALSE /\ UNCHANGED <<ibv_pd, pd>>
  <2>1. badFree = FALSE
    BY <1>1 DEF TypeOK
  <2>2. CASE /\ dev' = [i \in Id |-> IF i \in D THEN None ELSE dev[i]]
             /\ badFree' = (badFree \/ \E i \in D : dev[i] = None) /\ UNCHANGED lost
    <3>1. badFree' = FALSE
      BY <1>2, <2>1, <2>2, Zenon
    <3>2. QED
      BY <1>2, <2>2, <3>1 DEF delete_mkey
  <2>3. CASE /\ lost' = lost \cup D /\ UNCHANGED badFree
             /\ dev' = [i \in Id |-> IF i \in D THEN [kind |-> "lost"] ELSE dev[i]]
    BY <1>2, <2>1, <2>3 DEF delete_mkey
  <2>4. QED
    BY <2>2, <2>3, Zenon DEF delete_mkey
<1>7. dev' \in [Id -> Registration \cup Indirect \cup Lost \cup {None}]
  BY <1>1, <1>2 DEF delete_mkey, TypeOK, Lost
<1>8. /\ top'[k] = k /\ top' \in [Key -> Key \cup {None}]
      /\ \A q \in Key : q # k => top'[q] = IF top[q] = k THEN None ELSE top[q]
  BY <1>1 DEF delete_mkey, TypeOK
<1>9. TypeOK'
  <2>1. key' \in [Key -> KeyObject \cup {None}]
    <3>1. \A q \in Key : key'[q] \in KeyObject \cup {None}
      BY <1>3, <1>4, <1>5
    <3>2. QED
      BY <3>1 DEF delete_mkey
  <2>2. badFree' \in BOOLEAN /\ lost' \subseteq Id
    BY <1>1, <1>2, <1>6, Zenon DEF TypeOK
  <2>3. QED
    BY <1>1, <1>6, <1>7, <1>8, <2>1, <2>2 DEF TypeOK
<1>10. ASSUME NEW i PROVE (Used(i) <=> Taken(i))'
  <2>1. CASE i \in D
    <3>1. [kind |-> "lost"] # None
      BY NoneAssumption DEF Lost
    <3>2. \A q \in Key : ~(Live(q)' /\ i \in Owned(key'[q]))
      BY <1>3, <1>4, <1>5, <2>1 DEF Live
    <3>3. QED
      BY <1>2, <1>6, <2>1, <3>1, <3>2, Zenon DEF Used, Taken
  <2>2. CASE i \notin D
    <3>1. Used(i)' <=> Used(i)
      BY <1>6, <2>2 DEF Used
    <3>2. Taken(i)' <=> Taken(i)
      BY <1>3, <1>4, <1>5, <1>6, <2>2 DEF Taken, Live
    <3>3. QED
      BY <1>1, <3>1, <3>2
  <2>3. QED
    BY <2>1, <2>2
<1>11. ASSUME NEW q \in Key, Live(q)' PROVE OwnershipOf(q)'
  <2>1. q # k /\ key[q] # None /\ OwnershipOf(q)
    BY <1>1, <1>3, <1>4, <1>11 DEF Live
  <2>2. Owned(key'[q]) \cap lost' = {}
    BY <1>5, <1>6, <2>1, Zenon DEF OwnershipOf
  <2>3. \A r \in Key : Live(r)' /\ Owned(key'[q]) \cap Owned(key'[r]) # {} => r = q
    BY <1>3, <1>4, <1>5, <2>1, Zenon DEF OwnershipOf, Live
  <2>4. key'[q].kind = "direct" => key'[q] = key[q] /\ dev'[key[q].idx] = dev[key[q].idx]
    <3>1. SUFFICES ASSUME key[q].kind = "direct" PROVE key'[q] = key[q] /\ dev'[key[q].idx] = dev[key[q].idx]
      BY <1>5, <2>1, Zenon
    <3>2. key[q].idx \in Id /\ key[q].idx \in Owned(key[q])
      BY <2>1, <3>1, OwnedFacts DEF Live
    <3>3. QED
      BY <1>5, <1>6, <2>1, <3>1, <3>2, Zenon
  <2>5. QED
    BY <2>1, <2>2, <2>3, <2>4, Zenon DEF OwnershipOf
<1>12. IdsInv'
  BY <1>1, <1>3, <1>4, <1>5 DEF IdsInv, Live
<1>13. ASSUME NEW q \in Key PROVE RefIn(key', top', q)
  <2>1. RefIn(key, top, q) /\ top[q] \in Key \cup {None}
    BY <1>1, RefsForm DEF TypeOK
  <2>2. CASE q = k
    BY <1>3, <1>8, <2>2 DEF RefIn
  <2>3. CASE q # k /\ (key[q] = None \/ key[q].kind # "ref")
    BY <1>4, <1>5, <1>8, <2>1, <2>3, Zenon DEF RefIn
  <2>4. CASE q # k /\ key[q] # None /\ key[q].kind = "ref"
    <3>1. key'[q] = key[q]
      BY <1>5, <2>4
    <3>2. CASE top[q] \in {k, None}
      BY <1>8, <2>4, <3>1, <3>2 DEF RefIn
    <3>3. CASE top[q] \notin {k, None}
      <4>1. /\ top'[q] = top[q] /\ top[q] \in Key /\ key[top[q]] # None
            /\ key[top[q]].kind # "ref" /\ key[q].idx = key[top[q]].idx
            /\ ~Wraps(key[q]) => Inside(key[q], key[top[q]])
        BY <1>8, <2>1, <2>4, <3>3 DEF RefIn
      <4>2. /\ key'[top[q]] # None /\ key'[top[q]].kind = key[top[q]].kind
            /\ key'[top[q]].addr = key[top[q]].addr /\ key'[top[q]].len = key[top[q]].len
            /\ key'[top[q]].idx = key[top[q]].idx
        BY <1>4, <1>5, <3>3, <4>1
      <4>3. QED
        BY <2>4, <3>1, <4>1, <4>2 DEF RefIn, Inside
    <3>4. QED
      BY <3>2, <3>3
  <2>5. QED
    BY <2>2, <2>3, <2>4
<1>14. RefsInv'
  BY <1>9, <1>13 DEF TypeOK, RefsInv, RefIn, Live, Wraps, Inside
<1>15. ASSUME NEW q \in Key, Live(q)', key'[q].kind = "pattern"
       PROVE  PatternIn(key', key'[q], dev'[key'[q].idx])
  <2>1. q # k /\ key[q] # None /\ key[q] \in KeyObject
    BY <1>3, <1>4, <1>5, <1>15 DEF Live
  <2>2. key[q].kind = "pattern" /\ key'[q].idx = key[q].idx
    BY <1>5, <1>15, <2>1
  <2>3. dev'[key'[q].idx] = dev[key[q].idx]
    BY <1>5, <1>6, <2>1, <2>2, OwnedFacts DEF Live
  <2> DEFINE d == dev[key[q].idx]
             m == key[q].mkeys
  <2>4. PatternIn(key, key[q], d)
    BY <1>1, <2>1, <2>2, Zenon DEF PatternsSound, Live
  <2>5. /\ DOMAIN key'[q].mkeys = DOMAIN m
        /\ \A i \in DOMAIN m : key'[q].mkeys[i] = IF m[i] = k THEN None ELSE m[i]
    BY <1>3, <2>1, <2>2, ForgetFacts
  <2>6. m \in BlockKeys
    BY <2>1, <2>2, ObjectFacts
  <2> HIDE DEF d
  <2>7. ASSUME NEW i \in DOMAIN m, key'[q].mkeys[i] # None
        PROVE  /\ key'[q].mkeys[i] = m[i] /\ key'[m[i]] # None
               /\ d.entries[i].memkey = key'[m[i]].idx /\ d.entries[i].va = key'[m[i]].addr
    <3>1. m[i] # k /\ m[i] # None /\ key'[q].mkeys[i] = m[i]
      BY <2>5, <2>7
    <3>2. m[i] \in Key
      BY <2>6, <3>1 DEF BlockKeys
    <3>3. /\ key[m[i]] # None
          /\ d.entries[i].memkey = key[m[i]].idx /\ d.entries[i].va = key[m[i]].addr
      BY <2>4, <3>1 DEF PatternIn
    <3>4. key'[m[i]] # None /\ key'[m[i]].idx = key[m[i]].idx /\ key'[m[i]].addr = key[m[i]].addr
      BY <1>4, <1>5, <3>1, <3>2, <3>3
    <3>5. QED
      BY <3>1, <3>3, <3>4
  <2>8. PatternIn(key', key'[q], d)
    BY <2>4, <2>5, <2>7 DEF PatternIn
  <2>9. QED
    BY <2>3, <2>8 DEF d
<1>16. PatternsSound'
  BY <1>15 DEF PatternsSound
<1>17. QED
  BY <1>6, <1>9, <1>10, <1>11, <1>12, <1>14, <1>16, NextForm

----------------------------------------------------------------------------
(* An adapter begins without keys, and every call keeps the invariant. *)
LEMMA InitKeys == Init => KeysInv
<1>1. SUFFICES ASSUME Init PROVE KeysInv
  OBVIOUS
<1>2. \A k \in Key : ~Live(k) /\ top[k] = k
  BY <1>1, Zenon DEF Init, Live
<1>3. TypeOK /\ ~badFree
  BY <1>1, Zenon DEF Init, TypeOK
<1>4. \A i : Used(i) <=> Taken(i)
  BY <1>1, <1>2 DEF Init, Used, Taken
<1>5. RefsInv /\ IdsInv /\ PatternsSound
  BY <1>2 DEF RefsInv, IdsInv, PatternsSound
<1>6. QED
  BY <1>2, <1>3, <1>4, <1>5, KeysForm

(* Every call preserves the invariant. *)
LEMMA StepKeys == KeysInv /\ [Next]_vars => KeysInv'
<1>1. SUFFICES ASSUME KeysInv, [Next]_vars PROVE KeysInv'
  OBVIOUS
<1>2. \A r \in Regions \cup Unchecked : r[1] \in Addr /\ r[2] \in Length
  BY DEF Addr, Length
<1>3. ASSUME NEW k \in Key, NEW r \in Regions, create_direct_mkey(k, r[1], r[2])
      PROVE  KeysInv'
  BY <1>1, <1>2, <1>3, DirectKept
<1>4. ASSUME NEW k \in Key, NEW r \in Regions, NEW p \in Key, create_ref_mkey(k, p, r[1], r[2])
      PROVE  KeysInv'
  BY <1>1, <1>2, <1>4, NewRefKept
<1>5. CASE create_ref_without_parent
  BY <1>1, <1>5, UnchangedKept DEF create_ref_without_parent, Refused
<1>6. ASSUME NEW k \in Key, NEW r \in Unchecked, NEW i \in Id \cup {NoId},
             create_extern_mkey(k, r[1], r[2], i)
      PROVE  KeysInv'
  BY <1>1, <1>2, <1>6, ExternKept
<1>7. ASSUME NEW k \in Key, NEW r \in Unchecked, NEW t, create_reserved_mkey(k, t, r[1], r[2])
      PROVE  KeysInv'
  BY <1>1, <1>2, <1>7, ReservedKept
<1>8. ASSUME NEW k \in Key, NEW r \in Unchecked, NEW blocks \in BlockLists(MaxBlocks),
             create_pattern_mkey(k, r[1], r[2], blocks)
      PROVE  KeysInv'
  BY <1>1, <1>2, <1>8, PatternKept
<1>9. ASSUME NEW k \in Key, NEW sge, create_crypto_mkey(k, sge) PROVE KeysInv'
  BY <1>1, <1>9, CryptoKept
<1>10. ASSUME NEW k \in Key, delete_mkey(k) PROVE KeysInv'
  BY <1>1, <1>10, DeleteKept
<1>11. CASE UNCHANGED vars
  BY <1>1, <1>11, UnchangedKept
<1>12. QED
  BY <1>1, <1>3, <1>4, <1>5, <1>6, <1>7, <1>8, <1>9, <1>10, <1>11 DEF Next

(* Who owns what, refers to what and was built from what, at any time. *)
THEOREM KeysInvariance == Spec => []KeysInv
  BY InitKeys, StepKeys, PTL DEF Spec

(* The device has a key for exactly the objects that own one and those it  *)
(* refused to release, and none is released twice.                         *)
THEOREM OwnersAgreeHolds == Spec => []OwnersAgree
<1>1. KeysInv => OwnersAgree
  BY DEF KeysInv
<1>2. QED
  BY <1>1, KeysInvariance, PTL

(* A pattern names the identifiers and addresses of its blocks as long as  *)
(* they live, and the bytes of its entries add up to its stride.           *)
THEOREM PatternsAgreeHolds == Spec => []PatternsAgree
<1>1. KeysInv => PatternsAgree
  BY DEF KeysInv
<1>2. QED
  BY <1>1, KeysInvariance, PTL

(* Through any chain of references, also one with links deleted, a         *)
(* reference names a part of the memory of the key its chain starts from.  *)
THEOREM RefsBackedHolds == Spec => []RefsBacked
<1>1. ASSUME KeysInv PROVE RefsBacked
  <2>1. TypeOK /\ RefsInv /\ \A q \in Key : Live(q) => OwnershipOf(q)
    BY <1>1, KeysForm
  <2>2. SUFFICES ASSUME NEW k \in Key, Live(k), key[k].kind = "ref", top[k] # None, ~Wraps(key[k])
                 PROVE  /\ Live(top[k]) /\ key[k].idx = key[top[k]].idx
                        /\ Region(key[k]) \subseteq Region(key[top[k]])
                        /\ key[top[k]].kind = "direct" =>
                             /\ dev[key[k].idx] # None
                             /\ Region(key[k]) \subseteq Region(dev[key[k].idx])
    BY DEF RefsBacked
  <2>3. /\ top[k] \in Key /\ Live(top[k]) /\ key[k].idx = key[top[k]].idx
        /\ Inside(key[k], key[top[k]])
    BY <2>1, <2>2 DEF RefsInv, TypeOK
  <2>4. key[k] \in KeyObject /\ key[top[k]] \in KeyObject
    BY <2>1, <2>2, <2>3, LiveFacts
  <2>5. /\ key[k].addr \in Int /\ key[k].len \in Int
        /\ key[top[k]].addr \in Int /\ key[top[k]].len \in Int
    BY <2>4, ObjectFacts
  <2>6. Region(key[k]) \subseteq Region(key[top[k]])
    BY <2>3, <2>5 DEF Inside, Region
  <2>7. ASSUME key[top[k]].kind = "direct"
        PROVE  /\ dev[key[k].idx] # None
               /\ Region(key[k]) \subseteq Region(dev[key[k].idx])
    <3>1. Used(key[top[k]].idx)
      BY <1>1, <2>3, <2>7, OwnedFacts
    <3>2. dev[key[top[k]].idx] = [kind |-> "direct", addr |-> key[top[k]].addr,
                                  len |-> key[top[k]].len]
      BY <2>1, <2>3, <2>7 DEF OwnershipOf
    <3>3. Region(dev[key[top[k]].idx]) = Region(key[top[k]])
      BY <3>2 DEF Region
    <3>4. QED
      BY <2>3, <2>6, <3>1, <3>3 DEF Used
  <2>8. QED
    BY <2>3, <2>6, <2>7
<1>2. QED
  BY <1>1, KeysInvariance, PTL
=============================================================================
