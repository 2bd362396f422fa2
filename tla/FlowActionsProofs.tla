------------------------- MODULE FlowActionsProofs -------------------------
(***************************************************************************)
(* What the entry of a rule tells the device to do is what the actions of  *)
(* the rule ask for, on a root table and on the others; the getters of a   *)
(* flow_rule vouch for the flow that is installed.  For any actions,       *)
(* destinations, rules and flows.                                          *)
(***************************************************************************)
EXTENDS FlowRule, FlowActions, FiniteSetTheorems, TLAPS

----------------------------------------------------------------------------
(* Rules and the flows they install. *)

(* Before any call nothing is installed and IInv holds. *)
LEMMA InitIInv == Init => IInv
  BY FlowRuleAssumption
  DEF Init, IInv, OwnFlow, GetMeansInstalled, OrphanOnlyByReapply

(* The calls that leave m_flow and the device alone: an edit of the rule   *)
(* keeps IInv because it either sets m_changed or leaves value and id.     *)
LEMMA EditIInv ==
  ASSUME IInv, NEW r \in Rule,
         \/ get(r) \/ ApplyRefused(r) \/ ApplyNoMemory(r)
         \/ \E v \in Value : set_match_value(r, v)
         \/ \E id \in FlowId : set_flow_id(r, id)
         \/ \E t \in Tir : add_dest_tir(r, t) \/ remove_dest_tir(r, t)
         \/ \E index \in 0..MaxTirs : get_tir(r, index)
  PROVE  IInv'
  <1>1. CASE \/ get(r) \/ ApplyRefused(r) \/ ApplyNoMemory(r)
             \/ \E index \in 0..MaxTirs : get_tir(r, index)
    BY <1>1, SMTT(30) DEF get, ApplyRefused, ApplyNoMemory, get_tir, logical,
                IInv, OwnFlow, GetMeansInstalled, GetStatus, OrphanOnlyByReapply
  <1>2. CASE \E v \in Value : set_match_value(r, v)
    BY <1>2, SMTT(30) DEF set_match_value, IInv, OwnFlow, GetMeansInstalled, GetStatus, OrphanOnlyByReapply
  <1>3. CASE \E id \in FlowId : set_flow_id(r, id)
    <2>1. PICK id \in FlowId : set_flow_id(r, id)
      BY <1>3
    <2>2. UNCHANGED <<m_value, m_flow, alive, installed, reapplied>>
      BY <2>1 DEF set_flow_id
    <2>3. CASE UNCHANGED <<m_flow_id, m_changed>>
      BY <2>2, <2>3 DEF IInv, OwnFlow, GetMeansInstalled, GetStatus, OrphanOnlyByReapply
    <2>4. CASE /\ m_flow_id' = [m_flow_id EXCEPT ![r] = id]
               /\ m_changed' = [m_changed EXCEPT ![r] = TRUE]
      <3>1. m_flow_id' \in [Rule -> Nat]
        BY <2>4, FlowRuleAssumption DEF IInv
      <3>2. m_changed' \in [Rule -> BOOLEAN] /\ m_changed'[r] = TRUE
        BY <2>4 DEF IInv
      <3>3. \A t \in Rule : t # r => m_changed'[t] = m_changed[t] /\ m_flow_id'[t] = m_flow_id[t]
        BY <2>4 DEF IInv
      <3>4. GetMeansInstalled'
        BY <2>2, <3>2, <3>3 DEF IInv, GetMeansInstalled, GetStatus
      <3>5. OwnFlow' /\ OrphanOnlyByReapply'
        BY <2>2 DEF IInv, OwnFlow, OrphanOnlyByReapply
      <3> QED BY <2>2, <3>1, <3>2, <3>4, <3>5 DEF IInv
    <2> QED BY <2>1, <2>3, <2>4 DEF set_flow_id
  <1>4. CASE \E t \in Tir : add_dest_tir(r, t)
    BY <1>4, SMTT(30) DEF add_dest_tir, IInv, OwnFlow, GetMeansInstalled, GetStatus, OrphanOnlyByReapply
  <1>5. CASE \E t \in Tir : remove_dest_tir(r, t)
    <2>1. /\ UNCHANGED <<m_value, m_flow_id, m_flow, alive, installed, reapplied>>
          /\ \/ UNCHANGED m_changed
             \/ m_changed' = [m_changed EXCEPT ![r] = TRUE]
      BY <1>5, Zenon DEF remove_dest_tir
    <2>2. m_changed' \in [Rule -> BOOLEAN] /\ \A t \in Rule : m_changed[t] => m_changed'[t]
      BY <2>1, Zenon DEF IInv
    <2>3. GetMeansInstalled'
      BY <2>1, <2>2 DEF IInv, GetMeansInstalled, GetStatus
    <2>4. OwnFlow' /\ OrphanOnlyByReapply'
      BY <2>1 DEF IInv, OwnFlow, OrphanOnlyByReapply
    <2> QED BY <2>1, <2>2, <2>3, <2>4 DEF IInv
  <1> QED BY <1>1, <1>2, <1>3, <1>4, <1>5

(* A new rule owns nothing, and the slot it takes owned nothing. *)
LEMMA CreateIInv == ASSUME IInv, NEW r \in Rule, create_flow_rule(r) PROVE IInv'
  BY DEF create_flow_rule, IInv, OwnFlow, GetMeansInstalled, GetStatus, OrphanOnlyByReapply

(* A flow that goes in is new, carries the rule's settings, and orphans    *)
(* only what Overwritten accounts for.                                     *)
LEMMA ApplyIInv ==
  ASSUME IInv, NEW r \in Rule, ApplySucceeds(r) \/ ApplyFails(r)
  PROVE  IInv'
  <1>1. CASE ApplySucceeds(r)
    <2>1. PICK f \in Flow \ DOMAIN installed :
            /\ m_flow' = [m_flow EXCEPT ![r] = f]
            /\ installed' = [g \in DOMAIN installed \cup {f} |->
                               IF g = f THEN CurrentSetting(r) ELSE installed[g]]
      BY <1>1, Zenon DEF ApplySucceeds
    <2>2. /\ installed'[f].rule = r /\ installed'[f].value = m_value[r]
          /\ installed'[f].flow_id = m_flow_id[r]
          /\ DOMAIN installed' = DOMAIN installed \cup {f}
          /\ \A g \in DOMAIN installed : installed'[g] = installed[g]
      BY <2>1 DEF CurrentSetting
    <2>3. /\ UNCHANGED <<m_value, m_flow_id, m_dst_tir, alive>> /\ r \in alive
          /\ m_changed' = [m_changed EXCEPT ![r] = FALSE]
          /\ reapplied' = IF m_flow[r] = Null THEN reapplied ELSE reapplied \cup {r}
      BY <1>1 DEF ApplySucceeds, logical, Overwritten
    <2>4. f # Null /\ \A q \in Rule : m_flow[q] # f
      BY <2>1, FlowRuleAssumption DEF IInv, OwnFlow
    <2>5. OwnFlow'
      BY <2>1, <2>2, <2>4 DEF IInv, OwnFlow
    <2>6. GetMeansInstalled'
      BY <2>1, <2>2, <2>3, <2>4 DEF IInv, OwnFlow, GetMeansInstalled, GetStatus
    <2>7. OrphanOnlyByReapply'
      BY <2>1, <2>2, <2>3, <2>4 DEF IInv, OwnFlow, OrphanOnlyByReapply
    <2> QED BY <2>1, <2>2, <2>3, <2>4, <2>5, <2>6, <2>7 DEF IInv
  <1>2. CASE ApplyFails(r)
    BY <1>2 DEF ApplyFails, logical, Overwritten,
                IInv, OwnFlow, GetMeansInstalled, GetStatus, OrphanOnlyByReapply
  <1> QED BY <1>1, <1>2

(* What goes out is the rule's own flow, and no other rule has it. *)
LEMMA RevokeIInv ==
  ASSUME IInv, NEW r \in Rule, revoke_settings(r) \/ DeleteRule(r)
  PROVE  IInv'
  <1>1. /\ installed' = [f \in DOMAIN installed \ {m_flow[r]} |-> installed[f]]
        /\ m_flow' = [m_flow EXCEPT ![r] = Null]
        /\ UNCHANGED <<m_value, m_flow_id, m_changed, reapplied>>
        /\ alive' \in {alive, alive \ {r}}
    BY DEF revoke_settings, DeleteRule, Uninstall, logical
  <1>2. \A q \in Rule : q # r /\ m_flow[q] # Null => m_flow[q] # m_flow[r]
    BY DEF IInv, OwnFlow
  <1>3. OwnFlow'
    BY <1>1, <1>2 DEF IInv, OwnFlow
  <1>4. GetMeansInstalled'
    BY <1>1, <1>2 DEF IInv, OwnFlow, GetMeansInstalled, GetStatus
  <1>5. OrphanOnlyByReapply'
    BY <1>1, <1>2 DEF IInv, OwnFlow, OrphanOnlyByReapply
  <1> QED BY <1>1, <1>3, <1>4, <1>5 DEF IInv

(* IInv holds in every reachable state. *)
THEOREM IInvariance == Spec => []IInv
  <1>1. ASSUME IInv, [Next]_vars PROVE IInv'
    <2>1. CASE UNCHANGED vars
      BY <1>1, <2>1 DEF vars, IInv, OwnFlow, GetMeansInstalled, GetStatus, OrphanOnlyByReapply
    <2>2. CASE Next
      BY <1>1, <2>2, EditIInv, CreateIInv, ApplyIInv, RevokeIInv DEF Next
    <2> QED BY <1>1, <2>1, <2>2
  <1> QED BY <1>1, InitIInv, PTL DEF Spec

(* get_match_value and get_flow_id return DPCP_OK for a rule that owns a   *)
(* flow only when value and flow id are those of the device.               *)
THEOREM GetMeansInstalledHolds == Spec => []GetMeansInstalled
  BY IInvariance, PTL DEF IInv

(* revoke_settings and the destructor never destroy another rule's flow.   *)
THEOREM OwnFlowHolds == Spec => []OwnFlow
  BY IInvariance, PTL DEF IInv

(* Only apply_settings on a rule that owns a flow leaves one behind.       *)
THEOREM OrphanOnlyByReapplyHolds == Spec => []OrphanOnlyByReapply
  BY IInvariance, PTL DEF IInv

(* A set of numbers that is not empty has a least one. *)
LEMMA LeastNumber ==
  ASSUME NEW T, T \subseteq Nat, T # {}
  PROVE  \E x \in T : \A y \in T : x <= y
<1>1. PICK x \in T : \A y \in T : ~(<<y, x>> \in OpToRel(<, Nat))
  BY NatLessThanWellFounded, WFMin, Zenon
<1>2. \A y \in T : ~(y < x)
  BY <1>1, Zenon DEF OpToRel
<1>3. ASSUME NEW y \in T PROVE x <= y
  <2>1. x \in Nat /\ y \in Nat
    OBVIOUS
  <2>2. QED
    BY <1>2, <2>1
<1>4. QED
  BY <1>3

(* Induction, for a property given as the set of the numbers that have it. *)
LEMMA NumberInduction ==
  ASSUME NEW T, 0 \in T, \A n \in Nat : n \in T => n + 1 \in T
  PROVE  Nat \subseteq T
<1>1. SUFFICES ASSUME Nat \ T # {} PROVE FALSE
  OBVIOUS
<1>2. PICK x \in Nat \ T : \A y \in Nat \ T : x <= y
  <2>1. Nat \ T \subseteq Nat
    OBVIOUS
  <2>2. QED
    BY <1>1, <2>1, LeastNumber, Zenon
<1>3. x # 0 /\ x - 1 \in Nat
  BY <1>2
<1>4. x - 1 \in T
  BY <1>2, <1>3
<1>5. QED
  BY <1>2, <1>3, <1>4

(* The powers of two: a set has twice as many subsets with one more        *)
(* element.                                                                *)
LEMMA Power ==
  ASSUME NEW n \in Nat
  PROVE  2^n \in Nat /\ 2^(n + 1) = 2 * 2^n
<1> DEFINE S == 1 .. n
           T == 1 .. (n + 1)
           A == SUBSET S
           B == {X \cup {n + 1} : X \in A}
<1>1. IsFiniteSet(S) /\ Cardinality(S) = n /\ IsFiniteSet(T) /\ Cardinality(T) = n + 1
  BY FS_Interval
<1>2. /\ IsFiniteSet(A) /\ Cardinality(A) = 2^n
      /\ IsFiniteSet(SUBSET T) /\ Cardinality(SUBSET T) = 2^(n + 1)
  BY <1>1, FS_SUBSET, Zenon
<1>3. Cardinality(A) \in Nat
  BY <1>2, FS_CardinalityType
<1>4. n + 1 \notin S /\ T = S \cup {n + 1}
  OBVIOUS
<1> HIDE DEF S, T
<1>5. IsFiniteSet(B) /\ Cardinality(B) = Cardinality(A)
  <2> DEFINE f == [X \in A |-> X \cup {n + 1}]
  <2>1. f \in [A -> B] /\ \A Y \in B : \E X \in A : f[X] = Y
    OBVIOUS
  <2>2. ASSUME NEW X \in A, NEW Y \in A, f[X] = f[Y] PROVE X = Y
    <3>1. X \cup {n + 1} = Y \cup {n + 1} /\ n + 1 \notin X /\ n + 1 \notin Y
      BY <1>4, <2>2
    <3>2. QED
      BY <3>1
  <2> HIDE DEF f, A, B
  <2>3. f \in Bijection(A, B)
    BY <2>1, <2>2 DEF Bijection, Injection, Surjection, IsInjective
  <2>4. ExistsBijection(A, B)
    BY <2>3 DEF ExistsBijection
  <2>5. QED
    BY <1>2, <2>4, FS_Bijection
<1>6. SUBSET T = A \cup B /\ A \cap B = {}
  <2>1. ASSUME NEW X \in SUBSET T PROVE X \in A \cup B
    <3>1. CASE n + 1 \in X
      <4>1. X \ {n + 1} \in A /\ X = (X \ {n + 1}) \cup {n + 1}
        BY <1>4, <3>1
      <4>2. QED
        BY <4>1, Zenon
    <3>2. CASE n + 1 \notin X
      BY <1>4, <3>2
    <3>3. QED
      BY <3>1, <3>2
  <2>2. A \cup B \subseteq SUBSET T
    BY <1>4
  <2>3. A \cap B = {}
    BY <1>4
  <2>4. QED
    BY <2>1, <2>2, <2>3, Zenon
<1> HIDE DEF A, B
<1>7. Cardinality(A \cup B) = Cardinality(A) + Cardinality(B) - Cardinality(A \cap B)
  BY <1>2, <1>5, FS_Union
<1>8. Cardinality(A \cap B) = 0
  BY <1>6, FS_EmptySet
<1> DEFINE p == 2^n
           q == 2^(n + 1)
<1>9. p = Cardinality(A) /\ q = Cardinality(A \cup B)
  BY <1>2, <1>6
<1> HIDE DEF p, q
<1>10. p \in Nat /\ q = 2 * p
  BY <1>3, <1>5, <1>7, <1>8, <1>9
<1>11. QED
  BY <1>10 DEF p, q

----------------------------------------------------------------------------
(* Numbers and their bits. *)

(* A number, its quotient and its remainder. *)
LEMMA Euclid ==
  ASSUME NEW n \in Nat, NEW p \in Nat, p > 0
  PROVE  n = p * (n \div p) + (n % p) /\ n \div p \in Nat /\ n % p \in 0 .. p - 1
OBVIOUS

(* A quotient is the only one. *)
LEMMA OneQuotient ==
  ASSUME NEW d \in Nat, NEW u \in Nat, NEW w \in Nat, NEW r \in 0 .. d - 1, NEW s \in 0 .. d - 1,
         d * u + r = d * w + s
  PROVE  u = w
<1>1. ~ (u < w)
  <2> SUFFICES ASSUME u < w PROVE FALSE
    OBVIOUS
  <2>1. PICK k \in Nat : w = u + 1 + k
     <3>1. w - u - 1 \in Nat /\ w = u + 1 + (w - u - 1)
       OBVIOUS
     <3>2. QED
       BY <3>1
  <2>2. d * w = d * u + d + d * k /\ d * k >= 0
    BY <2>1
  <2>3. d * u \in Nat /\ d * k \in Nat
    BY <2>1
  <2>4. QED
    BY <2>2, <2>3
<1>2. ~ (w < u)
  <2> SUFFICES ASSUME w < u PROVE FALSE
    OBVIOUS
  <2>1. PICK k \in Nat : u = w + 1 + k
     <3>1. u - w - 1 \in Nat /\ u = w + 1 + (u - w - 1)
       OBVIOUS
     <3>2. QED
       BY <3>1
  <2>2. d * u = d * w + d + d * k /\ d * k >= 0
    BY <2>1
  <2>3. d * w \in Nat /\ d * k \in Nat
    BY <2>1
  <2>4. QED
    BY <2>2, <2>3
<1>3. QED
  BY <1>1, <1>2

(* Dividing by the next power of two. *)
LEMMA NextQuotient ==
  ASSUME NEW n \in Nat, NEW p \in Nat, p > 0
  PROVE  n \div (2 * p) = (n \div p) \div 2
<1> DEFINE q == n \div p
           r == n % p
           u == q \div 2
           b == q % 2
           d == 2 * p
           w == n \div d
           s == n % d
<1>1. n = p * q + r /\ q \in Nat /\ r \in 0 .. p - 1
  BY Euclid
<1>2. d \in Nat /\ d > 0
  OBVIOUS
<1>3. n = d * w + s /\ w \in Nat /\ s \in 0 .. d - 1
  BY <1>2, Euclid
<1> HIDE DEF q, r
<1>4. q = 2 * u + b /\ u \in Nat /\ b \in 0 .. 1
  BY <1>1
<1> HIDE DEF u, b, w, s
<1>5. p * q = d * u + p * b
  BY <1>4, <1>1
<1>6. (b = 0 => p * b = 0) /\ (b = 1 => p * b = p)
  OBVIOUS
<1>7. p * b + r \in 0 .. d - 1
  BY <1>1, <1>4, <1>6
<1>8. d * u + (p * b + r) = d * w + s
  <2> DEFINE x == d * u
             y == d * w
             z == p * b
             pq == p * q
  <2>1. x \in Int /\ y \in Int /\ z \in Int /\ pq \in Int /\ r \in Int /\ s \in Int
    BY <1>1, <1>2, <1>3, <1>4
  <2>2. n = pq + r /\ n = y + s /\ pq = x + z
    BY <1>1, <1>3, <1>5
  <2> HIDE DEF x, y, z, pq
  <2>3. x + (z + r) = y + s
    BY <2>1, <2>2
  <2>4. QED
    BY <2>3 DEF x, y, z
<1> HIDE DEF d
<1>9. u = w
  BY <1>2, <1>3, <1>4, <1>7, <1>8, OneQuotient
<1>10. QED
  BY <1>9 DEF u, w, q, d

(* A number below the divisor is its own remainder. *)
LEMMA SmallRest ==
  ASSUME NEW n \in Nat, NEW p \in Nat, n < p
  PROVE  n % p = n /\ n \div p = 0
<1> DEFINE u == n \div p
           r == n % p
<1>1. p > 0 /\ n \in 0 .. p - 1 /\ p * 0 + n = n
  OBVIOUS
<1>2. n = p * u + r /\ u \in Nat /\ r \in 0 .. p - 1
  BY <1>1, Euclid
<1> HIDE DEF u, r
<1>3. p * u + r = p * 0 + n
  BY <1>1, <1>2
<1>4. u = 0
  BY <1>1, <1>2, <1>3, OneQuotient
<1>5. r = n
  BY <1>1, <1>2, <1>4
<1>6. QED
  BY <1>4, <1>5 DEF u, r

(* What the bit at a power of two adds. *)
LEMMA BitAdds ==
  ASSUME NEW n \in Nat, NEW p \in Nat, p > 0
  PROVE  p * (n \div p) = (2 * p) * (n \div (2 * p)) + (IF (n \div p) % 2 = 1 THEN p ELSE 0)
<1> DEFINE q == n \div p
           u == n \div (2 * p)
           b == q % 2
<1>1. q \in Nat /\ u = q \div 2
  BY Euclid, NextQuotient, Zenon
<1> HIDE DEF q, u
<1>2. q = 2 * u + b /\ u \in Nat /\ b \in 0 .. 1
  BY <1>1
<1> HIDE DEF b
<1>3. p * q = (2 * p) * u + p * b
  BY <1>2
<1>4. p * b = IF b = 1 THEN p ELSE 0
  BY <1>2
<1>5. QED
  BY <1>3, <1>4 DEF q, u, b

(* The powers of two are positive. *)
LEMMA PowerPositive ==
  /\ 2^0 = 1
  /\ \A n \in Nat : 2^n \in Nat /\ 2^n > 0 /\ 2^(n + 1) = 2 * 2^n
<1> DEFINE S == {}
           N == {S}
<1>1. 2^0 = 1
  <2>1. IsFiniteSet(S) /\ Cardinality(S) = 0
    BY FS_EmptySet
  <2>2. Cardinality(SUBSET S) = 2^0
    BY <2>1, FS_SUBSET, Zenon
  <2>3. SUBSET S = N
    OBVIOUS
  <2>4. Cardinality(N) = 1
    BY FS_Singleton, Zenon
  <2>5. QED
    BY <2>2, <2>3, <2>4
<1> DEFINE T == {n \in Nat : 2^n > 0}
<1>2. 0 \in T
  BY <1>1
<1>3. \A n \in Nat : n \in T => n + 1 \in T
  <2> SUFFICES ASSUME NEW n \in Nat, n \in T PROVE n + 1 \in T
    OBVIOUS
  <2> DEFINE p == 2^n
             q == 2^(n + 1)
  <2>1. p \in Nat /\ q = 2 * p /\ p > 0
    BY Power
  <2> HIDE DEF p, q
  <2>2. q > 0
    BY <2>1
  <2>3. QED
    BY <2>2 DEF q
<1>4. Nat \subseteq T
  <2> HIDE DEF T
  <2>1. QED
    BY <1>2, <1>3, NumberInduction
<1>5. QED
  BY <1>1, <1>4, Power

(* The command of an entry, made of parts, and holding them. *)
EntryOf(r, i, c, t, m, f) == r = [inlen |-> i, ctx |-> c, destination |-> t, modify |-> m, reformat |-> f]
EntryHas(r, i, c, t, m, f) ==
  /\ r = [inlen |-> r.inlen, ctx |-> r.ctx, destination |-> r.destination, modify |-> r.modify,
          reformat |-> r.reformat]
  /\ r.inlen = i /\ r.ctx = c /\ r.destination = t /\ r.modify = m /\ r.reformat = f

(* What an entry was made of is what it holds. *)
LEMMA EntryParts ==
  ASSUME NEW r, NEW i, NEW c, NEW t, NEW m, NEW f, EntryOf(r, i, c, t, m, f)
  PROVE  EntryHas(r, i, c, t, m, f)
BY DEF EntryOf, EntryHas

----------------------------------------------------------------------------
(* Numbers as the device reads them. *)

(* The sums of the bits b below each place. *)
BitSums(b, s) ==
  s = [n \in 0 .. 24 |-> IF n = 0 THEN 0 ELSE s[n - 1] + IF n - 1 \in b THEN 2^(n - 1) ELSE 0]

(* What is left of n above each place, for n's own bits. *)
LEMMA SumsExist ==
  ASSUME NEW n \in Nat
  PROVE  \E s : BitSums(Bin(n), s)
<1> DEFINE s == [k \in 0 .. 24 |-> n - 2^k * (n \div 2^k)]
           t == [k \in 0 .. 24 |-> IF k = 0 THEN 0 ELSE s[k - 1] + IF k - 1 \in Bin(n) THEN 2^(k - 1) ELSE 0]
<1>1. ASSUME NEW k \in 0 .. 24 PROVE s[k] = t[k]
  <2>1. CASE k = 0
    <3> DEFINE p == 2^0
    <3>1. p = 1
      BY PowerPositive
    <3> HIDE DEF p
    <3>2. n - p * (n \div p) = 0
      BY <3>1
    <3>3. QED
      BY <2>1, <3>2 DEF p
  <2>2. CASE k # 0
    <3> DEFINE j == k - 1
               p == 2^j
               q == 2^k
    <3>1. j \in Nat /\ j \in 0 .. 23 /\ j \in 0 .. 24 /\ k = j + 1
      BY <2>2
    <3>2. p \in Nat /\ p > 0 /\ q = 2 * p
      <4> HIDE DEF j
      <4>1. 2^(j + 1) = 2 * 2^j /\ 2^j \in Nat /\ 2^j > 0
        BY <3>1, PowerPositive
      <4>2. QED
        BY <3>1, <4>1
    <3>3. j \in Bin(n) <=> (n \div p) % 2 = 1
      <4> HIDE DEF j
      <4>1. QED
        BY <3>1 DEF Bin, p
    <3>4. s[k] = n - q * (n \div q) /\ s[j] = n - p * (n \div p)
      BY <3>1, Zenon
    <3>5. t[k] = s[j] + IF j \in Bin(n) THEN p ELSE 0
      BY <2>2, Zenon
    <3> HIDE DEF s, t, j, p, q
    <3>6. p * (n \div p) = q * (n \div q) + (IF (n \div p) % 2 = 1 THEN p ELSE 0)
      BY <3>2, BitAdds, Zenon
    <3> DEFINE x == p * (n \div p)
               y == q * (n \div q)
               z == IF (n \div p) % 2 = 1 THEN p ELSE 0
    <3>7. x \in Int /\ y \in Int /\ z \in Int
      <4>1. n \div p \in Nat /\ n \div q \in Nat /\ q \in Nat
        BY <3>2, Euclid
      <4>2. QED
        BY <3>2, <4>1
    <3>8. s[k] = n - y /\ s[j] = n - x /\ x = y + z /\ t[k] = s[j] + z
      BY <3>3, <3>4, <3>5, <3>6
    <3> HIDE DEF x, y, z
    <3>9. QED
      BY <3>7, <3>8
  <2>3. QED
    BY <2>1, <2>2
<1>2. DOMAIN s = 0 .. 24 /\ DOMAIN t = 0 .. 24
  OBVIOUS
<1>3. s = t
  BY <1>1, <1>2, Zenon
<1>4. BitSums(Bin(n), s)
  BY <1>3, Zenon DEF BitSums
<1>5. QED
  BY <1>4

(* A number of 24 bits is read back from its bits. *)
LEMMA NumBin ==
  ASSUME NEW n \in Nat, n < 2^24
  PROVE  Num(Bin(n)) = n
<1> DEFINE s == CHOOSE f : BitSums(Bin(n), f)
<1>1. BitSums(Bin(n), s)
  BY SumsExist
<1>2. Num(Bin(n)) = s[24]
  BY Zenon DEF Num, BitSums
<1> HIDE DEF s
<1> DEFINE Good(k) == k <= 24 => s[k] \in Int /\ s[k] + 2^k * (n \div 2^k) = n
           T == {k \in Nat : Good(k)}
<1>3. Good(0)
  <2> DEFINE p == 2^0
  <2>1. s[0] = 0
    BY <1>1 DEF BitSums
  <2>2. p = 1
    BY PowerPositive
  <2> HIDE DEF p
  <2>3. s[0] + p * (n \div p) = n
    BY <2>1, <2>2
  <2>4. QED
    BY <2>1, <2>3 DEF p
<1>4. ASSUME NEW j \in Nat, Good(j) PROVE Good(j + 1)
  <2> SUFFICES ASSUME j + 1 <= 24 PROVE s[j + 1] \in Int /\ s[j + 1] + 2^(j + 1) * (n \div 2^(j + 1)) = n
    OBVIOUS
  <2> DEFINE p == 2^j
             q == 2^(j + 1)
             x == p * (n \div p)
             y == q * (n \div q)
             z == IF (n \div p) % 2 = 1 THEN p ELSE 0
  <2>1. j \in 0 .. 23 /\ j + 1 \in 0 .. 24 /\ j + 1 # 0 /\ (j + 1) - 1 = j /\ j <= 24
    OBVIOUS
  <2>2. p \in Nat /\ p > 0 /\ q = 2 * p
    BY PowerPositive
  <2>3. s[j + 1] = s[j] + IF j \in Bin(n) THEN p ELSE 0
    BY <1>1, <2>1, Zenon DEF BitSums
  <2>4. j \in Bin(n) <=> (n \div p) % 2 = 1
    BY <2>1 DEF Bin
  <2>5. s[j] \in Int /\ s[j] + x = n
    BY <1>4, <2>1
  <2> HIDE DEF p, q
  <2>6. x = y + z
    BY <2>2, BitAdds, Zenon
  <2>7. x \in Int /\ y \in Int /\ z \in Int
    <3>1. n \div p \in Nat /\ n \div q \in Nat /\ q \in Nat
      BY <2>2, Euclid
    <3>2. QED
      BY <2>2, <3>1
  <2>8. s[j + 1] = s[j] + z
    BY <2>3, <2>4
  <2> HIDE DEF x, y, z
  <2>9. s[j + 1] \in Int /\ s[j + 1] + y = n
    BY <2>5, <2>6, <2>7, <2>8
  <2>10. QED
    BY <2>9 DEF y, q
<1>5. 0 \in T /\ \A k \in Nat : k \in T => k + 1 \in T
  BY <1>3, <1>4
<1>6. Nat \subseteq T
  <2> HIDE DEF T
  <2>1. QED
    BY <1>5, NumberInduction
<1>7. s[24] \in Int /\ s[24] + 2^24 * (n \div 2^24) = n
  <2>1. 24 \in Nat /\ 24 <= 24
    OBVIOUS
  <2>2. 24 \in T
    BY <1>6, <2>1, Zenon
  <2>3. Good(24)
    BY <2>2, Zenon
  <2>4. QED
    BY <2>1, <2>3, Zenon
<1>8. n \div 2^24 = 0
  <2> DEFINE p == 2^24
  <2>1. p \in Nat /\ p > 0 /\ n < p
    BY PowerPositive
  <2> HIDE DEF p
  <2>2. n \div p = 0
    BY <2>1, SmallRest
  <2>3. QED
    BY <2>2 DEF p
<1>9. 2^24 * 0 = 0
  <2> DEFINE p == 2^24
  <2>1. p \in Nat
    BY PowerPositive
  <2> HIDE DEF p
  <2>2. p * 0 = 0
    BY <2>1
  <2>3. QED
    BY <2>2 DEF p
<1>10. QED
  BY <1>2, <1>7, <1>8, <1>9

----------------------------------------------------------------------------
(* Fields of a mailbox. *)

(* The bits at to hi are a field of w bits. *)
Span(at, hi, w) == at \in Nat /\ w \in Nat /\ hi \in Int /\ hi = at + w - 1

(* In the bits from at to hi, b is what DEVX_SET writes of v. *)
Holds(at, hi, w, v, b) == \A x \in at .. hi : x \in b <=> x \in DEVX_SET(F(at, w), v)

(* DEVX_SET writes inside its field. *)
LEMMA SetWithin ==
  ASSUME NEW at, NEW hi, NEW w, Span(at, hi, w), NEW v
  PROVE  DEVX_SET(F(at, w), v) \subseteq at .. hi
BY DEF DEVX_SET, Place, F, Span

(* A bit of a value is at its place in the field. *)
LEMMA SetPlace ==
  ASSUME NEW at \in Nat, NEW w \in Nat, NEW v, NEW i \in 0 .. (w - 1)
  PROVE  (at + w - 1 - i \in DEVX_SET(F(at, w), v)) <=> i \in v
<1>1. DEVX_SET(F(at, w), v) = {at + w - 1 - j : j \in v \cap 0 .. (w - 1)}
  BY DEF DEVX_SET, Place, F
<1>2. ASSUME at + w - 1 - i \in DEVX_SET(F(at, w), v) PROVE i \in v
  <2>1. PICK j \in v \cap 0 .. (w - 1) : at + w - 1 - i = at + w - 1 - j
    BY <1>1, <1>2
  <2>2. i = j
    BY <2>1
  <2>3. QED
    BY <2>1, <2>2
<1>3. ASSUME i \in v PROVE at + w - 1 - i \in DEVX_SET(F(at, w), v)
  BY <1>1, <1>3
<1>4. QED
  BY <1>2, <1>3

(* A field written among others reads as its value, cut to its width. *)
LEMMA GetCut ==
  ASSUME NEW at, NEW hi, NEW w, Span(at, hi, w), NEW v, NEW b, Holds(at, hi, w, v, b)
  PROVE  DEVX_GET(F(at, w), b) = v \cap (0 .. (w - 1))
<1> USE DEF Span
<1>1. DEVX_GET(F(at, w), b) = {i \in 0 .. (w - 1) : at + w - 1 - i \in b}
  BY DEF DEVX_GET, Place, F
<1>2. \A i \in 0 .. (w - 1) : (at + w - 1 - i \in b) <=> i \in v
  <2> SUFFICES ASSUME NEW i \in 0 .. (w - 1) PROVE (at + w - 1 - i \in b) <=> i \in v
    OBVIOUS
  <2>1. at + w - 1 - i \in at .. hi
    OBVIOUS
  <2>2. (at + w - 1 - i \in b) <=> (at + w - 1 - i \in DEVX_SET(F(at, w), v))
    BY <2>1 DEF Holds
  <2>3. QED
    BY <2>2, SetPlace, Zenon
<1>3. QED
  BY <1>1, <1>2

----------------------------------------------------------------------------
(* The loop over the actions of a rule. *)

(* One turn, on an ordinary table or on the root table; x is whether the   *)
(* device accepts objects, or what memory held.                            *)
Turn(table, acc, a, x) ==
  IF acc.ret # "DPCP_OK" THEN acc
  ELSE IF table = "prm" THEN apply_prm(acc.in, a, x) ELSE apply_root(acc.in, a, x)

(* The outcomes g after each of the first m turns. *)
Runs(table, start, order, x, m, g) ==
  g = [n \in 0 .. m |-> IF n = 0 THEN Done(start) ELSE Turn(table, g[n - 1], order[n], x)]

(* There are such outcomes. *)
LEMMA RunsExist ==
  ASSUME NEW table, NEW start, NEW order, NEW x, NEW L \in Nat
  PROVE  \E g : Runs(table, start, order, x, L, g)
<1> DEFINE T == {m \in Nat : \E g : Runs(table, start, order, x, m, g)}
<1>1. 0 \in T
  <2>1. Runs(table, start, order, x, 0, [n \in 0 .. 0 |-> Done(start)])
    BY DEF Runs
  <2>2. QED
    BY <2>1
<1>2. ASSUME NEW m \in Nat, m \in T PROVE m + 1 \in T
  <2>1. PICK g : Runs(table, start, order, x, m, g)
    BY <1>2
  <2> DEFINE last1 == Turn(table, g[m], order[m + 1], x)
             h == [n \in 0 .. m + 1 |-> IF n <= m THEN g[n] ELSE last1]
             k == [n \in 0 .. m + 1 |-> IF n = 0 THEN Done(start) ELSE Turn(table, h[n - 1], order[n], x)]
  <2>2. ASSUME NEW n \in 0 .. m + 1 PROVE h[n] = k[n]
    <3>1. CASE n = 0
      <4>1. g[0] = Done(start)
        BY <2>1 DEF Runs
      <4>2. QED
        BY <3>1, <4>1
    <3>2. CASE n # 0 /\ n <= m
      <4>1. g[n] = Turn(table, g[n - 1], order[n], x)
        BY <2>1, <3>2 DEF Runs
      <4>2. n - 1 \in 0 .. m + 1 /\ n - 1 <= m
        BY <3>2
      <4>3. h[n] = g[n] /\ h[n - 1] = g[n - 1] /\ k[n] = Turn(table, h[n - 1], order[n], x)
        BY <3>2, <4>2
      <4>4. QED
        BY <4>1, <4>3
    <3>3. CASE n = m + 1
      <4>1. n # 0 /\ n - 1 = m /\ m \in 0 .. m + 1 /\ ~(n <= m)
        BY <3>3
      <4>2. h[n] = last1 /\ h[n - 1] = g[m] /\ k[n] = Turn(table, h[n - 1], order[n], x)
        BY <4>1
      <4>3. QED
        BY <3>3, <4>2
    <3>4. QED
      BY <3>1, <3>2, <3>3
  <2>3. h = k
    <3> HIDE DEF last1
    <3>1. DOMAIN h = 0 .. m + 1 /\ DOMAIN k = 0 .. m + 1
      OBVIOUS
    <3>2. QED
      BY <2>2
  <2>4. Runs(table, start, order, x, m + 1, h)
    BY <2>3, Zenon DEF Runs
  <2>5. QED
    BY <2>4
<1>3. Nat \subseteq T
  <2> HIDE DEF T
  <2>1. QED
    BY <1>1, <1>2, NumberInduction
<1>4. QED
  BY <1>3

(* How the loop of create ends, on an ordinary table and on the root one. *)
LastPrm(start, order, x)  == InOrder(start, order, LAMBDA in, a : apply_prm(in, a, x))
LastRoot(start, order, x) == InOrder(start, order, LAMBDA in, a : apply_root(in, a, x))

(* The loops of flow_rule_ex_prm::create and flow_rule_ex_kernel::create   *)
(* end with the last of them.                                              *)
LEMMA PrmLoop ==
  ASSUME NEW start, NEW order, NEW x, Len(order) \in Nat
  PROVE  \E g : /\ Runs("prm", start, order, x, Len(order), g)
                /\ LastPrm(start, order, x) = g[Len(order)]
<1> DEFINE s == CHOOSE g : Runs("prm", start, order, x, Len(order), g)
<1>1. Runs("prm", start, order, x, Len(order), s)
  BY RunsExist
<1>2. LastPrm(start, order, x) = s[Len(order)]
  BY Zenon DEF LastPrm, InOrder, Runs, Turn
<1>3. QED
  BY <1>1, <1>2, Zenon

(* The same for the root table. *)
LEMMA RootLoop ==
  ASSUME NEW start, NEW order, NEW x, Len(order) \in Nat
  PROVE  \E g : /\ Runs("root", start, order, x, Len(order), g)
                /\ LastRoot(start, order, x) = g[Len(order)]
<1> DEFINE s == CHOOSE g : Runs("root", start, order, x, Len(order), g)
<1>1. Runs("root", start, order, x, Len(order), s)
  BY RunsExist
<1>2. LastRoot(start, order, x) = s[Len(order)]
  BY Zenon DEF LastRoot, InOrder, Runs, Turn
<1>3. QED
  BY <1>1, <1>2, Zenon

----------------------------------------------------------------------------
(* The actions of a rule, in the order the map yields them. *)

(* What is known of an action by its kind. *)
ModifyList(s) == s \in Seq(modify_set_type \cup modify_copy_type \cup modify_other_type)
Known(a) ==
  /\ a.kind \in {"fwd", "tag", "modify", "reformat", "reparse"}
  /\ a.kind = "fwd" => a.dests \in Seq(forwardable_obj_type)
  /\ a.kind = "tag" => a.id \subseteq Word(32)
  /\ a.kind = "modify" => ModifyList(a.actions)
  /\ a.kind = "reformat" => a.attr \in reformat_type /\ Len(a.attr.data) < 2^10

(* An action of a rule that is tried is known. *)
LEMMA ActionKnown ==
  ASSUME NEW actions \in Rules, NEW i \in DOMAIN actions
  PROVE  Known(actions[i])
<1> DEFINE a == actions[i]
           sets == modify_set_type \cup modify_copy_type \cup modify_other_type
           seqs == Seq(sets)
           fwds == Seq(forwardable_obj_type)
           attrs == reformat_type
           tags == SUBSET Word(32)
<1>1. a \in flow_action /\ (a.kind = "reformat" => Len(a.attr.data) < 2^10)
  BY ActionsAssumption
<1>2. a \in [kind : {"fwd"}, dests : fwds] \cup [kind : {"tag"}, id : tags]
           \cup [kind : {"modify"}, actions : seqs] \cup [kind : {"reformat"}, attr : attrs]
           \cup [kind : {"reparse"}]
  BY <1>1 DEF flow_action
<1> HIDE DEF a, sets, seqs, fwds, attrs, tags
<1>3. /\ a.kind \in {"fwd", "tag", "modify", "reformat", "reparse"}
      /\ a.kind = "fwd" => a.dests \in fwds
      /\ a.kind = "tag" => a.id \in tags
      /\ a.kind = "modify" => a.actions \in seqs
      /\ a.kind = "reformat" => a.attr \in attrs
  BY <1>2
<1>4. QED
  BY <1>1, <1>3 DEF Known, ModifyList, a, sets, seqs, fwds, attrs, tags

(* An order has every action, each kind once. *)
Ordered(actions, order) ==
  /\ Len(order) \in Nat
  /\ \A n \in 1 .. Len(order) : Known(order[n])
  /\ \A n \in 1 .. Len(order) : \E i \in DOMAIN actions : order[n] = actions[i]
  /\ \A i \in DOMAIN actions : \E n \in 1 .. Len(order) : order[n] = actions[i]
  /\ \A n, m \in 1 .. Len(order) : order[n].kind = order[m].kind => order[n] = order[m]

(* An interval from one has one end. *)
LEMMA SameEnd ==
  ASSUME NEW a \in Nat, NEW b \in Nat, 1 .. a = 1 .. b
  PROVE  a = b
<1>1. ~(a < b)
  <2>1. a < b => b \in 1 .. b /\ b \notin 1 .. a
    OBVIOUS
  <2>2. QED
    BY <2>1
<1>2. ~(b < a)
  <2>1. b < a => a \in 1 .. a /\ a \notin 1 .. b
    OBVIOUS
  <2>2. QED
    BY <2>1
<1>3. QED
  BY <1>1, <1>2

(* So is every order of the actions of a rule that is made. *)
LEMMA OrdersOrdered ==
  ASSUME NEW actions \in Rules, verify_flow_actions(actions), NEW order \in Orders(actions)
  PROVE  Ordered(actions, order)
<1> DEFINE L == Len(actions)
           D == DOMAIN actions
<1>1. actions \in Seq(flow_action)
  BY ActionsAssumption
<1>2. L \in Nat /\ D = 1 .. L
  BY <1>1
<1>3. PICK p \in Bijection(D, D) : order = [i \in D |-> actions[p[i]]]
  BY DEF Orders
<1>4. p \in [D -> D] /\ \A i \in D : \E n \in D : p[n] = i
  BY <1>3 DEF Bijection, Surjection
<1>5. \A n \in D : p[n] \in D /\ order[n] = actions[p[n]]
  BY <1>3, <1>4
<1>6. Len(order) = L
  <2>1. order = [i \in 1 .. L |-> actions[p[i]]] /\ \A i \in 1 .. L : actions[p[i]] \in flow_action
    BY <1>1, <1>2, <1>3, <1>5
  <2> HIDE DEF L
  <2>2. order \in [1 .. L -> flow_action]
    BY <2>1, Zenon
  <2>3. order \in Seq(flow_action)
    BY <1>2, <2>2
  <2>4. Len(order) \in Nat /\ DOMAIN order = 1 .. Len(order) /\ DOMAIN order = 1 .. L
    BY <2>2, <2>3
  <2> HIDE DEF D
  <2>5. QED
    BY <1>2, <2>4, SameEnd, Zenon
<1>7. \A n \in D : Known(order[n])
  BY <1>5, ActionKnown
<1>8. \A i, j \in D : actions[i].kind = actions[j].kind => i = j
  BY DEF verify_flow_actions
<1> HIDE DEF L, D
<1>9. 1 .. Len(order) = D
  BY <1>2, <1>6
<1>10. ASSUME NEW n \in D, NEW m \in D, order[n].kind = order[m].kind PROVE order[n] = order[m]
  <2>1. p[n] \in D /\ p[m] \in D /\ order[n] = actions[p[n]] /\ order[m] = actions[p[m]]
    BY <1>5
  <2>2. p[n] = p[m]
    BY <1>8, <1>10, <2>1
  <2>3. QED
    BY <2>1, <2>2
<1>11. ASSUME NEW i \in D PROVE \E n \in D : order[n] = actions[i]
  <2>1. PICK n \in D : p[n] = i
    BY <1>4
  <2>2. QED
    BY <1>5, <2>1
<1>12. \A n \in D : \E i \in D : order[n] = actions[i]
  BY <1>5, Zenon
<1>13. Len(order) \in Nat
  BY <1>2, <1>6
<1>14. QED
  BY <1>7, <1>9, <1>10, <1>11, <1>12, <1>13, Zenon DEF Ordered, D

(* The actions of a kind, and the one that counts. *)
OfKind(actions, kind)  == {i \in DOMAIN actions : actions[i].kind = kind}
FirstOf(actions, kind) == actions[CHOOSE i \in OfKind(actions, kind) : TRUE]

(* The action of a kind, if there is one, is in the order. *)
LEMMA Found ==
  ASSUME NEW actions, NEW order, Ordered(actions, order), NEW kind
  PROVE  \/ /\ OfKind(actions, kind) = {}
            /\ \A n \in 1 .. Len(order) : order[n].kind # kind
         \/ /\ OfKind(actions, kind) # {}
            /\ \E n \in 1 .. Len(order) : order[n].kind = kind /\ order[n] = FirstOf(actions, kind)
<1> DEFINE is == OfKind(actions, kind)
<1>0. \A i : i \in is <=> i \in DOMAIN actions /\ actions[i].kind = kind
  BY DEF OfKind
<1> HIDE DEF is
<1>1. CASE is = {}
  <2>1. ASSUME NEW n \in 1 .. Len(order) PROVE order[n].kind # kind
    <3>1. PICK i \in DOMAIN actions : order[n] = actions[i]
      BY Zenon DEF Ordered
    <3>2. i \notin is
      BY <1>1
    <3>3. QED
      BY <1>0, <3>1, <3>2
  <2>2. QED
    BY <1>1, <2>1 DEF is
<1>2. CASE is # {}
  <2> DEFINE c == CHOOSE i \in is : TRUE
  <2>1. c \in is /\ FirstOf(actions, kind) = actions[c]
    BY <1>2 DEF FirstOf, is
  <2> HIDE DEF c
  <2>2. c \in DOMAIN actions /\ actions[c].kind = kind
    BY <1>0, <2>1
  <2>3. PICK n \in 1 .. Len(order) : order[n] = actions[c]
    BY <2>2, Zenon DEF Ordered
  <2>4. order[n].kind = kind /\ order[n] = FirstOf(actions, kind)
    BY <2>1, <2>2, <2>3
  <2>5. QED
    BY <1>2, <2>4 DEF is
<1>3. QED
  BY <1>1, <1>2

(* The tag and the modifications of a rule are those of one of its         *)
(* actions, or there is none.                                              *)
TagFound(actions, order) ==
  \/ WantedTag(actions) = {} /\ \A n \in 1 .. Len(order) : order[n].kind # "tag"
  \/ \E n \in 1 .. Len(order) : order[n].kind = "tag" /\ WantedTag(actions) = order[n].id
ModifyFound(actions, order) ==
  \/ WantedModify(actions) = <<>> /\ \A n \in 1 .. Len(order) : order[n].kind # "modify"
  \/ \E n \in 1 .. Len(order) : order[n].kind = "modify" /\ WantedModify(actions) = order[n].actions

(* What the actions of a rule ask for, read off their order. *)
LEMMA WantedFound ==
  ASSUME NEW actions, NEW order, Ordered(actions, order), verify_flow_actions(actions)
  PROVE  /\ \E n \in 1 .. Len(order) : order[n].kind = "fwd" /\ Fwd(actions) = order[n]
         /\ TagFound(actions, order) /\ ModifyFound(actions, order)
<1>1. \E n \in 1 .. Len(order) : order[n].kind = "fwd" /\ Fwd(actions) = order[n]
  <2> DEFINE c == CHOOSE i \in DOMAIN actions : actions[i].kind = "fwd"
  <2>1. c \in DOMAIN actions /\ actions[c].kind = "fwd"
    BY DEF verify_flow_actions
  <2>2. Fwd(actions) = actions[c]
    BY DEF Fwd
  <2> HIDE DEF c
  <2>3. PICK n \in 1 .. Len(order) : order[n] = actions[c]
    BY <2>1, Zenon DEF Ordered
  <2>4. QED
    BY <2>1, <2>2, <2>3
<1>2. \/ WantedTag(actions) = {} /\ \A n \in 1 .. Len(order) : order[n].kind # "tag"
      \/ \E n \in 1 .. Len(order) : order[n].kind = "tag" /\ WantedTag(actions) = order[n].id
  <2>1. WantedTag(actions) = IF OfKind(actions, "tag") = {} THEN {} ELSE FirstOf(actions, "tag").id
    BY DEF WantedTag, Of, OfKind, FirstOf
  <2>2. QED
    BY <2>1, Found
<1>3. \/ WantedModify(actions) = <<>> /\ \A n \in 1 .. Len(order) : order[n].kind # "modify"
      \/ \E n \in 1 .. Len(order) : order[n].kind = "modify" /\ WantedModify(actions) = order[n].actions
  <2>1. WantedModify(actions) = IF OfKind(actions, "modify") = {} THEN <<>> ELSE FirstOf(actions, "modify").actions
    BY DEF WantedModify, Of, OfKind, FirstOf
  <2>2. QED
    BY <2>1, Found
<1>4. QED
  BY <1>1, <1>2, <1>3, Zenon DEF TagFound, ModifyFound

----------------------------------------------------------------------------
(* The root table. *)

(* The description after the actions from 1 to m, none of which failed. *)
Described(order, x, m, in) ==
  /\ in = [flow_id |-> in.flow_id, dst_obj |-> in.dst_obj, modify_actions |-> in.modify_actions]
  /\ \A n \in 1 .. m :
       /\ order[n].kind \in {"fwd", "tag", "modify"}
       /\ order[n].kind = "fwd" => in.dst_obj = order[n].dests
       /\ order[n].kind = "tag" => in.flow_id = order[n].id
       /\ order[n].kind = "modify" => /\ ModifySupported(order[n].actions)
                                      /\ in.modify_actions = <<prepare_flow_desc_buffs(order[n].actions, x)>>
  /\ (\A n \in 1 .. m : order[n].kind # "tag") => in.flow_id = {}
  /\ (\A n \in 1 .. m : order[n].kind # "modify") => in.modify_actions = <<>>

(* A turn of the loop keeps that so. *)
LEMMA RootTurn ==
  ASSUME NEW actions, NEW order, Ordered(actions, order), NEW x, NEW m \in Nat, m + 1 <= Len(order),
         NEW in, Described(order, x, m, in), NEW r, r = apply_root(in, order[m + 1], x), r.ret = "DPCP_OK"
  PROVE  Described(order, x, m + 1, r.in)
<1> DEFINE a == order[m + 1]
<1>1. /\ Len(order) \in Nat /\ m + 1 \in 1 .. Len(order) /\ \A n \in 1 .. m : n \in 1 .. Len(order)
      /\ \A n \in 1 .. m + 1 : n \in 1 .. m \/ n = m + 1
      /\ \A n \in 1 .. m : n \in 1 .. m + 1
  BY DEF Ordered
<1>2. \A n \in 1 .. m : order[n].kind = a.kind => order[n] = a
  BY <1>1, Zenon DEF Ordered
<1>3. r = apply_root(in, a, x)
  OBVIOUS
<1>4. a.kind \in {"fwd", "tag", "modify"}
  BY <1>3 DEF apply_root, Fail
<1>5. in = [flow_id |-> in.flow_id, dst_obj |-> in.dst_obj, modify_actions |-> in.modify_actions]
  BY DEF Described
<1>6. CASE a.kind = "fwd"
  <2>1. r = fwd_root(in, a)
    BY <1>3, <1>6 DEF apply_root
  <2>2. r.in = [in EXCEPT !.dst_obj = a.dests]
    BY <2>1 DEF fwd_root, Done, Fail
  <2>3. r.in = [flow_id |-> in.flow_id, dst_obj |-> a.dests, modify_actions |-> in.modify_actions]
    BY <1>5, <2>2
  <2> HIDE DEF a
  <2>4. QED
    BY <1>1, <1>2, <1>6, <2>3 DEF Described, a
<1>7. CASE a.kind = "tag"
  <2>1. r = Done(tag_root(in, a))
    BY <1>3, <1>7 DEF apply_root
  <2>2. r.in = [in EXCEPT !.flow_id = a.id]
    BY <2>1 DEF tag_root, Done
  <2>3. r.in = [flow_id |-> a.id, dst_obj |-> in.dst_obj, modify_actions |-> in.modify_actions]
    BY <1>5, <2>2
  <2> HIDE DEF a
  <2>4. QED
    BY <1>1, <1>2, <1>7, <2>3 DEF Described, a
<1>8. CASE a.kind = "modify"
  <2> DEFINE made == <<prepare_flow_desc_buffs(a.actions, x)>>
  <2>1. r = modify_root(in, a, x)
    BY <1>3, <1>8 DEF apply_root
  <2>2. r.in = [in EXCEPT !.modify_actions = made] /\ ModifySupported(a.actions)
    BY <2>1 DEF modify_root, Done, Fail
  <2> HIDE DEF made
  <2>3. r.in = [flow_id |-> in.flow_id, dst_obj |-> in.dst_obj, modify_actions |-> made]
    BY <1>5, <2>2
  <2> HIDE DEF a
  <2>4. QED
    BY <1>1, <1>2, <1>8, <2>2, <2>3 DEF Described, a, made
<1>9. QED
  BY <1>4, <1>6, <1>7, <1>8

----------------------------------------------------------------------------
(* Modifications of a packet. *)

(* What is written of the fields of a modification that sets, over g. *)
SetWritten == (0 .. 3) \cup (4 .. 15) \cup (19 .. 23) \cup (27 .. 31) \cup (32 .. 63)
SetBox(a, g) ==
  (g \ SetWritten) \cup DEVX_SET(F(0, 4), MLX5_ACTION_TYPE_SET) \cup DEVX_SET(F(4, 12), a.field)
  \cup DEVX_SET(F(19, 5), a.offset) \cup DEVX_SET(F(27, 5), a.length) \cup DEVX_SET(F(32, 32), a.data)

(* It is read back as it was meant. *)
LEMMA SetRead ==
  ASSUME NEW a, a \in modify_set_type, NEW g
  PROVE  ReadModify(SetBox(a, g)) = a
<1> DEFINE T1 == DEVX_SET(F(0, 4), MLX5_ACTION_TYPE_SET)
           T2 == DEVX_SET(F(4, 12), a.field)
           T3 == DEVX_SET(F(19, 5), a.offset)
           T4 == DEVX_SET(F(27, 5), a.length)
           T5 == DEVX_SET(F(32, 32), a.data)
           B == SetBox(a, g)
<1>1. /\ Span(0, 3, 4) /\ Span(4, 15, 12) /\ Span(19, 23, 5) /\ Span(27, 31, 5) /\ Span(32, 63, 32)
  BY DEF Span
<1>2. /\ T1 \subseteq 0 .. 3 /\ T2 \subseteq 4 .. 15 /\ T3 \subseteq 19 .. 23 /\ T4 \subseteq 27 .. 31
      /\ T5 \subseteq 32 .. 63
  BY <1>1, SetWithin
<1>3. B = (g \ SetWritten) \cup T1 \cup T2 \cup T3 \cup T4 \cup T5
  BY DEF SetBox
<1> HIDE DEF T1, T2, T3, T4, T5, B
<1>4. /\ \A x \in 0 .. 3 : x \in B <=> x \in T1
      /\ \A x \in 4 .. 15 : x \in B <=> x \in T2
      /\ \A x \in 19 .. 23 : x \in B <=> x \in T3
      /\ \A x \in 27 .. 31 : x \in B <=> x \in T4
  BY <1>2, <1>3 DEF SetWritten
<1>5. \A x \in 32 .. 63 : x \in B <=> x \in T5
  BY <1>2, <1>3 DEF SetWritten
<1>6. /\ Holds(0, 3, 4, MLX5_ACTION_TYPE_SET, B) /\ Holds(4, 15, 12, a.field, B)
      /\ Holds(19, 23, 5, a.offset, B) /\ Holds(27, 31, 5, a.length, B) /\ Holds(32, 63, 32, a.data, B)
  BY <1>4, <1>5, Zenon DEF Holds, T1, T2, T3, T4, T5
<1>7. /\ DEVX_GET(F(0, 4), B) = MLX5_ACTION_TYPE_SET \cap 0 .. 3
      /\ DEVX_GET(F(4, 12), B) = a.field \cap 0 .. 11 /\ DEVX_GET(F(19, 5), B) = a.offset \cap 0 .. 4
      /\ DEVX_GET(F(27, 5), B) = a.length \cap 0 .. 4 /\ DEVX_GET(F(32, 32), B) = a.data \cap 0 .. 31
  BY <1>1, <1>6, GetCut
<1>8. /\ a.field \subseteq 0 .. 11 /\ a.offset \subseteq 0 .. 4 /\ a.length \subseteq 0 .. 4
      /\ a.data \subseteq 0 .. 31
      /\ a = [type |-> "SET", field |-> a.field, offset |-> a.offset, length |-> a.length, data |-> a.data]
  BY DEF modify_set_type, Word
<1>9. MLX5_ACTION_TYPE_SET \cap 0 .. 3 = MLX5_ACTION_TYPE_SET
  BY DEF MLX5_ACTION_TYPE_SET
<1>10. /\ set_action_in.action_type = F(0, 4) /\ set_action_in.field = F(4, 12)
       /\ set_action_in.offset = F(19, 5) /\ set_action_in.length = F(27, 5) /\ set_action_in.data = F(32, 32)
  BY DEF set_action_in
<1>11. ReadModify(B) = flow_action_modify_set_attr(DEVX_GET(F(4, 12), B), DEVX_GET(F(19, 5), B),
                                                   DEVX_GET(F(27, 5), B), DEVX_GET(F(32, 32), B))
  BY <1>7, <1>9, <1>10 DEF ReadModify
<1>12. /\ DEVX_GET(F(4, 12), B) = a.field /\ DEVX_GET(F(19, 5), B) = a.offset
       /\ DEVX_GET(F(27, 5), B) = a.length /\ DEVX_GET(F(32, 32), B) = a.data
  BY <1>7, <1>8
<1>13. ReadModify(B) = a
  BY <1>8, <1>11, <1>12 DEF flow_action_modify_set_attr
<1>14. QED
  BY <1>13 DEF B

(* What the two tables write of such a modification. *)
LEMMA SetWrites ==
  ASSUME NEW a, NEW g
  PROVE  /\ a.type = "SET" => RootAction(a, g) = SetBox(a, g)
         /\ apply_modify_set_action(a) = SetBox(a, {})
<1>1. /\ modify_action.dst_action_type = F(0, 4) /\ modify_action.dst_field = F(4, 12)
      /\ modify_action.dst_offset = F(19, 5) /\ modify_action.dst_length = F(27, 5)
      /\ modify_action.src_data = F(32, 32)
  BY DEF modify_action
<1>2. /\ set_action_in.action_type = F(0, 4) /\ set_action_in.field = F(4, 12)
      /\ set_action_in.offset = F(19, 5) /\ set_action_in.length = F(27, 5) /\ set_action_in.data = F(32, 32)
  BY DEF set_action_in
<1>3. /\ Bits(F(0, 4)) = 0 .. 3 /\ Bits(F(4, 12)) = 4 .. 15 /\ Bits(F(19, 5)) = 19 .. 23
      /\ Bits(F(27, 5)) = 27 .. 31 /\ Bits(F(32, 32)) = 32 .. 63
  BY DEF Bits, F
<1> DEFINE T1 == DEVX_SET(F(0, 4), MLX5_ACTION_TYPE_SET)
           T2 == DEVX_SET(F(4, 12), a.field)
           T3 == DEVX_SET(F(19, 5), a.offset)
           T4 == DEVX_SET(F(27, 5), a.length)
           T5 == DEVX_SET(F(32, 32), a.data)
           none == {}
<1>4. ASSUME a.type = "SET" PROVE RootAction(a, g) = SetBox(a, g)
  <2>1. RootAction(a, g) = (g \ (Bits(F(0, 4)) \cup Bits(F(4, 12)) \cup Bits(F(19, 5)) \cup Bits(F(27, 5))
                                 \cup Bits(F(32, 32)))) \cup ((T1 \cup T2 \cup T3 \cup T4) \cup T5)
    BY <1>1, <1>4 DEF RootAction
  <2>2. Bits(F(0, 4)) \cup Bits(F(4, 12)) \cup Bits(F(19, 5)) \cup Bits(F(27, 5)) \cup Bits(F(32, 32)) = SetWritten
    BY <1>3, Zenon DEF SetWritten
  <2> HIDE DEF T1, T2, T3, T4, T5
  <2>3. RootAction(a, g) = (g \ SetWritten) \cup T1 \cup T2 \cup T3 \cup T4 \cup T5
    BY <2>1, <2>2
  <2>4. QED
    BY <2>3, Zenon DEF SetBox, T1, T2, T3, T4, T5
<1>5. apply_modify_set_action(a) = SetBox(a, none)
  <2>1. apply_modify_set_action(a) = T1 \cup T2 \cup T3 \cup T4 \cup T5
    BY <1>2 DEF apply_modify_set_action
  <2>2. SetBox(a, none) = (none \ SetWritten) \cup T1 \cup T2 \cup T3 \cup T4 \cup T5
    BY Zenon DEF SetBox
  <2> HIDE DEF T1, T2, T3, T4, T5
  <2>3. none \ SetWritten = {}
    OBVIOUS
  <2>4. QED
    BY <2>1, <2>2, <2>3
<1>6. QED
  BY <1>4, <1>5

(* A list of modifications that set is read back from the root table. *)
LEMMA RootListRead ==
  ASSUME NEW list, ModifyList(list), ModifySupported(list), ~Copies(list), NEW x
  PROVE  ReadList(prepare_flow_desc_buffs(list, x)) = list
<1> DEFINE L == Len(list)
           kinds == modify_set_type \cup modify_copy_type \cup modify_other_type
           box == prepare_flow_desc_buffs(list, x)
<1>1. list \in Seq(kinds)
  BY DEF ModifyList
<1> HIDE DEF kinds
<1>2. L \in Nat /\ DOMAIN list = 1 .. L /\ list = [i \in 1 .. L |-> list[i]]
      /\ \A i \in 1 .. L : list[i] \in kinds
  BY <1>1
<1>3. DOMAIN box = 1 .. L /\ \A i \in 1 .. L : box[i] = RootAction(list[i], x)
  BY <1>2 DEF prepare_flow_desc_buffs
<1>4. ASSUME NEW i \in 1 .. L PROVE ReadModify(box[i]) = list[i]
  <2>1. list[i].type = "SET"
    BY <1>2 DEF ModifySupported, Copies
  <2>2. list[i] \in modify_set_type
    BY <1>2, <2>1 DEF kinds, modify_copy_type, modify_other_type
  <2>3. QED
    BY <1>3, <2>1, <2>2, SetRead, SetWrites
<1> HIDE DEF box
<1>5. ReadList(box) = [i \in 1 .. L |-> ReadModify(box[i])]
  BY <1>3, Zenon DEF ReadList
<1>6. [i \in 1 .. L |-> ReadModify(box[i])] = [i \in 1 .. L |-> list[i]]
  BY <1>4
<1>7. QED
  BY <1>2, <1>5, <1>6 DEF box

(* The loop of flow_rule_ex_kernel::create ends with what its actions say. *)
LEMMA RootDescribed ==
  ASSUME NEW actions, NEW order, Ordered(actions, order), NEW x, NEW g,
         Runs("root", flow_desc, order, x, Len(order), g), g[Len(order)].ret = "DPCP_OK"
  PROVE  Described(order, x, Len(order), g[Len(order)].in)
<1> DEFINE L == Len(order)
           Good(m) == m <= L /\ g[m].ret = "DPCP_OK" => Described(order, x, m, g[m].in)
           T == {m \in Nat : Good(m)}
<1>1. L \in Nat
  BY DEF Ordered
<1>2. g[0] = Done(flow_desc) /\ \A n \in 1 .. L : g[n] = Turn("root", g[n - 1], order[n], x)
  BY <1>1 DEF Runs
<1>3. Good(0)
  <2>1. g[0].in = flow_desc
    BY <1>2 DEF Done
  <2>2. Described(order, x, 0, flow_desc)
    BY DEF Described, flow_desc
  <2>3. QED
    BY <2>1, <2>2
<1>4. ASSUME NEW m \in Nat, Good(m) PROVE Good(m + 1)
  <2> SUFFICES ASSUME m + 1 <= L, g[m + 1].ret = "DPCP_OK" PROVE Described(order, x, m + 1, g[m + 1].in)
    OBVIOUS
  <2>1. m + 1 \in 1 .. L /\ (m + 1) - 1 = m /\ m <= L
    BY <1>1
  <2>2. g[m + 1] = Turn("root", g[m], order[m + 1], x)
    BY <1>2, <2>1
  <2>3. g[m].ret = "DPCP_OK" /\ g[m + 1] = apply_root(g[m].in, order[m + 1], x)
    BY <2>2 DEF Turn
  <2>4. Described(order, x, m, g[m].in)
    BY <1>4, <2>1, <2>3
  <2>5. QED
    BY <2>3, <2>4, RootTurn
<1>5. 0 \in T /\ \A m \in Nat : m \in T => m + 1 \in T
  BY <1>3, <1>4
<1>6. Nat \subseteq T
  <2> HIDE DEF T
  <2>1. QED
    BY <1>5, NumberInduction
<1>7. Good(L)
  BY <1>1, <1>6
<1>8. QED
  BY <1>1, <1>7

(* What a rule of the root table may say of its actions. *)
RootTrue(actions, out) ==
  /\ out.ret = "DPCP_OK" =>
       /\ \A i \in DOMAIN actions : actions[i].kind \in {"fwd", "tag", "modify"}
       /\ out.dests = Fwd(actions).dests
       /\ out.tag = WantedTag(actions)
       /\ IF out.modify = <<>> THEN WantedModify(actions) = <<>>
          ELSE Copies(WantedModify(actions)) \/ ReadList(out.modify[1]) = WantedModify(actions)
  /\ (\A i \in DOMAIN actions : actions[i].kind # "modify") => out.left = {}

(* So does a flow made of a description that says what the actions say. *)
LEMMA FlowTrue ==
  ASSUME NEW actions, NEW order, Ordered(actions, order), verify_flow_actions(actions), NEW x, NEW step,
         NEW in, Described(order, x, Len(order), in)
  PROVE  RootTrue(actions, flow(in, step))
<1> DEFINE L == Len(order)
           out == flow(in, step)
           list == WantedModify(actions)
<1>1. L \in Nat
  BY DEF Ordered
<1>2. \A n \in 1 .. L : order[n].kind \in {"fwd", "tag", "modify"}
  BY DEF Described
<1>3. \A i \in DOMAIN actions : actions[i].kind \in {"fwd", "tag", "modify"}
  BY <1>2, Zenon DEF Ordered
<1>0. TagFound(actions, order) /\ ModifyFound(actions, order)
  BY WantedFound, Zenon
<1>4. in.dst_obj = Fwd(actions).dests
  <2>1. PICK n \in 1 .. L : order[n].kind = "fwd" /\ Fwd(actions) = order[n]
    BY WantedFound, Zenon
  <2>2. QED
    BY <2>1, Zenon DEF Described
<1>5. in.flow_id = WantedTag(actions)
  <2>1. CASE WantedTag(actions) = {} /\ \A n \in 1 .. L : order[n].kind # "tag"
    BY <2>1, Zenon DEF Described
  <2>2. CASE \E n \in 1 .. L : order[n].kind = "tag" /\ WantedTag(actions) = order[n].id
    BY <2>2, Zenon DEF Described
  <2>3. QED
    BY <1>0, <2>1, <2>2, Zenon DEF TagFound
<1>6. \/ in.modify_actions = <<>> /\ list = <<>>
      \/ /\ in.modify_actions = <<prepare_flow_desc_buffs(list, x)>>
         /\ ModifyList(list) /\ ModifySupported(list)
  <2>1. CASE list = <<>> /\ \A n \in 1 .. L : order[n].kind # "modify"
    BY <2>1 DEF Described
  <2>2. CASE \E n \in 1 .. L : order[n].kind = "modify" /\ list = order[n].actions
    <3>1. PICK n \in 1 .. L : order[n].kind = "modify" /\ list = order[n].actions
      BY <2>2
    <3>2. Known(order[n])
      BY DEF Ordered
    <3>3. ModifyList(list)
      BY <3>1, <3>2 DEF Known
    <3>4. ModifySupported(order[n].actions)
          /\ in.modify_actions = <<prepare_flow_desc_buffs(order[n].actions, x)>>
      BY <3>1, Zenon DEF Described
    <3>5. QED
      BY <3>1, <3>3, <3>4, Zenon
  <2>3. QED
    BY <1>0, <2>1, <2>2, Zenon DEF ModifyFound
<1>7. (\A i \in DOMAIN actions : actions[i].kind # "modify") => in.modify_actions = <<>>
  <2>1. (\A i \in DOMAIN actions : actions[i].kind # "modify") => \A n \in 1 .. L : order[n].kind # "modify"
    <3> SUFFICES ASSUME \A i \in DOMAIN actions : actions[i].kind # "modify", NEW n \in 1 .. L
                 PROVE  order[n].kind # "modify"
      OBVIOUS
    <3>1. PICK i \in DOMAIN actions : order[n] = actions[i]
      BY Zenon DEF Ordered
    <3>2. QED
      BY <3>1
  <2>2. QED
    BY <2>1 DEF Described
<1>8. in.modify_actions = <<>> => out.left = {}
  BY DEF flow, Refuse
<1>9. out.ret = "DPCP_OK" =>
        out.tag = in.flow_id /\ out.modify = in.modify_actions /\ out.dests = in.dst_obj
  BY DEF flow, Refuse
<1>10. in.modify_actions # <<>> => Copies(list) \/ ReadList(in.modify_actions[1]) = list
  <2> SUFFICES ASSUME in.modify_actions # <<>>, ~Copies(list) PROVE ReadList(in.modify_actions[1]) = list
    OBVIOUS
  <2> DEFINE made == prepare_flow_desc_buffs(list, x)
  <2>1. in.modify_actions = <<made>> /\ ModifyList(list) /\ ModifySupported(list)
    BY <1>6
  <2>2. ReadList(made) = list
    BY <2>1, RootListRead
  <2> HIDE DEF made
  <2>3. in.modify_actions[1] = made
    BY <2>1
  <2>4. QED
    BY <2>2, <2>3
<1>11. in.modify_actions = <<>> => list = <<>>
  BY <1>6
<1> HIDE DEF out, list
<1>12. RootTrue(actions, out)
  BY <1>3, <1>4, <1>5, <1>7, <1>8, <1>9, <1>10, <1>11 DEF RootTrue, list
<1>13. QED
  BY <1>12 DEF out

(* A call that asks for a rule of the root table. *)
LEMMA RootTold ==
  ASSUME NEW actions \in Rules, NEW order \in Orders(actions), NEW x, NEW step,
         create_rule_kernel(actions, order, x, step)
  PROVE  RootActs' /\ EntryActs'
<1> DEFINE r == LastRoot(flow_desc, order, x)
           out == IF ~verify_flow_actions(actions) THEN Refuse("DPCP_ERR_INVALID_PARAM", {})
                  ELSE IF r.ret # "DPCP_OK" THEN Refuse(r.ret, {}) ELSE flow(r.in, step)
<1>1. last'.op = "rule_kernel" /\ last'.in.actions = actions /\ last'.out = out
  BY Zenon DEF create_rule_kernel, Call, LastRoot, InOrder
<1>2. RootTrue(actions, out)
  <2>1. CASE ~verify_flow_actions(actions)
    BY <2>1, Zenon DEF RootTrue, Refuse
  <2>2. CASE verify_flow_actions(actions) /\ r.ret # "DPCP_OK"
    <3>1. out = Refuse(r.ret, {})
      BY <2>2
    <3> HIDE DEF r, out
    <3>2. out.ret = r.ret /\ out.left = {}
      BY <3>1 DEF Refuse
    <3>3. QED
      BY <2>2, <3>2 DEF RootTrue
  <2>3. CASE verify_flow_actions(actions) /\ r.ret = "DPCP_OK"
    <3>1. Ordered(actions, order)
      BY <2>3, OrdersOrdered
    <3>2. Len(order) \in Nat
      BY <3>1 DEF Ordered
    <3>3. PICK g : Runs("root", flow_desc, order, x, Len(order), g) /\ r = g[Len(order)]
      BY <3>2, RootLoop, Zenon
    <3>4. out = flow(r.in, step)
      BY <2>3
    <3> HIDE DEF r, out
    <3>5. Described(order, x, Len(order), r.in)
      BY <2>3, <3>1, <3>3, RootDescribed
    <3>6. QED
      BY <2>3, <3>1, <3>4, <3>5, FlowTrue
  <2>4. QED
    BY <2>1, <2>2, <2>3
<1> HIDE DEF r, out
<1>3. RootActs'
  BY <1>1, <1>2, Zenon DEF RootActs, RootTrue
<1>4. EntryActs'
  BY <1>1 DEF EntryActs, Made
<1>5. QED
  BY <1>3, <1>4

(* What is written of a modification that copies. *)
CopyBox(a) ==
  DEVX_SET(F(0, 4), MLX5_ACTION_TYPE_COPY) \cup DEVX_SET(F(4, 12), a.src_field)
  \cup DEVX_SET(F(19, 5), a.src_offset) \cup DEVX_SET(F(27, 5), a.length)
  \cup DEVX_SET(F(36, 12), a.dst_field) \cup DEVX_SET(F(51, 5), a.dst_offset)

(* It is read back as it was meant from an ordinary table. *)
LEMMA CopyRead ==
  ASSUME NEW a, a \in modify_copy_type
  PROVE  ReadModify(apply_modify_copy_action(a)) = a
<1> DEFINE T1 == DEVX_SET(F(0, 4), MLX5_ACTION_TYPE_COPY)
           T2 == DEVX_SET(F(4, 12), a.src_field)
           T3 == DEVX_SET(F(19, 5), a.src_offset)
           T4 == DEVX_SET(F(27, 5), a.length)
           T5 == DEVX_SET(F(36, 12), a.dst_field)
           T6 == DEVX_SET(F(51, 5), a.dst_offset)
           B == CopyBox(a)
<1>0. /\ copy_action_in.action_type = F(0, 4) /\ copy_action_in.src_field = F(4, 12)
      /\ copy_action_in.src_offset = F(19, 5) /\ copy_action_in.length = F(27, 5)
      /\ copy_action_in.dst_field = F(36, 12) /\ copy_action_in.dst_offset = F(51, 5)
      /\ set_action_in.action_type = F(0, 4)
  BY DEF copy_action_in, set_action_in
<1>1. /\ Span(0, 3, 4) /\ Span(4, 15, 12) /\ Span(19, 23, 5) /\ Span(27, 31, 5) /\ Span(36, 47, 12)
      /\ Span(51, 55, 5)
  BY DEF Span
<1>2. /\ T1 \subseteq 0 .. 3 /\ T2 \subseteq 4 .. 15 /\ T3 \subseteq 19 .. 23 /\ T4 \subseteq 27 .. 31
      /\ T5 \subseteq 36 .. 47 /\ T6 \subseteq 51 .. 55
  BY <1>1, SetWithin
<1>3. B = T1 \cup T2 \cup T3 \cup T4 \cup T5 \cup T6
  BY DEF CopyBox
<1> HIDE DEF T1, T2, T3, T4, T5, T6, B
<1>4. /\ \A x \in 0 .. 3 : x \in B <=> x \in T1
      /\ \A x \in 4 .. 15 : x \in B <=> x \in T2
      /\ \A x \in 19 .. 23 : x \in B <=> x \in T3
      /\ \A x \in 27 .. 31 : x \in B <=> x \in T4
  BY <1>2, <1>3
<1>5. /\ \A x \in 36 .. 47 : x \in B <=> x \in T5
      /\ \A x \in 51 .. 55 : x \in B <=> x \in T6
  BY <1>2, <1>3
<1>6. /\ Holds(0, 3, 4, MLX5_ACTION_TYPE_COPY, B) /\ Holds(4, 15, 12, a.src_field, B)
      /\ Holds(19, 23, 5, a.src_offset, B) /\ Holds(27, 31, 5, a.length, B)
      /\ Holds(36, 47, 12, a.dst_field, B) /\ Holds(51, 55, 5, a.dst_offset, B)
  BY <1>4, <1>5, Zenon DEF Holds, T1, T2, T3, T4, T5, T6
<1>7. /\ DEVX_GET(F(0, 4), B) = MLX5_ACTION_TYPE_COPY \cap 0 .. 3
      /\ DEVX_GET(F(4, 12), B) = a.src_field \cap 0 .. 11 /\ DEVX_GET(F(19, 5), B) = a.src_offset \cap 0 .. 4
      /\ DEVX_GET(F(27, 5), B) = a.length \cap 0 .. 4 /\ DEVX_GET(F(36, 12), B) = a.dst_field \cap 0 .. 11
      /\ DEVX_GET(F(51, 5), B) = a.dst_offset \cap 0 .. 4
  BY <1>1, <1>6, GetCut
<1>8. /\ a.src_field \subseteq 0 .. 11 /\ a.src_offset \subseteq 0 .. 4 /\ a.length \subseteq 0 .. 4
      /\ a.dst_field \subseteq 0 .. 11 /\ a.dst_offset \subseteq 0 .. 4
      /\ a = [type |-> "COPY", src_field |-> a.src_field, src_offset |-> a.src_offset, length |-> a.length,
              dst_field |-> a.dst_field, dst_offset |-> a.dst_offset]
  BY DEF modify_copy_type, Word
<1>9. MLX5_ACTION_TYPE_COPY \cap 0 .. 3 # MLX5_ACTION_TYPE_SET
  <2>1. 1 \in MLX5_ACTION_TYPE_COPY /\ 1 \in 0 .. 3 /\ 1 \notin MLX5_ACTION_TYPE_SET
    BY DEF MLX5_ACTION_TYPE_SET, MLX5_ACTION_TYPE_COPY
  <2> DEFINE four == 0 .. 3
  <2>2. 1 \in four
    BY <2>1
  <2> HIDE DEF four
  <2>3. MLX5_ACTION_TYPE_COPY \cap four # MLX5_ACTION_TYPE_SET
    BY <2>1, <2>2
  <2>4. QED
    BY <2>3 DEF four
<1>10. ReadModify(B) = flow_action_modify_copy_attr(DEVX_GET(F(4, 12), B), DEVX_GET(F(19, 5), B),
                          DEVX_GET(F(27, 5), B), DEVX_GET(F(36, 12), B), DEVX_GET(F(51, 5), B))
  BY <1>0, <1>7, <1>9 DEF ReadModify
<1>11. /\ DEVX_GET(F(4, 12), B) = a.src_field /\ DEVX_GET(F(19, 5), B) = a.src_offset
       /\ DEVX_GET(F(27, 5), B) = a.length /\ DEVX_GET(F(36, 12), B) = a.dst_field
       /\ DEVX_GET(F(51, 5), B) = a.dst_offset
  BY <1>7, <1>8
<1>12. ReadModify(B) = a
  BY <1>8, <1>10, <1>11 DEF flow_action_modify_copy_attr
<1>13. apply_modify_copy_action(a) = B
  BY <1>0 DEF apply_modify_copy_action, B, CopyBox
<1>14. QED
  BY <1>12, <1>13

(* Members of a list that all lie inside its command. *)
LEMMA AllInside ==
  ASSUME NEW S, NEW list, list \in Seq(S), NEW n \in Nat, Len(list) = n, NEW inlen \in Nat, NEW fixed \in Nat,
         NEW size \in Nat, n <= (inlen - fixed) \div size
  PROVE  Inside(list, n, inlen, fixed, size) = list
<1>1. Inside(list, n, inlen, fixed, size) = SubSeq(list, 1, n)
  BY DEF Inside
<1>2. SubSeq(list, 1, Len(list)) = list
  OBVIOUS
<1>3. QED
  BY <1>1, <1>2

(* A list of modifications is read back from an ordinary table. *)
LEMMA ListRead ==
  ASSUME NEW list, ModifyList(list), ModifySupported(list), Len(list) < 256,
         NEW m, m = prepare_prm_modify_buff(list)
  PROVE  ReadList(Inside(m.actions, m.num_of_actions, m.inlen, alloc_modify_header_context_in_SZ,
                         set_add_copy_action_in_auto_SZ)) = list
<1> DEFINE L == Len(list)
           kinds == modify_set_type \cup modify_copy_type \cup modify_other_type
           one(i) == IF list[i].type = "SET" THEN apply_modify_set_action(list[i])
                     ELSE apply_modify_copy_action(list[i])
           box == [i \in 1 .. L |-> one(i)]
<1>1. list \in Seq(kinds)
  BY DEF ModifyList
<1> HIDE DEF kinds
<1>2. L \in Nat /\ DOMAIN list = 1 .. L /\ list = [i \in 1 .. L |-> list[i]]
      /\ \A i \in 1 .. L : list[i] \in kinds
  BY <1>1
<1>3. m.actions = box /\ m.num_of_actions = L % 2^8 /\ m.inlen = 16 + 8 * L
  BY <1>2 DEF prepare_prm_modify_buff, alloc_modify_header_context_in_SZ, set_add_copy_action_in_auto_SZ
<1>4. ASSUME NEW i \in 1 .. L PROVE ReadModify(box[i]) = list[i]
  <2>1. box[i] = one(i)
    OBVIOUS
  <2>2. list[i] \in kinds /\ (list[i].type = "SET" \/ list[i].type = "COPY")
    BY <1>2 DEF ModifySupported
  <2>3. CASE list[i].type = "SET"
    <3>1. list[i] \in modify_set_type
      BY <2>2, <2>3 DEF kinds, modify_copy_type, modify_other_type
    <3>2. QED
      BY <2>1, <2>3, <3>1, SetRead, SetWrites
  <2>4. CASE list[i].type = "COPY"
    <3>1. list[i] \in modify_copy_type
      BY <2>2, <2>4 DEF kinds, modify_set_type, modify_other_type
    <3>2. QED
      BY <2>1, <2>4, <3>1, CopyRead
  <2>5. QED
    BY <2>2, <2>3, <2>4
<1>5. L % 2^8 = L
  <2>1. 2^8 = 256
    OBVIOUS
  <2>2. L < 2^8 /\ 2^8 \in Nat
    BY <2>1
  <2>3. QED
    BY <1>2, <2>2, SmallRest, Zenon
<1> DEFINE boxes == {one(i) : i \in 1 .. L}
<1>6. box \in Seq(boxes) /\ Len(box) = L
  <2> HIDE DEF one
  <2>1. box \in [1 .. L -> boxes]
    OBVIOUS
  <2>2. QED
    BY <1>2, <2>1
<1> HIDE DEF box, boxes
<1>7. Inside(box, L, 16 + 8 * L, 16, 8) = box
  <2>1. L <= ((16 + 8 * L) - 16) \div 8 /\ 16 + 8 * L \in Nat
    BY <1>2
  <2>2. QED
    BY <1>2, <1>6, <2>1, AllInside
<1>8. ReadList(box) = [i \in 1 .. L |-> ReadModify(box[i])]
  <2>1. DOMAIN box = 1 .. L
    BY DEF box
  <2>2. QED
    BY <2>1, Zenon DEF ReadList
<1>9. [i \in 1 .. L |-> ReadModify(box[i])] = [i \in 1 .. L |-> list[i]]
  BY <1>4
<1>10. Inside(m.actions, m.num_of_actions, m.inlen, alloc_modify_header_context_in_SZ,
              set_add_copy_action_in_auto_SZ) = box
  BY <1>3, <1>5, <1>7 DEF alloc_modify_header_context_in_SZ, set_add_copy_action_in_auto_SZ
<1>11. QED
  BY <1>2, <1>8, <1>9, <1>10

----------------------------------------------------------------------------
(* The flow context of an entry. *)
Flags(c) == DEVX_GET(F(112, 16), c)
Size(c)  == DEVX_GET(F(136, 24), c)
Mark(c)  == DEVX_GET(F(72, 24), c)

WithSize(c, v)     == c \cup DEVX_SET(F(136, 24), v)
WithMark(c, v)     == c \cup DEVX_SET(F(72, 24), v)
WithReformat(c, v) == c \cup DEVX_SET(F(192, 32), v)
WithModify(c, v)   == c \cup DEVX_SET(F(224, 32), v)

(* A field of two boxes together. *)
LEMMA GetUnion ==
  ASSUME NEW f, NEW b, NEW c
  PROVE  DEVX_GET(f, b \cup c) = DEVX_GET(f, b) \cup DEVX_GET(f, c)
BY Zenon DEF DEVX_GET

(* What two boxes agree on in the bits of a field is read alike. *)
LEMMA GetAlike ==
  ASSUME NEW at, NEW hi, NEW w, Span(at, hi, w), NEW b, NEW c, \A x \in at .. hi : x \in b <=> x \in c
  PROVE  DEVX_GET(F(at, w), b) = DEVX_GET(F(at, w), c)
<1>1. \A i \in 0 .. (w - 1) : at + w - 1 - i \in at .. hi
  BY DEF Span
<1>2. \A i \in 0 .. (w - 1) : (at + w - 1 - i \in b) <=> (at + w - 1 - i \in c)
  BY <1>1
<1>3. DEVX_GET(F(at, w), b) = {i \in 0 .. (w - 1) : at + w - 1 - i \in b}
  BY DEF DEVX_GET, Place, F
<1>4. DEVX_GET(F(at, w), c) = {i \in 0 .. (w - 1) : at + w - 1 - i \in c}
  BY DEF DEVX_GET, Place, F
<1>5. QED
  BY <1>2, <1>3, <1>4

(* A field of a box that another field was added to. *)
LEMMA Added ==
  ASSUME NEW c, NEW v
  PROVE  /\ /\ Flags(WithSize(c, v)) = Flags(c)
            /\ Size(WithSize(c, v)) = Size(c) \cup (v \cap 0 .. 23)
            /\ Mark(WithSize(c, v)) = Mark(c)
         /\ /\ Flags(WithMark(c, v)) = Flags(c)
            /\ Size(WithMark(c, v)) = Size(c)
            /\ Mark(WithMark(c, v)) = Mark(c) \cup (v \cap 0 .. 23)
         /\ /\ Flags(WithReformat(c, v)) = Flags(c)
            /\ Size(WithReformat(c, v)) = Size(c)
            /\ Mark(WithReformat(c, v)) = Mark(c)
         /\ /\ Flags(WithModify(c, v)) = Flags(c)
            /\ Size(WithModify(c, v)) = Size(c)
            /\ Mark(WithModify(c, v)) = Mark(c)
<1> DEFINE N == DEVX_SET(F(136, 24), v)
           T == DEVX_SET(F(72, 24), v)
           R == DEVX_SET(F(192, 32), v)
           M == DEVX_SET(F(224, 32), v)
<1>1. /\ Span(112, 127, 16) /\ Span(136, 159, 24) /\ Span(72, 95, 24) /\ Span(192, 223, 32)
      /\ Span(224, 255, 32)
  BY DEF Span
<1>2. N \subseteq 136 .. 159 /\ T \subseteq 72 .. 95 /\ R \subseteq 192 .. 223 /\ M \subseteq 224 .. 255
  BY <1>1, SetWithin
<1>3. /\ Holds(136, 159, 24, v, N) /\ Holds(72, 95, 24, v, T)
  BY DEF Holds
<1>4. Size(N) = v \cap 0 .. 23 /\ Mark(T) = v \cap 0 .. 23
  BY <1>1, <1>3, GetCut DEF Size, Mark
<1>5. Size(c \cup N) = Size(c) \cup Size(N) /\ Mark(c \cup T) = Mark(c) \cup Mark(T)
  BY GetUnion DEF Size, Mark
<1> HIDE DEF N, T, R, M
<1>6. /\ \A x \in 112 .. 127 : x \in c \cup N <=> x \in c
      /\ \A x \in 112 .. 127 : x \in c \cup T <=> x \in c
      /\ \A x \in 112 .. 127 : x \in c \cup R <=> x \in c
      /\ \A x \in 112 .. 127 : x \in c \cup M <=> x \in c
  BY <1>2
<1>7. /\ \A x \in 136 .. 159 : x \in c \cup T <=> x \in c
      /\ \A x \in 136 .. 159 : x \in c \cup R <=> x \in c
      /\ \A x \in 136 .. 159 : x \in c \cup M <=> x \in c
  BY <1>2
<1>8. /\ \A x \in 72 .. 95 : x \in c \cup N <=> x \in c
      /\ \A x \in 72 .. 95 : x \in c \cup R <=> x \in c
      /\ \A x \in 72 .. 95 : x \in c \cup M <=> x \in c
  BY <1>2
<1>9. /\ Flags(c \cup N) = Flags(c) /\ Flags(c \cup T) = Flags(c) /\ Flags(c \cup R) = Flags(c)
      /\ Flags(c \cup M) = Flags(c)
  BY <1>1, <1>6, GetAlike DEF Flags
<1>10. Size(c \cup T) = Size(c) /\ Size(c \cup R) = Size(c) /\ Size(c \cup M) = Size(c)
  BY <1>1, <1>7, GetAlike DEF Size
<1>11. Mark(c \cup N) = Mark(c) /\ Mark(c \cup R) = Mark(c) /\ Mark(c \cup M) = Mark(c)
  BY <1>1, <1>8, GetAlike DEF Mark
<1>12. WithSize(c, v) = c \cup N /\ WithMark(c, v) = c \cup T /\ WithReformat(c, v) = c \cup R
       /\ WithModify(c, v) = c \cup M
  BY Zenon DEF N, T, R, M, WithSize, WithMark, WithReformat, WithModify
<1>13. QED
  BY <1>4, <1>5, <1>9, <1>10, <1>11, <1>12

(* A flag is added to those that are set; nothing else changes. *)
LEMMA Enabled ==
  ASSUME NEW c, NEW f \in 0 .. 15
  PROVE  /\ Flags(Enable(c, f)) = Flags(c) \cup {f}
         /\ Size(Enable(c, f)) = Size(c) /\ Mark(Enable(c, f)) = Mark(c)
<1> DEFINE v == Flags(c) \cup {f}
           A == DEVX_SET(F(112, 16), v)
           C == c \ (112 .. 127)
           E == Enable(c, f)
<1>1. Span(112, 127, 16) /\ Span(136, 159, 24) /\ Span(72, 95, 24)
  BY DEF Span
<1>2. flow_context.action = F(112, 16) /\ Bits(F(112, 16)) = 112 .. 127
  BY DEF flow_context, Bits, F
<1>3. E = C \cup A
  BY <1>2 DEF Enable, Flags
<1>4. A \subseteq 112 .. 127
  BY <1>1, SetWithin
<1>5. v \subseteq 0 .. 15
  BY DEF Flags, DEVX_GET, F
<1>6. \A x \in 112 .. 127 : x \in E <=> x \in A
  <2> HIDE DEF A, E
  <2>1. QED
    BY <1>3, <1>4
<1>7. Holds(112, 127, 16, v, E)
  BY <1>6 DEF Holds
<1>8. Flags(E) = v \cap 0 .. 15
  BY <1>1, <1>7, GetCut DEF Flags
<1>9. /\ \A x \in 136 .. 159 : x \in E <=> x \in c
      /\ \A x \in 72 .. 95 : x \in E <=> x \in c
  <2> HIDE DEF A, E
  <2>1. QED
    BY <1>3, <1>4
<1>10. Size(E) = Size(c) /\ Mark(E) = Mark(c)
  BY <1>1, <1>9, GetAlike DEF Size, Mark
<1>11. Flags(E) = v
  <2> HIDE DEF v, E
  <2>1. QED
    BY <1>5, <1>8, Zenon
<1>12. QED
  BY <1>10, <1>11

(* One of the first m actions is of the kind. *)
Has(order, m, kind) == \E n \in 1 .. m : order[n].kind = kind

(* What the command holds once the first m actions were applied. *)
Filled(actions, order, m, in) ==
  /\ in = [inlen |-> in.inlen, ctx |-> in.ctx, destination |-> in.destination, modify |-> in.modify,
           reformat |-> in.reformat]
  /\ in.inlen = set_fte_in_SZ + dest_format_struct_SZ * Len(Fwd(actions).dests)
  /\ 2 \in Flags(in.ctx) <=> Has(order, m, "fwd")
  /\ 4 \in Flags(in.ctx) <=> Has(order, m, "reformat")
  /\ 6 \in Flags(in.ctx) <=> Has(order, m, "modify")
  /\ 15 \in Flags(in.ctx) <=> Has(order, m, "reparse")
  /\ ~Has(order, m, "tag") => Mark(in.ctx) = {}
  /\ ~Has(order, m, "fwd") => Size(in.ctx) = {}
  /\ \A n \in 1 .. m :
       /\ order[n].kind = "fwd" =>
            /\ in.destination = [i \in DOMAIN order[n].dests |-> Destination(order[n].dests[i])]
            /\ Size(in.ctx) = Bin(Len(order[n].dests))
       /\ order[n].kind = "tag" => Mark(in.ctx) = order[n].id \cap 0 .. 23
       /\ order[n].kind = "modify" => /\ ModifySupported(order[n].actions)
                                      /\ in.modify = prepare_prm_modify_buff(order[n].actions)
       /\ order[n].kind = "reformat" => in.reformat = alloc_reformat_insert_action(order[n].attr)

(* Another action: of the kinds there were, and its own. *)
LEMMA HasNext ==
  ASSUME NEW order, NEW m \in Nat, NEW kind
  PROVE  /\ Has(order, m + 1, kind) <=> Has(order, m, kind) \/ order[m + 1].kind = kind
         /\ \A n \in 1 .. m + 1 : n \in 1 .. m \/ n = m + 1
<1>1. \A n \in 1 .. m + 1 : n \in 1 .. m \/ n = m + 1
  OBVIOUS
<1>2. \A n \in 1 .. m : n \in 1 .. m + 1
  OBVIOUS
<1>3. m + 1 \in 1 .. m + 1
  OBVIOUS
<1>4. QED
  BY <1>1, <1>2, <1>3, Zenon DEF Has

(* The command before any action. *)
LEMMA FilledFirst ==
  ASSUME NEW actions, NEW order
  PROVE  Filled(actions, order, 0, alloc_in_buff(actions))
<1> DEFINE in == alloc_in_buff(actions)
           none == {}
<1>1. \A kind : ~Has(order, 0, kind)
  BY DEF Has
<1>2. Flags(none) = {} /\ Size(none) = {} /\ Mark(none) = {}
  BY DEF Flags, Size, Mark, DEVX_GET
<1>3. in.ctx = none /\ in.inlen = set_fte_in_SZ + dest_format_struct_SZ * Len(Fwd(actions).dests)
      /\ in = [inlen |-> in.inlen, ctx |-> in.ctx, destination |-> in.destination, modify |-> in.modify,
               reformat |-> in.reformat]
  BY DEF alloc_in_buff
<1>4. \A n : n \notin 1 .. 0
  OBVIOUS
<1> HIDE DEF in, none
<1>5. Filled(actions, order, 0, in)
  BY <1>1, <1>2, <1>3, <1>4 DEF Filled
<1>6. QED
  BY <1>5 DEF in

(* Applying an action adds what it says. *)
LEMMA PrmTurn ==
  ASSUME NEW actions, NEW order, Ordered(actions, order), NEW x, NEW m \in Nat, m + 1 <= Len(order),
         NEW in, Filled(actions, order, m, in), NEW r, r = apply_prm(in, order[m + 1], x), r.ret = "DPCP_OK"
  PROVE  Filled(actions, order, m + 1, r.in)
<1> DEFINE a == order[m + 1]
           c == in.ctx
<1>1. /\ Len(order) \in Nat /\ m + 1 \in 1 .. Len(order) /\ \A n \in 1 .. m : n \in 1 .. Len(order)
  BY DEF Ordered
<1>2. \A n \in 1 .. m : order[n].kind = a.kind => order[n] = a
  BY <1>1, Zenon DEF Ordered
<1>3. Known(a)
  BY <1>1, Zenon DEF Ordered
<1>4. a.kind \in {"fwd", "tag", "modify", "reformat", "reparse"}
  BY <1>3 DEF Known
<1>5. r = apply_prm(in, a, x)
  OBVIOUS
<1>6. in = [inlen |-> in.inlen, ctx |-> c, destination |-> in.destination, modify |-> in.modify,
            reformat |-> in.reformat]
  BY DEF Filled
<1>7. \A kind : Has(order, m + 1, kind) <=> Has(order, m, kind) \/ a.kind = kind
  BY HasNext
<1>8. \A n \in 1 .. m + 1 : n \in 1 .. m \/ n = m + 1
  BY HasNext
<1>9. \A kind : Has(order, m, kind) <=> \E n \in 1 .. m : order[n].kind = kind
  BY DEF Has
<1>10. /\ flow_context.action = F(112, 16) /\ flow_context.flow_tag = F(72, 24)
       /\ flow_context.destination_list_size = F(136, 24) /\ flow_context.packet_reformat_id = F(192, 32)
       /\ flow_context.modify_header_id = F(224, 32)
  BY DEF flow_context
<1>11. /\ MLX5_FLOW_CONTEXT_ACTION_FWD_DEST = 2 /\ MLX5_FLOW_CONTEXT_ACTION_PACKET_REFORMAT = 4
       /\ MLX5_FLOW_CONTEXT_ACTION_MOD_HDR = 6 /\ MLX5_FLOW_CONTEXT_ACTION_REPARSE = 15
       /\ 2 \in 0 .. 15 /\ 4 \in 0 .. 15 /\ 6 \in 0 .. 15 /\ 15 \in 0 .. 15
  BY DEF MLX5_FLOW_CONTEXT_ACTION_FWD_DEST, MLX5_FLOW_CONTEXT_ACTION_PACKET_REFORMAT,
         MLX5_FLOW_CONTEXT_ACTION_MOD_HDR, MLX5_FLOW_CONTEXT_ACTION_REPARSE
<1>12. CASE a.kind = "fwd"
  <2> DEFINE e == Enable(c, 2)
             n1 == Bin(Len(a.dests))
             d == WithSize(e, n1)
             to == [i \in DOMAIN a.dests |-> Destination(a.dests[i])]
  <2>1. r = fwd_apply(in, a)
    BY <1>5, <1>12 DEF apply_prm
  <2>2. r.in = [in EXCEPT !.destination = to, !.ctx = d]
    BY <1>10, <1>11, <2>1 DEF fwd_apply, Done, Fail, WithSize
  <2>3. r.in = [inlen |-> in.inlen, ctx |-> d, destination |-> to, modify |-> in.modify,
                reformat |-> in.reformat]
    <3> HIDE DEF to, d
    <3>1. QED
      BY <1>6, <2>2, Zenon
  <2>4. n1 \cap 0 .. 23 = n1
    BY DEF Bin
  <2>5. Flags(d) = Flags(c) \cup {2} /\ Size(d) = Size(c) \cup n1 /\ Mark(d) = Mark(c)
    <3>1. Flags(e) = Flags(c) \cup {2} /\ Size(e) = Size(c) /\ Mark(e) = Mark(c)
      BY <1>11, Enabled
    <3> HIDE DEF n1, e
    <3>2. Flags(d) = Flags(e) /\ Size(d) = Size(e) \cup (n1 \cap 0 .. 23) /\ Mark(d) = Mark(e)
      BY Added
    <3>3. QED
      BY <2>4, <3>1, <3>2, Zenon
  <2>6. Size(c) \cup n1 = n1
    <3>1. CASE Has(order, m, "fwd")
      <4>1. PICK n \in 1 .. m : order[n].kind = "fwd"
        BY <3>1, <1>9
      <4>2. order[n] = a
        BY <1>2, <1>12, <4>1
      <4>3. Size(c) = n1
        BY <4>1, <4>2 DEF Filled
      <4>4. QED
        BY <4>3
    <3>2. CASE ~Has(order, m, "fwd")
      <4>1. Size(c) = {}
        BY <3>2 DEF Filled
      <4>2. QED
        BY <4>1
    <3>3. QED
      BY <3>1, <3>2
  <2>7. to = [i \in DOMAIN a.dests |-> Destination(a.dests[i])] /\ n1 = Bin(Len(a.dests))
    OBVIOUS
  <2>8. \A n \in 1 .. m + 1 : order[n].kind = "fwd" => order[n] = a
    BY <1>2, <1>8, <1>12
  <2> HIDE DEF a, d, n1, to
  <2>9. /\ r.in = [inlen |-> r.in.inlen, ctx |-> r.in.ctx, destination |-> r.in.destination,
                   modify |-> r.in.modify, reformat |-> r.in.reformat]
        /\ r.in.inlen = in.inlen /\ r.in.ctx = d /\ r.in.destination = to /\ r.in.modify = in.modify
        /\ r.in.reformat = in.reformat
    <3>1. EntryOf(r.in, in.inlen, d, to, in.modify, in.reformat)
      BY <2>3, Zenon DEF EntryOf
    <3>2. EntryHas(r.in, in.inlen, d, to, in.modify, in.reformat)
      BY <3>1, EntryParts, Zenon
    <3>3. QED
      BY <3>2, Zenon DEF EntryHas
  <2>10. \A n \in 1 .. m + 1 : order[n].kind # "fwd" => n \in 1 .. m
    BY <1>8, <1>12 DEF a
  <2>11. Flags(d) = Flags(c) \cup {2} /\ Size(d) = n1 /\ Mark(d) = Mark(c)
    BY <2>5, <2>6
  <2>12. /\ 4 \in Flags(d) <=> 4 \in Flags(c)
         /\ 6 \in Flags(d) <=> 6 \in Flags(c)
         /\ 15 \in Flags(d) <=> 15 \in Flags(c)
         /\ 2 \in Flags(d)
    BY <2>11
  <2>13. /\ Has(order, m + 1, "fwd")
         /\ Has(order, m + 1, "reformat") <=> Has(order, m, "reformat")
         /\ Has(order, m + 1, "modify") <=> Has(order, m, "modify")
         /\ Has(order, m + 1, "reparse") <=> Has(order, m, "reparse")
         /\ Has(order, m + 1, "tag") <=> Has(order, m, "tag")
    BY <1>7, <1>12
  <2>14. \A n \in 1 .. m + 1 : order[n].kind = "fwd" =>
           /\ to = [i \in DOMAIN order[n].dests |-> Destination(order[n].dests[i])]
           /\ Size(d) = Bin(Len(order[n].dests))
    BY <2>7, <2>8, <2>11, Zenon
  <2>15. Filled(actions, order, m + 1, r.in)
    BY <2>9, <2>10, <2>11, <2>12, <2>13, <2>14, Zenon DEF Filled
  <2>16. QED
    BY <2>15
<1>13. CASE a.kind = "tag"
  <2> DEFINE d == WithMark(c, a.id)
             n1 == a.id \cap 0 .. 23
  <2>1. r = tag_apply(in, a)
    BY <1>5, <1>13 DEF apply_prm
  <2>2. r.in = [in EXCEPT !.ctx = d]
    BY <1>10, <2>1 DEF tag_apply, Done, WithMark
  <2>3. r.in = [inlen |-> in.inlen, ctx |-> d, destination |-> in.destination, modify |-> in.modify,
                reformat |-> in.reformat]
    <3> HIDE DEF d
    <3>1. QED
      BY <1>6, <2>2
  <2>4. Flags(d) = Flags(c) /\ Size(d) = Size(c) /\ Mark(d) = Mark(c) \cup n1
    BY Added, Zenon
  <2>5. Mark(c) \cup n1 = n1
    <3>1. CASE Has(order, m, "tag")
      <4>1. PICK n \in 1 .. m : order[n].kind = "tag"
        BY <3>1, <1>9
      <4>2. order[n] = a
        BY <1>2, <1>13, <4>1
      <4>3. Mark(c) = n1
        BY <4>1, <4>2 DEF Filled
      <4>4. QED
        BY <4>3
    <3>2. CASE ~Has(order, m, "tag")
      <4>1. Mark(c) = {}
        BY <3>2 DEF Filled
      <4>2. QED
        BY <4>1
    <3>3. QED
      BY <3>1, <3>2
  <2>6. n1 = a.id \cap 0 .. 23
    OBVIOUS
  <2> HIDE DEF a, d, n1
  <2>7. Filled(actions, order, m + 1, r.in)
    BY <1>2, <1>7, <1>8, <1>13, <2>3, <2>4, <2>5, <2>6 DEF Filled, a
  <2>8. QED
    BY <2>7
<1>14. CASE a.kind = "modify"
  <2> DEFINE d == WithModify(Enable(c, 6), One)
             to == prepare_prm_modify_buff(a.actions)
  <2>1. r = modify_apply(in, a, x)
    BY <1>5, <1>14 DEF apply_prm
  <2>2. r.in = [in EXCEPT !.ctx = d, !.modify = to] /\ ModifySupported(a.actions)
    BY <1>10, <1>11, <2>1 DEF modify_apply, Done, Fail, WithModify
  <2>3. r.in = [inlen |-> in.inlen, ctx |-> d, destination |-> in.destination, modify |-> to,
                reformat |-> in.reformat]
    <3> HIDE DEF d, to
    <3>1. QED
      BY <1>6, <2>2, Zenon
  <2>4. Flags(d) = Flags(c) \cup {6} /\ Size(d) = Size(c) /\ Mark(d) = Mark(c)
    <3> DEFINE e == Enable(c, 6)
    <3>1. Flags(e) = Flags(c) \cup {6} /\ Size(e) = Size(c) /\ Mark(e) = Mark(c)
      BY <1>11, Enabled
    <3> HIDE DEF e
    <3>2. Flags(WithModify(e, One)) = Flags(e) /\ Size(WithModify(e, One)) = Size(e)
          /\ Mark(WithModify(e, One)) = Mark(e)
      BY Added
    <3>3. QED
      BY <3>1, <3>2, Zenon DEF e
  <2>5. to = prepare_prm_modify_buff(a.actions)
    OBVIOUS
  <2> HIDE DEF a, d, to
  <2>6. Filled(actions, order, m + 1, r.in)
    BY <1>2, <1>7, <1>8, <1>14, <2>2, <2>3, <2>4, <2>5 DEF Filled, a
  <2>7. QED
    BY <2>6
<1>15. CASE a.kind = "reformat"
  <2> DEFINE d == WithReformat(Enable(c, 4), One)
             to == alloc_reformat_insert_action(a.attr)
  <2>1. r = reformat_apply(in, a, x)
    BY <1>5, <1>15 DEF apply_prm
  <2>2. r.in = [in EXCEPT !.ctx = d, !.reformat = to]
    BY <1>10, <1>11, <2>1 DEF reformat_apply, Done, Fail, WithReformat
  <2>3. r.in = [inlen |-> in.inlen, ctx |-> d, destination |-> in.destination, modify |-> in.modify,
                reformat |-> to]
    <3> HIDE DEF d, to
    <3>1. QED
      BY <1>6, <2>2, Zenon
  <2>4. Flags(d) = Flags(c) \cup {4} /\ Size(d) = Size(c) /\ Mark(d) = Mark(c)
    <3> DEFINE e == Enable(c, 4)
    <3>1. Flags(e) = Flags(c) \cup {4} /\ Size(e) = Size(c) /\ Mark(e) = Mark(c)
      BY <1>11, Enabled
    <3> HIDE DEF e
    <3>2. Flags(WithReformat(e, One)) = Flags(e) /\ Size(WithReformat(e, One)) = Size(e)
          /\ Mark(WithReformat(e, One)) = Mark(e)
      BY Added
    <3>3. QED
      BY <3>1, <3>2, Zenon DEF e
  <2>5. to = alloc_reformat_insert_action(a.attr)
    OBVIOUS
  <2> HIDE DEF a, d, to
  <2>6. Filled(actions, order, m + 1, r.in)
    BY <1>2, <1>7, <1>8, <1>15, <2>3, <2>4, <2>5 DEF Filled, a
  <2>7. QED
    BY <2>6
<1>16. CASE a.kind = "reparse"
  <2> DEFINE d == Enable(c, 15)
  <2>1. r = reparse_apply(in)
    BY <1>5, <1>16 DEF apply_prm
  <2>2. r.in = [in EXCEPT !.ctx = d]
    BY <1>11, <2>1 DEF reparse_apply, Done
  <2>3. r.in = [inlen |-> in.inlen, ctx |-> d, destination |-> in.destination, modify |-> in.modify,
                reformat |-> in.reformat]
    <3> HIDE DEF d
    <3>1. QED
      BY <1>6, <2>2
  <2>4. Flags(d) = Flags(c) \cup {15} /\ Size(d) = Size(c) /\ Mark(d) = Mark(c)
    BY <1>11, Enabled
  <2> HIDE DEF a, d
  <2>5. Filled(actions, order, m + 1, r.in)
    BY <1>2, <1>7, <1>8, <1>16, <2>3, <2>4 DEF Filled, a
  <2>6. QED
    BY <2>5
<1>17. QED
  BY <1>4, <1>12, <1>13, <1>14, <1>15, <1>16

(* The loop of flow_rule_ex_prm::create ends with what its actions say. *)
LEMMA PrmFilled ==
  ASSUME NEW actions, NEW order, Ordered(actions, order), NEW x, NEW g,
         Runs("prm", alloc_in_buff(actions), order, x, Len(order), g), g[Len(order)].ret = "DPCP_OK"
  PROVE  Filled(actions, order, Len(order), g[Len(order)].in)
<1> DEFINE L == Len(order)
           Good(m) == m <= L /\ g[m].ret = "DPCP_OK" => Filled(actions, order, m, g[m].in)
           T == {m \in Nat : Good(m)}
<1>1. L \in Nat
  BY DEF Ordered
<1>2. g[0] = Done(alloc_in_buff(actions)) /\ \A n \in 1 .. L : g[n] = Turn("prm", g[n - 1], order[n], x)
  BY <1>1 DEF Runs
<1>3. Good(0)
  <2>1. g[0].in = alloc_in_buff(actions)
    BY <1>2 DEF Done
  <2>2. QED
    BY <2>1, FilledFirst
<1>4. ASSUME NEW m \in Nat, Good(m) PROVE Good(m + 1)
  <2> SUFFICES ASSUME m + 1 <= L, g[m + 1].ret = "DPCP_OK" PROVE Filled(actions, order, m + 1, g[m + 1].in)
    OBVIOUS
  <2>1. m + 1 \in 1 .. L /\ (m + 1) - 1 = m /\ m <= L
    BY <1>1
  <2>2. g[m + 1] = Turn("prm", g[m], order[m + 1], x)
    BY <1>2, <2>1
  <2>3. g[m].ret = "DPCP_OK" /\ g[m + 1] = apply_prm(g[m].in, order[m + 1], x)
    BY <2>2 DEF Turn
  <2>4. Filled(actions, order, m, g[m].in)
    BY <1>4, <2>1, <2>3
  <2>5. QED
    BY <2>3, <2>4, PrmTurn, Zenon
<1>5. 0 \in T /\ \A m \in Nat : m \in T => m + 1 \in T
  BY <1>3, <1>4
<1>6. Nat \subseteq T
  <2> HIDE DEF T
  <2>1. QED
    BY <1>5, NumberInduction
<1>7. Good(L)
  BY <1>1, <1>6
<1>8. QED
  BY <1>1, <1>7

(* What an insertion asks for. *)
Insertion(actions) ==
  Of(actions, "reformat", LAMBDA a : <<a.attr.start, a.attr.offset, a.attr.data>>, <<>>)

(* The rest of what the actions of a rule ask for, read off their order. *)
LEMMA InsertFound ==
  ASSUME NEW actions, NEW order, Ordered(actions, order)
  PROVE  /\ \/ Insertion(actions) = <<>> /\ ~Has(order, Len(order), "reformat")
            \/ \E n \in 1 .. Len(order) :
                 /\ order[n].kind = "reformat"
                 /\ Insertion(actions) = <<order[n].attr.start, order[n].attr.offset, order[n].attr.data>>
         /\ (\E i \in DOMAIN actions : actions[i].kind = "reparse") <=> Has(order, Len(order), "reparse")
<1>1. Insertion(actions) =
        IF OfKind(actions, "reformat") = {} THEN <<>>
        ELSE <<FirstOf(actions, "reformat").attr.start, FirstOf(actions, "reformat").attr.offset,
               FirstOf(actions, "reformat").attr.data>>
  BY Zenon DEF Insertion, Of, OfKind, FirstOf
<1>2. \/ Insertion(actions) = <<>> /\ ~Has(order, Len(order), "reformat")
      \/ \E n \in 1 .. Len(order) :
           /\ order[n].kind = "reformat"
           /\ Insertion(actions) = <<order[n].attr.start, order[n].attr.offset, order[n].attr.data>>
  <2>1. CASE OfKind(actions, "reformat") = {}
    <3>1. \A n \in 1 .. Len(order) : order[n].kind # "reformat"
      BY <2>1, Found
    <3>2. QED
      BY <1>1, <2>1, <3>1, Zenon DEF Has
  <2>2. CASE OfKind(actions, "reformat") # {}
    <3>1. PICK n \in 1 .. Len(order) : order[n].kind = "reformat" /\ order[n] = FirstOf(actions, "reformat")
      BY <2>2, Found
    <3>2. QED
      BY <1>1, <2>2, <3>1, Zenon
  <2>3. QED
    BY <2>1, <2>2
<1>3. ASSUME NEW i \in DOMAIN actions, actions[i].kind = "reparse" PROVE Has(order, Len(order), "reparse")
  <2>1. PICK n \in 1 .. Len(order) : order[n] = actions[i]
    BY Zenon DEF Ordered
  <2>2. QED
    BY <1>3, <2>1 DEF Has
<1>4. ASSUME Has(order, Len(order), "reparse") PROVE \E i \in DOMAIN actions : actions[i].kind = "reparse"
  <2>1. PICK n \in 1 .. Len(order) : order[n].kind = "reparse"
    BY <1>4 DEF Has
  <2>2. PICK i \in DOMAIN actions : order[n] = actions[i]
    BY Zenon DEF Ordered
  <2>3. QED
    BY <2>1, <2>2
<1>5. QED
  BY <1>2, <1>3, <1>4

(* A destination is read back. *)
LEMMA DestinationRead ==
  ASSUME NEW d, d \in forwardable_obj_type
  PROVE  /\ DEVX_GET(dest_format_struct.destination_type, Destination(d)) = d.type
         /\ DEVX_GET(dest_format_struct.destination_id, Destination(d)) = d.id
<1> DEFINE I == DEVX_SET(F(8, 24), d.id)
           T == DEVX_SET(F(0, 8), d.type)
           B == Destination(d)
<1>1. dest_format_struct.destination_type = F(0, 8) /\ dest_format_struct.destination_id = F(8, 24)
  BY DEF dest_format_struct
<1>2. B = I \cup T
  BY <1>1 DEF Destination
<1>3. Span(0, 7, 8) /\ Span(8, 31, 24)
  BY DEF Span
<1>4. I \subseteq 8 .. 31 /\ T \subseteq 0 .. 7
  BY <1>3, SetWithin
<1> HIDE DEF I, T, B
<1>5. (\A x \in 0 .. 7 : x \in B <=> x \in T) /\ \A x \in 8 .. 31 : x \in B <=> x \in I
  BY <1>2, <1>4
<1>6. Holds(0, 7, 8, d.type, B) /\ Holds(8, 31, 24, d.id, B)
  BY <1>5 DEF Holds, I, T
<1>7. DEVX_GET(F(0, 8), B) = d.type \cap 0 .. 7 /\ DEVX_GET(F(8, 24), B) = d.id \cap 0 .. 23
  BY <1>3, <1>6, GetCut
<1>8. d.type \subseteq 0 .. 7 /\ d.id \subseteq 0 .. 23
  BY DEF forwardable_obj_type, Word
<1>9. QED
  BY <1>1, <1>7, <1>8 DEF B

(* A list of them, and the length of the command that carries it. *)
Boxes(dests) == [i \in DOMAIN dests |-> Destination(dests[i])]
FteSize(n)   == set_fte_in_SZ + dest_format_struct_SZ * n

(* The whole list lies inside the command: its length and its count agree. *)
LEMMA DestinationsInside ==
  ASSUME NEW dests, dests \in Seq(forwardable_obj_type), Len(dests) < 2^24
  PROVE  Inside(Boxes(dests), Num(Bin(Len(dests))), FteSize(Len(dests)), set_fte_in_SZ, dest_format_struct_SZ)
         = Boxes(dests)
<1> DEFINE L == Len(dests)
           box == Boxes(dests)
           boxes == {Destination(dests[i]) : i \in 1 .. L}
           inlen == FteSize(L)
           fixed == set_fte_in_SZ
           size == dest_format_struct_SZ
<1>1. L \in Nat /\ DOMAIN dests = 1 .. L
  OBVIOUS
<1>2. Num(Bin(L)) = L
  BY <1>1, NumBin
<1>3. box \in Seq(boxes) /\ Len(box) = L
  <2>1. box \in [1 .. L -> boxes]
    BY <1>1 DEF Boxes
  <2> HIDE DEF boxes, box
  <2>2. QED
    BY <1>1, <2>1
<1> HIDE DEF boxes, box
<1>4. inlen \in Nat /\ fixed \in Nat /\ size \in Nat /\ L <= (inlen - fixed) \div size
  BY <1>1 DEF set_fte_in_SZ, dest_format_struct_SZ, FteSize
<1> HIDE DEF inlen, fixed, size, L
<1>5. Inside(box, L, inlen, fixed, size) = box
  BY <1>1, <1>3, <1>4, AllInside
<1>6. QED
  BY <1>2, <1>5, Zenon DEF box, inlen, fixed, size, L

(* The list is read back. *)
LEMMA DestinationsRead ==
  ASSUME NEW dests, dests \in Seq(forwardable_obj_type)
  PROVE  [i \in DOMAIN Boxes(dests) |-> <<DEVX_GET(dest_format_struct.destination_type, Boxes(dests)[i]),
                                          DEVX_GET(dest_format_struct.destination_id, Boxes(dests)[i])>>]
         = [i \in DOMAIN dests |-> <<dests[i].type, dests[i].id>>]
<1> DEFINE L == Len(dests)
           box == Boxes(dests)
<1>1. L \in Nat /\ DOMAIN dests = 1 .. L /\ \A i \in 1 .. L : dests[i] \in forwardable_obj_type
  OBVIOUS
<1>2. DOMAIN box = 1 .. L /\ \A i \in 1 .. L : box[i] = Destination(dests[i])
  BY <1>1 DEF Boxes
<1> HIDE DEF box
<1>3. \A i \in 1 .. L :
        /\ DEVX_GET(dest_format_struct.destination_type, box[i]) = dests[i].type
        /\ DEVX_GET(dest_format_struct.destination_id, box[i]) = dests[i].id
  BY <1>1, <1>2, DestinationRead
<1>4. QED
  BY <1>1, <1>2, <1>3, Zenon DEF box

(* An insertion is read back. *)
LEMMA InsertRead ==
  ASSUME NEW attr, attr \in reformat_type, Len(attr.data) < 2^10,
         NEW m, m = alloc_reformat_insert_action(attr)
  PROVE  <<m.reformat_param_0, m.reformat_param_1,
           Inside(m.data, m.reformat_data_size, m.inlen, reformat_data_AT, 1)>>
         = <<attr.start, attr.offset, attr.data>>
<1> DEFINE L == Len(attr.data)
           raw == alloc_packet_reformat_context_in_SZ + L
<1>1. attr.data \in Seq(0 .. 255) /\ L \in Nat
  BY DEF reformat_type
<1>2. L % 2^10 = L
  <2>1. L < 2^10 /\ 2^10 \in Nat
    BY PowerPositive
  <2>2. QED
    BY <1>1, <2>1, SmallRest, Zenon
<1>3. /\ m.reformat_param_0 = attr.start /\ m.reformat_param_1 = attr.offset /\ m.data = attr.data
      /\ m.reformat_data_size = L /\ m.inlen = raw + (4 - (raw % 4))
  BY <1>2, Zenon DEF alloc_reformat_insert_action
<1>4. raw = 36 + L
  BY DEF alloc_packet_reformat_context_in_SZ
<1>0. L \in Nat
  BY <1>1
<1> HIDE DEF raw, L
<1>5. m.inlen \in Nat /\ L <= (m.inlen - 34) \div 1
  <2> DEFINE k == m.inlen - 34
  <2>1. raw \in Nat /\ raw % 4 \in 0 .. 3
    BY <1>0, <1>4
  <2>2. m.inlen \in Nat /\ k \in Nat /\ L <= k
    BY <1>0, <1>3, <1>4, <2>1
  <2> HIDE DEF k
  <2>3. k \div 1 = k
    BY <2>2
  <2>4. QED
    BY <2>2, <2>3 DEF k
<1>6. Inside(attr.data, L, m.inlen, 34, 1) = attr.data
  BY <1>1, <1>5, AllInside DEF L
<1>7. QED
  BY <1>3, <1>6 DEF reformat_data_AT

(* An entry whose command says what the actions say does what they ask for. *)
LEMMA EntryTrue ==
  ASSUME NEW actions, NEW order, Ordered(actions, order), verify_flow_actions(actions),
         NEW e, Filled(actions, order, Len(order), e), WantedTag(actions) \subseteq Word(24),
         Len(WantedModify(actions)) < 256, Len(Fwd(actions).dests) < 2^24
  PROVE  Does(e) = Wanted(actions)
<1> DEFINE L == Len(order)
           flags == Flags(e.ctx)
           n == Num(Size(e.ctx))
           dests == Inside(e.destination, n, e.inlen, set_fte_in_SZ, dest_format_struct_SZ)
           m == e.modify
           d == dest_format_struct
           read == Inside(m.actions, m.num_of_actions, m.inlen, alloc_modify_header_context_in_SZ,
                          set_add_copy_action_in_auto_SZ)
           x1 == IF 2 \notin flags THEN <<>>
                 ELSE [i \in DOMAIN dests |-> <<DEVX_GET(d.destination_type, dests[i]),
                                                DEVX_GET(d.destination_id, dests[i])>>]
           x3 == IF 6 \notin flags THEN <<>> ELSE ReadList(read)
           x4 == IF 4 \notin flags THEN <<>>
                 ELSE <<e.reformat.reformat_param_0, e.reformat.reformat_param_1,
                        Inside(e.reformat.data, e.reformat.reformat_data_size,
                               e.reformat.inlen, reformat_data_AT, 1)>>
           w1 == [i \in DOMAIN Fwd(actions).dests |->
                    <<Fwd(actions).dests[i].type, Fwd(actions).dests[i].id>>]
<1>1. Does(e) = [dests |-> x1, tag |-> Mark(e.ctx), modify |-> x3, insert |-> x4, reparse |-> 15 \in flags]
  BY Zenon DEF Does, Flags, Size, Mark, flow_context, MLX5_FLOW_CONTEXT_ACTION_FWD_DEST,
     MLX5_FLOW_CONTEXT_ACTION_PACKET_REFORMAT, MLX5_FLOW_CONTEXT_ACTION_MOD_HDR,
     MLX5_FLOW_CONTEXT_ACTION_REPARSE
<1>2. Wanted(actions) = [dests |-> w1, tag |-> WantedTag(actions), modify |-> WantedModify(actions),
                         insert |-> Insertion(actions),
                         reparse |-> \E i \in DOMAIN actions : actions[i].kind = "reparse"]
  BY Zenon DEF Wanted, Insertion, Of
<1>3. \A k \in 1 .. L : Known(order[k])
  BY DEF Ordered
<1>4. x1 = w1
  <2>1. PICK k \in 1 .. L : order[k].kind = "fwd" /\ Fwd(actions) = order[k]
    BY WantedFound, Zenon
  <2> DEFINE D == Fwd(actions).dests
  <2>2. D \in Seq(forwardable_obj_type)
    BY <1>3, <2>1 DEF Known
  <2>3. 2 \in flags /\ Size(e.ctx) = Bin(Len(D)) /\ e.destination = Boxes(D) /\ e.inlen = FteSize(Len(D))
    <3>1. 2 \in flags
      BY <2>1 DEF Filled, Has
    <3>2. Size(e.ctx) = Bin(Len(D)) /\ e.destination = Boxes(D)
      BY <2>1, Zenon DEF Filled, Boxes
    <3>3. e.inlen = FteSize(Len(D))
      BY DEF Filled, FteSize
    <3>4. QED
      BY <3>1, <3>2, <3>3
  <2>4. Len(D) < 2^24
    OBVIOUS
  <2> HIDE DEF D
  <2>5. dests = Boxes(D)
    BY <2>2, <2>3, <2>4, DestinationsInside, Zenon
  <2>6. [i \in DOMAIN dests |-> <<DEVX_GET(d.destination_type, dests[i]),
                                  DEVX_GET(d.destination_id, dests[i])>>]
        = [i \in DOMAIN D |-> <<D[i].type, D[i].id>>]
    BY <2>2, <2>5, DestinationsRead, Zenon
  <2>7. QED
    BY <2>3, <2>6, Zenon DEF D
<1>5. Mark(e.ctx) = WantedTag(actions)
  <2>1. CASE WantedTag(actions) = {} /\ \A k \in 1 .. L : order[k].kind # "tag"
    <3>1. ~Has(order, L, "tag")
      BY <2>1 DEF Has
    <3>2. QED
      BY <2>1, <3>1 DEF Filled
  <2>2. CASE \E k \in 1 .. L : order[k].kind = "tag" /\ WantedTag(actions) = order[k].id
    <3>1. PICK k \in 1 .. L : order[k].kind = "tag" /\ WantedTag(actions) = order[k].id
      BY <2>2
    <3>2. Mark(e.ctx) = order[k].id \cap 0 .. 23
      BY <3>1 DEF Filled
    <3>3. WantedTag(actions) \subseteq 0 .. 23
      BY DEF Word
    <3>4. QED
      BY <3>1, <3>2, <3>3, Zenon
  <2>3. TagFound(actions, order)
    BY WantedFound, Zenon
  <2>4. QED
    BY <2>1, <2>2, <2>3, Zenon DEF TagFound
<1>6. x3 = WantedModify(actions)
  <2>1. CASE WantedModify(actions) = <<>> /\ \A k \in 1 .. L : order[k].kind # "modify"
    <3>1. ~Has(order, L, "modify")
      BY <2>1 DEF Has
    <3>2. 6 \notin flags
      BY <3>1 DEF Filled
    <3>3. QED
      BY <2>1, <3>2
  <2>2. CASE \E k \in 1 .. L : order[k].kind = "modify" /\ WantedModify(actions) = order[k].actions
    <3> DEFINE list == WantedModify(actions)
    <3>1. PICK k \in 1 .. L : order[k].kind = "modify" /\ list = order[k].actions
      BY <2>2, Zenon
    <3>2. ModifyList(list)
      BY <1>3, <3>1 DEF Known
    <3>3. 6 \in flags
      BY <3>1 DEF Filled, Has
    <3>4. ModifySupported(list) /\ m = prepare_prm_modify_buff(list)
      BY <3>1 DEF Filled
    <3>5. Len(list) < 256
      OBVIOUS
    <3> HIDE DEF list, m
    <3>6. ReadList(read) = list
      BY <3>2, <3>4, <3>5, ListRead
    <3>7. QED
      BY <3>3, <3>6 DEF list
  <2> HIDE DEF x3
  <2>3. ModifyFound(actions, order)
    BY WantedFound, Zenon
  <2>4. QED
    BY <2>1, <2>2, <2>3, Zenon DEF ModifyFound
<1>7. x4 = Insertion(actions)
  <2>1. CASE Insertion(actions) = <<>> /\ ~Has(order, L, "reformat")
    <3>1. 4 \notin flags
      BY <2>1 DEF Filled
    <3>2. QED
      BY <2>1, <3>1
  <2>2. CASE \E k \in 1 .. L :
               /\ order[k].kind = "reformat"
               /\ Insertion(actions) = <<order[k].attr.start, order[k].attr.offset, order[k].attr.data>>
    <3>1. PICK k \in 1 .. L :
               /\ order[k].kind = "reformat"
               /\ Insertion(actions) = <<order[k].attr.start, order[k].attr.offset, order[k].attr.data>>
      BY <2>2
    <3> DEFINE attr == order[k].attr
               r == e.reformat
    <3>2. attr \in reformat_type /\ Len(attr.data) < 2^10
      BY <1>3, <3>1 DEF Known
    <3>3. 4 \in flags
      BY <3>1 DEF Filled, Has
    <3>4. r = alloc_reformat_insert_action(attr)
      BY <3>1 DEF Filled
    <3> HIDE DEF attr, r
    <3>5. <<r.reformat_param_0, r.reformat_param_1,
            Inside(r.data, r.reformat_data_size, r.inlen, reformat_data_AT, 1)>>
          = <<attr.start, attr.offset, attr.data>>
      BY <3>2, <3>4, InsertRead
    <3>6. QED
      BY <3>1, <3>3, <3>5, Zenon DEF attr, r
  <2> HIDE DEF x4
  <2>3. QED
    BY <2>1, <2>2, InsertFound, Zenon
<1>8. (15 \in flags) = (\E i \in DOMAIN actions : actions[i].kind = "reparse")
  <2>1. 15 \in flags <=> Has(order, L, "reparse")
    BY DEF Filled
  <2>2. (\E i \in DOMAIN actions : actions[i].kind = "reparse") <=> Has(order, L, "reparse")
    BY InsertFound
  <2> DEFINE p == 15 \in flags
             q == \E i \in DOMAIN actions : actions[i].kind = "reparse"
  <2>3. p <=> q
    BY <2>1, <2>2
  <2>4. p \in BOOLEAN /\ q \in BOOLEAN
    OBVIOUS
  <2> HIDE DEF p, q
  <2>5. p = q
    BY <2>3, <2>4
  <2>6. QED
    BY <2>5, Zenon DEF p, q
<1> HIDE DEF x1, x3, x4, w1, flags
<1>9. QED
  BY <1>1, <1>2, <1>4, <1>5, <1>6, <1>7, <1>8, Zenon

(* A call that asks for an entry of an ordinary table. *)
LEMMA EntryTold ==
  ASSUME NEW actions \in Rules, NEW order \in Orders(actions), NEW x,
         create_rule_prm(actions, order, x)
  PROVE  RootActs' /\ EntryActs'
<1> DEFINE r == LastPrm(alloc_in_buff(actions), order, x)
           out == IF ~verify_flow_actions(actions) THEN Fail("DPCP_ERR_INVALID_PARAM") ELSE r
<1>1. last'.op = "rule_prm" /\ last'.in.actions = actions /\ last'.out = out
  BY Zenon DEF create_rule_prm, Call, LastPrm, InOrder
<1>2. ASSUME out.ret = "DPCP_OK", WantedTag(actions) \subseteq Word(24),
             Len(WantedModify(actions)) < 256, Len(Fwd(actions).dests) < 2^24
      PROVE  Does(out.in) = Wanted(actions)
  <2>1. verify_flow_actions(actions) /\ out = r
    BY <1>2 DEF Fail
  <2>2. Ordered(actions, order)
    BY <2>1, OrdersOrdered
  <2>3. Len(order) \in Nat
    BY <2>2 DEF Ordered
  <2>4. PICK g : Runs("prm", alloc_in_buff(actions), order, x, Len(order), g) /\ r = g[Len(order)]
    BY <2>3, PrmLoop, Zenon
  <2> HIDE DEF r, out
  <2>5. Filled(actions, order, Len(order), out.in)
    BY <1>2, <2>1, <2>2, <2>4, PrmFilled
  <2>6. QED
    BY <1>2, <2>1, <2>2, <2>5, EntryTrue
<1> HIDE DEF r, out
<1>3. EntryActs'
  BY <1>1, <1>2, Zenon DEF EntryActs, Made
<1>4. RootActs'
  BY <1>1 DEF RootActs
<1>5. QED
  BY <1>3, <1>4

(* Between two calls nothing is said. *)
LEMMA NoRule ==
  /\ last = NoCall => EntryActs /\ RootActs
  /\ last' = NoCall => EntryActs' /\ RootActs'
<1>1. last = NoCall => last.op = "none"
  BY DEF NoCall
<1>2. last' = NoCall => last'.op = "none"
  BY DEF NoCall
<1>3. QED
  BY <1>1, <1>2, Zenon DEF EntryActs, RootActs, Made

(* Every call leaves a rule that does what its actions say. *)
LEMMA ActionsStep ==
  ASSUME [ActionsNext \/ Return]_last, EntryActs, RootActs
  PROVE  EntryActs' /\ RootActs'
<1>1. CASE UNCHANGED last
  BY <1>1, Zenon DEF EntryActs, RootActs, Made
<1>2. CASE Return
  BY <1>2, NoRule DEF Return
<1>3. CASE ActionsNext
  <2>1. PICK actions \in Rules : \E order \in Orders(actions) :
           \/ \E accepts \in BOOLEAN : create_rule_prm(actions, order, accepts)
           \/ \E g \in Garbage, step \in {"matcher", "modify", "flow", None} :
                create_rule_kernel(actions, order, g, step)
    BY <1>3, Zenon DEF ActionsNext
  <2>2. PICK order \in Orders(actions) :
           \/ \E accepts \in BOOLEAN : create_rule_prm(actions, order, accepts)
           \/ \E g \in Garbage, step \in {"matcher", "modify", "flow", None} :
                create_rule_kernel(actions, order, g, step)
    BY <2>1, Zenon
  <2>3. CASE \E accepts \in BOOLEAN : create_rule_prm(actions, order, accepts)
    BY <2>3, EntryTold
  <2>4. CASE \E g \in Garbage, step \in {"matcher", "modify", "flow", None} :
               create_rule_kernel(actions, order, g, step)
    BY <2>4, RootTold
  <2>5. QED
    BY <2>2, <2>3, <2>4
<1>4. QED
  BY <1>1, <1>2, <1>3

(* An entry of an ordinary table does exactly what the actions of its rule *)
(* say, for every list of actions and every order a hash map may yield: no *)
(* flag, mark, list or object of one action is lost to another's.          *)
THEOREM EntryActsHolds == ActionsSpec => []EntryActs
<1>1. CallsInit => EntryActs /\ RootActs
  BY NoRule DEF CallsInit
<1>2. (EntryActs /\ RootActs) /\ [ActionsNext \/ Return]_last => (EntryActs /\ RootActs)'
  BY ActionsStep
<1>3. QED
  BY <1>1, <1>2, PTL DEF ActionsSpec

(* A flow of the root table does what the actions of its rule say unless   *)
(* it copies, whatever memory held, and a rule that modifies nothing       *)
(* leaves nothing behind.                                                  *)
THEOREM RootActsHolds == ActionsSpec => []RootActs
<1>1. CallsInit => EntryActs /\ RootActs
  BY NoRule DEF CallsInit
<1>2. (EntryActs /\ RootActs) /\ [ActionsNext \/ Return]_last => (EntryActs /\ RootActs)'
  BY ActionsStep
<1>3. QED
  BY <1>1, <1>2, PTL DEF ActionsSpec
=============================================================================
