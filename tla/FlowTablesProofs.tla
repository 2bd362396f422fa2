-------------------------- MODULE FlowTablesProofs --------------------------
(***************************************************************************)
(* The flow tables, for any tables, groups, rules and actions.  Of any     *)
(* client: miss tables climb, and a group or rule that has lost its parent *)
(* is held by the client.  Of a client that keeps what is in use: no       *)
(* device object goes before one that refers to it, none is left behind,   *)
(* and no call follows a pointer to an object that is gone.                *)
(***************************************************************************)
EXTENDS FlowTables, TLAPS

(* The elements of a sequence, and that none occurs twice. *)
Elems(s) == {s[i] : i \in 1..Len(s)}
Once(s)  == \A i, j \in 1..Len(s) : s[i] = s[j] => i = j

(* An element put in front. *)
LEMMA PushFacts ==
  ASSUME NEW S, NEW s \in Seq(S), NEW x \in S
  PROVE  /\ <<x>> \o s \in Seq(S)
         /\ Elems(<<x>> \o s) = Elems(s) \cup {x}
         /\ Once(s) /\ x \notin Elems(s) => Once(<<x>> \o s)
<1> DEFINE u == <<x>> \o s
<1>1. /\ u \in Seq(S) /\ Len(u) = Len(s) + 1 /\ Len(s) \in Nat
      /\ \A i \in 1..Len(u) : u[i] = IF i = 1 THEN x ELSE s[i - 1]
  OBVIOUS
<1> HIDE DEF u
<1>2. Elems(u) = Elems(s) \cup {x}
  <2>1. ASSUME NEW y \in Elems(u) PROVE y \in Elems(s) \cup {x}
    BY <1>1, <2>1 DEF Elems
  <2>2. ASSUME NEW y \in Elems(s) PROVE y \in Elems(u)
    <3>1. PICK i \in 1..Len(s) : y = s[i]
      BY <2>2 DEF Elems
    <3>2. i + 1 \in 1..Len(u) /\ u[i + 1] = y
      BY <1>1, <3>1
    <3>3. QED
      BY <3>2 DEF Elems
  <2>3. x \in Elems(u)
    <3>1. 1 \in 1..Len(u) /\ u[1] = x
      BY <1>1
    <3>2. QED
      BY <3>1 DEF Elems
  <2>4. QED
    BY <2>1, <2>2, <2>3
<1>3. Once(s) /\ x \notin Elems(s) => Once(u)
  <2>1. SUFFICES ASSUME Once(s), x \notin Elems(s),
                        NEW i \in 1..Len(u), NEW j \in 1..Len(u), u[i] = u[j]
                 PROVE  i = j
    BY DEF Once
  <2>2. u[1] = x /\ \A k \in 1..Len(u) : k # 1 => u[k] # x
    <3>1. \A k \in 1..Len(s) : s[k] # x
      BY <2>1 DEF Elems
    <3>2. ASSUME NEW k \in 1..Len(u), k # 1 PROVE u[k] # x
      <4>1. k - 1 \in 1..Len(s) /\ u[k] = s[k - 1]
        BY <1>1, <3>2
      <4>2. QED
        BY <3>1, <4>1
    <3>3. u[1] = x
      BY <1>1
    <3>4. QED
      BY <3>2, <3>3
  <2>3. CASE i = 1 \/ j = 1
    BY <2>1, <2>2, <2>3
  <2>4. CASE i # 1 /\ j # 1
    <3>1. i - 1 \in 1..Len(s) /\ j - 1 \in 1..Len(s) /\ s[i - 1] = s[j - 1]
      BY <1>1, <2>1, <2>4
    <3>2. i - 1 = j - 1
      BY <2>1, <3>1 DEF Once
    <3>3. QED
      BY <3>2
  <2>5. QED
    BY <2>3, <2>4
<1>4. QED
  BY <1>1, <1>2, <1>3 DEF u

(* The first element taken away. *)
LEMMA PopFacts ==
  ASSUME NEW S, NEW s \in Seq(S), s # <<>>
  PROVE  /\ Tail(s) \in Seq(S) /\ Head(s) \in S
         /\ Elems(s) = Elems(Tail(s)) \cup {Head(s)}
         /\ Once(s) => Once(Tail(s)) /\ Head(s) \notin Elems(Tail(s))
<1> DEFINE u == Tail(s)
<1>1. /\ u \in Seq(S) /\ Len(s) \in Nat \ {0} /\ Len(u) = Len(s) - 1
      /\ \A i \in 1..Len(u) : u[i] = s[i + 1]
      /\ Head(s) = s[1] /\ s[1] \in S
  OBVIOUS
<1> HIDE DEF u
<1>2. Elems(s) = Elems(u) \cup {Head(s)}
  <2>1. ASSUME NEW y \in Elems(s) PROVE y \in Elems(u) \cup {Head(s)}
    <3>1. PICK i \in 1..Len(s) : y = s[i]
      BY <2>1 DEF Elems
    <3>2. CASE i = 1
      BY <1>1, <3>1, <3>2
    <3>3. CASE i # 1
      <4>1. i - 1 \in 1..Len(u) /\ u[i - 1] = y
        BY <1>1, <3>1, <3>3
      <4>2. QED
        BY <4>1 DEF Elems
    <3>4. QED
      BY <3>2, <3>3
  <2>2. ASSUME NEW y \in Elems(u) PROVE y \in Elems(s)
    BY <1>1, <2>2 DEF Elems
  <2>3. Head(s) \in Elems(s)
    BY <1>1 DEF Elems
  <2>4. QED
    BY <2>1, <2>2, <2>3
<1>3. Once(s) => Once(u) /\ Head(s) \notin Elems(u)
  <2>1. SUFFICES ASSUME Once(s) PROVE Once(u) /\ Head(s) \notin Elems(u)
    OBVIOUS
  <2>2. Once(u)
    BY <1>1, <2>1 DEF Once
  <2>3. ASSUME NEW i \in 1..Len(u) PROVE u[i] # Head(s)
    <3>1. 1 \in 1..Len(s) /\ i + 1 \in 1..Len(s) /\ i + 1 # 1
      BY <1>1
    <3>2. u[i] = s[i + 1] /\ Head(s) = s[1]
      BY <1>1
    <3>3. QED
      BY <2>1, <3>1, <3>2 DEF Once
  <2>4. QED
    BY <2>2, <2>3 DEF Elems
<1>4. QED
  BY <1>1, <1>2, <1>3 DEF u

----------------------------------------------------------------------------
(* An object is alive when a shared_ptr to it is counted. *)
LEMMA AliveFacts ==
  ASSUME OwnersInv
  PROVE  /\ \A p, x : <<p, x>> \in refs => Alive(x) /\ p \in Obj \cup {"client", "adapter"}
         /\ \A x : Alive(x) => \E h \in Obj \cup {"client", "adapter"} : <<h, x>> \in refs
<1>1. ASSUME NEW p, NEW x, <<p, x>> \in refs
      PROVE  Alive(x) /\ p \in Obj \cup {"client", "adapter"}
  <2>1. p \in Obj \cup {"client", "adapter"}
    BY <1>1 DEF OwnersInv
  <2>2. QED
    BY <1>1, <2>1 DEF Alive, Holders
<1>2. \A x : Alive(x) => \E h \in Obj \cup {"client", "adapter"} : <<h, x>> \in refs
  BY DEF Alive, Holders
<1>3. QED
  BY <1>1, <1>2

(* A shared_ptr that goes takes nobody's owner but that of x, which is     *)
(* then about to be destroyed.                                             *)
LEMMA ReleaseFacts ==
  ASSUME OwnersInv, NEW h \in Obj \cup {"client"}, NEW x \in Obj, Release(h, x)
  PROVE  /\ todo' \in Seq(Obj) /\ Once(todo')
         /\ Dying \subseteq Dying' /\ \A y \in Dying' : y \in Dying \/ Alive(y)
         /\ \A y : Alive(y)' => Alive(y)
         /\ \A y : Alive(y) => Alive(y)' \/ y \in Dying'
         /\ \A y \in Dying' : ~Alive(y)'
         /\ Root \notin Dying'
<1>0. /\ todo \in Seq(Obj) /\ Once(todo) /\ Dying = Elems(todo) /\ \A y \in Dying : ~Alive(y)
      /\ Root \notin Dying
  BY DEF OwnersInv, Once, Dying, Elems
<1>1. \A y : Holders(y)' = IF y = x THEN Holders(y) \ {h} ELSE Holders(y)
  BY DEF Release, Holders
<1>2. CASE Holders(x) = {h}
  <2>1. todo' = <<x>> \o todo /\ Alive(x) /\ x \notin Elems(todo)
    BY <1>0, <1>2 DEF Release, Alive
  <2>2. todo' \in Seq(Obj) /\ Elems(todo') = Elems(todo) \cup {x} /\ Once(todo')
    BY <1>0, <2>1, PushFacts
  <2>3. Dying' = Dying \cup {x}
    BY <1>0, <2>2, Zenon DEF Dying, Elems
  <2>4. \A y : Alive(y)' <=> Alive(y) /\ y # x
    BY <1>1, <1>2 DEF Alive
  <2>5. x # Root
    <3>1. SUFFICES ASSUME x = Root PROVE FALSE
      OBVIOUS
    <3>2. <<"adapter", Root>> \in refs
      BY <2>1, <3>1 DEF OwnersInv
    <3>3. "adapter" \in Holders(x)
      BY <3>1, <3>2 DEF Holders
    <3>4. QED
      BY <1>2, <3>3, FlowTablesAssumption
  <2>6. QED
    BY <1>0, <2>1, <2>2, <2>3, <2>4, <2>5
<1>3. CASE Holders(x) # {h}
  <2>1. todo' = todo
    BY <1>3 DEF Release
  <2>2. \A y : Alive(y)' <=> Alive(y)
    BY <1>1, <1>3 DEF Alive
  <2>3. Dying' = Dying
    BY <2>1 DEF Dying
  <2>4. QED
    BY <1>0, <2>1, <2>2, <2>3
<1>4. QED
  BY <1>2, <1>3

(* Hence it keeps the owners and the device tables in order. *)
LEMMA ReleaseKeeps ==
  ASSUME OwnersInv, DeviceInv, NEW h \in Obj \cup {"client"}, NEW x \in Obj, Release(h, x),
         UNCHANGED <<attrs, init, device>>
  PROVE  OwnersInv' /\ DeviceInv'
<1>0. refs' = refs \ {<<h, x>>}
      /\ UNCHANGED <<parent, level, init, handle, uses, lost>>
  BY DEF Release, attrs, device
<1>1. /\ todo' \in Seq(Obj) /\ Once(todo')
      /\ Dying \subseteq Dying' /\ \A y \in Dying' : y \in Dying \/ Alive(y)
      /\ \A y : Alive(y)' => Alive(y)
      /\ \A y : Alive(y) => Alive(y)' \/ y \in Dying'
      /\ \A y \in Dying' : ~Alive(y)'
      /\ Root \notin Dying'
  BY ReleaseFacts
<1>2. OwnersInv'
  <2>1. ASSUME NEW p \in refs'
        PROVE  p[1] \in {"client", "adapter"}
               \/ (p[1] \in Obj /\ (Alive(p[1])' \/ p[1] \in Dying'))
    BY <1>0, <1>1, <2>1 DEF OwnersInv
  <2>2. /\ \A y \in Group \cup Rule, g \in Obj \cup {"client", "adapter"} :
             <<g, y>> \in refs' => g \in {"client", parent'[y]} \ {"adapter"}
        /\ \A r \in Rule, y \in Obj : <<r, y>> \in refs' => y \in Action
        /\ parent' = [y \in Group \cup Rule |-> parent'[y]]
        /\ refs' \subseteq (Obj \cup {"client", "adapter"}) \X Obj
    BY <1>0, Zenon DEF OwnersInv
  <2>3. Alive(Root)' => <<"adapter", Root>> \in refs' /\ Root \in init'
    BY <1>0, <1>1, FlowTablesAssumption DEF OwnersInv
  <2>4. QED
    BY <1>1, <2>1, <2>2, <2>3 DEF OwnersInv, Once
<1>3. DeviceInv'
  <2>1. MissClimbs'
    BY <1>0 DEF DeviceInv, MissClimbs
  <2>2. QED
    BY <1>0, <1>1, <2>1 DEF DeviceInv
<1>4. QED
  BY <1>2, <1>3

(* Calls that only add shared_ptrs, with nothing being destroyed. *)
LEMMA GrowKeeps ==
  ASSUME OwnersInv, Quiet, UNCHANGED todo, init \subseteq init',
         NEW N \in SUBSET ((Obj \cup {"client", "adapter"}) \X Obj), refs' = refs \cup N,
         parent' = [y \in Group \cup Rule |-> parent'[y]],
         \A y \in Group \cup Rule : Alive(y) => parent'[y] = parent[y],
         \A h, y : <<h, y>> \in N =>
           /\ h \in Obj => Alive(h)'
           /\ y \in Group \cup Rule => h \in {"client", parent'[y]} \ {"adapter"}
           /\ h \in Rule => y \in Action
           /\ y = Root => Alive(Root) \/ (<<"adapter", Root>> \in N /\ Root \in init')
  PROVE  OwnersInv' /\ Dying = {} /\ Dying' = {} /\ \A y : Alive(y) => Alive(y)'
<1>1. todo = <<>> /\ todo' = <<>> /\ Dying = {} /\ Dying' = {}
  BY DEF Quiet, Dying
<1>2. \A y : Alive(y) => Alive(y)'
  BY DEF Alive, Holders
<1>3. ASSUME NEW p \in refs'
      PROVE  p[1] \in {"client", "adapter"} \/ (p[1] \in Obj /\ Alive(p[1])')
  <2>1. CASE p \in refs
    BY <1>1, <1>2, <2>1 DEF OwnersInv
  <2>2. CASE p \in N
    <3>1. p = <<p[1], p[2]>> /\ p[1] \in Obj \cup {"client", "adapter"}
      BY <2>2
    <3>2. p[1] \in Obj => Alive(p[1])'
      BY <2>2, <3>1
    <3>3. QED
      BY <3>1, <3>2
  <2>3. QED
    BY <1>3, <2>1, <2>2
<1>4. ASSUME NEW y \in Group \cup Rule, NEW g \in Obj \cup {"client", "adapter"},
             <<g, y>> \in refs'
      PROVE  g \in {"client", parent'[y]} \ {"adapter"}
  <2>1. CASE <<g, y>> \in refs
    <3>1. Alive(y)
      BY <2>1, AliveFacts
    <3>2. QED
      BY <2>1, <3>1, Zenon DEF OwnersInv
  <2>2. CASE <<g, y>> \in N
    BY <2>2
  <2>3. QED
    BY <1>4, <2>1, <2>2
<1>5. \A r \in Rule, y \in Obj : <<r, y>> \in refs' => y \in Action
  BY DEF OwnersInv
<1>6. Alive(Root)' => <<"adapter", Root>> \in refs' /\ Root \in init'
  <2>1. SUFFICES ASSUME Alive(Root)', ~Alive(Root)
                 PROVE  <<"adapter", Root>> \in refs' /\ Root \in init'
    BY DEF OwnersInv
  <2>2. PICK g : <<g, Root>> \in refs' /\ <<g, Root>> \notin refs
    BY <2>1 DEF Alive, Holders
  <2>3. QED
    BY <2>1, <2>2
<1>7. refs' \subseteq (Obj \cup {"client", "adapter"}) \X Obj
  BY DEF OwnersInv
<1>8. QED
  BY <1>1, <1>2, <1>3, <1>4, <1>5, <1>6, <1>7 DEF OwnersInv

(* Such a call keeps the device tables in order when no lost table gets an *)
(* owner and no device table another level.                                *)
LEMMA GrowDevice ==
  ASSUME OwnersInv, DeviceInv, Dying = {}, Dying' = {}, \A y : Alive(y) => Alive(y)',
         NEW N, refs' = refs \cup N, \A h, y : <<h, y>> \in N => y \notin Table \cap lost,
         UNCHANGED device, (Table \cap init') \ {Root} \subseteq init,
         level' \in [Table -> Nat], \A t \in Table \cap (handle \cup lost) : level'[t] = level[t]
  PROVE  DeviceInv'
<1>1. handle' = handle /\ uses' = uses /\ lost' = lost
  BY DEF device
<1>2. MissClimbs'
  BY <1>1 DEF DeviceInv, MissClimbs
<1>3. ASSUME NEW t \in Table \cap lost PROVE ~Alive(t)'
  <2>1. ~Alive(t)
    BY <1>3 DEF DeviceInv
  <2>2. \A h : <<h, t>> \notin refs'
    BY <2>1, AliveFacts
  <2>3. QED
    BY <2>2, Zenon DEF Alive, Holders
<1>4. QED
  BY <1>1, <1>2, <1>3 DEF DeviceInv

(* The calls that add shared_ptrs, one by one. *)
LEMMA RootTableKeeps ==
  ASSUME OwnersInv, DeviceInv, get_root_table
  PROVE  OwnersInv' /\ DeviceInv'
<1>1. /\ Quiet /\ refs' = refs \cup RootHeld /\ init' = init \cup {Root}
      /\ UNCHANGED <<todo, parent, level, device>>
  BY DEF get_root_table, attrs
<1>2. /\ RootHeld \in SUBSET ((Obj \cup {"client", "adapter"}) \X Obj)
      /\ \A h, y : <<h, y>> \in RootHeld => h \in {"client", "adapter"} /\ y = Root
      /\ <<"adapter", Root>> \in RootHeld
  BY FlowTablesAssumption DEF RootHeld, Obj
<1>3. \A h, y : <<h, y>> \in RootHeld =>
           /\ h \in Obj => Alive(h)'
           /\ y \in Group \cup Rule => h \in {"client", parent'[y]} \ {"adapter"}
           /\ h \in Rule => y \in Action
           /\ y = Root => Alive(Root) \/ (<<"adapter", Root>> \in RootHeld /\ Root \in init')
  BY <1>1, <1>2, FlowTablesAssumption DEF Obj
<1>4. parent' = [y \in Group \cup Rule |-> parent'[y]]
  BY <1>1 DEF OwnersInv
<1>5. OwnersInv' /\ Dying = {} /\ Dying' = {} /\ \A y : Alive(y) => Alive(y)'
  BY <1>1, <1>2, <1>3, <1>4, GrowKeeps
<1>6. \A h, y : <<h, y>> \in RootHeld => y \notin Table \cap lost
  BY <1>2 DEF DeviceInv
<1>7. /\ (Table \cap init') \ {Root} \subseteq init /\ level' \in [Table -> Nat]
      /\ \A t \in Table \cap (handle \cup lost) : level'[t] = level[t]
  BY <1>1 DEF DeviceInv
<1>8. QED
  BY <1>1, <1>5, <1>6, <1>7, GrowDevice

(* create_flow_table: the new table holds its miss table. *)
LEMMA NewTableKeeps ==
  ASSUME OwnersInv, DeviceInv, NEW t \in Table, NEW l \in Nat, NEW m \in Table \cup {Null},
         create_flow_table(t, l, m)
  PROVE  OwnersInv' /\ DeviceInv'
<1> DEFINE N == HeldByNew(t, m)
<1>1. /\ Quiet /\ Free(t) /\ t # Root /\ (m # Null => Client(m))
      /\ refs' = refs \cup N /\ level' = [level EXCEPT ![t] = l]
      /\ UNCHANGED <<todo, parent, init, device>>
  BY DEF create_flow_table
<1>2. /\ N \in SUBSET ((Obj \cup {"client", "adapter"}) \X Obj)
      /\ <<"client", t>> \in N
      /\ \A h, y : <<h, y>> \in N => (h = "client" /\ y = t) \/ (h = t /\ y = m /\ m \in Table)
  BY FlowTablesAssumption DEF HeldByNew, Obj
<1> HIDE DEF N
<1>3. m \in Table => Alive(m)
  BY <1>1, AliveFacts, FlowTablesAssumption DEF Client, Obj
<1>4. Alive(t)'
  BY <1>1, <1>2 DEF Alive, Holders
<1>5. \A h, y : <<h, y>> \in N =>
           /\ h \in Obj => Alive(h)'
           /\ y \in Group \cup Rule => h \in {"client", parent'[y]} \ {"adapter"}
           /\ h \in Rule => y \in Action
           /\ y = Root => Alive(Root) \/ (<<"adapter", Root>> \in N /\ Root \in init')
  BY <1>1, <1>2, <1>3, <1>4, FlowTablesAssumption DEF Obj
<1>6. parent' = [y \in Group \cup Rule |-> parent'[y]]
  BY <1>1 DEF OwnersInv
<1>7. OwnersInv' /\ Dying = {} /\ Dying' = {} /\ \A y : Alive(y) => Alive(y)'
  BY <1>1, <1>2, <1>5, <1>6, GrowKeeps
<1>8. \A h, y : <<h, y>> \in N => y \notin Table \cap lost
  BY <1>1, <1>2, <1>3 DEF DeviceInv, Free
<1>9. t \notin handle \cup lost
  BY <1>1, <1>7 DEF DeviceInv, Free
<1>10. /\ (Table \cap init') \ {Root} \subseteq init /\ level' \in [Table -> Nat]
       /\ \A s \in Table \cap (handle \cup lost) : level'[s] = level[s]
  BY <1>1, <1>9 DEF DeviceInv
<1>11. QED
  BY <1>1, <1>7, <1>8, <1>10, GrowDevice

(* add_flow_group: the table holds the new group, its child. *)
LEMMA NewGroupKeeps ==
  ASSUME OwnersInv, DeviceInv, NEW g \in Group, NEW t \in Table, add_flow_group(g, t)
  PROVE  OwnersInv' /\ DeviceInv'
<1> DEFINE N == {<<t, g>>}
<1>1. /\ Quiet /\ Client(t) /\ Free(g)
      /\ refs' = refs \cup N /\ parent' = [parent EXCEPT ![g] = t]
      /\ UNCHANGED <<todo, level, init, device>>
  BY DEF add_flow_group
<1>2. /\ N \in SUBSET ((Obj \cup {"client", "adapter"}) \X Obj)
      /\ \A h, y : <<h, y>> \in N => h = t /\ y = g
  BY DEF Obj
<1> HIDE DEF N
<1>3. Alive(t) /\ Alive(t)'
  BY <1>1, AliveFacts DEF Client, Alive, Holders
<1>4. /\ parent' = [y \in Group \cup Rule |-> parent'[y]] /\ parent'[g] = t
      /\ \A y \in Group \cup Rule : Alive(y) => parent'[y] = parent[y]
  BY <1>1, Zenon DEF OwnersInv, Free
<1>5. \A h, y : <<h, y>> \in N =>
           /\ h \in Obj => Alive(h)'
           /\ y \in Group \cup Rule => h \in {"client", parent'[y]} \ {"adapter"}
           /\ h \in Rule => y \in Action
           /\ y = Root => Alive(Root) \/ (<<"adapter", Root>> \in N /\ Root \in init')
  BY <1>2, <1>3, <1>4, FlowTablesAssumption DEF Obj
<1>6. OwnersInv' /\ Dying = {} /\ Dying' = {} /\ \A y : Alive(y) => Alive(y)'
  BY <1>1, <1>2, <1>4, <1>5, GrowKeeps, Zenon
<1>7. \A h, y : <<h, y>> \in N => y \notin Table \cap lost
  BY <1>2, FlowTablesAssumption
<1>8. /\ (Table \cap init') \ {Root} \subseteq init /\ level' \in [Table -> Nat]
      /\ \A s \in Table \cap (handle \cup lost) : level'[s] = level[s]
  BY <1>1 DEF DeviceInv
<1>9. QED
  BY <1>1, <1>6, <1>7, <1>8, GrowDevice

(* create_modify, and a weak_ptr the client locks *)
LEMMA ClientKeeps ==
  ASSUME OwnersInv, DeviceInv, NEW x \in Group \cup Rule \cup Action, Quiet,
         refs' = refs \cup {<<"client", x>>}, UNCHANGED <<attrs, init, device, todo>>
  PROVE  OwnersInv' /\ DeviceInv'
<1> DEFINE N == {<<"client", x>>}
<1>1. refs' = refs \cup N /\ UNCHANGED <<parent, level, init, device, todo>>
  BY DEF attrs
<1>2. /\ N \in SUBSET ((Obj \cup {"client", "adapter"}) \X Obj)
      /\ \A h, y : <<h, y>> \in N => h = "client" /\ y = x
  BY DEF Obj
<1> HIDE DEF N
<1>3. parent' = [y \in Group \cup Rule |-> parent'[y]]
  BY <1>1 DEF OwnersInv
<1>4. \A h, y : <<h, y>> \in N =>
           /\ h \in Obj => Alive(h)'
           /\ y \in Group \cup Rule => h \in {"client", parent'[y]} \ {"adapter"}
           /\ h \in Rule => y \in Action
           /\ y = Root => Alive(Root) \/ (<<"adapter", Root>> \in N /\ Root \in init')
  BY <1>2, FlowTablesAssumption DEF Obj
<1>5. OwnersInv' /\ Dying = {} /\ Dying' = {} /\ \A y : Alive(y) => Alive(y)'
  BY <1>1, <1>2, <1>3, <1>4, GrowKeeps
<1>6. \A h, y : <<h, y>> \in N => y \notin Table \cap lost
  BY <1>2, FlowTablesAssumption
<1>7. /\ (Table \cap init') \ {Root} \subseteq init /\ level' \in [Table -> Nat]
      /\ \A s \in Table \cap (handle \cup lost) : level'[s] = level[s]
  BY <1>1 DEF DeviceInv
<1>8. QED
  BY <1>1, <1>5, <1>6, <1>7, GrowDevice

(* add_flow_rule: the group holds the new rule, the rule its actions. *)
LEMMA NewRuleKeeps ==
  ASSUME OwnersInv, DeviceInv, NEW r \in Rule, NEW g \in Group, NEW acts \in SUBSET Action, NEW d,
         add_flow_rule(r, g, acts, d)
  PROVE  OwnersInv' /\ DeviceInv'
<1> DEFINE N == {<<g, r>>} \cup {<<r, a>> : a \in acts}
<1>1. /\ Quiet /\ Alive(g) /\ Free(r)
      /\ refs' = refs \cup N /\ parent' = [parent EXCEPT ![r] = g]
      /\ UNCHANGED <<todo, level, init, device>>
  BY DEF add_flow_rule
<1>2. /\ N \in SUBSET ((Obj \cup {"client", "adapter"}) \X Obj) /\ <<g, r>> \in N
      /\ \A h, y : <<h, y>> \in N => (h = g /\ y = r) \/ (h = r /\ y \in Action)
  BY DEF Obj
<1> HIDE DEF N
<1>3. Alive(g)' /\ Alive(r)'
  BY <1>1, <1>2 DEF Alive, Holders, Obj
<1>4. /\ parent' = [y \in Group \cup Rule |-> parent'[y]] /\ parent'[r] = g
      /\ \A y \in Group \cup Rule : Alive(y) => parent'[y] = parent[y]
  BY <1>1, Zenon DEF OwnersInv, Free
<1>5. \A h, y : <<h, y>> \in N =>
           /\ h \in Obj => Alive(h)'
           /\ y \in Group \cup Rule => h \in {"client", parent'[y]} \ {"adapter"}
           /\ h \in Rule => y \in Action
           /\ y = Root => Alive(Root) \/ (<<"adapter", Root>> \in N /\ Root \in init')
  BY <1>2, <1>3, <1>4, FlowTablesAssumption DEF Obj
<1>6. OwnersInv' /\ Dying = {} /\ Dying' = {} /\ \A y : Alive(y) => Alive(y)'
  BY <1>1, <1>2, <1>4, <1>5, GrowKeeps, Zenon
<1>7. \A h, y : <<h, y>> \in N => y \notin Table \cap lost
  BY <1>2, FlowTablesAssumption
<1>8. /\ (Table \cap init') \ {Root} \subseteq init /\ level' \in [Table -> Nat]
      /\ \A s \in Table \cap (handle \cup lost) : level'[s] = level[s]
  BY <1>1 DEF DeviceInv
<1>9. QED
  BY <1>1, <1>6, <1>7, <1>8, GrowDevice

----------------------------------------------------------------------------
(* A call that changes no shared_ptr keeps the owners in order. *)
LEMMA SameOwners ==
  ASSUME OwnersInv, UNCHANGED <<refs, parent, todo>>, init \subseteq init'
  PROVE  OwnersInv' /\ Dying' = Dying /\ \A y : Alive(y)' <=> Alive(y)
<1>1. Dying' = Dying /\ \A y : Alive(y)' <=> Alive(y)
  BY DEF Dying, Alive, Holders
<1>2. QED
  BY <1>1, Zenon DEF OwnersInv

(* A command for something that is no table leaves the device tables alone. *)
LEMMA OtherDevice ==
  ASSUME OwnersInv, DeviceInv, UNCHANGED <<refs, parent, level, todo>>, init \subseteq init',
         uses' = [x \in Obj |-> uses'[x]], \A t \in Table : uses'[t] = uses[t],
         Table \cap handle' = Table \cap handle, Table \cap lost' = Table \cap lost,
         Table \cap init' = Table \cap init
  PROVE  OwnersInv' /\ DeviceInv'
<1>1. OwnersInv' /\ Dying' = Dying /\ \A y : Alive(y)' <=> Alive(y)
  BY SameOwners
<1>2. MissClimbs'
  BY DEF DeviceInv, MissClimbs
<1>3. Root \notin handle' \cup lost'
  BY FlowTablesAssumption DEF DeviceInv
<1>4. QED
  BY <1>1, <1>2, <1>3 DEF DeviceInv

(* flow_table::create: the miss table is in the device and on a higher level. *)
LEMMA CreateTableKeeps ==
  ASSUME OwnersInv, DeviceInv, NEW t \in Table, CreateTable(t)
  PROVE  OwnersInv' /\ DeviceInv'
<1>1. /\ Client(t) /\ t \notin init /\ ~MissRefused(t)
      /\ init' = init \cup {t} /\ handle' = handle \cup {t}
      /\ uses' = [uses EXCEPT ![t] = {miss[t]} \ {Null}]
      /\ UNCHANGED <<refs, parent, level, todo, lost>>
  BY DEF CreateTable, attrs
<1>2. OwnersInv' /\ Dying' = Dying /\ \A y : Alive(y)' <=> Alive(y)
  BY <1>1, SameOwners
<1>3. Alive(t) /\ t # Root
  BY <1>1, AliveFacts, Zenon DEF Client, OwnersInv
<1>4. /\ uses' = [x \in Obj |-> uses'[x]] /\ uses'[t] = {miss[t]} \ {Null}
      /\ \A x \in Obj : x # t => uses'[x] = uses[x]
  BY <1>1 DEF DeviceInv, Obj
<1>5. ASSUME NEW m \in uses'[t] \cap Table
      PROVE  m \in handle \cup lost /\ level[m] > level[t]
  <2>1. m = miss[t] /\ m # Root /\ m \in init /\ ~(level[m] <= level[t])
    BY <1>1, <1>4, <1>5 DEF MissRefused
  <2>2. m \in handle
    BY <2>1 DEF DeviceInv
  <2>3. level[m] \in Nat /\ level[t] \in Nat
    BY DEF DeviceInv
  <2>4. QED
    BY <2>1, <2>2, <2>3
<1>6. MissClimbs'
  <2>1. ASSUME NEW s \in Table \cap (handle' \cup lost'), NEW m \in uses'[s] \cap Table
        PROVE  m \in handle' \cup lost' /\ level'[m] > level'[s]
    <3>1. CASE s = t
      BY <1>1, <1>5, <2>1, <3>1
    <3>2. CASE s # t
      BY <1>1, <1>4, <2>1, <3>2 DEF DeviceInv, MissClimbs, Obj
    <3>3. QED
      BY <3>1, <3>2
  <2>2. QED
    BY <2>1 DEF MissClimbs
<1>7. QED
  BY <1>1, <1>2, <1>3, <1>4, <1>6 DEF DeviceInv

(* flow_group::create, on a device table or on the root table. *)
LEMMA CreateGroupKeeps ==
  ASSUME OwnersInv, DeviceInv, NEW g \in Group, CreateGroup(g)
  PROVE  OwnersInv' /\ DeviceInv'
<1>1. /\ UNCHANGED <<refs, parent, level, todo, lost>> /\ init' = init \cup {g}
      /\ g \notin Table /\ g \in Obj
  BY FlowTablesAssumption DEF CreateGroup, attrs, Obj
<1>2. /\ handle' \in {handle, handle \cup {g}}
      /\ uses' = uses \/ uses' = [uses EXCEPT ![g] = {parent[g]}]
  BY DEF CreateGroup
<1>3. uses' = [x \in Obj |-> uses'[x]] /\ \A t \in Table : uses'[t] = uses[t]
  BY <1>1, <1>2 DEF DeviceInv, Obj
<1>4. /\ Table \cap handle' = Table \cap handle /\ Table \cap lost' = Table \cap lost
      /\ Table \cap init' = Table \cap init
  BY <1>1, <1>2
<1>5. QED
  BY <1>1, <1>3, <1>4, OtherDevice

(* What a rule applies are actions. *)
LEMMA AppliedActions ==
  ASSUME OwnersInv, NEW r \in Rule
  PROVE  Applied(r) \subseteq Action /\ Applied(r) \cap Table = {} /\ r \notin Table /\ r \in Obj
<1>1. Members(r) \subseteq Action
  BY DEF Members, OwnersInv
<1>2. QED
  BY <1>1, FlowTablesAssumption DEF Applied, Obj

(* flow_rule::create, succeeding, refused or crashing. *)
LEMMA CreateRuleKeeps ==
  ASSUME OwnersInv, DeviceInv, NEW r \in Rule, CreateRule(r) \/ CreateRuleFails(r) \/ RuleCrashes(r)
  PROVE  OwnersInv' /\ DeviceInv'
<1>0. /\ UNCHANGED <<refs, parent, level, todo>>
      /\ Applied(r) \cap Table = {} /\ r \notin Table /\ r \in Obj
  BY AppliedActions DEF CreateRule, CreateRuleFails, RuleCrashes, attrs
<1>1. CASE CreateRule(r)
  <2>1. PICK ok \in BOOLEAN :
          /\ handle' = (handle \cup Applied(r) \cup {r}) \ (IF ok THEN {} ELSE {r})
          /\ init' = init \cup Applied(r) \cup (IF ok /\ ~OnRoot(parent[r]) THEN {r} ELSE {})
          /\ uses' = IF ok
                     THEN [uses EXCEPT ![r] = @ \cup ({dest[r]} \ {Null}) \cup
                             (IF OnRoot(parent[r]) THEN {} ELSE {parent[r]} \cup Members(r))]
                     ELSE uses
    BY <1>1 DEF CreateRule
  <2>2. lost' \in {lost, lost \cup {r}}
    BY <1>1 DEF CreateRule, Recreate
  <2>3. uses' = [x \in Obj |-> uses'[x]] /\ \A t \in Table : uses'[t] = uses[t]
    BY <1>0, <2>1, Zenon DEF DeviceInv, Obj
  <2>4. /\ Table \cap handle' = Table \cap handle /\ Table \cap lost' = Table \cap lost
        /\ Table \cap init' = Table \cap init /\ init \subseteq init'
    BY <1>0, <2>1, <2>2
  <2>5. QED
    BY <1>0, <2>3, <2>4, OtherDevice
<1>2. CASE CreateRuleFails(r)
  <2>1. PICK done \in SUBSET Applied(r) : init' = init \cup done /\ handle' = handle \cup done
    BY <1>2 DEF CreateRuleFails
  <2>2. UNCHANGED <<uses, lost>>
    BY <1>2 DEF CreateRuleFails
  <2>3. /\ Table \cap handle' = Table \cap handle /\ Table \cap init' = Table \cap init
        /\ init \subseteq init'
    BY <1>0, <2>1
  <2>4. uses' = [x \in Obj |-> uses'[x]]
    BY <2>2 DEF DeviceInv
  <2>5. QED
    BY <1>0, <2>2, <2>3, <2>4, OtherDevice
<1>3. CASE RuleCrashes(r)
  <2>1. UNCHANGED <<init, handle, uses, lost>>
    BY <1>3 DEF RuleCrashes, device
  <2>2. uses' = [x \in Obj |-> uses'[x]]
    BY <2>1 DEF DeviceInv
  <2>3. QED
    BY <1>0, <2>1, <2>2, OtherDevice
<1>4. QED
  BY <1>1, <1>2, <1>3

----------------------------------------------------------------------------
(* The end of a destructor.  A table another device table refers to is in  *)
(* use: the device refuses, and the table stays, lost, with its level.     *)
LEMMA DestroyKeeps ==
  ASSUME OwnersInv, DeviceInv, DestroyObject
  PROVE  OwnersInv' /\ DeviceInv'
<1> DEFINE x == Head(todo)
           busy == x \in handle /\ InUse(x)
<1>1. /\ todo # <<>> /\ Members(x) = {} /\ todo' = Tail(todo) /\ refs' = refs
      /\ handle' = handle \ {x}
      /\ lost' = IF busy THEN lost \cup {x} ELSE lost
      /\ init' = init \ {x}
      /\ uses' = IF busy \/ x \in lost THEN uses ELSE [uses EXCEPT ![x] = {}]
      /\ parent' = [y \in Group \cup Rule |-> IF y = x THEN Null ELSE parent[y]]
      /\ level' = [y \in Table |-> IF y = x /\ ~busy THEN 0 ELSE level[y]]
  BY DEF DestroyObject, FreedHandles
<1>2. todo \in Seq(Obj) /\ Once(todo) /\ Dying = Elems(todo) /\ Dying' = Elems(todo')
  BY DEF OwnersInv, Once, Dying, Elems
<1>3. /\ todo' \in Seq(Obj) /\ x \in Obj /\ Once(todo')
      /\ Dying = Dying' \cup {x} /\ x \notin Dying'
  BY <1>1, <1>2, PopFacts
<1> HIDE DEF x
<1>4. ~Alive(x) /\ x # Root /\ \A y : Alive(y)' <=> Alive(y)
  BY <1>1, <1>3, Zenon DEF OwnersInv, Alive, Holders
<1>5. OwnersInv'
  <2>1. ASSUME NEW p \in refs'
        PROVE  p[1] \in {"client", "adapter"}
               \/ (p[1] \in Obj /\ (Alive(p[1])' \/ p[1] \in Dying'))
    <3>1. p \in refs
      BY <1>1, <2>1
    <3>2. p[1] \in {"client", "adapter"} \/ (p[1] \in Obj /\ (Alive(p[1]) \/ p[1] \in Dying))
      BY <3>1 DEF OwnersInv
    <3>3. p[1] # x
      <4>1. p = <<p[1], p[2]>> /\ p[2] \in Obj
        BY <3>1 DEF OwnersInv
      <4>2. QED
        BY <1>1, <3>1, <4>1 DEF Members
    <3>4. QED
      BY <1>3, <1>4, <3>2, <3>3
  <2>2. ASSUME NEW y \in Group \cup Rule, NEW g \in Obj \cup {"client", "adapter"},
               <<g, y>> \in refs'
        PROVE  g \in {"client", parent'[y]} \ {"adapter"}
    <3>1. Alive(y) /\ y # x
      BY <1>1, <1>4, <2>2, AliveFacts
    <3>2. QED
      BY <1>1, <2>2, <3>1, Zenon DEF OwnersInv
  <2>3. Alive(Root)' => <<"adapter", Root>> \in refs' /\ Root \in init'
    BY <1>1, <1>4 DEF OwnersInv
  <2>4. parent' = [y \in Group \cup Rule |-> parent'[y]]
    BY <1>1
  <2>5. QED
    BY <1>1, <1>3, <1>4, <2>1, <2>2, <2>3, <2>4, Zenon DEF OwnersInv, Once
<1>6. x \notin Table \cap lost
  BY <1>3 DEF DeviceInv
<1>7. level' \in [Table -> Nat] /\ \A t \in Table : t # x \/ busy => level'[t] = level[t]
  BY <1>1 DEF DeviceInv
<1>8. /\ uses' = [y \in Obj |-> uses'[y]]
      /\ \A y \in Obj : y # x \/ busy => uses'[y] = uses[y]
  BY <1>1, Zenon DEF DeviceInv
<1>9. MissClimbs'
  <2>1. ASSUME NEW t \in Table \cap (handle' \cup lost'), NEW m \in uses'[t] \cap Table
        PROVE  m \in handle' \cup lost' /\ level'[m] > level'[t]
    <3>1. t \in handle \cup lost /\ (t # x \/ busy) /\ t \in Obj
      BY <1>1, <1>6, <2>1 DEF Obj
    <3>2. uses'[t] = uses[t] /\ level'[t] = level[t]
      BY <1>7, <1>8, <2>1, <3>1
    <3>3. m \in handle \cup lost /\ level[m] > level[t]
      BY <2>1, <3>1, <3>2 DEF DeviceInv, MissClimbs
    <3>4. CASE m = x
      <4>1. busy
        BY <1>6, <2>1, <3>1, <3>2, <3>3, <3>4 DEF InUse
      <4>2. QED
        BY <1>1, <1>7, <2>1, <3>2, <3>3, <3>4, <4>1
    <3>5. CASE m # x
      BY <1>1, <1>7, <2>1, <3>2, <3>3, <3>5
    <3>6. QED
      BY <3>4, <3>5
  <2>2. QED
    BY <2>1 DEF MissClimbs
<1>10. /\ Root \notin handle' \cup lost'
       /\ \A t \in Table \cap handle' : Alive(t)' \/ t \in Dying'
       /\ \A t \in Table \cap lost' : ~Alive(t)' /\ t \notin Dying'
       /\ (Table \cap init') \ {Root} \subseteq handle'
  BY <1>1, <1>3, <1>4 DEF DeviceInv
<1>11. QED
  BY <1>5, <1>7, <1>8, <1>9, <1>10 DEF DeviceInv

(* Every step of client, library and destructors keeps both. *)
LEMMA StepKeeps ==
  ASSUME OwnersInv, DeviceInv, [Next]_vars
  PROVE  OwnersInv' /\ DeviceInv'
<1>1. CASE DestroyMember
  <2>1. todo # <<>> /\ todo \in Seq(Obj)
    BY <1>1 DEF DestroyMember, OwnersInv
  <2>2. Head(todo) \in Obj
    BY <2>1, PopFacts
  <2>3. PICK y \in FirstMembers(Head(todo), Members(Head(todo))) : Release(Head(todo), y)
    BY <1>1 DEF DestroyMember
  <2>4. y \in Obj /\ UNCHANGED <<attrs, init, device>>
    BY <1>1, <2>3 DEF DestroyMember, FirstMembers, Members
  <2>5. QED
    BY <2>2, <2>3, <2>4, ReleaseKeeps
<1>2. CASE DestroyObject
  BY <1>2, DestroyKeeps
<1>3. CASE get_root_table
  BY <1>3, RootTableKeeps
<1>4. ASSUME NEW t \in Table, CreateTable(t)
      PROVE  OwnersInv' /\ DeviceInv'
  BY <1>4, CreateTableKeeps
<1>5. ASSUME NEW t \in Table, NEW l \in 0..(MaxLevel + 1), NEW m \in Table \cup {Null},
             create_flow_table(t, l, m)
      PROVE  OwnersInv' /\ DeviceInv'
  <2>1. l \in Nat
    BY FlowTablesAssumption
  <2>2. QED
    BY <1>5, <2>1, NewTableKeeps
<1>6. ASSUME NEW t \in Table, NEW g \in Group, add_flow_group(g, t)
      PROVE  OwnersInv' /\ DeviceInv'
  BY <1>6, NewGroupKeeps
<1>7. ASSUME NEW t \in Table, NEW g \in Group, remove_flow_group(t, g)
      PROVE  OwnersInv' /\ DeviceInv'
  BY <1>7, ReleaseKeeps DEF remove_flow_group, Obj
<1>8. ASSUME NEW g \in Group, CreateGroup(g)
      PROVE  OwnersInv' /\ DeviceInv'
  BY <1>8, CreateGroupKeeps
<1>9. ASSUME NEW g \in Group, NEW r \in Rule, remove_flow_rule(g, r)
      PROVE  OwnersInv' /\ DeviceInv'
  BY <1>9, ReleaseKeeps DEF remove_flow_rule, Obj
<1>10. ASSUME NEW g \in Group, NEW r \in Rule, NEW acts \in SUBSET Action,
              NEW d \in Table \cup {Null}, add_flow_rule(r, g, acts, d)
       PROVE  OwnersInv' /\ DeviceInv'
  BY <1>10, NewRuleKeeps
<1>11. ASSUME NEW r \in Rule, CreateRule(r) \/ CreateRuleFails(r) \/ RuleCrashes(r)
       PROVE  OwnersInv' /\ DeviceInv'
  BY <1>11, CreateRuleKeeps
<1>12. ASSUME NEW a \in Action, create_modify(a)
       PROVE  OwnersInv' /\ DeviceInv'
  BY <1>12, ClientKeeps DEF create_modify
<1>13. ASSUME NEW x \in Group \cup Rule, Lock(x)
       PROVE  OwnersInv' /\ DeviceInv'
  BY <1>13, ClientKeeps DEF Lock
<1>14. ASSUME NEW x \in Obj, Drop(x)
       PROVE  OwnersInv' /\ DeviceInv'
  BY <1>14, ReleaseKeeps DEF Drop
<1>15. CASE UNCHANGED vars
  <2>1. UNCHANGED <<refs, parent, level, todo, init, handle, uses, lost>>
    BY <1>15 DEF vars
  <2>2. uses' = [x \in Obj |-> uses'[x]]
    BY <2>1 DEF DeviceInv
  <2>3. QED
    BY <2>1, <2>2, OtherDevice
<1>16. QED
  BY <1>1, <1>2, <1>3, <1>4, <1>5, <1>6, <1>7, <1>8, <1>9, <1>10, <1>11, <1>12, <1>13, <1>14,
     <1>15 DEF Next

(* Nothing exists at the start. *)
LEMMA InitHolds == Init => OwnersInv /\ DeviceInv
<1>1. SUFFICES ASSUME Init PROVE OwnersInv /\ DeviceInv
  OBVIOUS
<1>2. Dying = {} /\ \A x : ~Alive(x)
  BY <1>1 DEF Init, Dying, Alive, Holders
<1>3. OwnersInv
  BY <1>1, <1>2 DEF Init, OwnersInv
<1>4. DeviceInv
  BY <1>1, <1>2 DEF Init, DeviceInv, MissClimbs
<1>5. QED
  BY <1>3, <1>4

(* Whatever a client creates, recreates and drops: the miss tables of the  *)
(* device climb from level to level and are all in the device.             *)
THEOREM MissClimbsHolds == Spec => []MissClimbs
<1>1. DeviceInv => MissClimbs
  BY DEF DeviceInv
<1>2. QED
  BY <1>1, InitHolds, StepKeeps, PTL DEF Spec

(* Whatever a client creates, removes and drops: a group without its table *)
(* or a rule without its group is one the client itself holds.             *)
THEOREM ExpiredOnlyIfHeldHolds == Spec => []ExpiredOnlyIfHeld
<1>1. ASSUME OwnersInv PROVE ExpiredOnlyIfHeld
  <2>1. SUFFICES ASSUME todo = <<>>, NEW x \in Group \cup Rule, Alive(x), ~Client(x)
                 PROVE  Alive(parent[x])
    BY DEF ExpiredOnlyIfHeld
  <2>2. PICK h \in Obj \cup {"client", "adapter"} : <<h, x>> \in refs
    BY <1>1, <2>1, AliveFacts
  <2>3. h = parent[x] /\ h # "client" /\ h # "adapter"
    BY <1>1, <2>1, <2>2, Zenon DEF OwnersInv, Client
  <2>4. Dying = {}
    BY <2>1 DEF Dying
  <2>5. Alive(h)
    BY <1>1, <2>2, <2>3, <2>4 DEF OwnersInv
  <2>6. QED
    BY <2>3, <2>5
<1>2. QED
  BY <1>1, InitHolds, StepKeeps, PTL DEF Spec

----------------------------------------------------------------------------
(* From here on the client keeps what is in use.  A call that adds         *)
(* shared_ptrs keeps the links when the new ones are of the same kind.     *)
LEMMA GrowLinks ==
  ASSUME OwnersInv, LinksInv, Dying = {}, Dying' = {}, NEW N, refs' = refs \cup N,
         N \subseteq (Obj \cup {"client", "adapter"}) \X Obj,
         \A g \in Group : parent'[g] \in Table \cup {Null},
         \A r \in Rule : parent'[r] \in Group \cup {Null},
         miss' \in [Table -> Table \cup {Null}], dest' \in [Rule -> Table \cup {Null}],
         \A x \in Group \cup Rule : \/ parent'[x] = parent[x]
                                    \/ ~Alive(x) /\ <<parent'[x], x>> \in N,
         \A t \in Table : \/ miss'[t] = miss[t]
                          \/ ~Alive(t) /\ Alive(t)' /\ (miss'[t] # Null => <<"client", miss'[t]>> \in refs),
         \A r \in Rule : \/ dest'[r] = dest[r]
                         \/ ~Alive(r) /\ Alive(r)' /\ (dest'[r] # Null => <<"client", dest'[r]>> \in refs),
         \A h, x : <<h, x>> \in N =>
           /\ x \in Group \cup Rule => Alive(x) \/ <<parent'[x], x>> \in N
           /\ h \in Obj /\ x \in Table => h \in Table /\ x = miss'[h]
           /\ h \in Obj /\ x \in Action => h \in Rule /\ Client(x)
  PROVE  LinksInv'
<1>1. /\ \A x : Alive(x) => Alive(x)'
      /\ \A x : Client(x) => Client(x)'
      /\ \A x : Present(x) <=> Alive(x)
      /\ \A x : Present(x)' <=> Alive(x)'
  BY DEF Alive, Holders, Client, Present
<1>2. ASSUME NEW h, NEW x, <<h, x>> \in N PROVE Alive(x)'
  BY <1>2 DEF Alive, Holders
<1>3. ASSUME NEW x, Alive(x)', ~Alive(x) PROVE \E h : <<h, x>> \in N
  BY <1>3, Zenon DEF Alive, Holders
<1>4. ASSUME NEW x \in Group \cup Rule
      PROVE  (parent'[x] # Null => Present(x)') /\ (Alive(x)' => <<parent'[x], x>> \in refs')
  BY <1>1, <1>2, <1>3, Zenon DEF LinksInv
<1>5. ASSUME NEW t \in Table, miss'[t] # Null PROVE Present(t)' /\ <<"client", miss'[t]>> \in refs'
  <2>1. CASE miss'[t] = miss[t]
    <3>1. Present(t) /\ Client(miss[t])
      BY <1>5, <2>1 DEF LinksInv
    <3>2. QED
      BY <1>1, <2>1, <3>1 DEF Client
  <2>2. CASE miss'[t] # miss[t]
    BY <1>1, <1>5, <2>2 DEF Client
  <2>3. QED
    BY <2>1, <2>2
<1>6. ASSUME NEW r \in Rule, dest'[r] # Null PROVE Present(r)' /\ <<"client", dest'[r]>> \in refs'
  <2>1. CASE dest'[r] = dest[r]
    <3>1. Present(r) /\ Client(dest[r])
      BY <1>6, <2>1 DEF LinksInv
    <3>2. QED
      BY <1>1, <2>1, <3>1 DEF Client
  <2>2. CASE dest'[r] # dest[r]
    BY <1>1, <1>6, <2>2 DEF Client
  <2>3. QED
    BY <2>1, <2>2
<1>7. ASSUME NEW h \in Obj, NEW m \in Table, <<h, m>> \in refs' PROVE h \in Table /\ m = miss'[h]
  <2>1. CASE <<h, m>> \in refs
    <3>1. h \in Table /\ m = miss[h]
      BY <2>1 DEF LinksInv
    <3>2. miss[h] # Null
      BY <3>1, FlowTablesAssumption DEF Obj
    <3>3. Alive(h)
      BY <1>1, <3>1, <3>2 DEF LinksInv
    <3>4. QED
      BY <3>1, <3>3, Zenon
  <2>2. QED
    BY <1>7, <2>1, Zenon
<1>8. \A h \in Obj, a \in Action : <<h, a>> \in refs' => h \in Rule /\ Client(a)'
  BY <1>1, Zenon DEF LinksInv, Client
<1>9. QED
  BY <1>4, <1>5, <1>6, <1>7, <1>8 DEF LinksInv, Client

(* It keeps what the device objects refer to, since those of the new       *)
(* objects do not exist yet.                                               *)
LEMMA GrowUses ==
  ASSUME UsesInv, Dying = {}, Dying' = {}, refs \subseteq refs', UNCHANGED <<handle, uses>>,
         \A x \in Table \cap handle : miss'[x] = miss[x],
         \A x \in (Group \cup Rule) \cap handle : parent'[x] = parent[x],
         \A x \in Rule \cap handle : dest'[x] = dest[x]
  PROVE  UsesInv'
<1>1. /\ \A x : Alive(x) => Alive(x)'
      /\ \A x : Client(x) => Client(x)'
      /\ \A x : Present(x) => Present(x)'
  BY DEF Alive, Holders, Client, Present
<1>2. \A x \in Obj : x \notin handle => uses[x] = {}
  BY DEF UsesInv
<1>3. ASSUME NEW t \in Table PROVE uses[t] \subseteq {miss'[t]} \ {Null}
  BY <1>2 DEF UsesInv, Obj
<1>4. ASSUME NEW g \in Group PROVE uses[g] \subseteq {parent'[g]} \ {Null}
  BY <1>2 DEF UsesInv, Obj
<1>5. ASSUME NEW r \in Rule, NEW x \in uses[r]
      PROVE  \/ x \in {parent'[r], dest'[r]} \ {Null}
             \/ x \in Action /\ Client(x)' /\ (<<r, x>> \in refs' \/ r \in Dying')
  <2>1. r \in handle
    BY <1>2, <1>5 DEF Obj
  <2>2. QED
    BY <1>1, <1>5, <2>1 DEF UsesInv, Client
<1>6. QED
  BY <1>1, <1>3, <1>4, <1>5, Zenon DEF UsesInv

(* With nothing being destroyed there is nothing to say of it. *)
LEMMA QuietDying == ASSUME todo = <<>> PROVE Dying = {} /\ DyingInv
<1>1. Dying = {}
  BY DEF Dying
<1>2. QED
  BY <1>1 DEF DyingInv

(* What such a call has to show. *)
LEMMA GrowKept ==
  ASSUME InUseKept, Quiet, UNCHANGED <<todo, handle, uses, lost, premature, crash>>,
         refs \subseteq refs', LinksInv',
         \A x \in Table : Alive(x) => miss'[x] = miss[x],
         \A x \in Group \cup Rule : Alive(x) => parent'[x] = parent[x],
         \A x \in Rule : Alive(x) => dest'[x] = dest[x]
  PROVE  InUseKept'
<1>1. todo = <<>> /\ todo' = <<>>
  BY DEF Quiet
<1>2. Dying = {} /\ DyingInv'  /\ Dying' = {}
  BY <1>1, QuietDying DEF Dying, DyingInv
<1>3. \A x \in handle : Alive(x)
  BY <1>2 DEF InUseKept, UsesInv, Present
<1>4. UsesInv'
  BY <1>2, <1>3, GrowUses DEF InUseKept
<1>5. QED
  BY <1>2, <1>4 DEF InUseKept

(* get_root_table, create_modify and Lock: the client gets a shared_ptr. *)
LEMMA ClientKept ==
  ASSUME OwnersInv, InUseKept, Quiet, NEW N, refs' = refs \cup N,
         N \subseteq {"client", "adapter"} \X Obj,
         \A h, x : <<h, x>> \in N /\ x \in Group \cup Rule => Alive(x),
         UNCHANGED <<attrs, todo, device, ghosts>>
  PROVE  InUseKept'
<1>1. UNCHANGED <<parent, miss, dest, todo, handle, uses, lost, premature, crash>>
  BY DEF attrs, device, ghosts
<1>2. todo = <<>> /\ todo' = <<>> /\ Dying = {} /\ Dying' = {} /\ LinksInv
  BY <1>1, QuietDying DEF Quiet, Dying, InUseKept
<1>3. \A h, x : <<h, x>> \in N => h \notin Obj
  BY FlowTablesAssumption
<1>4. LinksInv'
  <2>1. /\ \A g \in Group : parent'[g] \in Table \cup {Null}
        /\ \A r \in Rule : parent'[r] \in Group \cup {Null}
        /\ miss' \in [Table -> Table \cup {Null}] /\ dest' \in [Rule -> Table \cup {Null}]
    BY <1>1, <1>2 DEF LinksInv
  <2>2. N \subseteq (Obj \cup {"client", "adapter"}) \X Obj
    OBVIOUS
  <2>3. QED
    BY <1>1, <1>2, <1>3, <2>1, <2>2, GrowLinks, Zenon
<1>5. QED
  BY <1>1, <1>4, GrowKept

(* create_flow_table: the client holds the miss table. *)
LEMMA NewTableKept ==
  ASSUME OwnersInv, InUseKept, NEW t \in Table, NEW l, NEW m \in Table \cup {Null},
         create_flow_table(t, l, m)
  PROVE  InUseKept'
<1> DEFINE N == HeldByNew(t, m)
<1>1. /\ Quiet /\ Free(t) /\ (m # Null => Client(m)) /\ refs' = refs \cup N
      /\ miss' = [miss EXCEPT ![t] = m]
      /\ UNCHANGED <<todo, parent, dest, handle, uses, lost, premature, crash>>
  BY DEF create_flow_table, device, ghosts
<1>2. todo = <<>> /\ todo' = <<>> /\ Dying = {} /\ Dying' = {} /\ LinksInv
  BY <1>1, QuietDying DEF Quiet, Dying, InUseKept
<1>3. /\ N \subseteq (Obj \cup {"client", "adapter"}) \X Obj /\ <<"client", t>> \in N
      /\ \A h, x : <<h, x>> \in N => (h = "client" /\ x = t) \/ (h = t /\ x = m /\ m \in Table)
  BY FlowTablesAssumption DEF HeldByNew, Obj
<1> HIDE DEF N
<1>4. ~Alive(t) /\ Alive(t)' /\ miss \in [Table -> Table \cup {Null}]
  BY <1>1, <1>2, <1>3, Zenon DEF Alive, Holders, Free, LinksInv
<1>5. /\ \A g \in Group : parent'[g] \in Table \cup {Null}
      /\ \A r \in Rule : parent'[r] \in Group \cup {Null}
      /\ miss' \in [Table -> Table \cup {Null}] /\ dest' \in [Rule -> Table \cup {Null}]
      /\ miss'[t] = m /\ \A s \in Table : s # t => miss'[s] = miss[s]
  BY <1>1, <1>2, <1>4 DEF LinksInv
<1>6. \A s \in Table :
        \/ miss'[s] = miss[s]
        \/ ~Alive(s) /\ Alive(s)' /\ (miss'[s] # Null => <<"client", miss'[s]>> \in refs)
  BY <1>1, <1>4, <1>5 DEF Client
<1>7. \A h, x : <<h, x>> \in N =>
           /\ x \in Group \cup Rule => Alive(x) \/ <<parent'[x], x>> \in N
           /\ h \in Obj /\ x \in Table => h \in Table /\ x = miss'[h]
           /\ h \in Obj /\ x \in Action => h \in Rule /\ Client(x)
  BY <1>3, <1>5, FlowTablesAssumption DEF Obj
<1>8. LinksInv'
  BY <1>1, <1>2, <1>3, <1>5, <1>6, <1>7, GrowLinks, Zenon
<1>9. QED
  BY <1>1, <1>4, <1>5, <1>8, GrowKept

(* add_flow_group: the table holds the group, its parent. *)
LEMMA NewGroupKept ==
  ASSUME OwnersInv, InUseKept, NEW g \in Group, NEW t \in Table, add_flow_group(g, t)
  PROVE  InUseKept'
<1> DEFINE N == {<<t, g>>}
<1>1. /\ Quiet /\ Free(g) /\ refs' = refs \cup N /\ parent' = [parent EXCEPT ![g] = t]
      /\ UNCHANGED <<todo, miss, dest, handle, uses, lost, premature, crash>>
  BY DEF add_flow_group, device, ghosts
<1>2. todo = <<>> /\ todo' = <<>> /\ Dying = {} /\ Dying' = {} /\ LinksInv
  BY <1>1, QuietDying DEF Quiet, Dying, InUseKept
<1>3. /\ N \subseteq (Obj \cup {"client", "adapter"}) \X Obj
      /\ \A h, x : <<h, x>> \in N => h = t /\ x = g
      /\ <<t, g>> \in N
  BY DEF Obj
<1> HIDE DEF N
<1>4. /\ ~Alive(g) /\ parent'[g] = t
      /\ \A x \in Group \cup Rule : x # g => parent'[x] = parent[x]
  BY <1>1 DEF Free, OwnersInv
<1>5. /\ \A x \in Group : parent'[x] \in Table \cup {Null}
      /\ \A r \in Rule : parent'[r] \in Group \cup {Null}
      /\ miss' \in [Table -> Table \cup {Null}] /\ dest' \in [Rule -> Table \cup {Null}]
  BY <1>1, <1>2, <1>4, FlowTablesAssumption DEF LinksInv
<1>6. \A h, x : <<h, x>> \in N =>
           /\ x \in Group \cup Rule => Alive(x) \/ <<parent'[x], x>> \in N
           /\ h \in Obj /\ x \in Table => h \in Table /\ x = miss'[h]
           /\ h \in Obj /\ x \in Action => h \in Rule /\ Client(x)
  BY <1>3, <1>4, FlowTablesAssumption
<1>7. \A x \in Group \cup Rule : \/ parent'[x] = parent[x]
                                 \/ ~Alive(x) /\ <<parent'[x], x>> \in N
  BY <1>3, <1>4
<1>8. LinksInv'
  BY <1>1, <1>2, <1>3, <1>5, <1>6, <1>7, GrowLinks
<1>9. QED
  BY <1>1, <1>4, <1>8, GrowKept, Zenon

(* add_flow_rule: the client holds the destination and the actions. *)
LEMMA NewRuleKept ==
  ASSUME OwnersInv, InUseKept, NEW r \in Rule, NEW g \in Group, NEW acts \in SUBSET Action,
         NEW d \in Table \cup {Null}, add_flow_rule(r, g, acts, d)
  PROVE  InUseKept'
<1> DEFINE N == {<<g, r>>} \cup {<<r, a>> : a \in acts}
<1>1. /\ Quiet /\ Free(r) /\ refs' = refs \cup N /\ (d # Null => Client(d))
      /\ parent' = [parent EXCEPT ![r] = g] /\ dest' = [dest EXCEPT ![r] = d]
      /\ \A a \in acts : Client(a)
      /\ UNCHANGED <<todo, miss, handle, uses, lost, premature, crash>>
  BY Zenon DEF add_flow_rule, device, ghosts
<1>2. todo = <<>> /\ todo' = <<>> /\ Dying = {} /\ Dying' = {} /\ LinksInv
  BY <1>1, QuietDying, Zenon DEF Quiet, Dying, InUseKept
<1>3. /\ N \subseteq (Obj \cup {"client", "adapter"}) \X Obj /\ <<g, r>> \in N
      /\ \A h, x : <<h, x>> \in N => (h = g /\ x = r) \/ (h = r /\ x \in acts)
  BY DEF Obj
<1> HIDE DEF N
<1>4. /\ ~Alive(r) /\ Alive(r)' /\ parent'[r] = g
      /\ \A x \in Group \cup Rule : x # r => parent'[x] = parent[x]
  BY <1>1, <1>3, Zenon DEF Free, OwnersInv, Alive, Holders, Obj
<1>5. dest'[r] = d /\ \A x \in Rule : x # r => dest'[x] = dest[x]
  BY <1>1, <1>2 DEF LinksInv
<1>6. /\ \A x \in Group : parent'[x] \in Table \cup {Null}
      /\ \A x \in Rule : parent'[x] \in Group \cup {Null}
      /\ miss' \in [Table -> Table \cup {Null}] /\ dest' \in [Rule -> Table \cup {Null}]
  BY <1>1, <1>2, <1>4, FlowTablesAssumption DEF LinksInv
<1>7. \A h, x : <<h, x>> \in N =>
           /\ x \in Group \cup Rule => Alive(x) \/ <<parent'[x], x>> \in N
           /\ h \in Obj /\ x \in Table => h \in Table /\ x = miss'[h]
           /\ h \in Obj /\ x \in Action => h \in Rule /\ Client(x)
  BY <1>1, <1>3, <1>4, FlowTablesAssumption
<1>8. \A x \in Rule :
        \/ dest'[x] = dest[x]
        \/ ~Alive(x) /\ Alive(x)' /\ (dest'[x] # Null => <<"client", dest'[x]>> \in refs)
  BY <1>1, <1>4, <1>5 DEF Client
<1>9. \A x \in Group \cup Rule : \/ parent'[x] = parent[x]
                                 \/ ~Alive(x) /\ <<parent'[x], x>> \in N
  BY <1>3, <1>4
<1>10. LinksInv'
  BY <1>1, <1>2, <1>3, <1>6, <1>7, <1>8, <1>9, GrowLinks, Zenon
<1>11. QED
  BY <1>1, <1>4, <1>5, <1>10, GrowKept

(* A command changes no link; it keeps what the device objects refer to    *)
(* when the new ones belong to living objects and refer to their links.    *)
LEMMA CommandKept ==
  ASSUME OwnersInv, DeviceInv, InUseKept,
         UNCHANGED <<refs, parent, miss, dest, todo, lost, premature, crash>>,
         NEW D \in SUBSET Obj, handle' = handle \cup D, \A x \in D : Alive(x),
         \A x \in Obj : x \in D \/ uses'[x] = uses[x],
         \A t \in Table \cap D : uses'[t] \subseteq {miss[t]} \ {Null},
         \A g \in Group \cap D : uses'[g] \subseteq {parent[g]} \ {Null},
         \A r \in Rule \cap D : \A x \in uses'[r] :
           x \in {parent[r], dest[r]} \ {Null} \/ (x \in Action /\ <<r, x>> \in refs),
         \A a \in Action \cap D : uses'[a] = {}
  PROVE  InUseKept'
<1>1. /\ Dying' = Dying
      /\ \A x : Alive(x)' <=> Alive(x)
      /\ \A x : Present(x)' <=> Present(x)
      /\ \A x : Client(x)' <=> Client(x)
  BY Zenon DEF Dying, Alive, Holders, Present, Client
<1>2. LinksInv'
  BY <1>1, Zenon DEF InUseKept, LinksInv, Client
<1>3. DyingInv'
  BY <1>1 DEF InUseKept, DyingInv
<1>4. UsesInv'
  <2>1. ASSUME NEW x \in handle' PROVE x \in Obj /\ Present(x)'
    BY <1>1, Zenon DEF InUseKept, UsesInv, Present
  <2>2. ASSUME NEW x \in Obj \ handle' PROVE uses'[x] = {}
    BY Zenon DEF InUseKept, UsesInv
  <2>3. ASSUME NEW t \in Table PROVE uses'[t] \subseteq {miss'[t]} \ {Null}
    BY Zenon DEF InUseKept, UsesInv, Obj
  <2>4. ASSUME NEW g \in Group PROVE uses'[g] \subseteq {parent'[g]} \ {Null}
    BY Zenon DEF InUseKept, UsesInv, Obj
  <2>5. ASSUME NEW r \in Rule, NEW x \in uses'[r]
        PROVE  \/ x \in {parent'[r], dest'[r]} \ {Null}
               \/ x \in Action /\ Client(x)' /\ (<<r, x>> \in refs' \/ r \in Dying')
    <3>1. CASE r \in D
      <4>1. \A a \in Action : <<r, a>> \in refs => Client(a)
        BY Zenon DEF InUseKept, LinksInv, Obj
      <4>2. QED
        BY <1>1, <2>5, <3>1, <4>1, Zenon
    <3>2. CASE r \notin D
      <4>1. x \in uses[r]
        BY <2>5, <3>2, Zenon DEF Obj
      <4>2. QED
        BY <1>1, <4>1, Zenon DEF InUseKept, UsesInv
    <3>3. QED
      BY <3>1, <3>2
  <2>6. ASSUME NEW a \in Action PROVE uses'[a] = {}
    BY DEF InUseKept, UsesInv, Obj
  <2>7. QED
    BY <2>1, <2>2, <2>3, <2>4, <2>5, <2>6 DEF UsesInv
<1>5. QED
  BY <1>2, <1>3, <1>4, Zenon DEF InUseKept

(* flow_table_prm::create *)
LEMMA CreateTableKept ==
  ASSUME OwnersInv, DeviceInv, InUseKept, NEW t \in Table, CreateTable(t)
  PROVE  InUseKept'
<1>1. /\ Client(t) /\ handle' = handle \cup {t} /\ uses' = [uses EXCEPT ![t] = {miss[t]} \ {Null}]
      /\ UNCHANGED <<refs, parent, miss, dest, todo, lost, premature, crash>>
  BY DEF CreateTable, attrs, ghosts
<1>2. Alive(t) /\ t \in Obj /\ t \notin Group \cup Rule \cup Action
  BY <1>1, AliveFacts, FlowTablesAssumption DEF Client, Obj
<1>3. uses'[t] = {miss[t]} \ {Null} /\ \A x \in Obj : x # t => uses'[x] = uses[x]
  BY <1>1, <1>2 DEF DeviceInv
<1>4. /\ {t} \in SUBSET Obj /\ \A x \in {t} : Alive(x)
      /\ Group \cap {t} = {} /\ Rule \cap {t} = {} /\ Action \cap {t} = {}
      /\ \A s \in Table \cap {t} : uses'[s] \subseteq {miss[s]} \ {Null}
      /\ \A x \in Obj : x \in {t} \/ uses'[x] = uses[x]
  BY <1>2, <1>3
<1>5. QED
  BY <1>1, <1>4, CommandKept, Zenon

(* flow_group::create *)
LEMMA CreateGroupKept ==
  ASSUME OwnersInv, DeviceInv, InUseKept, NEW g \in Group, CreateGroup(g)
  PROVE  InUseKept'
<1>1. /\ Alive(g) /\ UNCHANGED <<refs, parent, miss, dest, todo, lost, premature, crash>>
      /\ g \in Obj /\ g \notin Table \cup Rule \cup Action
  BY FlowTablesAssumption DEF CreateGroup, attrs, ghosts, Obj
<1>2. CASE handle' = handle /\ uses' = uses
  <2>1. {} \in SUBSET Obj /\ handle' = handle \cup {}
    BY <1>2
  <2>2. QED
    BY <1>1, <1>2, <2>1, CommandKept, Zenon
<1>3. CASE handle' = handle \cup {g} /\ uses' = [uses EXCEPT ![g] = {parent[g]}]
  <2>1. uses'[g] = {parent[g]} /\ \A x \in Obj : x # g => uses'[x] = uses[x]
    BY <1>1, <1>3 DEF DeviceInv
  <2>2. parent[g] # Null
    <3>1. <<parent[g], g>> \in refs
      BY <1>1 DEF InUseKept, LinksInv
    <3>2. QED
      BY <3>1, AliveFacts, FlowTablesAssumption
  <2>3. /\ {g} \in SUBSET Obj /\ \A x \in {g} : Alive(x)
        /\ Table \cap {g} = {} /\ Rule \cap {g} = {} /\ Action \cap {g} = {}
        /\ \A h \in Group \cap {g} : uses'[h] \subseteq {parent[h]} \ {Null}
        /\ \A x \in Obj : x \in {g} \/ uses'[x] = uses[x]
    BY <1>1, <2>1, <2>2
  <2>4. QED
    BY <1>1, <1>3, <2>3, CommandKept, Zenon
<1>4. QED
  BY <1>2, <1>3 DEF CreateGroup

(* A rule of such a client has a living group, table and destination. *)
LEMMA RuleIsSound ==
  ASSUME OwnersInv, InUseKept, todo = <<>>, NEW r \in Rule, Alive(r)
  PROVE  ~RuleDangles(r) /\ parent[r] \in Group
<1>1. LinksInv /\ Dying = {}
  BY QuietDying DEF InUseKept
<1>2. ASSUME NEW x \in Group \cup Rule, Alive(x) PROVE Alive(parent[x]) /\ parent[x] # Null
  <2>1. <<parent[x], x>> \in refs
    BY <1>1, <1>2 DEF LinksInv
  <2>2. parent[x] \in Table \cup Group \cup {Null} /\ parent[x] \in Obj \cup {"client", "adapter"}
    BY <1>1, <2>1, AliveFacts DEF LinksInv
  <2>3. parent[x] \in Obj /\ parent[x] \notin {"client", "adapter"}
    BY <2>2, FlowTablesAssumption DEF Obj
  <2>4. QED
    BY <1>1, <2>1, <2>3, FlowTablesAssumption DEF OwnersInv
<1>3. Alive(parent[r]) /\ parent[r] \in Group
  BY <1>1, <1>2 DEF LinksInv
<1>4. Alive(parent[parent[r]])
  BY <1>2, <1>3
<1>5. dest[r] # Null => Alive(dest[r])
  <2>1. dest[r] # Null => <<"client", dest[r]>> \in refs
    BY <1>1 DEF LinksInv, Client
  <2>2. QED
    BY <2>1, AliveFacts
<1>6. QED
  BY <1>3, <1>4, <1>5 DEF RuleDangles

(* flow_rule_ex_prm::create and flow_rule_ex_kernel::create *)
LEMMA CreateRuleKept ==
  ASSUME OwnersInv, DeviceInv, InUseKept, disciplined, NEW r \in Rule,
         CreateRule(r) \/ CreateRuleFails(r) \/ RuleCrashes(r)
  PROVE  InUseKept'
<1>1. /\ Alive(r) /\ todo = <<>> /\ UNCHANGED <<refs, parent, miss, dest, todo, premature>>
      /\ r \in Obj /\ r \notin Table \cup Group \cup Action
  BY FlowTablesAssumption, Zenon DEF CreateRule, CreateRuleFails, RuleCrashes, Quiet, attrs, ghosts, Obj
<1>2. ~RuleDangles(r) /\ parent[r] \in Group
  BY <1>1, RuleIsSound
<1>3. /\ Members(r) \subseteq Action /\ Applied(r) \subseteq Action /\ Applied(r) \subseteq Members(r)
      /\ \A a \in Members(r) : Alive(a) /\ <<r, a>> \in refs
      /\ Action \subseteq Obj /\ Action \cap (Table \cup Group \cup Rule) = {}
  BY AliveFacts, FlowTablesAssumption, Zenon DEF Members, Applied, OwnersInv, Obj
<1>4. CASE RuleCrashes(r)
  BY <1>2, <1>4 DEF RuleCrashes
<1>5. CASE CreateRuleFails(r)
  <2>1. PICK done \in SUBSET Applied(r) : init' = init \cup done /\ handle' = handle \cup done
    BY <1>5 DEF CreateRuleFails
  <2>2. UNCHANGED <<uses, lost, crash>>
    BY <1>5 DEF CreateRuleFails, ghosts
  <2>3. /\ done \in SUBSET Obj /\ \A x \in done : Alive(x) /\ uses'[x] = {}
        /\ Table \cap done = {} /\ Group \cap done = {} /\ Rule \cap done = {}
    BY <1>3, <2>1, <2>2, Zenon DEF InUseKept, UsesInv
  <2>4. QED
    BY <1>1, <2>1, <2>2, <2>3, CommandKept, Zenon
<1>6. CASE CreateRule(r)
  <2>1. /\ r \notin handle /\ lost' = lost /\ crash' = crash
    BY <1>6, Zenon DEF CreateRule, Recreate, ghosts
  <2>2. PICK ok \in BOOLEAN :
          /\ handle' = (handle \cup Applied(r) \cup {r}) \ (IF ok THEN {} ELSE {r})
          /\ uses' = IF ok
                     THEN [uses EXCEPT ![r] = @ \cup ({dest[r]} \ {Null}) \cup
                             (IF OnRoot(parent[r]) THEN {} ELSE {parent[r]} \cup Members(r))]
                     ELSE uses
    BY <1>6, Zenon DEF CreateRule
  <2>3. \A a \in Action : uses[a] = {}
    BY DEF InUseKept, UsesInv
  <2>4. CASE ~ok
    <3>1. handle' = handle \cup Applied(r) /\ uses' = uses
      BY <1>1, <1>3, <2>1, <2>2, <2>4
    <3>2. /\ Applied(r) \in SUBSET Obj /\ \A x \in Applied(r) : Alive(x)
          /\ Table \cap Applied(r) = {} /\ Group \cap Applied(r) = {} /\ Rule \cap Applied(r) = {}
      BY <1>3, Zenon
    <3>3. QED
      BY <1>1, <2>1, <2>3, <3>1, <3>2, CommandKept
  <2>5. CASE ok
    <3> DEFINE D == Applied(r) \cup {r}
    <3>1. handle' = handle \cup D /\ D \in SUBSET Obj /\ \A x \in D : Alive(x)
      BY <1>1, <1>3, <2>2, <2>5, Zenon
    <3>2. Table \cap D = {} /\ Group \cap D = {} /\ Rule \cap D = {r}
      BY <1>1, <1>3
    <3>3. /\ uses'[r] \subseteq ({dest[r]} \ {Null}) \cup {parent[r]} \cup Members(r)
          /\ \A x \in Obj : x # r => uses'[x] = uses[x]
      <4>1. uses[r] = {}
        BY <1>1, <2>1, Zenon DEF InUseKept, UsesInv
      <4>2. QED
        BY <1>1, <2>2, <2>5, <4>1 DEF DeviceInv
    <3>4. parent[r] # Null
      BY <1>2, FlowTablesAssumption DEF Obj
    <3> HIDE DEF D
    <3>5. \A x \in uses'[r] : x \in {parent[r], dest[r]} \ {Null} \/ (x \in Action /\ <<r, x>> \in refs)
      BY <1>3, <3>3, <3>4
    <3>6. \A a \in Action \cap D : uses'[a] = {}
      BY <1>1, <1>3, <2>3, <3>3
    <3>7. \A x \in Obj : x \in D \/ uses'[x] = uses[x]
      BY <3>2, <3>3
    <3>8. QED
      BY <1>1, <2>1, <3>1, <3>2, <3>5, <3>6, <3>7, CommandKept, Zenon
  <2>6. QED
    BY <2>4, <2>5
<1>7. QED
  BY <1>4, <1>5, <1>6

(* A shared_ptr that goes: nothing in use loses its owner when the client  *)
(* drops only what is not linked to, and a parent only what the client     *)
(* does not hold.                                                          *)
LEMMA ReleaseKept ==
  ASSUME OwnersInv, InUseKept, NEW h \in Obj \cup {"client"}, NEW x \in Obj, Release(h, x),
         UNCHANGED <<parent, miss, dest, handle, uses, lost, premature, crash>>,
         h # "client" /\ x \in Group \cup Rule => ~Client(x),
         h = "client" => todo = <<>>,
         h = "client" /\ x \in Table \cup Action =>
           /\ \A t \in Table : miss[t] # x
           /\ \A r \in Rule : dest[r] # x /\ <<r, x>> \notin refs,
         h \in Rule => h \in Dying,
         Holders(x) = {h} =>
           /\ todo = <<>> \/ (x \in Group \cup Rule /\ Head(todo) = parent[x])
           /\ \A y \in Group \cup Rule : parent[y] = x => ~Client(y)
           /\ \A r \in Rule, g \in Group : parent[r] = g /\ Alive(g) /\ parent[g] = x => ~Client(r)
  PROVE  InUseKept'
<1>1. /\ refs' = refs \ {<<h, x>>} /\ todo \in Seq(Obj) /\ todo' \in Seq(Obj)
      /\ Dying \subseteq Dying'
      /\ \A y : Alive(y)' => Alive(y)
      /\ \A y : Present(y) => Present(y)'
      /\ \A y : Client(y)' => Client(y)
      /\ \A y : Client(y) => Client(y)' \/ (h = "client" /\ y = x)
  BY ReleaseFacts, Zenon DEF Release, Client, Present, OwnersInv
<1>2. \A y \in Dying' : y \in Dying \/ (y = x /\ Holders(x) = {h})
  <2>1. CASE Holders(x) = {h}
    <3>1. todo' = <<x>> \o todo
      BY <2>1 DEF Release
    <3>2. Elems(todo') = Elems(todo) \cup {x}
      BY <1>1, <3>1, PushFacts
    <3>3. QED
      BY <2>1, <3>2 DEF Dying, Elems
  <2>2. CASE Holders(x) # {h}
    BY <2>2 DEF Release, Dying
  <2>3. QED
    BY <2>1, <2>2
<1>3. LinksInv /\ UsesInv /\ DyingInv
  BY DEF InUseKept
<1>4. LinksInv'
  <2>1. ASSUME NEW y \in Group \cup Rule, Alive(y)' PROVE <<parent[y], y>> \in refs'
    <3>1. <<parent[y], y>> \in refs
      BY <1>1, <1>3, <2>1 DEF LinksInv
    <3>2. SUFFICES ASSUME h = parent[y], y = x PROVE FALSE
      BY <1>1, <3>1
    <3>3. parent[y] \in Table \cup Group \cup {Null}
      BY <1>3 DEF LinksInv
    <3>4. h # "client"
      BY <3>2, <3>3, FlowTablesAssumption DEF Obj
    <3>5. <<"client", x>> \notin refs
      BY <2>1, <3>2, <3>4 DEF Client
    <3>6. PICK p \in Obj \cup {"client", "adapter"} : <<p, x>> \in refs'
      BY <2>1, <3>2, Zenon DEF Alive, Holders
    <3>7. p \in {"client", parent[x]}
      BY <1>1, <2>1, <3>2, <3>6, Zenon DEF OwnersInv
    <3>8. QED
      BY <1>1, <3>2, <3>5, <3>6, <3>7
  <2>2. ASSUME NEW t \in Table, miss[t] # Null PROVE Present(t)' /\ <<"client", miss[t]>> \in refs'
    <3>1. Present(t) /\ <<"client", miss[t]>> \in refs /\ miss[t] \in Table
      BY <1>3, <2>2 DEF LinksInv, Client
    <3>2. QED
      BY <1>1, <3>1
  <2>3. ASSUME NEW r \in Rule, dest[r] # Null PROVE Present(r)' /\ <<"client", dest[r]>> \in refs'
    <3>1. Present(r) /\ <<"client", dest[r]>> \in refs /\ dest[r] \in Table
      BY <1>3, <2>3 DEF LinksInv, Client
    <3>2. QED
      BY <1>1, <3>1, Zenon
  <2>4. ASSUME NEW p \in Obj, NEW a \in Action, <<p, a>> \in refs'
        PROVE  p \in Rule /\ <<"client", a>> \in refs'
    <3>1. <<p, a>> \in refs /\ p \in Rule /\ <<"client", a>> \in refs
      BY <1>1, <1>3, <2>4 DEF LinksInv, Client
    <3>2. QED
      BY <1>1, <3>1
  <2>5. \A p \in Obj, m \in Table : <<p, m>> \in refs' => p \in Table /\ m = miss[p]
    BY <1>1, <1>3 DEF LinksInv
  <2>6. \A y \in Group \cup Rule : parent[y] # Null => Present(y)'
    BY <1>1, <1>3, Zenon DEF LinksInv
  <2>7. QED
    BY <1>3, <2>1, <2>2, <2>3, <2>4, <2>5, <2>6 DEF LinksInv, Client
<1>5. UsesInv'
  <2>1. \A y \in handle : y \in Obj /\ Present(y)'
    BY <1>1, <1>3, Zenon DEF UsesInv
  <2>2. ASSUME NEW r \in Rule, NEW y \in uses[r], y \notin {parent[r], dest[r]} \ {Null}
        PROVE  y \in Action /\ <<"client", y>> \in refs' /\ (<<r, y>> \in refs' \/ r \in Dying')
    <3>1. y \in Action /\ <<"client", y>> \in refs /\ (<<r, y>> \in refs \/ r \in Dying)
      BY <1>3, <2>2 DEF UsesInv, Client
    <3>2. <<"client", y>> \in refs'
      <4>1. SUFFICES ASSUME h = "client", x = y PROVE FALSE
        BY <1>1, <3>1
      <4>2. todo = <<>> /\ <<r, y>> \notin refs
        BY <3>1, <4>1
      <4>3. QED
        BY <3>1, <4>2, QuietDying
    <3>3. <<r, y>> \in refs' \/ r \in Dying'
      BY <1>1, <3>1
    <3>4. QED
      BY <3>1, <3>2, <3>3
  <2>3. QED
    BY <1>3, <2>1, <2>2 DEF UsesInv, Client
<1>6. DyingInv'
  <2>1. ASSUME NEW i \in 1..Len(todo'), i < Len(todo')
        PROVE  todo'[i] \in Group \cup Rule /\ todo'[i + 1] = parent[todo'[i]]
    <3>1. CASE Holders(x) = {h}
      <4>1. todo' = <<x>> \o todo
        BY <3>1 DEF Release
      <4>2. /\ Len(todo') = Len(todo) + 1 /\ Len(todo) \in Nat
            /\ todo'[1] = x /\ \A j \in 1..Len(todo) : todo'[j + 1] = todo[j]
        BY <1>1, <4>1
      <4>3. CASE i = 1
        <5>1. todo # <<>> /\ todo'[2] = Head(todo)
          BY <1>1, <2>1, <4>2, <4>3
        <5>2. QED
          BY <3>1, <4>2, <4>3, <5>1
      <4>4. CASE i # 1
        <5>1. i - 1 \in 1..Len(todo) /\ i - 1 < Len(todo) /\ (i - 1) + 1 = i /\ i \in 1..Len(todo)
          BY <2>1, <4>2, <4>4
        <5>2. todo[i - 1] \in Group \cup Rule /\ todo[i] = parent[todo[i - 1]]
          BY <1>3, <5>1 DEF DyingInv
        <5>3. QED
          BY <4>2, <5>1, <5>2
      <4>5. QED
        BY <4>3, <4>4
    <3>2. CASE Holders(x) # {h}
      BY <1>3, <2>1, <3>2 DEF DyingInv, Release
    <3>3. QED
      BY <3>1, <3>2
  <2>2. ASSUME NEW y \in Group \cup Rule, parent[y] \in Dying' PROVE ~Client(y)'
    BY <1>1, <1>2, <1>3, <2>2 DEF DyingInv
  <2>3. ASSUME NEW r \in Rule, NEW g \in Group, parent[r] = g, Alive(g)', parent[g] \in Dying'
        PROVE  ~Client(r)'
    BY <1>1, <1>2, <1>3, <2>3 DEF DyingInv
  <2>4. QED
    BY <2>1, <2>2, <2>3 DEF DyingInv
<1>7. QED
  BY <1>4, <1>5, <1>6 DEF InUseKept

(* remove_flow_group and remove_flow_rule: the parent lets a part go of    *)
(* which the client holds nothing.                                         *)
LEMMA RemoveKept ==
  ASSUME OwnersInv, InUseKept, disciplined,
         NEW h, NEW x, (h \in Table /\ x \in Group) \/ (h \in Group /\ x \in Rule),
         (remove_flow_group(h, x) /\ x \in Group) \/ (remove_flow_rule(h, x) /\ x \in Rule)
  PROVE  InUseKept'
<1>1. /\ todo = <<>> /\ Release(h, x) /\ ~Client(x)
      /\ x \in Group => \A r \in RulesOf(x) : ~Client(r)
      /\ UNCHANGED <<parent, miss, dest, handle, uses, lost, premature, crash>>
  BY FlowTablesAssumption, Zenon DEF remove_flow_group, remove_flow_rule, Quiet, attrs, device, ghosts
<1>2. /\ h \in Obj /\ x \in Obj /\ x \in Group \cup Rule /\ h \notin Rule /\ h # "client"
      /\ x \notin Table \cup Action
  BY FlowTablesAssumption DEF Obj
<1>3. LinksInv
  BY DEF InUseKept
<1>4. ASSUME NEW y \in Group \cup Rule, parent[y] = x PROVE ~Client(y)
  <2>1. x \in Group /\ y \in Rule
    BY <1>2, <1>3, <1>4, FlowTablesAssumption DEF LinksInv, Obj
  <2>2. ~Alive(y) => ~Client(y)
    BY AliveFacts DEF Client
  <2>3. QED
    BY <1>1, <1>4, <2>1, <2>2 DEF RulesOf
<1>5. ASSUME NEW g \in Group PROVE parent[g] # x
  BY <1>2, <1>3, FlowTablesAssumption DEF LinksInv, Obj
<1>6. QED
  BY <1>1, <1>2, <1>4, <1>5, ReleaseKept

(* The client drops a table or an action it needs no more, or one of its   *)
(* shared_ptrs to a group or rule.                                         *)
LEMMA DropKept ==
  ASSUME OwnersInv, InUseKept, disciplined, NEW x \in Obj, Drop(x)
  PROVE  InUseKept'
<1>1. /\ todo = <<>> /\ Release("client", x) /\ Client(x) /\ ~StillNeeded(x)
      /\ UNCHANGED <<parent, miss, dest, handle, uses, lost, premature, crash>>
  BY DEF Drop, Quiet, attrs, device, ghosts
<1>2. LinksInv /\ Dying = {} /\ "client" \notin Rule
  BY <1>1, QuietDying, FlowTablesAssumption DEF InUseKept, Obj
<1>3. CASE x \in Group \cup Rule
  <2>1. <<parent[x], x>> \in refs /\ parent[x] \in Table \cup Group \cup {Null}
    BY <1>1, <1>2, <1>3, AliveFacts DEF LinksInv, Client
  <2>2. parent[x] \in Holders(x) /\ parent[x] # "client"
    BY <2>1, AliveFacts, FlowTablesAssumption DEF Holders, Obj
  <2>3. Holders(x) # {"client"} /\ x \notin Table \cup Action
    BY <1>3, <2>2, FlowTablesAssumption
  <2>4. QED
    BY <1>1, <1>2, <2>3, ReleaseKept
<1>4. CASE x \in Table \cup Action
  <2>1. ASSUME NEW t \in Table PROVE miss[t] # x
    <3>1. SUFFICES ASSUME miss[t] = x PROVE FALSE
      OBVIOUS
    <3>2. miss[t] # Null /\ x \in Table
      BY <1>2, <3>1, FlowTablesAssumption DEF LinksInv
    <3>3. Alive(t)
      BY <1>2, <3>2 DEF LinksInv, Present
    <3>4. QED
      BY <1>1, <3>1, <3>2, <3>3, Zenon DEF StillNeeded
  <2>2. ASSUME NEW r \in Rule PROVE dest[r] # x
    <3>1. SUFFICES ASSUME dest[r] = x PROVE FALSE
      OBVIOUS
    <3>2. dest[r] # Null /\ x \in Table
      BY <1>2, <3>1, FlowTablesAssumption DEF LinksInv
    <3>3. Alive(r)
      BY <1>2, <3>2 DEF LinksInv, Present
    <3>4. QED
      BY <1>1, <3>1, <3>2, <3>3, Zenon DEF StillNeeded
  <2>3. \A r \in Rule : <<r, x>> \notin refs
    BY <1>1, FlowTablesAssumption, Zenon DEF StillNeeded, Obj
  <2>4. ASSUME NEW y \in Group \cup Rule, parent[y] = x PROVE ~Client(y)
    <3>1. y \in Group /\ x \in Table
      BY <1>2, <1>4, <2>4, FlowTablesAssumption, Zenon DEF LinksInv, Obj
    <3>2. ~Alive(y) => ~Client(y)
      BY AliveFacts DEF Client
    <3>3. QED
      BY <1>1, <2>4, <3>1, <3>2, Zenon DEF StillNeeded, GroupsOf
  <2>5. ASSUME NEW r \in Rule, NEW g \in Group, parent[r] = g, Alive(g), parent[g] = x
        PROVE  ~Client(r)
    <3>1. x \in Table
      BY <1>2, <1>4, <2>5, FlowTablesAssumption DEF LinksInv, Obj
    <3>2. ~Alive(r) => ~Client(r)
      BY AliveFacts DEF Client
    <3>3. QED
      BY <1>1, <2>5, <3>1, <3>2 DEF StillNeeded, GroupsOf, RulesOf
  <2>6. QED
    BY <1>1, <1>2, <2>1, <2>2, <2>3, <2>4, <2>5, ReleaseKept
<1>5. QED
  BY <1>3, <1>4 DEF Obj

(* A destructor lets a member go: the client has its tables and actions,   *)
(* and nothing of the groups and rules.                                    *)
LEMMA DestroyMemberKept ==
  ASSUME OwnersInv, InUseKept, DestroyMember
  PROVE  InUseKept'
<1> DEFINE h == Head(todo)
<1>1. /\ todo # <<>> /\ todo \in Seq(Obj) /\ h \in Obj /\ h \in Dying
      /\ UNCHANGED <<parent, miss, dest, handle, uses, lost, premature, crash>>
  <2>1. todo # <<>> /\ todo \in Seq(Obj) /\ Dying = Elems(todo)
    BY DEF DestroyMember, OwnersInv, Dying, Elems
  <2>2. QED
    BY <2>1, PopFacts DEF DestroyMember, attrs, device, ghosts
<1>2. PICK x \in FirstMembers(h, Members(h)) : Release(h, x)
  BY DEF DestroyMember
<1>3. x \in Obj /\ <<h, x>> \in refs /\ h # "client" /\ h \in Obj \cup {"client"}
  BY <1>1, <1>2, FlowTablesAssumption, Zenon DEF FirstMembers, Members
<1>4. LinksInv /\ DyingInv
  BY DEF InUseKept
<1> HIDE DEF h
<1>5. CASE x \in Table \cup Action
  <2>1. <<"client", x>> \in refs
    <3>1. CASE x \in Table
      <4>1. h \in Table /\ x = miss[h] /\ x # Null
        BY <1>1, <1>3, <1>4, <3>1, FlowTablesAssumption DEF LinksInv
      <4>2. QED
        BY <1>4, <4>1 DEF LinksInv, Client
    <3>2. CASE x \in Action
      BY <1>1, <1>3, <1>4, <3>2 DEF LinksInv, Client
    <3>3. QED
      BY <1>5, <3>1, <3>2
  <2>2. "client" \in Holders(x)
    BY <2>1 DEF Holders
  <2>3. Holders(x) # {h} /\ x \notin Group \cup Rule
    BY <1>3, <1>5, <2>2, FlowTablesAssumption
  <2>4. QED
    BY <1>1, <1>2, <1>3, <2>3, ReleaseKept
<1>6. CASE x \in Group \cup Rule
  <2>1. h = parent[x] /\ Alive(x)
    BY <1>1, <1>3, <1>6, AliveFacts, Zenon DEF OwnersInv
  <2>2. ~Client(x)
    BY <1>1, <1>4, <1>6, <2>1, Zenon DEF DyingInv
  <2>3. ASSUME NEW y \in Group \cup Rule, parent[y] = x PROVE ~Client(y)
    <3>1. y \in Rule /\ x \in Group
      BY <1>4, <1>6, <2>3, FlowTablesAssumption DEF LinksInv, Obj
    <3>2. QED
      BY <1>1, <1>4, <2>1, <2>3, <3>1 DEF DyingInv
  <2>4. ASSUME NEW g \in Group PROVE parent[g] # x
    BY <1>4, <1>6, FlowTablesAssumption DEF LinksInv, Obj
  <2>5. Head(todo) = parent[x]
    BY <2>1 DEF h
  <2>6. QED
    BY <1>1, <1>2, <1>3, <1>6, <2>2, <2>3, <2>4, <2>5, ReleaseKept
<1>7. QED
  BY <1>3, <1>5, <1>6 DEF Obj

(* What is destroyed last is not in use: its parts went before it, and     *)
(* whatever else is linked to has an owner, the client.                    *)
LEMMA NotInUse ==
  ASSUME OwnersInv, InUseKept, todo # <<>>, Members(Head(todo)) = {}
  PROVE  ~InUse(Head(todo))
<1> DEFINE x == Head(todo)
           n == Len(todo)
<1>1. /\ todo \in Seq(Obj) /\ n \in Nat \ {0} /\ x = todo[1] /\ 1 \in 1..n
      /\ \A i \in 1..n : todo[i] \in Obj
  BY DEF OwnersInv
<1>2. /\ x \in Dying /\ x \in Obj
      /\ \A h : <<h, x>> \notin refs
  <2>1. x \in Dying /\ x \in Obj
    BY <1>1 DEF Dying
  <2>2. ~Alive(x)
    BY <2>1 DEF OwnersInv
  <2>3. QED
    BY <2>1, <2>2, AliveFacts
<1>3. /\ LinksInv /\ UsesInv /\ DyingInv /\ lost = {}
      /\ \A i, j \in 1..n : todo[i] = todo[j] => i = j
  BY DEF InUseKept, OwnersInv
<1> HIDE DEF x, n
<1>4. SUFFICES ASSUME NEW y \in handle, x \in uses[y] PROVE FALSE
  BY <1>3 DEF InUse, x
<1>5. y \in Obj /\ Present(y)
  BY <1>3, <1>4 DEF UsesInv
<1>6. CASE y \in Table \cup Action
  <2>1. y \in Table /\ x = miss[y] /\ x # Null
    BY <1>3, <1>4, <1>6 DEF UsesInv
  <2>2. QED
    BY <1>2, <1>3, <2>1, Zenon DEF LinksInv, Client
<1>7. CASE y \in Group \cup Rule
  <2>1. x = parent[y]
    <3>1. CASE y \in Group
      BY <1>3, <1>4, <3>1 DEF UsesInv
    <3>2. CASE y \in Rule
      <4>1. x = parent[y] \/ (x = dest[y] /\ x # Null) \/ Client(x)
        BY <1>3, <1>4, <3>2, Zenon DEF UsesInv
      <4>2. QED
        BY <1>2, <1>3, <3>2, <4>1 DEF LinksInv, Client
    <3>3. QED
      BY <1>7, <3>1, <3>2
  <2>2. (x \in Table /\ y \in Group) \/ (x \in Group /\ y \in Rule)
    BY <1>2, <1>3, <1>7, <2>1, FlowTablesAssumption DEF LinksInv
  <2>3. ~Alive(y)
    BY <1>3, <1>5, <1>7, <2>1, Zenon DEF LinksInv, Members, x
  <2>4. PICK i \in 1..n : y = todo[i]
    BY <1>5, <2>3 DEF Present, Dying, n
  <2>5. \A j \in 1..n : j < n => todo[j] \in Group \cup Rule /\ todo[j + 1] = parent[todo[j]]
    BY <1>3, Zenon DEF DyingInv, n
  <2>6. CASE i < n
    <3>1. todo[i + 1] = todo[1] /\ i + 1 \in 1..n
      BY <1>1, <2>1, <2>4, <2>5, <2>6
    <3>2. i + 1 = 1
      BY <1>1, <1>3, <3>1
    <3>3. QED
      BY <3>2
  <2>7. CASE i = n
    <3>1. n # 1
      BY <1>1, <2>2, <2>4, <2>7, FlowTablesAssumption
    <3>2. 1 < n /\ 2 \in 1..n
      BY <1>1, <3>1
    <3>3. x \in Group /\ y \in Rule /\ todo[2] = parent[x]
      BY <1>1, <2>2, <2>5, <3>2, FlowTablesAssumption
    <3>4. todo[2] \in Table
      BY <1>1, <1>3, <3>2, <3>3, FlowTablesAssumption DEF LinksInv
    <3>5. ~(2 < n)
      BY <2>5, <3>2, <3>4, FlowTablesAssumption
    <3>6. y = todo[2]
      BY <1>1, <2>4, <2>7, <3>2, <3>5
    <3>7. QED
      BY <3>3, <3>4, <3>6, FlowTablesAssumption
  <2>8. QED
    BY <1>1, <2>4, <2>6, <2>7
<1>8. QED
  BY <1>5, <1>6, <1>7 DEF Obj

(* The end of a destructor *)
LEMMA DestroyKept ==
  ASSUME OwnersInv, DeviceInv, InUseKept, DestroyObject
  PROVE  InUseKept'
<1> DEFINE x == Head(todo)
<1>1. todo # <<>> /\ Members(x) = {} /\ todo' = Tail(todo) /\ refs' = refs /\ crash' = crash
  BY DEF DestroyObject
<1>2. ~InUse(x) /\ lost = {}
  BY <1>1, NotInUse DEF InUseKept
<1>3. /\ handle' = handle \ {x} /\ lost' = lost /\ premature' = premature
      /\ uses' = [uses EXCEPT ![x] = {}]
      /\ parent' = [y \in Group \cup Rule |-> IF y = x THEN Null ELSE parent[y]]
      /\ dest' = [y \in Rule |-> IF y = x THEN Null ELSE dest[y]]
      /\ miss' = [y \in Table |-> IF y = x THEN Null ELSE miss[y]]
  BY <1>2 DEF DestroyObject, FreedHandles
<1>4. todo \in Seq(Obj) /\ Once(todo) /\ Dying = Elems(todo) /\ Dying' = Elems(todo')
  BY DEF OwnersInv, Once, Dying, Elems
<1>5. todo' \in Seq(Obj) /\ x \in Obj /\ Dying = Dying' \cup {x} /\ x \notin Dying'
  BY <1>1, <1>4, PopFacts
<1>6. /\ Len(todo) \in Nat \ {0} /\ Len(todo') = Len(todo) - 1
      /\ \A i \in 1..Len(todo') : todo'[i] = todo[i + 1] /\ todo'[i] \in Dying'
      /\ Dying' \subseteq Obj
  BY <1>1, <1>4, <1>5 DEF Dying
<1> HIDE DEF x
<1>7. /\ \A y : Alive(y)' <=> Alive(y)
      /\ \A y : Client(y)' <=> Client(y)
      /\ \A y : Present(y) /\ y # x => Present(y)'
      /\ ~Alive(x)
      /\ \A y \in Obj : <<x, y>> \notin refs
  BY <1>1, <1>5, Zenon DEF Alive, Holders, Client, Present, OwnersInv, Members
<1>8. LinksInv /\ UsesInv /\ DyingInv
  BY DEF InUseKept
<1>9. uses'[x] = {} /\ \A y \in Obj : y # x => uses'[y] = uses[y]
  BY <1>3, <1>5 DEF DeviceInv
<1>10. LinksInv'
  <2>1. /\ \A g \in Group : parent'[g] \in Table \cup {Null}
        /\ \A r \in Rule : parent'[r] \in Group \cup {Null}
        /\ miss' \in [Table -> Table \cup {Null}] /\ dest' \in [Rule -> Table \cup {Null}]
    BY <1>3, <1>8, Zenon DEF LinksInv
  <2>2. ASSUME NEW y \in Group \cup Rule
        PROVE  (parent'[y] # Null => Present(y)') /\ (Alive(y)' => <<parent'[y], y>> \in refs')
    BY <1>1, <1>3, <1>7, <1>8, ZenonT(30) DEF LinksInv
  <2>3. ASSUME NEW t \in Table, miss'[t] # Null
        PROVE  Present(t)' /\ <<"client", miss'[t]>> \in refs'
    BY <1>1, <1>3, <1>7, <1>8, <2>3, Zenon DEF LinksInv, Client
  <2>4. ASSUME NEW r \in Rule, dest'[r] # Null
        PROVE  Present(r)' /\ <<"client", dest'[r]>> \in refs'
    BY <1>1, <1>3, <1>7, <1>8, <2>4 DEF LinksInv, Client
  <2>5. ASSUME NEW h \in Obj, NEW m \in Table, <<h, m>> \in refs' PROVE h \in Table /\ m = miss'[h]
    <3>1. h \in Table /\ m = miss[h] /\ h # x
      BY <1>1, <1>7, <1>8, <2>5, Zenon DEF LinksInv, Obj
    <3>2. QED
      BY <1>3, <3>1
  <2>6. \A h \in Obj, a \in Action : <<h, a>> \in refs' => h \in Rule /\ <<"client", a>> \in refs'
    BY <1>1, <1>8 DEF LinksInv, Client
  <2>7. QED
    BY <2>1, <2>2, <2>3, <2>4, <2>5, <2>6 DEF LinksInv, Client
<1>11. UsesInv'
  <2>1. \A y \in handle' : y \in Obj /\ Present(y)'
    BY <1>3, <1>7, <1>8, Zenon DEF UsesInv
  <2>2. ASSUME NEW y \in Obj \ handle' PROVE uses'[y] = {}
    BY <1>3, <1>8, <1>9, Zenon DEF UsesInv
  <2>3. ASSUME NEW t \in Table PROVE uses'[t] \subseteq {miss'[t]} \ {Null}
    BY <1>3, <1>8, <1>9, Zenon DEF UsesInv, Obj
  <2>4. ASSUME NEW g \in Group PROVE uses'[g] \subseteq {parent'[g]} \ {Null}
    BY <1>3, <1>8, <1>9 DEF UsesInv, Obj
  <2>5. ASSUME NEW r \in Rule, NEW y \in uses'[r]
        PROVE  \/ y \in {parent'[r], dest'[r]} \ {Null}
               \/ y \in Action /\ Client(y)' /\ (<<r, y>> \in refs' \/ r \in Dying')
    <3>1. r # x /\ y \in uses[r]
      BY <1>9, <2>5 DEF Obj
    <3>2. parent'[r] = parent[r] /\ dest'[r] = dest[r]
      BY <1>3, <3>1
    <3>3. QED
      BY <1>1, <1>5, <1>7, <1>8, <3>1, <3>2 DEF UsesInv
  <2>6. ASSUME NEW a \in Action PROVE uses'[a] = {}
    BY <1>8, <1>9 DEF UsesInv, Obj
  <2>7. QED
    BY <2>1, <2>2, <2>3, <2>4, <2>5, <2>6 DEF UsesInv
<1>12. DyingInv'
  <2>1. ASSUME NEW i \in 1..Len(todo'), i < Len(todo')
        PROVE  todo'[i] \in Group \cup Rule /\ todo'[i + 1] = parent'[todo'[i]]
    <3>1. i + 1 \in 1..Len(todo) /\ i + 1 < Len(todo) /\ i + 1 \in 1..Len(todo')
      BY <1>6, <2>1
    <3>2. todo[i + 1] \in Group \cup Rule /\ todo[(i + 1) + 1] = parent[todo[i + 1]]
      BY <1>8, <3>1 DEF DyingInv
    <3>3. /\ todo'[i] = todo[i + 1] /\ todo'[i + 1] = todo[(i + 1) + 1]
          /\ todo'[i] # x
      BY <1>5, <1>6, <3>1
    <3>4. QED
      BY <1>3, <3>2, <3>3
  <2>2. ASSUME NEW y \in Group \cup Rule, parent'[y] \in Dying' PROVE parent[y] \in Dying /\ parent'[y] = parent[y]
    BY <1>3, <1>5, <1>6, <2>2, FlowTablesAssumption
  <2>3. ASSUME NEW y \in Group \cup Rule, parent'[y] \in Dying' PROVE ~Client(y)'
    BY <1>7, <1>8, <2>2, <2>3, Zenon DEF DyingInv
  <2>4. ASSUME NEW r \in Rule, NEW g \in Group, parent'[r] = g, Alive(g)', parent'[g] \in Dying'
        PROVE  ~Client(r)'
    <3>1. parent[r] = g
      BY <1>3, <2>4, FlowTablesAssumption DEF Obj
    <3>2. QED
      BY <1>7, <1>8, <2>2, <2>4, <3>1 DEF DyingInv
  <2>5. QED
    BY <2>1, <2>3, <2>4 DEF DyingInv
<1>13. QED
  BY <1>1, <1>3, <1>10, <1>11, <1>12 DEF InUseKept

(* Every step keeps what is in use, of a client that does. *)
LEMMA StepKept ==
  ASSUME OwnersInv, DeviceInv, InUseKept, disciplined, [Next]_vars
  PROVE  InUseKept'
<1>1. CASE DestroyMember
  BY <1>1, DestroyMemberKept
<1>2. CASE DestroyObject
  BY <1>2, DestroyKept
<1>3. CASE get_root_table
  <2>1. RootHeld \subseteq {"client", "adapter"} \X Obj /\ \A h, x : <<h, x>> \in RootHeld => x = Root
    BY FlowTablesAssumption DEF RootHeld, Obj
  <2>2. \A h, x : <<h, x>> \in RootHeld /\ x \in Group \cup Rule => Alive(x)
    BY <2>1, FlowTablesAssumption
  <2>3. Quiet /\ refs' = refs \cup RootHeld /\ UNCHANGED <<attrs, todo, device, ghosts>>
    BY <1>3 DEF get_root_table
  <2>4. QED
    BY <2>1, <2>2, <2>3, ClientKept
<1>4. ASSUME NEW t \in Table, CreateTable(t) PROVE InUseKept'
  BY <1>4, CreateTableKept
<1>5. ASSUME NEW t \in Table, NEW l \in 0..(MaxLevel + 1), NEW m \in Table \cup {Null},
             create_flow_table(t, l, m)
      PROVE  InUseKept'
  BY <1>5, NewTableKept
<1>6. ASSUME NEW t \in Table, NEW g \in Group, add_flow_group(g, t) PROVE InUseKept'
  BY <1>6, NewGroupKept
<1>7. ASSUME NEW t \in Table, NEW g \in Group, remove_flow_group(t, g) PROVE InUseKept'
  BY <1>7, RemoveKept
<1>8. ASSUME NEW g \in Group, CreateGroup(g) PROVE InUseKept'
  BY <1>8, CreateGroupKept
<1>9. ASSUME NEW g \in Group, NEW r \in Rule, remove_flow_rule(g, r) PROVE InUseKept'
  BY <1>9, RemoveKept
<1>10. ASSUME NEW g \in Group, NEW r \in Rule, NEW acts \in SUBSET Action,
              NEW d \in Table \cup {Null}, add_flow_rule(r, g, acts, d)
       PROVE  InUseKept'
  BY <1>10, NewRuleKept
<1>11. ASSUME NEW r \in Rule, CreateRule(r) \/ CreateRuleFails(r) \/ RuleCrashes(r)
       PROVE  InUseKept'
  BY <1>11, CreateRuleKept
<1>12. ASSUME NEW x \in Group \cup Rule \cup Action, Quiet, refs' = refs \cup {<<"client", x>>},
              x \in Action \/ Alive(x), UNCHANGED <<attrs, todo, device, ghosts>>
       PROVE  InUseKept'
  <2>1. /\ {<<"client", x>>} \subseteq {"client", "adapter"} \X Obj
        /\ \A h, y : <<h, y>> \in {<<"client", x>>} /\ y \in Group \cup Rule => Alive(y)
    BY <1>12, FlowTablesAssumption DEF Obj
  <2>2. QED
    BY <1>12, <2>1, ClientKept, Zenon
<1>13. ASSUME NEW a \in Action, create_modify(a) PROVE InUseKept'
  BY <1>12, <1>13 DEF create_modify
<1>14. ASSUME NEW x \in Group \cup Rule, Lock(x) PROVE InUseKept'
  BY <1>12, <1>14 DEF Lock
<1>15. ASSUME NEW x \in Obj, Drop(x) PROVE InUseKept'
  BY <1>15, DropKept
<1>16. CASE UNCHANGED vars
  <2>1. /\ UNCHANGED <<refs, parent, miss, dest, todo, lost, premature, crash, uses>>
        /\ handle' = handle \cup {} /\ {} \in SUBSET Obj
    BY <1>16 DEF vars
  <2>2. QED
    BY <2>1, CommandKept, Zenon
<1>17. QED
  BY <1>1, <1>2, <1>3, <1>4, <1>5, <1>6, <1>7, <1>8, <1>9, <1>10, <1>11, <1>13, <1>14, <1>15,
     <1>16 DEF Next

(* A client keeps its ways, and nothing exists at the start. *)
LEMMA StepDiscipline == OwnersInv /\ DeviceInv /\ DisciplineInv /\ [Next]_vars => DisciplineInv'
<1>1. [Next]_vars => disciplined' = disciplined
  BY Zenon DEF Next, vars, attrs, DestroyMember, DestroyObject, get_root_table, CreateTable,
     create_flow_table, add_flow_group, remove_flow_group, CreateGroup, remove_flow_rule,
     add_flow_rule, CreateRule, CreateRuleFails, RuleCrashes, create_modify, Lock, Drop
<1>2. QED
  BY <1>1, StepKept, Zenon DEF DisciplineInv

(* No table, group or rule is there at first. *)
LEMMA InitDiscipline == Init => DisciplineInv
<1>1. SUFFICES ASSUME Init PROVE InUseKept
  BY DEF DisciplineInv
<1>2. Dying = {} /\ DyingInv /\ \A x : ~Alive(x)
  BY <1>1, QuietDying DEF Init, Alive, Holders
<1>3. LinksInv
  BY <1>1, <1>2 DEF Init, LinksInv
<1>4. UsesInv
  <2>1. handle = {} /\ \A x \in Obj : uses[x] = {}
    BY <1>1 DEF Init
  <2>2. QED
    BY <2>1, Zenon DEF UsesInv, Obj
<1>5. QED
  BY <1>1, <1>2, <1>3, <1>4 DEF Init, InUseKept

(* The links between the objects, the device and the client hold up. *)
THEOREM FlowInvariance == Spec => [](OwnersInv /\ DeviceInv /\ DisciplineInv)
<1>1. Init => OwnersInv /\ DeviceInv /\ DisciplineInv
  BY InitHolds, InitDiscipline
<1>2. OwnersInv /\ DeviceInv /\ DisciplineInv /\ [Next]_vars => (OwnersInv /\ DeviceInv /\ DisciplineInv)'
  BY StepKeeps, StepDiscipline
<1>3. QED
  BY <1>1, <1>2, PTL DEF Spec

(* For a client that keeps what is in use, ~obj never destroys a device    *)
(* object another one refers to.                                           *)
THEOREM NoPrematureHolds == Spec => []NoPremature
<1>1. DisciplineInv => NoPremature
  BY DEF DisciplineInv, InUseKept, NoPremature
<1>2. QED
  BY <1>1, FlowInvariance, PTL

(* For such a client create() of a rule follows no expired weak_ptr and no *)
(* destination that is gone.                                               *)
THEOREM NoCrashHolds == Spec => []NoCrash
<1>1. DisciplineInv => NoCrash
  BY DEF DisciplineInv, InUseKept, NoCrash
<1>2. QED
  BY <1>1, FlowInvariance, PTL

(* What flows of the root table leave comes from rules that modify. *)
LeftModifies == \A l \in left : l[1] # {}

(* Only create() of a rule leaves anything, and flow::flow leaves nothing  *)
(* for a rule that does not modify, whichever of its calls is refused.     *)
LEMMA StepLeft == LeftModifies /\ [Next]_vars => LeftModifies'
<1> SUFFICES ASSUME LeftModifies, [Next]_vars PROVE LeftModifies'
  OBVIOUS
<1>1. CASE left' = left
  BY <1>1 DEF LeftModifies
<1>2. ASSUME NEW r \in Rule, CreateRule(r) PROVE LeftModifies'
  <2>1. PICK ok \in BOOLEAN : \E l \in FlowLeaves(r, ok) : left' = left \cup ({Members(r)} \X l)
    BY <1>2, Zenon DEF CreateRule
  <2>2. PICK l \in FlowLeaves(r, ok) : left' = left \cup ({Members(r)} \X l)
    BY <2>1, Zenon
  <2>3. l # {} => Members(r) # {}
    BY <2>2 DEF FlowLeaves
  <2>4. QED
    BY <2>2, <2>3 DEF LeftModifies
<1>3. left' = left \/ \E r \in Rule : CreateRule(r)
  BY Zenon DEF Next, vars, attrs, ghosts, DestroyMember, DestroyObject, get_root_table, CreateTable,
     create_flow_table, add_flow_group, remove_flow_group, CreateGroup, remove_flow_rule,
     add_flow_rule, CreateRuleFails, RuleCrashes, create_modify, Lock, Drop
<1>4. QED
  BY <1>1, <1>2, <1>3

(* When such a client has dropped everything nothing is left in the device *)
(* but matchers and modify actions of rules of the root table that modify: *)
(* flow::~flow takes flow and matcher of every other rule with it.         *)
THEOREM NothingLeftHolds == Spec => []NothingLeft
<1>1. ASSUME OwnersInv, DeviceInv, DisciplineInv, LeftModifies PROVE NothingLeft
  <2>1. SUFFICES ASSUME disciplined, todo = <<>>, refs \subseteq {<<"adapter", Root>>}
                 PROVE  handle \cup lost = {}
    BY <1>1, Zenon DEF NothingLeft, LeftModifies
  <2>2. UsesInv /\ lost = {} /\ Dying = {}
    BY <1>1, <2>1, QuietDying DEF DisciplineInv, InUseKept
  <2>3. ASSUME NEW x \in handle PROVE FALSE
    <3>1. Alive(x) /\ x # Root
      BY <1>1, <2>2, <2>3 DEF UsesInv, Present, DeviceInv
    <3>2. PICK h \in Obj \cup {"client", "adapter"} : <<h, x>> \in refs
      BY <3>1 DEF Alive, Holders
    <3>3. QED
      BY <2>1, <3>1, <3>2
  <2>4. QED
    BY <2>2, <2>3
<1>2. Init => LeftModifies
  BY DEF Init, LeftModifies
<1>3. QED
  BY <1>1, <1>2, StepLeft, FlowInvariance, PTL DEF Spec
=============================================================================
