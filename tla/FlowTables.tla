---------------------------- MODULE FlowTables ----------------------------
(***************************************************************************)
(* Flow tables, groups, extended rules and modify actions, and who owns    *)
(* whom: a client holds tables and actions by shared_ptr, a table its      *)
(* miss table and its groups, a group its rules, a rule its actions; the   *)
(* way back up is by weak_ptr.  The last owner to go runs destructors,     *)
(* members first in reverse order of declaration and the device object     *)
(* last (obj is the base class of all of them).  The classes are not       *)
(* thread-safe: one call at a time, and its destructors run to the end.    *)
(***************************************************************************)
EXTENDS Naturals, Sequences

CONSTANTS Table, Group, Rule, Action,
          Root,         \* the root table, which has no device object
          MaxLevel,     \* max_flow_table_level of the device
          Null

Obj == Table \cup Group \cup Rule \cup Action

ASSUME FlowTablesAssumption ==
  /\ Root \in Table /\ Null \notin Obj \cup {"client", "adapter"} /\ MaxLevel \in Nat
  /\ Table \cap (Group \cup Rule \cup Action) = {}
  /\ Group \cap (Rule \cup Action) = {} /\ Rule \cap Action = {}
  /\ "client" \notin Obj /\ "adapter" \notin Obj

VARIABLES
  disciplined, \* the client keeps what is in use and creates a rule once
  refs,        \* <<holder, object>>: the shared_ptrs there are
  parent,      \* the m_table of a group, the m_group of a rule
  level, miss, \* m_attr.level and m_attr.table_miss of a table
  dest,        \* the table a rule forwards to; Null when it is a TIR
  init,        \* objects with m_is_initialized (m_is_valid of an action)
  handle,      \* objects with a device object they would destroy
  uses,        \* what the device object of each object refers to
  lost,        \* objects with a device object nobody can destroy any more
  todo,        \* objects being destroyed, innermost first
  left,        \* <<actions of a rule, what its flow made and nobody can destroy>>
  premature,   \* objects whose device object was destroyed while in use
  crash        \* a null or dangling pointer was followed

vars == <<disciplined, refs, parent, level, miss, dest, init, handle, uses, lost, todo,
          left, premature, crash>>
attrs  == <<disciplined, parent, level, miss, dest>>
device == <<handle, uses, lost>>
ghosts == <<left, premature, crash>>

Holders(x) == {h \in Obj \cup {"client", "adapter"} : <<h, x>> \in refs}
Alive(x) == Holders(x) # {}
Client(x) == <<"client", x>> \in refs
(* A name can be given to a new object when nothing refers to the old one. *)
Free(x) ==
  /\ ~Alive(x) /\ x \notin lost
  /\ \A y \in Group \cup Rule : parent[y] # x
  /\ \A r \in Rule : dest[r] # x
Quiet == todo = <<>> /\ ~crash
OnRoot(g) == parent[g] = Root
InUse(x) == \E y \in handle \cup lost : x \in uses[y]
RulesOf(g) == {r \in Rule : Alive(r) /\ parent[r] = g}
GroupsOf(t) == {g \in Group : Alive(g) /\ parent[g] = t}

Init ==
  /\ disciplined \in BOOLEAN
  /\ refs = {} /\ parent = [x \in Group \cup Rule |-> Null]
  /\ level = [t \in Table |-> 0] /\ miss = [t \in Table |-> Null]
  /\ dest = [r \in Rule |-> Null]
  /\ init = {} /\ handle = {} /\ uses = [x \in Obj |-> {}] /\ lost = {}
  /\ todo = <<>> /\ left = {} /\ premature = {} /\ crash = FALSE

----------------------------------------------------------------------------
(* Variants with a slip, for the properties below.                         *)

MissRefused_SameLevel(t) ==
  /\ miss[t] # Null
  /\ miss[t] = Root \/ miss[t] \notin init \/ level[miss[t]] < level[t]

Members_NoGroups(x) == {y \in Obj \ Group : <<x, y>> \in refs}

Members_NoRules(x) == {y \in Obj \ Rule : <<x, y>> \in refs}

FreedHandles_NotFlows(x) == IF x \in Rule /\ x \notin init THEN {} ELSE {x}

----------------------------------------------------------------------------
(* A shared_ptr goes; with the last one the destructor starts. *)
Release(h, x) ==
  /\ refs' = refs \ {<<h, x>>}
  /\ todo' = IF Holders(x) = {h} THEN <<x>> \o todo ELSE todo

(* What the members of x own. *)
Members(x) == {y \in Obj : <<x, y>> \in refs}

(* flow_table_prm's m_attr goes before flow_table's m_groups. *)
FirstMembers(x, members) ==
  IF members \cap Table # {} THEN members \cap Table ELSE members

DestroyMember ==
  /\ todo # <<>>
  /\ \E y \in FirstMembers(Head(todo), Members(Head(todo))) : Release(Head(todo), y)
  /\ UNCHANGED <<attrs, init, device, ghosts>>

(* ~obj deletes the handle of any object, ~flow_rule_ex_kernel the flow. *)
FreedHandles(x) == {x}

(* obj's destructor deletes the handle, flow_rule_ex_kernel's its flow;    *)
(* a refusal of the device is ignored.                                     *)
DestroyObject ==
  /\ todo # <<>> /\ Members(Head(todo)) = {}
  /\ LET x == Head(todo) busy == x \in handle /\ InUse(x) IN
       /\ handle' = handle \ FreedHandles(x)
       /\ lost' = IF busy THEN lost \cup {x} ELSE lost
       /\ premature' = IF busy THEN premature \cup {x} ELSE premature
       /\ init' = init \ {x}
       /\ uses' = IF busy \/ x \in lost THEN uses ELSE [uses EXCEPT ![x] = {}]
       /\ parent' = [y \in Group \cup Rule |-> IF y = x THEN Null ELSE parent[y]]
       /\ dest' = [y \in Rule |-> IF y = x THEN Null ELSE dest[y]]
       /\ miss' = [y \in Table |-> IF y = x THEN Null ELSE miss[y]]
       /\ level' = [y \in Table |-> IF y = x /\ ~busy THEN 0 ELSE level[y]]
  /\ todo' = Tail(todo)
  /\ UNCHANGED <<disciplined, refs, left, crash>>

----------------------------------------------------------------------------
(* The root table is made on first use and kept by the adapter. *)
RootHeld == {<<"adapter", Root>>, <<"client", Root>>}

get_root_table ==
  /\ Quiet
  /\ refs' = refs \cup RootHeld
  /\ init' = init \cup {Root}
  /\ UNCHANGED <<attrs, device, todo, ghosts>>

(* Level 0 is the root's; verify_flow_table_receive_attr bounds the rest. *)
LevelRefused(l) == l = 0 \/ l > MaxLevel

(* The copied attributes share the miss table. *)
HeldByNew(t, m) == {<<"client", t>>} \cup (IF m = Null THEN {} ELSE {<<t, m>>})

create_flow_table(t, l, m) ==
  /\ Quiet /\ Free(t) /\ t # Root
  /\ ~LevelRefused(l)
  /\ m # Null => Client(m)
  /\ refs' = refs \cup HeldByNew(t, m)
  /\ level' = [level EXCEPT ![t] = l] /\ miss' = [miss EXCEPT ![t] = m]
  /\ UNCHANGED <<disciplined, parent, dest, init, device, todo, ghosts>>

(* set_miss_action: not a device table, not created, or not further down. *)
MissRefused(t) ==
  /\ miss[t] # Null
  /\ miss[t] = Root \/ miss[t] \notin init \/ level[miss[t]] <= level[t]

(* flow_table_prm::create: a second call, or a refused one, does nothing.  *)
CreateTable(t) ==
  /\ Quiet /\ Client(t) /\ t \notin init /\ ~MissRefused(t)
  /\ init' = init \cup {t} /\ handle' = handle \cup {t}
  /\ uses' = [uses EXCEPT ![t] = {miss[t]} \ {Null}]
  /\ UNCHANGED <<refs, attrs, lost, todo, ghosts>>

add_flow_group(g, t) ==
  /\ Quiet /\ Client(t) /\ t \in init /\ Free(g)
  /\ refs' = refs \cup {<<t, g>>}
  /\ parent' = [parent EXCEPT ![g] = t]
  /\ UNCHANGED <<disciplined, level, miss, dest, init, device, todo, ghosts>>

(* flow_group::create: !m_table.lock() *)
GroupExpired(g) == ~Alive(parent[g])

(* A group of the root table has no device object of its own. *)
CreateGroup(g) ==
  /\ Quiet /\ Alive(g) /\ g \notin init /\ ~GroupExpired(g)
  /\ init' = init \cup {g}
  /\ IF OnRoot(g)
     THEN UNCHANGED <<handle, uses>>
     ELSE handle' = handle \cup {g} /\ uses' = [uses EXCEPT ![g] = {parent[g]}]
  /\ UNCHANGED <<refs, attrs, lost, todo, ghosts>>

remove_flow_group(t, g) ==
  /\ Quiet /\ Client(t) /\ t \in init /\ <<t, g>> \in refs
  /\ disciplined => ~Client(g) /\ \A r \in RulesOf(g) : ~Client(r)
  /\ Release(t, g)
  /\ UNCHANGED <<attrs, init, device, ghosts>>

create_modify(a) ==
  /\ Quiet /\ Free(a)
  /\ refs' = refs \cup {<<"client", a>>}
  /\ UNCHANGED <<attrs, init, device, todo, ghosts>>

(* Every rule here has one forward action and at most one of each type:    *)
(* verify_flow_actions refuses the others, and create() then does nothing. *)
add_flow_rule(r, g, acts, d) ==
  /\ Quiet /\ Alive(g) /\ g \in init /\ Free(r)
  /\ \A a \in acts : Client(a)
  /\ d # Null => Client(d)
  /\ refs' = refs \cup {<<g, r>>} \cup {<<r, a>> : a \in acts}
  /\ parent' = [parent EXCEPT ![r] = g] /\ dest' = [dest EXCEPT ![r] = d]
  /\ UNCHANGED <<disciplined, level, miss, init, device, todo, ghosts>>

(* create() follows m_table and m_group without a test, and the forward    *)
(* action its plain pointer to the destination.                            *)
RuleDangles(r) ==
  \/ ~Alive(parent[r])
  \/ ~OnRoot(parent[r]) /\ ~Alive(parent[parent[r]])
  \/ dest[r] # Null /\ ~Alive(dest[r])

RuleCrashes(r) ==
  /\ Quiet /\ Alive(r) /\ RuleDangles(r)
  /\ crash' = TRUE
  /\ UNCHANGED <<refs, attrs, init, device, todo, left, premature>>

(* A destination without a device object has no id. *)
DestReady(r) == dest[r] # Null => dest[r] \in handle

(* The modify actions of a rule outside the root table get their device    *)
(* objects on their first use, those of the root come with the flow.       *)
Applied(r) == IF OnRoot(parent[r]) THEN {} ELSE Members(r) \ init

(* The forward action fails, before or after the others are applied. *)
CreateRuleFails(r) ==
  /\ Quiet /\ Alive(r) /\ ~RuleDangles(r) /\ ~DestReady(r)
  /\ \E done \in SUBSET Applied(r) : init' = init \cup done /\ handle' = handle \cup done
  /\ UNCHANGED <<refs, attrs, uses, lost, todo, ghosts>>

(* dcmd::flow::flow makes a matcher, a modify action when the rule has     *)
(* one, and the flow.  A flow that is refused takes its matcher with it, a *)
(* modify action that is refused does not, and no destructor destroys a    *)
(* modify action.                                                          *)
FlowLeaves(r, ok) ==
  IF ~OnRoot(parent[r]) \/ Members(r) = {} THEN {{}}
  ELSE IF ok THEN {{"modify"}} ELSE {{}, {"matcher"}, {"modify"}}

(* The handle of an earlier create() is overwritten. *)
Recreate(r) == IF r \in handle THEN lost \cup {r} ELSE lost

CreateRule(r) ==
  /\ Quiet /\ Alive(r) /\ ~RuleDangles(r) /\ DestReady(r)
  /\ disciplined => r \notin handle
  /\ lost' = Recreate(r)
  /\ \E ok \in BOOLEAN :
       /\ handle' = (handle \cup Applied(r) \cup {r}) \ (IF ok THEN {} ELSE {r})
       /\ init' = init \cup Applied(r) \cup (IF ok /\ ~OnRoot(parent[r]) THEN {r} ELSE {})
       /\ uses' = IF ok
                  THEN [uses EXCEPT ![r] = @ \cup ({dest[r]} \ {Null}) \cup
                          (IF OnRoot(parent[r]) THEN {} ELSE {parent[r]} \cup Members(r))]
                  ELSE uses
       /\ \E l \in FlowLeaves(r, ok) : left' = left \cup ({Members(r)} \X l)
  /\ UNCHANGED <<refs, attrs, todo, premature, crash>>

remove_flow_rule(g, r) ==
  /\ Quiet /\ Alive(g) /\ g \in init /\ <<g, r>> \in refs
  /\ disciplined => ~Client(r)
  /\ Release(g, r)
  /\ UNCHANGED <<attrs, init, device, ghosts>>

(* The client locks the weak_ptr of a group or rule and keeps the result. *)
Lock(x) ==
  /\ Quiet /\ Alive(x) /\ ~Client(x)
  /\ refs' = refs \cup {<<"client", x>>}
  /\ UNCHANGED <<attrs, init, device, todo, ghosts>>

(* Another table or a rule refers to x, or the client to a part of x. *)
StillNeeded(x) ==
  \/ \E h \in Obj : <<h, x>> \in refs /\ h \notin Table \cup Group
  \/ x \in Table /\ \E t \in Table : Alive(t) /\ miss[t] = x
  \/ x \in Table /\ \E r \in Rule : Alive(r) /\ dest[r] = x
  \/ x \in Table /\ \E g \in GroupsOf(x) : Client(g) \/ \E r \in RulesOf(g) : Client(r)

Drop(x) ==
  /\ Quiet /\ Client(x)
  /\ disciplined => ~StillNeeded(x)
  /\ Release("client", x)
  /\ UNCHANGED <<attrs, init, device, ghosts>>

Next ==
  \/ DestroyMember \/ DestroyObject \/ get_root_table
  \/ \E t \in Table :
       \/ CreateTable(t)
       \/ \E l \in 0..(MaxLevel + 1), m \in Table \cup {Null} : create_flow_table(t, l, m)
       \/ \E g \in Group : add_flow_group(g, t) \/ remove_flow_group(t, g)
  \/ \E g \in Group :
       \/ CreateGroup(g)
       \/ \E r \in Rule : remove_flow_rule(g, r)
       \/ \E r \in Rule, acts \in SUBSET Action, d \in Table \cup {Null} : add_flow_rule(r, g, acts, d)
  \/ \E r \in Rule : CreateRule(r) \/ CreateRuleFails(r) \/ RuleCrashes(r)
  \/ \E a \in Action : create_modify(a)
  \/ \E x \in Group \cup Rule : Lock(x)
  \/ \E x \in Obj : Drop(x)

Spec == Init /\ [][Next]_vars
----------------------------------------------------------------------------
(* Following the miss tables of the device from any table one climbs to    *)
(* higher levels and stays in the device: no packet runs in a circle or    *)
(* into a table that is gone, whatever the client drops.                   *)
MissClimbs ==
  \A t \in Table \cap (handle \cup lost) : \A m \in uses[t] \cap Table :
    m \in handle \cup lost /\ level[m] > level[t]

(* A group outlives its table, or a rule its group, only while the client  *)
(* itself holds it: remove_flow_group, remove_flow_rule and the            *)
(* destructors take every part of a table with it.                         *)
ExpiredOnlyIfHeld ==
  todo = <<>> => \A x \in Group \cup Rule : Alive(x) => Alive(parent[x]) \/ Client(x)

(* For a client that keeps what is in use: a device object is never        *)
(* destroyed while another one refers to it (the device would refuse, and  *)
(* obj::destroy would not tell).                                           *)
NoPremature == disciplined => premature = {}

(* For such a client nothing stays in the device once it holds nothing and *)
(* the root table has no group left, except for what flow::flow made for   *)
(* rules of the root table with modify actions: rules without leave        *)
(* neither flow nor matcher, whether they were installed or refused.       *)
NothingLeft ==
  disciplined /\ todo = <<>> /\ refs \subseteq {<<"adapter", Root>>} =>
    handle \cup lost = {} /\ \A l \in left : l[1] # {}

(* For such a client create() of a rule never follows an expired weak_ptr, *)
(* which it does not test, nor a destination that is gone.                 *)
NoCrash == disciplined => ~crash

(* What the theorems rest on.  What is being destroyed has no owner and is *)
(* destroyed once; whoever owns something has an owner or is being         *)
(* destroyed; a group or rule is owned by its parent or the client; a      *)
(* device table belongs to such an object, or to none when it was lost;    *)
(* and the root table stays and is never a device table.                   *)
Dying == {todo[i] : i \in 1..Len(todo)}
OwnersInv ==
  /\ parent = [x \in Group \cup Rule |-> parent[x]]
  /\ todo \in Seq(Obj) /\ \A i, j \in 1..Len(todo) : todo[i] = todo[j] => i = j
  /\ \A x \in Dying : ~Alive(x)
  /\ refs \subseteq (Obj \cup {"client", "adapter"}) \X Obj
  /\ \A p \in refs : p[1] \in {"client", "adapter"} \/ (p[1] \in Obj /\ (Alive(p[1]) \/ p[1] \in Dying))
  /\ \A x \in Group \cup Rule, h \in Obj \cup {"client", "adapter"} :
       <<h, x>> \in refs => h \in {"client", parent[x]} \ {"adapter"}
  /\ \A r \in Rule, y \in Obj : <<r, y>> \in refs => y \in Action
  /\ Alive(Root) => <<"adapter", Root>> \in refs /\ Root \in init
  /\ Root \notin Dying
DeviceInv ==
  /\ level \in [Table -> Nat] /\ uses = [x \in Obj |-> uses[x]]
  /\ Root \notin handle \cup lost
  /\ \A t \in Table \cap handle : Alive(t) \/ t \in Dying
  /\ \A t \in Table \cap lost : ~Alive(t) /\ t \notin Dying
  /\ (Table \cap init) \ {Root} \subseteq handle
  /\ MissClimbs

(* For a client that keeps what is in use.  A group or rule is held by its *)
(* parent; the miss table of a table, the destination and the actions of a *)
(* rule are held by the client besides; and whoever has such a link is     *)
(* there.                                                                  *)
Present(x) == Alive(x) \/ x \in Dying
LinksInv ==
  /\ \A g \in Group : parent[g] \in Table \cup {Null}
  /\ \A r \in Rule : parent[r] \in Group \cup {Null}
  /\ miss \in [Table -> Table \cup {Null}] /\ dest \in [Rule -> Table \cup {Null}]
  /\ \A x \in Group \cup Rule :
       (parent[x] # Null => Present(x)) /\ (Alive(x) => <<parent[x], x>> \in refs)
  /\ \A t \in Table : miss[t] # Null => Present(t) /\ Client(miss[t])
  /\ \A r \in Rule : dest[r] # Null => Present(r) /\ Client(dest[r])
  /\ \A h \in Obj, m \in Table : <<h, m>> \in refs => h \in Table /\ m = miss[h]
  /\ \A h \in Obj, a \in Action : <<h, a>> \in refs => h \in Rule /\ Client(a)

(* Device objects belong to objects that are there, and refer to what the  *)
(* objects are linked to.                                                  *)
UsesInv ==
  /\ \A x \in handle : x \in Obj /\ Present(x)
  /\ \A x \in Obj \ handle : uses[x] = {}
  /\ \A t \in Table : uses[t] \subseteq {miss[t]} \ {Null}
  /\ \A g \in Group : uses[g] \subseteq {parent[g]} \ {Null}
  /\ \A r \in Rule : \A x \in uses[r] :
       \/ x \in {parent[r], dest[r]} \ {Null}
       \/ x \in Action /\ Client(x) /\ (<<r, x>> \in refs \/ r \in Dying)
  /\ \A a \in Action : uses[a] = {}

(* What is destroyed is destroyed for its parent, and the client holds no  *)
(* part of it.                                                             *)
DyingInv ==
  /\ \A i \in 1..Len(todo) : i < Len(todo) =>
       todo[i] \in Group \cup Rule /\ todo[i + 1] = parent[todo[i]]
  /\ \A x \in Group \cup Rule : parent[x] \in Dying => ~Client(x)
  /\ \A r \in Rule : \A g \in Group :
       parent[r] = g /\ Alive(g) /\ parent[g] \in Dying => ~Client(r)

InUseKept == premature = {} /\ lost = {} /\ ~crash /\ LinksInv /\ UsesInv /\ DyingInv
DisciplineInv == disciplined => InUseKept
============================================================================
