------------------------------ MODULE MkeyTags ------------------------------
(***************************************************************************)
(* The identifiers of direct, pattern and crypto memory keys               *)
(* (src/src/dpcp/mkey.cpp).  An identifier is the index the device assigns *)
(* and, in its low bits, a tag drawn by software from the process wide     *)
(* counter g_mkey_cnt, so that a stale identifier is not mistaken for a    *)
(* new key that was given the same index.  Any number of threads create    *)
(* keys; they meet only in the atomic counter, whose load,                 *)
(* compare_exchange_strong and re-load are separate steps here.            *)
(***************************************************************************)
EXTENDS Integers, FiniteSets

CONSTANTS
  Thread,
  Index,       \* mkey indices of the device
  Window,      \* number of different tags, 0xFF in the code
  MaxDraw,     \* bound: creations that get past the counter
  MaxReset     \* bound: calls of init_mkeys after the first

ASSUME MkeyTagsAssumption == Window \in Nat \ {0} /\ MaxDraw \in Nat /\ MaxReset \in Nat

VARIABLES
  g_mkey_cnt,
  pc,          \* where each thread is in create()
  mkey_cnt,    \* its local variable
  epoch,       \* calls of init_mkeys so far
  draws,       \* history: how each loop that has ended left mkey_cnt
  mine,        \* history: the rank of the last draw of each thread
  keys,        \* the mkeys that exist in the device
  dead         \* history: the mkeys that were destroyed

vars == <<g_mkey_cnt, pc, mkey_cnt, epoch, draws, mine, keys, dead>>

(* Variants with a slip, for the properties below: a tag that advances     *)
(* only every second key, an increment that is not one atomic step, and a  *)
(* failed exchange that does not refresh mkey_cnt.                         *)
Tag_EverySecond(cnt) == (cnt \div 2) % Window
CasSucceeds_LoadStore(t) ==
  /\ pc[t] = "cas" /\ pc' = [pc EXCEPT ![t] = "hw"]
  /\ g_mkey_cnt' = mkey_cnt[t] + 1
  /\ draws' = draws \cup {[no |-> Cardinality(draws), value |-> mkey_cnt[t],
                           winner |-> TRUE, epoch |-> epoch]}
  /\ mine' = [mine EXCEPT ![t] = Cardinality(draws)]
  /\ UNCHANGED <<mkey_cnt, epoch, keys, dead>>
CasFails_NoRefresh(t) ==
  /\ pc[t] = "cas" /\ pc' = [pc EXCEPT ![t] = "compare"]
  /\ mkey_cnt[t] # g_mkey_cnt
  /\ UNCHANGED <<g_mkey_cnt, mkey_cnt, epoch, draws, mine, keys, dead>>
----------------------------------------------------------------------------
(* The software part of the identifier, mkey_cnt % 0xFF. *)
Tag(cnt) == cnt % Window

(* m_idx = mkey_index << 8 | tag: two fields that do not overlap. *)
Id(idx, cnt) == <<idx, Tag(cnt)>>

(* no: rank among the draws; winner: the compare_exchange succeeded. *)
Draw == [no : Nat, value : Nat, winner : BOOLEAN, epoch : Nat]
Mkey == [id : Index \X Nat, no : Nat]

(* Types of g_mkey_cnt, of the locals of create() and of the histories. *)
TypeOK ==
  /\ g_mkey_cnt \in Nat
  /\ pc \in [Thread -> {"idle", "cas", "compare", "hw"}]
  /\ mkey_cnt \in [Thread -> Nat]
  /\ epoch \in Nat
  /\ draws \subseteq Draw /\ IsFiniteSet(draws)
  /\ mine \in [Thread -> Nat]
  /\ keys \subseteq Mkey
  /\ dead \subseteq Mkey

Init ==
  /\ g_mkey_cnt = 0
  /\ pc = [t \in Thread |-> "idle"]
  /\ mkey_cnt = [t \in Thread |-> 0]
  /\ epoch = 0
  /\ draws = {}
  /\ mine = [t \in Thread |-> 0]
  /\ keys = {}
  /\ dead = {}

Goto(t, from, to) == pc[t] = from /\ pc' = [pc EXCEPT ![t] = to]

(* The loop of t ends and leaves mkey_cnt[t]; w: its exchange succeeded. *)
EndLoop(t, w) ==
  /\ draws' = draws \cup {[no |-> Cardinality(draws), value |-> mkey_cnt[t],
                           winner |-> w, epoch |-> epoch]}
  /\ mine' = [mine EXCEPT ![t] = Cardinality(draws)]

----------------------------------------------------------------------------
(* int mkey_cnt = g_mkey_cnt.load() *)
Load(t) ==
  /\ Cardinality(draws) < MaxDraw
  /\ Goto(t, "idle", "cas")
  /\ mkey_cnt' = [mkey_cnt EXCEPT ![t] = g_mkey_cnt]
  /\ UNCHANGED <<g_mkey_cnt, epoch, draws, mine, keys, dead>>

(* compare_exchange_strong succeeds: the counter advances, mkey_cnt keeps  *)
(* the value the counter had.                                              *)
CasSucceeds(t) ==
  /\ Goto(t, "cas", "hw")
  /\ mkey_cnt[t] = g_mkey_cnt
  /\ g_mkey_cnt' = g_mkey_cnt + 1
  /\ EndLoop(t, TRUE)
  /\ UNCHANGED <<mkey_cnt, epoch, keys, dead>>

(* compare_exchange_strong fails and refreshes mkey_cnt. *)
CasFails(t) ==
  /\ Goto(t, "cas", "compare")
  /\ mkey_cnt[t] # g_mkey_cnt
  /\ mkey_cnt' = [mkey_cnt EXCEPT ![t] = g_mkey_cnt]
  /\ UNCHANGED <<g_mkey_cnt, epoch, draws, mine, keys, dead>>

(* && (mkey_cnt < g_mkey_cnt): again only if the counter moved since. *)
CompareAgain(t) ==
  /\ Goto(t, "compare", "cas")
  /\ mkey_cnt[t] < g_mkey_cnt
  /\ UNCHANGED <<g_mkey_cnt, mkey_cnt, epoch, draws, mine, keys, dead>>

CompareLeaves(t) ==
  /\ Goto(t, "compare", "hw")
  /\ ~(mkey_cnt[t] < g_mkey_cnt)
  /\ EndLoop(t, FALSE)
  /\ UNCHANGED <<g_mkey_cnt, mkey_cnt, epoch, keys, dead>>

(* CREATE_MKEY succeeds with an index the device does not use. *)
CreateMkey(t) ==
  /\ Goto(t, "hw", "idle")
  /\ \E i \in Index \ {k.id[1] : k \in keys} :
       keys' = keys \cup {[id |-> Id(i, mkey_cnt[t]), no |-> mine[t]]}
  /\ UNCHANGED <<g_mkey_cnt, mkey_cnt, epoch, draws, mine, dead>>

(* No PD, an invalid building block or a failed command: the draw is lost. *)
CreateFails(t) ==
  /\ Goto(t, "hw", "idle")
  /\ UNCHANGED <<g_mkey_cnt, mkey_cnt, epoch, draws, mine, keys, dead>>

(* The object is deleted, the index can be assigned again. *)
DestroyMkey(k) ==
  /\ keys' = keys \ {k}
  /\ dead' = dead \cup {k}
  /\ UNCHANGED <<g_mkey_cnt, pc, mkey_cnt, epoch, draws, mine>>

(* init_mkeys(), called by every provider::get_instance. *)
init_mkeys ==
  /\ epoch < MaxReset
  /\ epoch' = epoch + 1
  /\ g_mkey_cnt' = 0
  /\ UNCHANGED <<pc, mkey_cnt, draws, mine, keys, dead>>

create(t) ==
  \/ Load(t) \/ CasSucceeds(t) \/ CasFails(t) \/ CompareAgain(t) \/ CompareLeaves(t)
  \/ CreateMkey(t) \/ CreateFails(t)

Next == (\E t \in Thread : create(t)) \/ (\E k \in keys : DestroyMkey(k)) \/ init_mkeys

Spec == Init /\ [][Next]_vars

----------------------------------------------------------------------------
(* The compare_exchange loop loses no value and hands none to two          *)
(* successful exchanges: since the last init_mkeys, the values won are     *)
(* exactly those below the counter, one winner each.                       *)
CounterAccounted ==
  LET winners == {d \in draws : d.winner /\ d.epoch = epoch}
  IN  /\ {d.value : d \in winners} = 0..(g_mkey_cnt - 1)
      /\ \A d, e \in winners : d.value = e.value => d = e

(* The inductive invariant behind CounterAccounted: with the types, no     *)
(* draw of the loop comes from an epoch init_mkeys has not begun.          *)
IInv == TypeOK /\ CounterAccounted /\ \A d \in draws : d.epoch <= epoch

(* From draw m on, up to draw n, every loop won its exchange and nobody    *)
(* called init_mkeys.                                                      *)
Undisturbed(m, n) ==
  \A d, e \in {f \in draws : f.no \in m..n} : d.winner /\ d.epoch = e.epoch

(* mkey.cpp:224, "SW managed ID that comes to reduce a chance were a wrong *)
(* key is used due to mkey index reuse": the identifier of a destroyed key *)
(* names an existing key only after Window further draws, unless a thread  *)
(* left the loop without winning or the counter was reset in between.      *)
StaleIdsDetected ==
  \A k \in keys, d \in dead :
    k.id = d.id /\ k.no > d.no /\ Undisturbed(d.no, k.no) => k.no - d.no >= Window

(* What StaleIdsDetected rests on: ranks number the draws from 0 on; the   *)
(* latest draw, if it won and no reset followed, left the counter one      *)
(* above its value; values advance like ranks where nothing disturbs the   *)
(* counter; and a thread at its command, and a key, carry the value of     *)
(* their draw.                                                             *)
TagsInv ==
  /\ {d.no : d \in draws} = 0..(Cardinality(draws) - 1)
  /\ \A d, e \in draws : d.no = e.no => d = e
  /\ \A d \in draws : d.no + 1 = Cardinality(draws) /\ d.winner /\ d.epoch = epoch =>
                        g_mkey_cnt = d.value + 1
  /\ \A d, e \in draws : d.no <= e.no /\ Undisturbed(d.no, e.no) =>
                           e.value - d.value = e.no - d.no
  /\ \A t \in Thread : pc[t] = "hw" =>
                          \E d \in draws : d.no = mine[t] /\ d.value = mkey_cnt[t]
  /\ \A k \in keys \cup dead : \E d \in draws : d.no = k.no /\ k.id[2] = Tag(d.value)

(* mkey.cpp:222, "mkey_cnt now include incremented unique value": no two   *)
(* creations since the last init_mkeys work with the same value.           *)
UniqueValue ==
  \A d, e \in draws : d.epoch = e.epoch /\ d.value = e.value => d = e

(* Every thread leaves the compare_exchange loop. *)
LoopEnds == \A t \in Thread : pc[t] = "cas" ~> pc[t] = "hw"
=============================================================================
