--------------------------- MODULE QueueResources ---------------------------
(***************************************************************************)
(* What a completion queue (cq), a receive queue (striding_rq, regular_rq, *)
(* ibq_rq) and a packet pacing send queue (pp_sq) acquire when the adapter *)
(* creates them and release when they are destroyed.  Creation and         *)
(* destruction go resource by resource, so that the queues of several      *)
(* threads interleave and every acquisition can fail.  The UAR comes from  *)
(* the pool of the adapter, module UarPool; the adapter is open, so the    *)
(* pool exists.                                                            *)
(***************************************************************************)
EXTENDS UarPool, Sequences

CONSTANTS Kind      \* which kinds of queue are created

ASSUME KindAssumption == Kind \subseteq {"cq", "striding_rq", "regular_rq", "ibq_rq", "pp_sq"}

VARIABLES
  kind,      \* what the object at each address is
  phase,     \* where its creation or destruction is
  todo,      \* the resources still to be acquired or released
  members,   \* the members of the object that are not null
  mem,       \* <<queue, resource>> allocated in the process or in the device
  out,       \* the caller's out parameter points to the object
  uses,      \* the completion queue a receive or send queue reports to
  badFree,   \* <<kind, handed out, resource>> released when not allocated
  refused    \* the queues the device refused to destroy

queueVars == <<kind, phase, todo, members, mem, out, uses, badFree, refused>>
allVars   == <<vars, queueVars>>

(* The order in which create_cq, prepare_basic_rq and create_pp_sq acquire *)
(* memory once they have a UAR: buffer, its registration, doorbell record, *)
(* its registration.                                                       *)
Memory == <<"buf", "buf_umem", "db", "db_umem">>

(* The members through which the objects of the classes own something. *)
CqMembers  == {"hw", "uar_t", "buf", "buf_umem", "db", "db_umem"}
RqMembers  == {"hw", "uar_t", "buf", "buf_umem", "db", "db_umem"}
IbqMembers == {"hw"}
SqMembers  == {"hw", "uar_t", "buf", "buf_umem", "db", "db_umem", "pp"}

Members    == CqMembers \cup RqMembers \cup IbqMembers \cup SqMembers

(* What the device has of a queue and may refuse to give up. *)
DeviceHeld == {"hw", "buf_umem", "db_umem"}

----------------------------------------------------------------------------
(* Variants with a slip, for the properties below; no specification uses   *)
(* them.  destroy forgets a registration, or frees the buffers before      *)
(* it deregisters them; a queue goes on although it got no UAR; a pointer  *)
(* is released and not nulled.                                             *)
SqDestroy_BuffersFirst == <<"hw", "uar_t", "buf", "db", "buf_umem", "db_umem">>
RqDestroy_NoUmem == <<"hw", "uar_t", "db_umem", "buf", "db">>
Nulled_KeepsUmem(q, r) == IF r = "buf_umem" THEN members[q] ELSE members[q] \ {r}
GetUar_IgnoresRefusal(q) ==
  /\ phase[q] = "get_uar"
  /\ GetSharedFirst(q) \/ GetSharedAgain(q)
  /\ phase' = [phase EXCEPT ![q] = "memory"]
  /\ todo' = [todo EXCEPT ![q] = Memory]
  /\ UNCHANGED <<mem, kind, members, out, uses, badFree, refused>>

(* cq::destroy *)
CqDestroy == <<"hw", "uar_t", "buf_umem", "db_umem", "buf", "db">>

(* basic_rq::destroy *)
RqDestroy == <<"hw", "uar_t", "buf_umem", "db_umem", "buf", "db">>

(* ibq_rq::destroy *)
IbqDestroy == <<"hw">>

(* pp_sq::destroy *)
SqDestroy == <<"hw", "uar_t", "buf_umem", "db_umem", "buf", "db">>

DestroyOrder(k) ==
  CASE k = "cq" -> CqDestroy [] k = "ibq_rq" -> IbqDestroy [] k = "pp_sq" -> SqDestroy
    [] OTHER -> RqDestroy

(* The destructors call destroy; ~pp_sq deletes the pacing entry first. *)
DeleteOrder(k) == IF k = "pp_sq" THEN <<"pp">> \o SqDestroy ELSE DestroyOrder(k)

QInit ==
  /\ Init
  /\ kind = [q \in Key |-> "none"]
  /\ phase = [q \in Key |-> "none"]
  /\ todo = [q \in Key |-> <<>>]
  /\ members = [q \in Key |-> {}]
  /\ mem = {}
  /\ out = [q \in Key |-> FALSE]
  /\ uses = [q \in Key |-> Null]
  /\ badFree = {}
  /\ refused = {}

----------------------------------------------------------------------------
(* The address of a queue the device kept is not used again, so that what  *)
(* is left of it keeps a name.                                             *)
New(q, k, cq, next, handedOut) ==
  /\ phase[q] = "none" /\ q \notin refused
  /\ kind' = [kind EXCEPT ![q] = k]
  /\ phase' = [phase EXCEPT ![q] = next]
  /\ out' = [out EXCEPT ![q] = handedOut]
  /\ uses' = [uses EXCEPT ![q] = cq]
  /\ UNCHANGED <<vars, todo, members, mem, badFree, refused>>

ReadyCqs == {c \in Key : kind[c] = "cq" /\ phase[c] = "ready"}

create_cq(q) == "cq" \in Kind /\ New(q, "cq", Null, "get_uar", FALSE)

create_rq(q) ==
  \E k \in Kind \cap {"striding_rq", "regular_rq"}, c \in ReadyCqs : New(q, k, c, "get_uar", FALSE)

(* An ibq_rq has no memory and no UAR of its own. *)
create_ibq_rq(q) ==
  "ibq_rq" \in Kind /\ \E c \in ReadyCqs : New(q, "ibq_rq", c, "command", FALSE)

(* create_pp_sq sets its out parameter at once. *)
create_pp_sq(q) ==
  "pp_sq" \in Kind /\ \E c \in ReadyCqs : New(q, "pp_sq", c, "get_uar", TRUE)

----------------------------------------------------------------------------
Deleting(q) ==
  /\ phase' = [phase EXCEPT ![q] = "deleting"]
  /\ todo' = [todo EXCEPT ![q] = DeleteOrder(kind[q])]

(* A step of create_cq fails: it releases the registrations and buffers it *)
(* has, and deletes the queue.                                             *)
FailCq(q) ==
  /\ kind[q] = "cq"
  /\ Deleting(q)
  /\ mem' = mem \ ({q} \X {r \in members[q] : r # "uar_t"})

(* unique_ptr, and create_ibq_rq, delete the receive queue. *)
FailRq(q) == kind[q] \in {"striding_rq", "regular_rq", "ibq_rq"} /\ Deleting(q) /\ UNCHANGED mem

(* create_pp_sq returns the error; the partial queue is with the caller. *)
FailSq(q) ==
  /\ kind[q] = "pp_sq"
  /\ phase' = [phase EXCEPT ![q] = "partial"]
  /\ todo' = [todo EXCEPT ![q] = <<>>]
  /\ UNCHANGED mem

Fail(q) == (FailCq(q) \/ FailRq(q) \/ FailSq(q)) /\ UNCHANGED <<members, out>>

(* m_uarpool->get_uar(this) *)
GetUar(q) ==
  /\ phase[q] = "get_uar"
  /\ GetSharedFirst(q) \/ GetSharedAgain(q)
  /\ IF ret' = Null
     THEN Fail(q)
     ELSE /\ phase' = [phase EXCEPT ![q] = "memory"]
          /\ todo' = [todo EXCEPT ![q] = Memory]
          /\ UNCHANGED <<members, mem, out>>
  /\ UNCHANGED <<kind, uses, badFree, refused>>

Acquired(q, r) ==
  /\ members' = [members EXCEPT ![q] = @ \cup {r}]
  /\ mem' = mem \cup {<<q, r>>}

(* allocate_cq_buf or allocate_wq_buf, reg_mem, allocate_db_rec, reg_mem *)
AcquireMemory(q) ==
  /\ phase[q] = "memory"
  /\ \/ /\ Acquired(q, Head(todo[q]))
        /\ todo' = [todo EXCEPT ![q] = Tail(@)]
        /\ phase' = [phase EXCEPT ![q] = IF Len(todo[q]) = 1 THEN "init" ELSE @]
        /\ UNCHANGED out
     \/ Fail(q)
  /\ UNCHANGED <<vars, kind, uses, badFree, refused>>

(* The UAR descriptor is copied into the queue. *)
InitTo(q, next) ==
  /\ phase[q] = "init"
  /\ \/ /\ Acquired(q, "uar_t")
        /\ phase' = [phase EXCEPT ![q] = next]
        /\ UNCHANGED <<todo, out>>
     \/ Fail(q)
  /\ UNCHANGED <<vars, kind, uses, badFree, refused>>

(* cq::init also refuses a size above MAX_CQ_SZ, basic_rq::init only an    *)
(* invalid page.                                                           *)
InitCq(q) == kind[q] = "cq" /\ InitTo(q, "command")
InitRq(q) == kind[q] \in {"striding_rq", "regular_rq"} /\ InitTo(q, "command")

(* pp_sq::init goes on to the pacing entry, unless the rate is 0.  A       *)
(* packet_pacing object the device refused is lost; with attributes of     *)
(* another type none was made.                                             *)
InitSq(q) ==
  \/ kind[q] = "pp_sq" /\ InitTo(q, "pacing")
  \/ /\ phase[q] = "pacing"
     /\ \/ /\ Acquired(q, "pp") \/ UNCHANGED <<members, mem>>
           /\ phase' = [phase EXCEPT ![q] = "command"]
           /\ UNCHANGED <<todo, out>>
        \/ Fail(q)
        \/ /\ phase' = [phase EXCEPT ![q] = "partial"]
           /\ mem' = mem \cup {<<q, "pp_obj">>}
           /\ UNCHANGED <<todo, members, out>>
     /\ UNCHANGED <<vars, kind, uses, badFree, refused>>

(* The command that creates the queue in the device, last of all; it needs *)
(* the completion queue to exist there.                                    *)
Command(q) ==
  /\ phase[q] = "command"
  /\ \/ /\ uses[q] # Null => <<uses[q], "hw">> \in mem
        /\ Acquired(q, "hw")
        /\ phase' = [phase EXCEPT ![q] = "ready"]
        /\ out' = [out EXCEPT ![q] = TRUE]
        /\ UNCHANGED todo
     \/ Fail(q)
  /\ UNCHANGED <<vars, kind, uses, badFree, refused>>

CreateCq(q)       == kind[q] = "cq" /\ Command(q)
CreateStriding(q) == kind[q] = "striding_rq" /\ Command(q)
CreateRegular(q)  == kind[q] = "regular_rq" /\ Command(q)
CreateIbq(q)      == kind[q] = "ibq_rq" /\ Command(q)
CreateSq(q)       == kind[q] = "pp_sq" /\ Command(q)

----------------------------------------------------------------------------
(* The application calls destroy(), possibly again. *)
destroy(q) ==
  /\ phase[q] \in {"ready", "partial", "destroyed"}
  /\ phase' = [phase EXCEPT ![q] = "destroying"]
  /\ todo' = [todo EXCEPT ![q] = DestroyOrder(kind[q])]
  /\ UNCHANGED <<vars, kind, members, mem, out, uses, badFree, refused>>

(* The application deletes the object it got. *)
Delete(q) ==
  /\ phase[q] \in {"ready", "partial", "destroyed"}
  /\ Deleting(q)
  /\ UNCHANGED <<vars, kind, members, mem, out, uses, badFree, refused>>

(* A queue in the device reports to the completion queue q. *)
Busy(q) == kind[q] = "cq" /\ \E p \in Key : uses[p] = q /\ <<p, "hw">> \in mem

(* Whether the device keeps resource r of q although it is told to give it *)
(* up, because something in the device refers to it: a queue to its        *)
(* completion queue, a TIR of the application to its receive queue, and a  *)
(* queue to its registrations.                                             *)
Keeps(q, r) ==
  CASE r = "hw" /\ kind[q] = "cq" -> {Busy(q)}
    [] r = "hw" /\ kind[q] \in {"striding_rq", "regular_rq", "ibq_rq"} -> BOOLEAN
    [] r \in DeviceHeld \ {"hw"} -> {(<<q, "hw">> \in mem)}
    [] OTHER -> {FALSE}

(* m_x = nullptr, after m_x is released. *)
Nulled(q, r) == members[q] \ {r}

(* if (m_x) { release m_x; m_x = nullptr; }.  For the device object        *)
(* obj::destroy, and for a registration ~umem, forget the handle and       *)
(* ignore a refusal: it then stays in the device, nothing refers to it,    *)
(* and the releases that follow are made all the same.                     *)
ReleaseNext(q) ==
  /\ phase[q] \in {"destroying", "deleting"} /\ todo[q] # <<>>
  /\ LET r     == Head(todo[q])
         frees == r \in members[q]
     IN  \E kept \in Keeps(q, r) :
         /\ members' = [members EXCEPT ![q] = Nulled(q, r)]
         /\ mem' = IF frees /\ ~kept THEN mem \ {<<q, r>>} ELSE mem
         /\ badFree' = IF frees /\ <<q, r>> \notin mem
                       THEN badFree \cup {<<kind[q], out[q], r>>} ELSE badFree
         /\ refused' = IF frees /\ kept /\ r = "hw" THEN refused \cup {q} ELSE refused
  /\ todo' = [todo EXCEPT ![q] = Tail(@)]
  /\ UNCHANGED <<vars, kind, phase, out, uses>>

(* destroy() returns; or the memory of a deleted object can be reused.  A  *)
(* queue the device kept goes on reporting to its completion queue.        *)
Released(q) ==
  /\ phase[q] \in {"destroying", "deleting"} /\ todo[q] = <<>>
  /\ IF phase[q] = "destroying"
     THEN phase' = [phase EXCEPT ![q] = "destroyed"] /\ UNCHANGED <<kind, out, uses>>
     ELSE /\ phase' = [phase EXCEPT ![q] = "none"]
          /\ kind' = [kind EXCEPT ![q] = "none"]
          /\ out' = [out EXCEPT ![q] = FALSE]
          /\ uses' = [uses EXCEPT ![q] = IF q \in refused THEN @ ELSE Null]
  /\ UNCHANGED <<vars, todo, members, mem, badFree, refused>>

(* What get_cq_buf or get_wq_buf, get_dbrec and get_uar_page return with   *)
(* DPCP_OK: the members that are not null.                                 *)
cq_getters(q) == members[q] \cap {"buf", "db", "uar_t"}
rq_getters(q) == members[q] \cap {"buf", "db", "uar_t"}
sq_getters(q) == members[q] \cap {"buf", "db", "uar_t"}
Got(q) ==
  CASE kind[q] = "cq" -> cq_getters(q) [] kind[q] = "pp_sq" -> sq_getters(q)
    [] kind[q] \in {"striding_rq", "regular_rq"} -> rq_getters(q) [] OTHER -> {}

QNext == \E q \in Key :
  \/ create_cq(q) \/ create_rq(q) \/ create_ibq_rq(q) \/ create_pp_sq(q)
  \/ GetUar(q) \/ AcquireMemory(q) \/ InitCq(q) \/ InitRq(q) \/ InitSq(q)
  \/ CreateCq(q) \/ CreateStriding(q) \/ CreateRegular(q) \/ CreateIbq(q) \/ CreateSq(q)
  \/ destroy(q) \/ Delete(q) \/ ReleaseNext(q) \/ Released(q)

QSpec == QInit /\ [][QNext]_allVars

----------------------------------------------------------------------------
(* While the device has a queue it can write its ring and read its         *)
(* doorbell record: both are allocated and registered, and memory that is  *)
(* registered is never freed before it is deregistered, on any error path  *)
(* and in destroy().  The exception is a queue that was destroyed while    *)
(* the device still needed it: obj::destroy says DPCP_OK, and destroy()    *)
(* goes on and frees the memory.                                           *)
DmaBacked == \A q \in Key \ refused :
  /\ <<q, "hw">> \in mem /\ kind[q] # "ibq_rq" =>
       \A r \in {"buf", "buf_umem", "db", "db_umem"} : <<q, r>> \in mem
  /\ <<q, "buf_umem">> \in mem => <<q, "buf">> \in mem
  /\ <<q, "db_umem">> \in mem => <<q, "db">> \in mem

(* The only releases of something already released are those of a          *)
(* completion queue whose creation failed; destroy() after a failure, a    *)
(* second destroy() and the destructor after destroy() are all harmless.   *)
BadFreeOnlyFailedCq == \A b \in badFree : b[1] = "cq" /\ ~b[2]

(* However a creation ended, once the object is deleted nothing its class  *)
(* has a member for is left in the process; and nothing is left in the     *)
(* device, except of a queue that was destroyed while something there      *)
(* referred to it: then the queue and its registrations may be left.  (A   *)
(* packet_pacing object of the process whose creation failed never gets    *)
(* into a member; InitSq has it as lost.)                                  *)
NothingLeft == \A q \in Key : phase[q] = "none" =>
  \A r \in Members : <<q, r>> \in mem => q \in refused /\ r \in DeviceHeld

(* What the getters of a queue the application has give it is there: ring  *)
(* and doorbell record are allocated, also in a queue whose creation       *)
(* failed half way or that was destroyed, and the page is the one the pool *)
(* gave to this queue and is allocated, whichever queues came and went.    *)
GettersBacked == \A q \in Key :
  out[q] /\ phase[q] \in {"ready", "partial", "destroyed"} =>
    \A r \in Got(q) :
      /\ <<q, r>> \in mem
      /\ r = "uar_t" => heldSh[q] = m_shared_uar /\ m_shared_uar \in live

(* cq::destroy, cq.cpp:105 and 114, "Deregister UMEM for CQ and DB" and    *)
(* "Deallocated WQ buffer and DoorBell record": this is where they are     *)
(* released, and every resource is released once.                          *)
ReleasedOnce == badFree = {}

----------------------------------------------------------------------------
(* What the theorems rest on.  A list that is worked off is the rest of    *)
(* the order it began with.                                                *)
Rest(s) == {s[i] : i \in 1..Len(s)}
RestOf(s, order) == \E i \in 1..(Len(order) + 1) : s = SubSeq(order, i, Len(order))

DmaMembers == {"buf", "buf_umem", "db", "db_umem"}
ClassMembers(k) ==
  CASE k = "cq" -> CqMembers [] k \in {"striding_rq", "regular_rq"} -> RqMembers
    [] k = "ibq_rq" -> IbqMembers [] k = "pp_sq" -> SqMembers [] OTHER -> {}

Phase == {"none", "get_uar", "memory", "init", "pacing", "command", "ready", "partial",
          "destroying", "destroyed", "deleting"}
QueueTypes ==
  /\ kind \in [Key -> {"none", "cq", "striding_rq", "regular_rq", "ibq_rq", "pp_sq"}]
  /\ phase \in [Key -> Phase] /\ out \in [Key -> BOOLEAN]
  /\ members \in [Key -> SUBSET Members] /\ todo = [q \in Key |-> todo[q]]

(* A completion queue that create_cq gives up: it has released everything  *)
(* but the UAR descriptor, and the members still point there.              *)
GivenUp(q) == kind[q] = "cq" /\ phase[q] = "deleting" /\ ~out[q]

(* What a member points to is allocated, and what is allocated has a       *)
(* member unless the device kept it; registered memory is allocated, and a *)
(* queue in the device has its memory.                                     *)
MembersBacked(q) ==
  /\ \A r \in members[q] : (GivenUp(q) => r = "uar_t") => <<q, r>> \in mem
  /\ \A r \in Members : <<q, r>> \in mem =>
       \/ r \in members[q] /\ (GivenUp(q) => r = "uar_t")
       \/ q \in refused /\ r \in DeviceHeld
  /\ members[q] \subseteq ClassMembers(kind[q])
  /\ "buf_umem" \in members[q] => "buf" \in members[q]
  /\ "db_umem" \in members[q] => "db" \in members[q]
  /\ "hw" \in members[q] /\ kind[q] # "ibq_rq" => DmaMembers \subseteq members[q]

(* Which members are set at each point of creation and destruction. *)
MembersByPhase(q) ==
  /\ phase[q] \in {"none", "get_uar"} => members[q] = {}
  /\ phase[q] = "memory" => /\ todo[q] # <<>> /\ RestOf(todo[q], Memory)
                            /\ members[q] = DmaMembers \ Rest(todo[q])
  /\ phase[q] = "init" => members[q] = DmaMembers
  /\ phase[q] = "pacing" => kind[q] = "pp_sq" /\ members[q] = DmaMembers \cup {"uar_t"}
  /\ phase[q] = "command" => /\ "hw" \notin members[q]
                             /\ kind[q] # "ibq_rq" => DmaMembers \cup {"uar_t"} \subseteq members[q]
  /\ phase[q] = "partial" => kind[q] = "pp_sq" /\ "hw" \notin members[q]
  /\ phase[q] = "destroying" => /\ RestOf(todo[q], DestroyOrder(kind[q]))
                                /\ members[q] \subseteq Rest(todo[q]) \cup {"pp"}
  /\ phase[q] = "destroyed" => members[q] \subseteq {"pp"}
  /\ phase[q] = "deleting" => /\ RestOf(todo[q], DeleteOrder(kind[q]))
                              /\ members[q] \subseteq Rest(todo[q])

KindByPhase(q) ==
  /\ phase[q] = "none" <=> kind[q] = "none"
  /\ phase[q] \in {"get_uar", "memory", "init", "pacing"} => kind[q] # "ibq_rq"
  /\ kind[q] = "cq" /\ phase[q] # "deleting" =>
       (out[q] <=> phase[q] \in {"ready", "destroying", "destroyed"})
  /\ q \in refused => phase[q] \in {"none", "destroying", "destroyed", "deleting"}

(* A queue past get_uar has the UAR the pool shares. *)
HasUar(q) ==
  phase[q] \in {"memory", "init"} \/ "uar_t" \in members[q] =>
    heldSh[q] = m_shared_uar /\ m_shared_uar \in live

QueueInv ==
  /\ QueueTypes
  /\ \A q \in Key : MembersBacked(q) /\ MembersByPhase(q) /\ KindByPhase(q) /\ HasUar(q)
=============================================================================
