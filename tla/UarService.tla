----------------------------- MODULE UarService -----------------------------
(***************************************************************************)
(* What uar_collection promises the queues, without its containers: at any *)
(* time there is at most one shared UAR, the same for all its users, and   *)
(* every other UAR in use belongs to exactly one key.                      *)
(***************************************************************************)
CONSTANTS Key, Uar, Null

VARIABLES sharedUar,   \* the UAR of all sharers, Null before the first grant
          sharers,     \* the keys that hold it
          excl         \* the UAR each key holds alone, or Null

svars == <<sharedUar, sharers, excl>>

InUse == {excl[k] : k \in Key} \cup {sharedUar}

SInit ==
  /\ sharedUar = Null
  /\ sharers = {}
  /\ excl = [k \in Key |-> Null]

GrantShared(k) ==
  /\ \/ sharedUar # Null /\ sharedUar' = sharedUar
     \/ sharedUar = Null /\ sharedUar' \in Uar \ InUse
  /\ sharers' = sharers \cup {k}
  /\ UNCHANGED excl

GrantExclusive(k) ==
  /\ excl[k] = Null
  /\ \E u \in Uar \ InUse : excl' = [excl EXCEPT ![k] = u]
  /\ UNCHANGED <<sharedUar, sharers>>

Release(k) ==
  /\ \/ /\ k \in sharers
        /\ sharers' = sharers \ {k}
        /\ UNCHANGED excl
     \/ /\ k \notin sharers /\ excl[k] # Null
        /\ excl' = [excl EXCEPT ![k] = Null]
        /\ UNCHANGED sharers
  /\ UNCHANGED sharedUar

Close ==
  /\ sharedUar' = Null
  /\ sharers' = {}
  /\ excl' = [k \in Key |-> Null]

SNext == (\E k \in Key : GrantShared(k) \/ GrantExclusive(k) \/ Release(k)) \/ Close

SSpec == SInit /\ [][SNext]_svars
=============================================================================
