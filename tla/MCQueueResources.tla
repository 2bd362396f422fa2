-------------------------- MODULE MCQueueResources --------------------------
(* The pool of UARs by itself, called in any order and destroyed, or used  *)
(* by queues that are created and destroyed.                               *)
EXTENDS QueueResources

VARIABLE alone   \* no queue is created: the pool is called directly

MCInit == QInit /\ alone \in BOOLEAN
MCNext ==
  \/ alone /\ Next /\ UNCHANGED <<queueVars, alone>>
  \/ ~alone /\ QNext /\ UNCHANGED alone
MCSpec == MCInit /\ [][MCNext]_<<allVars, alone>>
=============================================================================
