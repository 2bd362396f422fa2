------------------------------- MODULE Calls -------------------------------
(***************************************************************************)
(* The last call of an operation whose outcome depends on its arguments    *)
(* alone, with its arguments and its outcome.                              *)
(***************************************************************************)
VARIABLE last

NoCall    == [op |-> "none"]
CallsInit == last = NoCall

Call(op, args, outcome) ==
  last = NoCall /\ last' = [op |-> op, in |-> args, out |-> outcome]
Return == last # NoCall /\ last' = NoCall
=============================================================================
