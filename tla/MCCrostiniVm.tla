----------------------------- MODULE MCCrostiniVm -----------------------------
(* Small instances of CrostiniVm for TLC. *)
EXTENDS CrostiniVm

CONSTANTS user, penguin, guest

text(f, v) == [type |-> "text", field |-> f, text |-> v]
garbled(f, v) == [type |-> "garbled", field |-> f, text |-> v]

(* An owner in field 4 only, and a name behind another of the same field;  *)
(* a guest the bridge does not know before the owner, which is taken for   *)
(* one; an owner after a garbled text and with a guest in a field that is  *)
(* not looked at; and nothing before an unknown field.                     *)
MCRequests ==
  { <<text(1, guest), text(4, user), text(1, Vm), text(5, user)>>,
    <<text(1, Vm), text(2, guest), text(3, user)>>,
    <<text(1, penguin), text(2, user), garbled(2, guest), text(6, guest)>>,
    <<[type |-> "group", field |-> 3, text |-> None], text(2, user)>> }
=============================================================================
