------------------------------ MODULE OnceTask ------------------------------
(***************************************************************************)
(* What the generation queue promises for each operation: it is open until *)
(* it is either withdrawn or taken, never both; only a taken operation     *)
(* reaches the model, once; and its outcome, once there, is final.         *)
(***************************************************************************)
EXTENDS Naturals

CONSTANT Op

VARIABLES task,   \* where each operation stands
          calls   \* how often the model was invoked for it

vars == <<task, calls>>

Init == /\ task = [o \in Op |-> "open"]
        /\ calls = [o \in Op |-> 0]

Move(o, from, to) == /\ task[o] = from
                     /\ task' = [task EXCEPT ![o] = to]
                     /\ UNCHANGED calls

Withdraw(o) == Move(o, "open", "withdrawn")
Take(o) == Move(o, "open", "taken")
Settle(o) == Move(o, "taken", "settled")

\* Giving up on a taken operation does not stop the attempt under way.
Invoke(o) == /\ task[o] \in {"taken", "settled"}
             /\ calls[o] = 0
             /\ calls' = [calls EXCEPT ![o] = 1]
             /\ UNCHANGED task

Next == \E o \in Op : Withdraw(o) \/ Take(o) \/ Settle(o) \/ Invoke(o)

Spec == Init /\ [][Next]_vars
=============================================================================
