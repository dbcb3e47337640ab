--------------------------- MODULE Conversations ---------------------------
(***************************************************************************)
(* What the gateway promises its clients, whatever workers, queues and     *)
(* turns it uses: a conversation is served by one serial queue.  Requests  *)
(* without a conversation are independent of each other.                   *)
(***************************************************************************)
EXTENDS Naturals

CONSTANTS Request,          \* requests, numbered in the order of arrival
          NoConversation    \* conversation of a request that names none

VARIABLES phase,            \* where each request is
          conversation      \* the conversation it belongs to

vars == <<phase, conversation>>

Same(i, j) == conversation[i] # NoConversation /\ conversation[i] = conversation[j]

Init == phase = [j \in Request |-> "idle"]

Move(j, from, to) ==
    /\ phase[j] = from
    /\ phase' = [phase EXCEPT ![j] = to]
    /\ UNCHANGED conversation

(* The service accepts a request, or refuses it at the door.               *)
Accept(j) == Move(j, "idle", "pending")
Decline(j) == Move(j, "idle", "refused")

(* It starts a request when its conversation runs nothing and has no       *)
(* earlier request pending.                                                *)
Start(j) ==
    /\ \A i \in Request : Same(i, j) => phase[i] # "running"
    /\ \A i \in Request : Same(i, j) /\ i < j => phase[i] # "pending"
    /\ Move(j, "pending", "running")

(* It answers a running request or certifies that no worker saw it.        *)
Answer(j) == Move(j, "running", "answered") \/ Move(j, "running", "refused")

(* The client gives up a pending request.                                  *)
Withdraw(j) == Move(j, "pending", "withdrawn")

(* The service refuses pending requests, all at once when it stops.        *)
Refuse(S) ==
    /\ \A j \in S : phase[j] = "pending"
    /\ phase' = [j \in Request |-> IF j \in S THEN "refused" ELSE phase[j]]
    /\ UNCHANGED conversation

Next == \/ \E j \in Request : \/ Accept(j) \/ Decline(j) \/ Start(j)
                              \/ Answer(j) \/ Withdraw(j)
        \/ \E S \in SUBSET Request : Refuse(S)

Spec == Init /\ [][Next]_vars
============================================================================
