--------------------------- MODULE PortalRequest ---------------------------
(***************************************************************************)
(* What a backend method call with a Request handle promises to the portal *)
(* frontend, whatever the method does (ScreenCast.Start, Screenshot,       *)
(* PickColor): the call gets at most one answer, the Request object is     *)
(* exported while the call is being worked on, it outlives the answer, and *)
(* it is eventually withdrawn, unless the backend process dies, with which *)
(* every object goes.                                                      *)
(***************************************************************************)
CONSTANT Calls

VARIABLES status,   \* "idle" | "pending" | "answered"
          object,   \* the Request object: "absent" | "exported"
          alive     \* the backend process

vars == <<status, object, alive>>

TypeOK ==
    /\ status \in [Calls -> {"idle", "pending", "answered"}]
    /\ object \in [Calls -> {"absent", "exported"}]
    /\ alive \in BOOLEAN

Init ==
    /\ status = [c \in Calls |-> "idle"]
    /\ object = [c \in Calls |-> "absent"]
    /\ alive = TRUE

\* The call arrives and its Request object is exported; the answer may be given at once.
Receive(c) ==
    /\ alive
    /\ status[c] = "idle"
    /\ \E st \in {"pending", "answered"} : status' = [status EXCEPT ![c] = st]
    /\ object' = [object EXCEPT ![c] = "exported"]
    /\ UNCHANGED alive

\* The one answer of the call.  The object stays until the event loop drops it.
Answer(c) ==
    /\ alive
    /\ status[c] = "pending"
    /\ status' = [status EXCEPT ![c] = "answered"]
    /\ UNCHANGED <<object, alive>>

Withdraw(c) ==
    /\ alive
    /\ status[c] = "answered"
    /\ object[c] = "exported"
    /\ object' = [object EXCEPT ![c] = "absent"]
    /\ UNCHANGED <<status, alive>>

\* The process dies; no call is answered after that.
Die ==
    /\ alive' = FALSE
    /\ UNCHANGED <<status, object>>

Next == Die \/ \E c \in Calls : Receive(c) \/ Answer(c) \/ Withdraw(c)

Spec == Init /\ [][Next]_vars /\ \A c \in Calls : WF_vars(Withdraw(c))
=============================================================================
