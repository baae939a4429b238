----------------------------- MODULE CopyService ----------------------------
(***************************************************************************)
(* What the blocking requests of the XDMA driver promise together: clients *)
(* are served one at a time; the items of the one that is served, and of   *)
(* no other, are copied in their order; and a client is never credited     *)
(* with an item that was not copied.  It may leave at any time, with all   *)
(* of its items or after a failure.  A service that breaks promises        *)
(* nothing from then on.                                                   *)
(*                                                                         *)
(* XdmaSync implements this service: a client is a caller of               *)
(* xdma_xfer_submit, it is served while it holds engine->desc_lock, its    *)
(* items are the software descriptors of its request, and it is credited   *)
(* with a transfer when engine_service answers it as completed.            *)
(***************************************************************************)
EXTENDS Integers

CONSTANTS
    Clients,
    MaxItems       \* bound on the items of one request

VARIABLES
    waiting,       \* the clients that have asked
    serving,       \* the client being served: at most one
    size,          \* the items each has asked for
    copied,        \* the items copied for it
    credit,        \* how many of them it has been credited with
    broken         \* the service has broken

vars == <<waiting, serving, size, copied, credit, broken>>

Init ==
    /\ waiting = {} /\ serving = {}
    /\ size = [c \in Clients |-> 0]
    /\ copied = [c \in Clients |-> {}]
    /\ credit = [c \in Clients |-> 0]
    /\ broken = FALSE

Ask(c, n) ==
    /\ c \notin waiting \cup serving
    /\ waiting' = waiting \cup {c}
    /\ size' = [size EXCEPT ![c] = n]
    /\ UNCHANGED <<serving, copied, credit, broken>>

Serve(c) ==
    /\ c \in waiting
    /\ serving = {}
    /\ waiting' = waiting \ {c}
    /\ serving' = {c}
    /\ UNCHANGED <<size, copied, credit, broken>>

Copy(c, k) ==
    /\ c \in serving
    /\ k < size[c]
    /\ copied[c] = 0 .. k - 1
    /\ copied' = [copied EXCEPT ![c] = 0 .. k]
    /\ UNCHANGED <<waiting, serving, size, credit, broken>>

Credit(c, n) ==
    /\ c \in serving
    /\ credit[c] < n
    /\ 0 .. n - 1 \subseteq copied[c]
    /\ credit' = [credit EXCEPT ![c] = n]
    /\ UNCHANGED <<waiting, serving, size, copied, broken>>

Leave(c) ==
    /\ c \in serving
    /\ serving' = {}
    /\ size' = [size EXCEPT ![c] = 0]
    /\ copied' = [copied EXCEPT ![c] = {}]
    /\ credit' = [credit EXCEPT ![c] = 0]
    /\ UNCHANGED <<waiting, broken>>

Break == broken' = TRUE

Next ==
    \/ Break
    \/ \E c \in Clients :
          \/ \E n \in 1 .. MaxItems : Ask(c, n) \/ Credit(c, n)
          \/ \E k \in 0 .. MaxItems - 1 : Copy(c, k)
          \/ Serve(c) \/ Leave(c)

Spec == Init /\ [][Next]_vars
=============================================================================
