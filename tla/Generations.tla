---------------------------- MODULE Generations ----------------------------
(***************************************************************************)
(* What the lifecycle promises to everybody who works for the plugin.  The *)
(* state and the host of the process belong to an epoch.  Goroutines and   *)
(* requests enter an epoch through the gate of their group and leave it.   *)
(* The epoch turns only when both gates are closed and nobody is left in   *)
(* it, and a closed gate drains.                                           *)
(***************************************************************************)
EXTENDS Naturals

CONSTANTS
    Background,  \* the members that enter when an epoch begins
    Request      \* the members that enter while their gate is open

VARIABLES
    epoch,       \* the number of times the state or the host was replaced
    open,        \* the groups whose gate is open
    members      \* who is at work in this epoch

vars == <<epoch, open, members>>

Group == {"background", "request"}
GroupOf(j) == IF j \in Background THEN "background" ELSE "request"

Init ==
    /\ epoch = 0
    /\ open = {}
    /\ members = {}

Enter(j) ==
    /\ "request" \in open
    /\ j \in Request \ members
    /\ members' = members \cup {j}
    /\ UNCHANGED <<epoch, open>>

Leave(j) ==
    /\ j \in members
    /\ members' = members \ {j}
    /\ UNCHANGED <<epoch, open>>

Close(g) ==
    /\ g \in open
    /\ open' = open \ {g}
    /\ UNCHANGED <<epoch, members>>

Reopen ==
    /\ open' = open \cup {"request"}
    /\ UNCHANGED <<epoch, members>>

(* The members of the background enter with the epoch or not at all.       *)
Turn ==
    /\ open = {}
    /\ members = {}
    /\ epoch' = epoch + 1
    /\ \/ open' = {} /\ members' = {}
       \/ open' = {"background"} /\ members' \in SUBSET Background

Next ==
    \/ \E j \in Request : Enter(j)
    \/ \E j \in Background \cup Request : Leave(j)
    \/ \E g \in Group : Close(g)
    \/ Reopen
    \/ Turn

LeaveClosed(j) == GroupOf(j) \notin open /\ Leave(j)

Safety == Init /\ [][Next]_vars

Spec ==
    /\ Safety
    /\ \A j \in Background \cup Request : WF_vars(LeaveClosed(j))
=============================================================================
