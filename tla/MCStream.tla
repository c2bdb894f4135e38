------------------------------ MODULE MCStream ------------------------------
(***************************************************************************)
(* Stream with an untyped object, a delta, and completed turns with the    *)
(* status outside and inside the nested response.                          *)
(***************************************************************************)
EXTENDS Stream

CONSTANTS failedEvent, completedEvent, deltaEvent, noName

Events == {
    [type |-> noName, status |-> "", nested |-> "absent"],
    [type |-> completedEvent, status |-> "", nested |-> "completed"],
    [type |-> completedEvent, status |-> "refused", nested |-> "completed"],
    [type |-> failedEvent, status |-> "", nested |-> "absent"]}

Nothing == [error |-> FALSE, filled |-> FALSE, status |-> ""]

Form(format, own, nested, hasNested) ==
    [format |-> format, own |-> own, nested |-> nested, hasNested |-> hasNested]

Answers == {Form(format, Nothing, Nothing, FALSE) : format \in {"stream", "junk"}}
           \cup {Form("json", own, Nothing, FALSE) : own \in Said}
           \cup {Form("json", own, nested, TRUE) : own, nested \in Said}
=============================================================================
