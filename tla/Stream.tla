------------------------------- MODULE Stream -------------------------------
(***************************************************************************)
(* One request of a wake and what its answer is taken for: executeCodex    *)
(* with the reader of event streams and the check of plain JSON answers.   *)
(*                                                                         *)
(* A body is a sequence of lines.  Texts are abstracted to what the code   *)
(* tells apart: event names are members of three sets, a data line is      *)
(* empty, the end marker, no JSON, an object, or one half of an object     *)
(* that is written over two lines.                                         *)
(***************************************************************************)
EXTENDS Naturals, Sequences

CONSTANTS
    Failing,   \* names of events that report a failure
    Final,     \* names of events that end a turn
    Other,     \* names of other events
    NoName,    \* the empty name
    Object,    \* what event data may say
    Answer,    \* the answers: a stream, a JSON object, or neither
    MaxLines   \* bound on the lines of a body

Name == Failing \cup Final \cup Other \cup {NoName}
Status == {"", "completed", "refused"}

(* An object of a plain JSON answer, with the response nested in it, if any: *)
(* does it report an error, has it an id or an output, what is its status. *)
Said == [error : BOOLEAN, filled : BOOLEAN, status : Status]
AnswerForm == [format : {"stream", "json", "junk"}, own : Said,
               nested : Said, hasNested : BOOLEAN]

ASSUME StreamAssumption ==
    /\ Failing \cap Final = {}
    /\ Other \cap (Failing \cup Final) = {}
    /\ NoName \notin Failing \cup Final \cup Other
    /\ Object \subseteq [type : Name, status : Status, nested : Status \cup {"absent"}]
    /\ Answer \subseteq AnswerForm
    /\ MaxLines \in Nat

VARIABLES
    pc,         \* where executeCodex is
    cancelled,  \* its context is done
    late,       \* history: it was done when the host returned
    body,       \* history: the lines read so far
    eventName,  \* the name of the event that is being read
    dataLines,  \* the positions of its data lines
    completed,  \* an event ended the turn
    failed,     \* firstError is not empty
    answer,     \* the form of the answer, and what it says if it is plain JSON
    outcome     \* what executeCodex returns

vars == <<pc, cancelled, late, body, eventName, dataLines, completed, failed,
          answer, outcome>>

reader == <<body, eventName, dataLines, completed, failed>>

-----------------------------------------------------------------------------
(* Lines *)

NoObject == [type |-> NoName, status |-> "", nested |-> "absent"]

Blank == [kind |-> "blank", name |-> NoName, form |-> "", object |-> NoObject]
Ignored == [Blank EXCEPT !.kind = "ignored"]
Event(name) == [Blank EXCEPT !.kind = "event", !.name = name]
Data(form, o) == [Blank EXCEPT !.kind = "data", !.form = form, !.object = o]

Line == {Blank, Ignored}
        \cup {Event(name) : name \in Name}
        \cup {Data(form, NoObject) : form \in {"empty", "done", "junk"}}
        \cup {Data(form, o) : form \in {"whole", "first", "last"}, o \in Object}

(* The data of an event, joined and trimmed: empty lines do not count.     *)
Written(b, D) == {k \in D : b[k].form # "empty"}

IsDone(b, D) == \E k \in D : Written(b, D) = {k} /\ b[k].form = "done"

Decodes(b, D, o) ==
    \/ \E k \in D : Written(b, D) = {k} /\ b[k].form = "whole" /\ b[k].object = o
    \/ \E k, l \in D :
          /\ k < l
          /\ Written(b, D) = {k, l}
          /\ b[k].form = "first" /\ b[k].object = o
          /\ b[l].form = "last" /\ b[l].object = o

NameOf(name, o) == IF name = NoName THEN o.type ELSE name

StatusOf(o) == IF o.status = "" /\ o.nested # "absent" THEN o.nested ELSE o.status

IsFinal(status) == status \in {"", "completed"}

(* What an event says, given the positions of its data and its name.       *)
Completes(b, D, name) ==
    \E o \in Object :
        Decodes(b, D, o) /\ NameOf(name, o) \in Final /\ IsFinal(StatusOf(o))

Fails(b, D, name) ==
    /\ D # {}
    /\ ~IsDone(b, D)
    /\ \A o \in Object :
          Decodes(b, D, o) =>
              \/ NameOf(name, o) \in Failing
              \/ (NameOf(name, o) \in Final /\ ~IsFinal(StatusOf(o)))

-----------------------------------------------------------------------------
(* The request *)

Init ==
    /\ pc = "start"
    /\ cancelled = FALSE
    /\ late = FALSE
    /\ body = <<>>
    /\ eventName = NoName
    /\ dataLines = {}
    /\ completed = FALSE
    /\ failed = FALSE
    /\ answer \in Answer
    /\ outcome = "none"

(* The timeout of the request, or the end of the worker or operation; once   *)
(* the answer is accepted, nothing looks at the context any more.          *)
Cancel ==
    /\ pc \in {"start", "inhost", "returned"}
    /\ cancelled' = TRUE
    /\ UNCHANGED <<pc, late, reader, answer, outcome>>

End(what) == pc' = "end" /\ outcome' = what

(* No bridge or incomplete settings, or a context that is done already.    *)
Refuse ==
    /\ pc = "start"
    /\ End("refused")
    /\ UNCHANGED <<cancelled, late, reader, answer>>

Send ==
    /\ pc = "start"
    /\ ~cancelled
    /\ pc' = "inhost"
    /\ UNCHANGED <<cancelled, late, reader, answer, outcome>>

HostReturns ==
    /\ pc = "inhost"
    /\ late' = cancelled
    /\ \/ End("transport")
       \/ pc' = "returned" /\ UNCHANGED outcome
    /\ UNCHANGED <<cancelled, reader, answer>>

(* Mutant: only the call looks at the context, when it begins.             *)
InAnyTime == TRUE
InTime == ~cancelled

(* The context is looked at once more, then the HTTP status, then the body: *)
(* one that mentions "event:" or "data:" anywhere is read as a stream.     *)
Accept ==
    /\ pc = "returned"
    /\ IF ~InTime THEN End("cancelled")
       ELSE \/ End("status")
            \/ pc' = answer.format /\ UNCHANGED outcome
    /\ UNCHANGED <<cancelled, late, reader, answer>>

-----------------------------------------------------------------------------
(* Event streams *)

(* Mutants: the name is kept for the next event; the error of an event is   *)
(* forgotten with the next.                                                *)
KeepName(b) ==
    /\ completed' = (completed \/ Completes(b, dataLines, eventName))
    /\ failed' = (failed \/ Fails(b, dataLines, eventName))
    /\ dataLines' = {}
    /\ eventName' = eventName
LastEventOnly(b) ==
    /\ completed' = (completed \/ Completes(b, dataLines, eventName))
    /\ failed' = Fails(b, dataLines, eventName)
    /\ dataLines' = {}
    /\ eventName' = NoName
process(b) ==
    /\ completed' = (completed \/ Completes(b, dataLines, eventName))
    /\ failed' = (failed \/ Fails(b, dataLines, eventName))
    /\ dataLines' = {}
    /\ eventName' = NoName

(* Mutant: every line that does not end the event is data.                 *)
AllCollected(l) == dataLines \cup {Len(body) + 1}
Collected(l) ==
    IF l.kind = "data" THEN dataLines \cup {Len(body) + 1} ELSE dataLines

(* Comments, and lines of none of the known fields, are ignored.           *)
ReadLine(l) ==
    /\ pc = "stream"
    /\ Len(body) < MaxLines
    /\ body' = Append(body, l)
    /\ IF l.kind = "blank"
       THEN process(body)
       ELSE /\ eventName' = IF l.kind = "event" THEN l.name ELSE eventName
            /\ dataLines' = Collected(l)
            /\ UNCHANGED <<completed, failed>>
    /\ UNCHANGED <<pc, cancelled, late, answer, outcome>>

(* A line above the buffer limit ends the reading with an error.            *)
LineTooLong ==
    /\ pc = "stream"
    /\ process(body)
    /\ End("truncated")
    /\ UNCHANGED <<cancelled, late, body, answer>>

(* The end of the body ends the last event, with or without a blank line.   *)
EndOfBody ==
    /\ pc = "stream"
    /\ process(body)
    /\ End(IF completed' /\ ~failed' THEN "success" ELSE "invalid")
    /\ UNCHANGED <<cancelled, late, body, answer>>

-----------------------------------------------------------------------------
(* Plain JSON *)

ReportsError(a) == a.own.error \/ (a.hasNested /\ a.nested.error)

HasStructure(said) == IsFinal(said.status) /\ (said.filled \/ said.status = "completed")

(* The answer decodes, reports no error, and it or its nested response is   *)
(* complete.                                                                *)
parseCodexJSON ==
    /\ pc \in {"json", "junk"}
    /\ End(IF /\ answer.format = "json"
              /\ ~ReportsError(answer)
              /\ \/ HasStructure(answer.own)
                 \/ answer.hasNested /\ HasStructure(answer.nested)
           THEN "success" ELSE "invalid")
    /\ UNCHANGED <<cancelled, late, reader, answer>>

Next ==
    \/ Cancel \/ Refuse \/ Send \/ HostReturns \/ Accept
    \/ \E l \in Line : ReadLine(l)
    \/ LineTooLong \/ EndOfBody \/ parseCodexJSON

Spec == Init /\ [][Next]_vars

-----------------------------------------------------------------------------
(* What the body says, event by event and without a reader: an event is a   *)
(* stretch of lines without a blank one, named by its last event line.     *)

Block(b, n) == {k \in 1..n : \A m \in k..n : b[m].kind # "blank"}

DataOf(b, n) == {k \in Block(b, n) : b[k].kind = "data"}

IsNamed(b, n, name) ==
    LET names == {k \in Block(b, n) : b[k].kind = "event"}
    IN  \/ names = {} /\ name = NoName
        \/ \E k \in names : b[k].name = name /\ \A m \in names : m <= k

Ended(b, n) == n + 1 \in 1..Len(b) => b[n + 1].kind = "blank"

SomeCompletes(b) ==
    \E n \in 1..Len(b) : Ended(b, n) /\
        \E name \in Name : IsNamed(b, n, name) /\ Completes(b, DataOf(b, n), name)

SomeFails(b) ==
    \E n \in 1..Len(b) : Ended(b, n) /\
        \E name \in Name : IsNamed(b, n, name) /\ Fails(b, DataOf(b, n), name)

-----------------------------------------------------------------------------
(* Properties *)

\* Every variable has its type, and the data of an event are data lines.
TypeOK ==
    /\ pc \in {"start", "inhost", "returned", "stream", "json", "junk", "end"}
    /\ cancelled \in BOOLEAN
    /\ late \in BOOLEAN
    /\ body \in Seq(Line)
    /\ eventName \in Name
    /\ dataLines \subseteq {k \in 1..Len(body) : body[k].kind = "data"}
    /\ completed \in BOOLEAN
    /\ failed \in BOOLEAN
    /\ answer \in Answer
    /\ outcome \in {"none", "refused", "transport", "cancelled", "status",
                    "truncated", "invalid", "success"}

\* A wake counts as successful only if its answer says that the turn is over and
\* nowhere that it failed: in a stream, some event completes the turn and no event,
\* before or after, reports a failure or is not readable (parseCodexSSE); in plain
\* JSON, no level reports an error.
SuccessIsCompleted ==
    outcome = "success" =>
        \/ answer.format = "stream" /\ SomeCompletes(body) /\ ~SomeFails(body)
        \/ answer.format = "json" /\ ~ReportsError(answer)

\* A stream that completes its turn and reports no failure is accepted, however it
\* is cut into lines, whatever is between its events, and with or without a blank
\* line at its end.
CompletionSucceeds ==
    outcome = "invalid" /\ answer.format = "stream" =>
        ~SomeCompletes(body) \/ SomeFails(body)

\* An answer that the host returns after the request was cancelled or timed out is
\* never taken for a success (the context is looked at after the call).
LateAnswersAreRefused == outcome = "success" => ~late
=============================================================================
