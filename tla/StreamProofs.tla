---------------------------- MODULE StreamProofs ----------------------------
(***************************************************************************)
(* The reader of event streams, for bodies of any length: what it has       *)
(* gathered is what the events of the body say.                            *)
(***************************************************************************)
EXTENDS Stream, TLAPS

(* The events of a body that a blank line has ended.                       *)
Closed(b, n) == n + 1 \in 1..Len(b) /\ b[n + 1].kind = "blank"

ClosedCompletes(b) ==
    \E n \in 1..Len(b) : Closed(b, n) /\
        \E name \in Name : IsNamed(b, n, name) /\ Completes(b, DataOf(b, n), name)

ClosedFails(b) ==
    \E n \in 1..Len(b) : Closed(b, n) /\
        \E name \in Name : IsNamed(b, n, name) /\ Fails(b, DataOf(b, n), name)

(* While it reads, the reader holds the event at the end of the body, and a *)
(* summary of the events before it.                                        *)
Gathered ==
    pc # "end" =>
        /\ dataLines = DataOf(body, Len(body))
        /\ IsNamed(body, Len(body), eventName)
        /\ completed <=> ClosedCompletes(body)
        /\ failed <=> ClosedFails(body)

Course ==
    /\ pc \in {"stream", "json", "junk"} => pc = answer.format /\ ~late
    /\ late => cancelled \/ pc = "end"
    /\ outcome # "none" => pc = "end"

Inv == TypeOK /\ Gathered /\ Course /\ SuccessIsCompleted /\ CompletionSucceeds
       /\ LateAnswersAreRefused

-----------------------------------------------------------------------------
(* A line more does not change what was written before it.                 *)

LEMMA AppendLine ==
    ASSUME NEW b \in Seq(Line), NEW l \in Line
    PROVE  /\ Append(b, l) \in Seq(Line)
           /\ Len(b) \in Nat
           /\ Len(Append(b, l)) = Len(b) + 1
           /\ Append(b, l)[Len(b) + 1] = l
           /\ \A k \in 1..Len(b) : Append(b, l)[k] = b[k]
  OBVIOUS

LEMMA BlocksStay ==
    ASSUME NEW b \in Seq(Line), NEW l \in Line, NEW n \in 0..Len(b)
    PROVE  /\ Block(Append(b, l), n) = Block(b, n)
           /\ DataOf(Append(b, l), n) = DataOf(b, n)
           /\ \A name : IsNamed(Append(b, l), n, name) <=> IsNamed(b, n, name)
<1>1. /\ Len(b) \in Nat
      /\ \A k \in 1..n : Append(b, l)[k] = b[k]
  BY AppendLine
<1>2. Block(Append(b, l), n) = Block(b, n)
  BY <1>1 DEF Block
<1>3. \A k \in Block(b, n) : k \in 1..n
  BY DEF Block
<1>4. DataOf(Append(b, l), n) = DataOf(b, n)
  BY <1>1, <1>2, <1>3 DEF DataOf
<1>5. {k \in Block(Append(b, l), n) : Append(b, l)[k].kind = "event"}
      = {k \in Block(b, n) : b[k].kind = "event"}
  BY <1>1, <1>2, <1>3
<1>6. \A name : IsNamed(Append(b, l), n, name) <=> IsNamed(b, n, name)
  BY <1>1, <1>3, <1>5 DEF IsNamed
<1> QED
  BY <1>2, <1>4, <1>6

LEMMA MeaningStays ==
    ASSUME NEW b \in Seq(Line), NEW l \in Line, NEW D \in SUBSET (1..Len(b)), NEW name
    PROVE  /\ Completes(Append(b, l), D, name) <=> Completes(b, D, name)
           /\ Fails(Append(b, l), D, name) <=> Fails(b, D, name)
<1>1. \A k \in D : Append(b, l)[k] = b[k]
  BY AppendLine
<1>2. Written(Append(b, l), D) = Written(b, D)
  BY <1>1 DEF Written
<1>3. IsDone(Append(b, l), D) <=> IsDone(b, D)
  BY <1>1, <1>2 DEF IsDone
<1>4. \A o \in Object : Decodes(Append(b, l), D, o) <=> Decodes(b, D, o)
  BY <1>1, <1>2 DEF Decodes
<1> QED
  BY <1>3, <1>4 DEF Completes, Fails

LEMMA DataInBody ==
    ASSUME NEW b \in Seq(Line), NEW n \in 0..Len(b)
    PROVE  DataOf(b, n) \in SUBSET (1..Len(b))
  BY DEF DataOf, Block

(* An event has one name, and no data say nothing.                         *)
LEMMA OneName ==
    ASSUME NEW b \in Seq(Line), NEW n \in 0..Len(b), NEW x, NEW y,
           IsNamed(b, n, x), IsNamed(b, n, y)
    PROVE  x = y
<1>1. Block(b, n) \subseteq Nat
  BY DEF Block
<1> QED
  BY <1>1 DEF IsNamed

LEMMA NoDataSaysNothing ==
    ASSUME NEW b, NEW name
    PROVE  ~Completes(b, {}, name) /\ ~Fails(b, {}, name)
  BY DEF Completes, Fails, Decodes

(* How the last block grows with a line.                                   *)
LEMMA LastBlock ==
    ASSUME NEW b \in Seq(Line), NEW l \in Line
    PROVE  Block(Append(b, l), Len(b) + 1)
           = IF l.kind = "blank" THEN {} ELSE Block(b, Len(b)) \cup {Len(b) + 1}
<1>1. /\ Len(b) \in Nat
      /\ Append(b, l)[Len(b) + 1] = l
      /\ \A k \in 1..Len(b) : Append(b, l)[k] = b[k]
  BY AppendLine
<1>2. CASE l.kind = "blank"
  BY <1>1, <1>2 DEF Block
<1>3. CASE l.kind # "blank"
  <2>1. ASSUME NEW k \in 1..(Len(b) + 1)
        PROVE  k \in Block(Append(b, l), Len(b) + 1)
               <=> k \in Block(b, Len(b)) \cup {Len(b) + 1}
    BY <1>1, <1>3 DEF Block
  <2> QED
    BY <2>1, <1>1, <1>3 DEF Block
<1> QED
  BY <1>2, <1>3

-----------------------------------------------------------------------------
(* The events a line ends.                                                 *)

LEMMA ClosedGrows ==
    ASSUME NEW b \in Seq(Line), NEW l \in Line, NEW name \in Name,
           IsNamed(b, Len(b), name)
    PROVE  /\ ClosedCompletes(Append(b, l)) <=>
                 \/ ClosedCompletes(b)
                 \/ l.kind = "blank" /\ Completes(b, DataOf(b, Len(b)), name)
           /\ ClosedFails(Append(b, l)) <=>
                 \/ ClosedFails(b)
                 \/ l.kind = "blank" /\ Fails(b, DataOf(b, Len(b)), name)
<1> DEFINE c == Append(b, l)
           L == Len(b)
<1>1. /\ L \in Nat /\ Len(c) = L + 1 /\ c[L + 1] = l
      /\ \A k \in 1..L : c[k] = b[k]
  BY AppendLine
<1>2. \A n \in 1..Len(c) : Closed(c, n) <=>
          \/ n \in 1..L /\ Closed(b, n)
          \/ n = L /\ l.kind = "blank"
  BY <1>1 DEF Closed
<1>3. ASSUME NEW n \in 0..L
      PROVE  /\ DataOf(c, n) = DataOf(b, n)
             /\ DataOf(b, n) \in SUBSET (1..L)
             /\ \A x : IsNamed(c, n, x) <=> IsNamed(b, n, x)
  BY BlocksStay, DataInBody
<1>4. ASSUME NEW n \in 0..L, NEW x
      PROVE  /\ Completes(c, DataOf(c, n), x) <=> Completes(b, DataOf(b, n), x)
             /\ Fails(c, DataOf(c, n), x) <=> Fails(b, DataOf(b, n), x)
  BY <1>3, MeaningStays
<1>5. DataOf(b, 0) = {}
  BY DEF DataOf, Block
<1>6. \A x \in Name : IsNamed(b, L, x) => x = name
  BY <1>1, OneName
<1> HIDE DEF c, L
<1>7. ClosedCompletes(c) <=>
          \/ ClosedCompletes(b)
          \/ l.kind = "blank" /\ Completes(b, DataOf(b, L), name)
  <2>1. ClosedCompletes(b) <=>
            \E n \in 1..L : Closed(b, n) /\
               \E x \in Name : IsNamed(b, n, x) /\ Completes(b, DataOf(b, n), x)
    BY DEF ClosedCompletes, L
  <2>2. ClosedCompletes(b) => ClosedCompletes(c)
    <3>1. SUFFICES ASSUME NEW n \in 1..L, Closed(b, n), NEW x \in Name,
                          IsNamed(b, n, x), Completes(b, DataOf(b, n), x)
                   PROVE  ClosedCompletes(c)
      BY <2>1
    <3>2. n \in 1..Len(c) /\ n \in 0..L /\ Closed(c, n)
      BY <1>1, <1>2, <3>1
    <3>3. IsNamed(c, n, x) /\ Completes(c, DataOf(c, n), x)
      BY <1>3, <1>4, <3>1, <3>2
    <3> QED
      BY <3>2, <3>3 DEF ClosedCompletes
  <2>3. l.kind = "blank" /\ Completes(b, DataOf(b, L), name) => ClosedCompletes(c)
    <3>1. SUFFICES ASSUME l.kind = "blank", Completes(b, DataOf(b, L), name)
                   PROVE  ClosedCompletes(c)
      OBVIOUS
    <3>2. L # 0
      BY <1>5, <3>1, NoDataSaysNothing
    <3>3. L \in 1..Len(c) /\ L \in 0..L /\ Closed(c, L)
      BY <1>1, <1>2, <3>1, <3>2
    <3>4. IsNamed(c, L, name) /\ Completes(c, DataOf(c, L), name)
      BY <1>3, <1>4, <3>1, <3>3 DEF L
    <3> QED
      BY <3>3, <3>4 DEF ClosedCompletes
  <2>4. ASSUME ClosedCompletes(c)
        PROVE  \/ ClosedCompletes(b)
               \/ l.kind = "blank" /\ Completes(b, DataOf(b, L), name)
    <3>1. PICK n \in 1..Len(c), x \in Name :
              Closed(c, n) /\ IsNamed(c, n, x) /\ Completes(c, DataOf(c, n), x)
      BY <2>4 DEF ClosedCompletes
    <3>2. n \in 0..L
      BY <1>1, <1>2, <3>1
    <3>3. IsNamed(b, n, x) /\ Completes(b, DataOf(b, n), x)
      BY <1>3, <1>4, <3>1, <3>2
    <3> QED
      BY <1>2, <1>6, <2>1, <3>1, <3>3
  <2> QED
    BY <2>2, <2>3, <2>4
<1>8. ClosedFails(c) <=>
          \/ ClosedFails(b)
          \/ l.kind = "blank" /\ Fails(b, DataOf(b, L), name)
  <2>1. ClosedFails(b) <=>
            \E n \in 1..L : Closed(b, n) /\
               \E x \in Name : IsNamed(b, n, x) /\ Fails(b, DataOf(b, n), x)
    BY DEF ClosedFails, L
  <2>2. ClosedFails(b) => ClosedFails(c)
    <3>1. SUFFICES ASSUME NEW n \in 1..L, Closed(b, n), NEW x \in Name,
                          IsNamed(b, n, x), Fails(b, DataOf(b, n), x)
                   PROVE  ClosedFails(c)
      BY <2>1
    <3>2. n \in 1..Len(c) /\ n \in 0..L /\ Closed(c, n)
      BY <1>1, <1>2, <3>1
    <3>3. IsNamed(c, n, x) /\ Fails(c, DataOf(c, n), x)
      BY <1>3, <1>4, <3>1, <3>2
    <3> QED
      BY <3>2, <3>3 DEF ClosedFails
  <2>3. l.kind = "blank" /\ Fails(b, DataOf(b, L), name) => ClosedFails(c)
    <3>1. SUFFICES ASSUME l.kind = "blank", Fails(b, DataOf(b, L), name)
                   PROVE  ClosedFails(c)
      OBVIOUS
    <3>2. L # 0
      BY <1>5, <3>1, NoDataSaysNothing
    <3>3. L \in 1..Len(c) /\ L \in 0..L /\ Closed(c, L)
      BY <1>1, <1>2, <3>1, <3>2
    <3>4. IsNamed(c, L, name) /\ Fails(c, DataOf(c, L), name)
      BY <1>3, <1>4, <3>1, <3>3 DEF L
    <3> QED
      BY <3>3, <3>4 DEF ClosedFails
  <2>4. ASSUME ClosedFails(c)
        PROVE  \/ ClosedFails(b)
               \/ l.kind = "blank" /\ Fails(b, DataOf(b, L), name)
    <3>1. PICK n \in 1..Len(c), x \in Name :
              Closed(c, n) /\ IsNamed(c, n, x) /\ Fails(c, DataOf(c, n), x)
      BY <2>4 DEF ClosedFails
    <3>2. n \in 0..L
      BY <1>1, <1>2, <3>1
    <3>3. IsNamed(b, n, x) /\ Fails(b, DataOf(b, n), x)
      BY <1>3, <1>4, <3>1, <3>2
    <3> QED
      BY <1>2, <1>6, <2>1, <3>1, <3>3
  <2> QED
    BY <2>2, <2>3, <2>4
<1> QED
  BY <1>7, <1>8 DEF c, L

(* The whole body: its ended events and the one at its end.                *)
LEMMA WholeBody ==
    ASSUME NEW b \in Seq(Line), NEW name \in Name, IsNamed(b, Len(b), name)
    PROVE  /\ SomeCompletes(b) <=>
                 ClosedCompletes(b) \/ Completes(b, DataOf(b, Len(b)), name)
           /\ SomeFails(b) <=>
                 ClosedFails(b) \/ Fails(b, DataOf(b, Len(b)), name)
<1>1. Len(b) \in Nat
  OBVIOUS
<1>2. \A n \in 1..Len(b) : Ended(b, n) <=> Closed(b, n) \/ n = Len(b)
  BY <1>1 DEF Ended, Closed
<1>3. DataOf(b, 0) = {}
  BY DEF DataOf, Block
<1>4. \A x \in Name : IsNamed(b, Len(b), x) => x = name
  BY <1>1, OneName
<1>5. Completes(b, DataOf(b, Len(b)), name) => Len(b) \in 1..Len(b)
  BY <1>1, <1>3, NoDataSaysNothing
<1>6. Fails(b, DataOf(b, Len(b)), name) => Len(b) \in 1..Len(b)
  BY <1>1, <1>3, NoDataSaysNothing
<1>7. SomeCompletes(b) <=>
          ClosedCompletes(b) \/ Completes(b, DataOf(b, Len(b)), name)
  BY <1>2, <1>4, <1>5 DEF SomeCompletes, ClosedCompletes
<1>8. SomeFails(b) <=> ClosedFails(b) \/ Fails(b, DataOf(b, Len(b)), name)
  BY <1>2, <1>4, <1>6 DEF SomeFails, ClosedFails
<1> QED
  BY <1>7, <1>8

-----------------------------------------------------------------------------
(* The invariant *)

LEMMA InitInv == Init => Inv
<1> SUFFICES ASSUME Init PROVE Inv
  OBVIOUS
<1>1. TypeOK
  <2>1. body = <<>> /\ body \in Seq(Line) /\ dataLines = {} /\ eventName \in Name
    BY DEF Init, Name
  <2> QED
    BY <2>1 DEF Init, TypeOK
<1>2. Gathered
  <2>1. dataLines = DataOf(body, Len(body)) /\ IsNamed(body, Len(body), eventName)
    BY DEF Init, DataOf, IsNamed, Block
  <2>2. ~ClosedCompletes(body) /\ ~ClosedFails(body)
    BY DEF Init, ClosedCompletes, ClosedFails
  <2> QED
    BY <2>1, <2>2 DEF Init, Gathered
<1>3. Course /\ SuccessIsCompleted /\ CompletionSucceeds /\ LateAnswersAreRefused
  BY DEF Init, Course, SuccessIsCompleted, CompletionSucceeds, LateAnswersAreRefused
<1> QED
  BY <1>1, <1>2, <1>3 DEF Inv

(* What the reader sees in the whole body at its end.                      *)
LEMMA Summary ==
    ASSUME TypeOK, Gathered, pc = "stream"
    PROVE  /\ completed \/ Completes(body, dataLines, eventName) <=> SomeCompletes(body)
           /\ failed \/ Fails(body, dataLines, eventName) <=> SomeFails(body)
  BY WholeBody DEF TypeOK, Gathered

(* The steps that leave the reader alone.                                  *)
LEMMA Unread ==
    ASSUME Inv, UNCHANGED reader, pc' # "end" => pc # "end"
    PROVE  Gathered'
  BY DEF Inv, Gathered, reader

LEMMA RequestInv ==
    ASSUME Inv, Cancel \/ Refuse \/ Send \/ HostReturns \/ Accept \/ parseCodexJSON
    PROVE  Inv'
<1>1. CASE Cancel
  <2>1. TypeOK'
    BY <1>1 DEF Inv, TypeOK, Cancel, reader
  <2>2. Gathered'
    BY <1>1, Unread DEF Cancel, reader
  <2> QED
    BY <1>1, <2>1, <2>2 DEF Inv, Course, Cancel, reader, SuccessIsCompleted,
                            CompletionSucceeds, LateAnswersAreRefused
<1>2. CASE Refuse
  <2>1. TypeOK'
    BY <1>2 DEF Inv, TypeOK, Refuse, End, reader
  <2>2. Gathered'
    BY <1>2, Unread DEF Refuse, End, reader
  <2> QED
    BY <1>2, <2>1, <2>2 DEF Inv, Course, Refuse, End, reader, SuccessIsCompleted,
                            CompletionSucceeds, LateAnswersAreRefused
<1>3. CASE Send
  <2>1. TypeOK'
    BY <1>3 DEF Inv, TypeOK, Send, reader
  <2>2. Gathered'
    BY <1>3, Unread DEF Send, reader
  <2> QED
    BY <1>3, <2>1, <2>2 DEF Inv, Course, Send, reader, SuccessIsCompleted,
                            CompletionSucceeds, LateAnswersAreRefused
<1>4. CASE HostReturns
  <2>1. TypeOK'
    BY <1>4 DEF Inv, TypeOK, HostReturns, End, reader
  <2>2. Gathered'
    BY <1>4, Unread DEF HostReturns, End, reader
  <2> QED
    BY <1>4, <2>1, <2>2 DEF Inv, TypeOK, Course, HostReturns, End, reader,
           SuccessIsCompleted, CompletionSucceeds, LateAnswersAreRefused
<1>5. CASE Accept
  <2>1. answer.format \in {"stream", "json", "junk"}
    BY StreamAssumption DEF Inv, TypeOK, AnswerForm
  <2>2. TypeOK'
    BY <1>5, <2>1 DEF Inv, TypeOK, Accept, End, reader
  <2>3. Gathered'
    BY <1>5, Unread DEF Accept, End, reader
  <2> QED
    BY <1>5, <2>1, <2>2, <2>3 DEF Inv, Course, Accept, InTime, End, reader,
           SuccessIsCompleted, CompletionSucceeds, LateAnswersAreRefused
<1>6. CASE parseCodexJSON
  <2>1. TypeOK'
    BY <1>6 DEF Inv, TypeOK, parseCodexJSON, End, reader
  <2>2. Gathered'
    BY <1>6, Unread DEF parseCodexJSON, End, reader
  <2> QED
    BY <1>6, <2>1, <2>2 DEF Inv, Course, parseCodexJSON, End, reader,
           SuccessIsCompleted, CompletionSucceeds, LateAnswersAreRefused
<1> QED
  BY <1>1, <1>2, <1>3, <1>4, <1>5, <1>6

(* A line more: the data and the name of the last event, and what the event  *)
(* says that the line ends.                                                *)
LEMMA ReadLineGathers ==
    ASSUME TypeOK, Gathered, NEW l \in Line, ReadLine(l)
    PROVE  Gathered'
<1> DEFINE L == Len(body)
<1>1. /\ body \in Seq(Line) /\ L \in Nat /\ eventName \in Name
      /\ body' = Append(body, l) /\ Len(body') = L + 1 /\ body'[L + 1] = l
      /\ \A k \in 1..L : body'[k] = body[k]
  BY AppendLine DEF TypeOK, ReadLine
<1>2. /\ dataLines = DataOf(body, L) /\ IsNamed(body, L, eventName)
      /\ completed <=> ClosedCompletes(body)
      /\ failed <=> ClosedFails(body)
  BY DEF Gathered, ReadLine
<1>3. /\ ClosedCompletes(body') <=>
            completed \/ (l.kind = "blank" /\ Completes(body, dataLines, eventName))
      /\ ClosedFails(body') <=>
            failed \/ (l.kind = "blank" /\ Fails(body, dataLines, eventName))
  BY <1>1, <1>2, ClosedGrows
<1>4. Block(body', L + 1)
      = IF l.kind = "blank" THEN {} ELSE Block(body, L) \cup {L + 1}
  BY <1>1, LastBlock
<1>5. \A k \in Block(body, L) : k \in 1..L
  BY <1>1 DEF Block
<1>6. CASE l.kind = "blank"
  <2>1. dataLines' = {} /\ eventName' = NoName
    BY <1>6 DEF ReadLine, process
  <2>2. DataOf(body', L + 1) = {} /\ IsNamed(body', L + 1, NoName)
    BY <1>4, <1>6 DEF DataOf, IsNamed
  <2>3. /\ completed' = (completed \/ Completes(body, dataLines, eventName))
        /\ failed' = (failed \/ Fails(body, dataLines, eventName))
    BY <1>6 DEF ReadLine, process
  <2> QED
    BY <1>1, <1>3, <1>6, <2>1, <2>2, <2>3 DEF Gathered
<1>7. CASE l.kind # "blank"
  <2>1. /\ eventName' = IF l.kind = "event" THEN l.name ELSE eventName
        /\ dataLines' = Collected(l)
        /\ UNCHANGED <<completed, failed>>
    BY <1>7 DEF ReadLine
  <2>2. dataLines' = DataOf(body', L + 1)
    BY <1>1, <1>2, <1>4, <1>5, <1>7, <2>1 DEF Collected, DataOf
  <2>3. {k \in Block(body', L + 1) : body'[k].kind = "event"}
        = {k \in Block(body, L) : body[k].kind = "event"}
          \cup (IF l.kind = "event" THEN {L + 1} ELSE {})
    BY <1>1, <1>4, <1>5, <1>7
  <2>4. IsNamed(body', L + 1, eventName')
    <3>1. CASE l.kind = "event"
      <4>1. \A m \in {k \in Block(body', L + 1) : body'[k].kind = "event"} : m <= L + 1
        <5>1. \A m \in Block(body, L) \cup {L + 1} : m <= L + 1
          BY <1>1, <1>5
        <5> HIDE DEF L
        <5> QED
          BY <2>3, <5>1
      <4>2. L + 1 \in {k \in Block(body', L + 1) : body'[k].kind = "event"}
        BY <2>3, <3>1
      <4> QED
        BY <1>1, <2>1, <3>1, <4>1, <4>2 DEF IsNamed
    <3>2. CASE l.kind # "event"
      <4>1. {k \in Block(body', L + 1) : body'[k].kind = "event"}
            = {k \in Block(body, L) : body[k].kind = "event"}
        BY <2>3, <3>2
      <4>2. eventName' = eventName
        BY <2>1, <3>2
      <4>3. \A k \in Block(body, L) : body'[k] = body[k]
        BY <1>1, <1>5
      <4> QED
        BY <1>2, <4>1, <4>2, <4>3 DEF IsNamed
    <3> QED
      BY <3>1, <3>2
  <2> QED
    BY <1>1, <1>3, <1>7, <2>1, <2>2, <2>4 DEF Gathered
<1> QED
  BY <1>6, <1>7

LEMMA ReadLineTypes ==
    ASSUME TypeOK, NEW l \in Line, ReadLine(l)
    PROVE  TypeOK'
<1>1. /\ body' \in Seq(Line) /\ Len(body) \in Nat /\ Len(body') = Len(body) + 1
      /\ body'[Len(body) + 1] = l
      /\ \A k \in 1..Len(body) : body'[k] = body[k]
  BY AppendLine DEF TypeOK, ReadLine
<1>2. l.name \in Name
  <2>1. Blank.name \in Name /\ Ignored.name \in Name
    BY DEF Blank, Ignored, Name
  <2>2. \A name \in Name : Event(name).name = name
    BY DEF Event, Blank
  <2>3. \A form, o : Data(form, o).name \in Name
    BY DEF Data, Blank, Name
  <2> QED
    BY <2>1, <2>2, <2>3 DEF Line
<1>3. dataLines' \subseteq {k \in 1..Len(body') : body'[k].kind = "data"}
  <2>1. CASE l.kind = "blank"
    BY <2>1 DEF ReadLine, process
  <2>2. CASE l.kind # "blank"
    <3>1. dataLines' = IF l.kind = "data" THEN dataLines \cup {Len(body) + 1}
                                          ELSE dataLines
      BY <2>2 DEF ReadLine, Collected
    <3>2. dataLines \subseteq {k \in 1..Len(body) : body[k].kind = "data"}
      BY DEF TypeOK
    <3>3. ASSUME NEW k \in dataLines PROVE k \in 1..Len(body') /\ body'[k].kind = "data"
      BY <1>1, <3>2, <3>3
    <3>4. CASE l.kind = "data"
      <4>1. Len(body) + 1 \in 1..Len(body') /\ body'[Len(body) + 1].kind = "data"
        BY <1>1, <3>4
      <4> QED
        BY <3>1, <3>3, <3>4, <4>1
    <3>5. CASE l.kind # "data"
      BY <3>1, <3>3, <3>5
    <3> QED
      BY <3>4, <3>5
  <2> QED
    BY <2>1, <2>2
<1>4. eventName' \in Name
  BY <1>2 DEF TypeOK, ReadLine, process, Name
<1>5. completed' \in BOOLEAN /\ failed' \in BOOLEAN
  BY DEF TypeOK, ReadLine, process
<1> QED
  BY <1>1, <1>3, <1>4, <1>5 DEF TypeOK, ReadLine

(* The end of a stream.                                                    *)
LEMMA EndTypes ==
    ASSUME TypeOK, process(body), UNCHANGED <<cancelled, late, body, answer>>,
           pc' = "end", outcome' \in {"truncated", "success", "invalid"}
    PROVE  TypeOK'
  BY DEF TypeOK, process, Name

LEMMA StreamInv ==
    ASSUME Inv, (\E l \in Line : ReadLine(l)) \/ LineTooLong \/ EndOfBody
    PROVE  Inv'
<1>1. ASSUME NEW l \in Line, ReadLine(l) PROVE Inv'
  <2>1. TypeOK' /\ Gathered'
    BY <1>1, ReadLineTypes, ReadLineGathers DEF Inv
  <2> QED
    BY <1>1, <2>1 DEF Inv, Course, ReadLine, SuccessIsCompleted,
                      CompletionSucceeds, LateAnswersAreRefused
<1>2. CASE LineTooLong
  <2>1. TypeOK'
    BY <1>2, EndTypes DEF Inv, LineTooLong, End
  <2> QED
    BY <1>2, <2>1 DEF Inv, Gathered, Course, LineTooLong, End, SuccessIsCompleted,
                      CompletionSucceeds, LateAnswersAreRefused
<1>3. CASE EndOfBody
  <2>1. TypeOK'
    BY <1>3, EndTypes DEF Inv, EndOfBody, End
  <2>2. pc = "stream" /\ pc' = "end" /\ answer.format = "stream" /\ ~late
    BY <1>3 DEF Inv, Course, EndOfBody, End
  <2>3. /\ completed' <=> SomeCompletes(body)
        /\ failed' <=> SomeFails(body)
    BY <1>3, <2>2, Summary DEF Inv, EndOfBody, process
  <2>4. /\ UNCHANGED <<late, body, answer>>
        /\ outcome' = IF SomeCompletes(body) /\ ~SomeFails(body)
                      THEN "success" ELSE "invalid"
    BY <1>3, <2>3 DEF EndOfBody, End
  <2>5. SuccessIsCompleted' /\ CompletionSucceeds' /\ LateAnswersAreRefused'
    BY <2>2, <2>4 DEF SuccessIsCompleted, CompletionSucceeds, LateAnswersAreRefused
  <2>6. Gathered' /\ Course'
    BY <2>2, <2>4 DEF Gathered, Course
  <2> QED
    BY <2>1, <2>5, <2>6 DEF Inv
<1> QED
  BY <1>1, <1>2, <1>3

LEMMA StutterInv == ASSUME Inv, UNCHANGED vars PROVE Inv'
<1>1. TypeOK'
  BY DEF Inv, TypeOK, vars
<1>2. Gathered'
  BY Unread DEF vars, reader
<1> QED
  BY <1>1, <1>2 DEF Inv, Course, vars, SuccessIsCompleted, CompletionSucceeds,
                    LateAnswersAreRefused

LEMMA InvHolds == Spec => []Inv
<1>1. Inv /\ [Next]_vars => Inv'
  BY RequestInv, StreamInv, StutterInv DEF Next
<1> QED
  BY InitInv, <1>1, PTL DEF Spec

-----------------------------------------------------------------------------

(* Every reachable state of a request is well typed, and the data that wait  *)
(* for the end of their event are data lines of the body.                  *)
THEOREM StreamTypes == Spec => []TypeOK
  BY InvHolds, PTL DEF Inv

(* For bodies of any length, a stream is accepted only if one of its events  *)
(* completes the turn and none fails it.                                   *)
THEOREM NoFalseSuccess == Spec => []SuccessIsCompleted
  BY InvHolds, PTL DEF Inv

(* For bodies of any length, a stream whose events complete the turn without *)
(* a failure is accepted: with NoFalseSuccess, parseCodexSSE decides exactly *)
(* what the events of the body say.                                        *)
THEOREM NoFalseFailure == Spec => []CompletionSucceeds
  BY InvHolds, PTL DEF Inv

(* No answer that came after the end of its context is a success.          *)
THEOREM LateIsNoSuccess == Spec => []LateAnswersAreRefused
  BY InvHolds, PTL DEF Inv
=============================================================================
