----------------------------- MODULE ParamStore -----------------------------
(***************************************************************************)
(* What the device promises a host that sends it commands: it serves them  *)
(* one by one in the order they were sent, at least once each, from a      *)
(* table whose measured values only the device's own tasks change.         *)
(*                                                                         *)
(* It serves what has come in rounds; a write without data ends the round  *)
(* and with it, unanswered, what is left of it, but nothing that came      *)
(* after the round began.                                                  *)
(*                                                                         *)
(* It loses track when commands come faster than it serves them (Window)   *)
(* or in two parts.  What it then does is left open, but for the measured  *)
(* values; and it is back in step once it has nothing left to serve.       *)
(***************************************************************************)
EXTENDS Parameters

CONSTANTS Command,   \* records: op, id and data
          Window     \* the bytes of commands the device can keep

VARIABLES store,     \* the table
          todo,      \* the commands sent and not served
          taken,     \* how many of them the round it is in has still to serve
          answer,    \* the last answer given
          turn,      \* flips with every answer
          half,      \* the first part of a command was sent, the rest was not
          lost       \* the device has lost track of the commands

vars == <<store, todo, taken, answer, turn, half, lost>>

Object(id, data) == [kind |-> "object", id |-> id, data |-> data]
Status(ok) == [kind |-> "status", ok |-> ok]
Catalogue == [kind |-> "list", ids |-> Id]

\* How long a command is on the wire.
Length(c) == CASE c.op = "list" -> 1
               [] c.op = "read" -> 3
               [] c.op = "write" -> 4 + Len(c.data)

\* What all the commands in s take on the wire.
Total(s) == LET upto[i \in 0..Len(s)] ==
                  IF i = 0 THEN 0 ELSE upto[i - 1] + Length(s[i])
            IN  upto[Len(s)]

Readable == {id \in Id : "tx" \in Direction[id]}
Writable == {id \in Id : "rx" \in Direction[id]}

Accepted(c) == /\ c.op = "write" /\ c.id \in Writable
               /\ Len(c.data) = Size[c.id]

\* A write without data.
Empty(c) == c.op = "write" /\ c.data = << >>

Answer(c) ==
  CASE c.op = "list" -> Catalogue
    [] c.op = "read" -> IF c.id \in Readable THEN Object(c.id, store[c.id])
                                             ELSE Status(FALSE)
    [] c.op = "write" -> Status(Accepted(c))

-----------------------------------------------------------------------------
Init ==
  /\ store = Wiped
  /\ todo = << >> /\ taken = 0 /\ answer = Catalogue /\ turn = 0
  /\ half = FALSE /\ lost = FALSE

\* One more command, or its second part.  It may come twice.
Send ==
  /\ half' \in BOOLEAN
  /\ \/ half' /\ ~half /\ UNCHANGED todo
     \/ ~half' /\ \E c \in Command : todo' = Append(todo, c)
  /\ UNCHANGED <<store, taken, answer, turn, lost>>

\* A round is over, and the next one begins with the commands there are.
Round ==
  /\ taken = 0 /\ taken' = Len(todo)
  /\ UNCHANGED <<store, todo, answer, turn, half, lost>>

Serve ==
  /\ taken > 0 /\ todo # << >>
  /\ answer' = Answer(Head(todo))
  /\ turn' = 1 - turn
  /\ store' = IF Accepted(Head(todo))
                THEN [store EXCEPT ![Head(todo).id] = Head(todo).data]
                ELSE store
  /\ IF Empty(Head(todo))
       THEN taken' = 0 /\ todo' = SubSeq(todo, taken + 1, Len(todo))
       ELSE taken' = taken - 1 /\ todo' = Tail(todo)
  /\ UNCHANGED <<half, lost>>

\* A task publishes a value it measured.
Refresh ==
  /\ \E id \in Id \ Writable, v \in [1..RawMax -> Byte] : store' = Publish(store, id, v)
  /\ UNCHANGED <<todo, taken, answer, turn, half, lost>>

InStep == ~lost /\ (Send \/ Round \/ Serve \/ Refresh)

Lose ==
  /\ ~lost /\ lost'
  /\ \/ half \/ half'
     \/ \E c \in Command : Total(todo) + Length(c) > Window
  /\ UNCHANGED store

\* Anything but the measured values.
Astray ==
  /\ lost
  /\ \A id \in Id \ Writable : store'[id] = store[id]
  /\ lost' = FALSE => todo' = << >> /\ taken' = 0 /\ half' = FALSE

Next == InStep \/ Lose \/ Astray \/ (lost /\ Refresh)

Spec == Init /\ [][Next]_vars
=============================================================================
