----------------------------- MODULE ObjectMap -----------------------------
(***************************************************************************)
(* What object.create and object.get promise their callers: every id has a *)
(* history of texts, a create adds one text to it, a get answers with the  *)
(* newest, and each of them happens at one moment.                         *)
(***************************************************************************)
EXTENDS Sequences, Naturals

CONSTANTS Workers, Dirs, Inputs, NoText

VARIABLES
  history,     \* history[d]: the texts of object d, oldest first
  answer       \* answer[w]: the get that w answers, if any

NoAnswer == <<>>
Newest(d) == IF history[d] = <<>> THEN NoText ELSE history[d][Len(history[d])]

Init ==
  /\ history = [d \in Dirs |-> <<>>]
  /\ answer = [w \in Workers |-> NoAnswer]

Create(d, text) ==
  /\ history' = [history EXCEPT ![d] = Append(@, text)]
  /\ UNCHANGED answer

Get(w, d) ==
  /\ answer[w] = NoAnswer
  /\ answer' = [answer EXCEPT ![w] = <<d, Newest(d)>>]
  /\ UNCHANGED history

Answered(w) ==
  /\ answer[w] # NoAnswer
  /\ answer' = [answer EXCEPT ![w] = NoAnswer]
  /\ UNCHANGED history

Next ==
  \/ \E d \in Dirs, text \in Inputs : Create(d, text)
  \/ \E w \in Workers : (\E d \in Dirs : Get(w, d)) \/ Answered(w)

Spec == Init /\ [][Next]_<<history, answer>>
============================================================================
