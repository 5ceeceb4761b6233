------------------------------ MODULE MCExchange ------------------------------
(* Exchange for model checking: two kinds of calls, those that vary in their fields and those that *)
(* vary in their conversation, and answers of at most two pieces.                                  *)
EXTENDS Exchange

CONSTANTS a, b   \* the pieces

MCAnswers == {<< >>, << <<a>> >>, << <<a, b>> >>, << <<a>>, <<b>> >>, << <<a>>, <<a>> >>}

UpTo(n, S) == {T \in SUBSET S : Cardinality(T) <= n}

Call0(entry, llm) == [entry |-> entry, llm |-> llm, named |-> {}, extra |-> {}, odd |-> FALSE, stream |-> "unset",
                      input |-> <<Item("system", 1), Item("user", 2)>>]

Targets == {t \in Entries \X LLMs : t[2] \in ServedBy(t[1])}

\* At most two arguments and two extras, or one of each with a value of a wrong type.
FieldCall ==
  \E t \in Targets, stream \in {"unset", "true", "false"}, odd \in BOOLEAN :
    \E named \in UpTo(2, Takes(t[1])), extra \in UpTo(2, ExtraNames) :
      /\ Cardinality(named) + Cardinality(extra) <= IF odd THEN 2 ELSE 4
      /\ odd => Cardinality(extra) = 1
      /\ call = [Call0(t[1], t[2]) EXCEPT !.named = named, !.extra = extra, !.odd = odd, !.stream = stream]
      /\ IsCall(call)

\* At most three messages, one of them without a text.
InputCall ==
  \E t \in Targets, n \in 0..3, named \in {{}, {"instructions"}} :
    \E roles \in [1..n -> Roles], blank \in 0..n :
      call = [Call0(t[1], t[2]) EXCEPT !.named = {"model"} \cup (named \cap Takes(t[1])),
                !.input = [i \in 1..n |-> Item(roles[i], IF i = blank THEN 0 ELSE i)]]

MCInit == Asking /\ (FieldCall \/ InputCall)

MCSpec == MCInit /\ [][Next]_vars
==============================================================================
