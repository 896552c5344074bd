---------------------------- MODULE MCModelStream ----------------------------
(* Instances of ModelStream for TLC: a text with its usage, and two tool   *)
(* calls whose deltas alternate, from servers with either line end.        *)
EXTENDS ModelStream

Bare == [kind |-> "chunk", choice |-> TRUE, text |-> 0, calls |-> <<>>,
         finish |-> "", used |-> 0]
Text(n) == [Bare EXCEPT !.text = n]
Call(index, name, args) ==
  [Bare EXCEPT !.calls = <<[index |-> index, name |-> name, args |-> args]>>]
Finishes(reason) == [Bare EXCEPT !.finish = reason]
Usage(n) == [Bare EXCEPT !.choice = FALSE, !.used = n]
Comment == [kind |-> "comment"]
Done == [kind |-> "done"]

TextMessage == [content |-> <<3, 6>>, calls |-> <<>>, finish |-> "length", used |-> 9]
TextEvents == <<Text(3), Comment, Text(6), Finishes("length"), Usage(9), Done>>

CallsMessage ==
  [content |-> <<5>>, finish |-> "tool_calls", used |-> 0,
   calls |-> <<[name |-> "read", args |-> <<"{", "p", "}">>], [name |-> "list", args |-> <<>>]>>]
CallsEvents ==
  <<Text(5), Call(1, "read", <<>>), Call(2, "", <<>>), Call(1, "", <<"{", "p">>),
    Call(2, "list", <<>>), Call(1, "", <<"}">>), Finishes("tool_calls")>>

MCStreams ==
  {[message |-> TextMessage, events |-> TextEvents, crlf |-> c] : c \in BOOLEAN} \cup
  {[message |-> CallsMessage, events |-> CallsEvents, crlf |-> c] : c \in BOOLEAN}
=============================================================================
