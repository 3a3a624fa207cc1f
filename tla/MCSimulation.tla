----------------------------- MODULE MCSimulation -----------------------------
EXTENDS Simulation

Item(lead, path, arg, payload, sep) ==
  [lead |-> lead, path |-> path, arg |-> arg, payload |-> payload, sep |-> sep]

Text(lead, path, arg, sep) == Item(lead, path, arg, <<>>, sep)

Block(path, payload, sep) == Item("", path, "block", payload, sep)

\* Ten bytes, so that the length takes two digits.
Long == <<"dq", "#", ";", "nl", "1", " ", "x", "x", "x", "x">>

MCCharacters ==
  {Digit[v] : v \in 1..10} \cup
  {":", "*", ";", "#", "?", " ", "dq", "nl", "H", "Q", "R", "x", "A", "B", "C", "D"}

MCMessages ==
  { <<Text("", <<"A", "B">>, "string", ";"), Text("", <<"C">>, "none", "nl")>>,
    <<Text("", <<"A", "B">>, "none", ";"), Text(":", <<"C">>, "none", "nl")>>,
    <<Text("*", <<"C">>, "none", ";"), Text("", <<"A", "B">>, "hex", "nl")>>,
    <<Text("", <<"A", "B">>, "none", ";"), Block(<<"D">>, <<";">>, ";")>>,
    <<Block(<<"A", "D">>, Long, ";"), Text("", <<"C">>, "none", "nl")>>,
    <<Block(<<"D">>, <<"nl", "dq">>, "nl"), Block(<<"D">>, <<"#">>, "nl")>>,
    <<Text("", <<"A">>, "none", ";"), Text("", <<"D">>, "cut", "nl")>> }

Reply(size, ended, delay, raises, disconnect) ==
  [NoReply EXCEPT !.size = size, !.ended = ended, !.delay = delay, !.raises = raises,
                  !.disconnect = disconnect]

Normal == Reply(2, TRUE, 0, FALSE, FALSE)
Unended == Reply(3, FALSE, 0, FALSE, FALSE)
Delayed == Reply(2, TRUE, 1, FALSE, FALSE)
TooLate == Reply(1, TRUE, 2, FALSE, FALSE)
Raising == Reply(1, FALSE, 0, TRUE, FALSE)
RaisingLost == Reply(1, TRUE, 0, TRUE, TRUE)
Lost == Reply(1, TRUE, 0, FALSE, TRUE)
DelayedLost == Reply(1, TRUE, 1, FALSE, TRUE)
RaisingTooLate == Reply(1, TRUE, 2, TRUE, FALSE)

MCReplies == {Normal, Unended, Delayed, TooLate, Raising, RaisingLost, RaisingTooLate, Lost}

R(reply) == Rule("reply", reply)
ErrorQuery == Rule("error query", Normal)
HandlerRaises == Rule("raises", NoReply)

MCScripts ==
  {<<rule>> : rule \in {R(reply) : reply \in MCReplies} \cup QuietRules \cup {ErrorQuery}}
  \cup { <<R(Normal), R(Delayed)>>, <<R(Delayed), R(TooLate)>>, <<R(TooLate), R(Normal)>>,
         <<R(Delayed), R(Lost)>>, <<R(Normal), R(DelayedLost)>>, <<R(Lost), R(Normal)>>, <<R(Lost), R(RaisingLost)>>,
         <<R(Raising), HandlerRaises>>, <<R(Normal), HandlerRaises>>, <<ErrorQuery, R(Raising)>> }

MCRequests ==
  { [mode |-> "message", size |-> 2], [mode |-> "available", size |-> 2],
    [mode |-> "exact", size |-> 2], [mode |-> "upto", size |-> 1],
    [mode |-> "line", size |-> 2] }
===============================================================================
