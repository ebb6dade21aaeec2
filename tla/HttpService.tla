----------------------------- MODULE HttpService -----------------------------
(***************************************************************************)
(* What stdlib/http/server.cp promises to its clients: every connection it *)
(* takes is read, then refused or answered exactly once, and closed.  An   *)
(* answer is chosen once and does not change while it is being sent.       *)
(*                                                                         *)
(* There are no tasks, routes, locks or handlers here.  HttpServer has     *)
(* them, and is shown to implement this module.                            *)
(***************************************************************************)
CONSTANTS Slots,    \* the places for a connection
          Answers   \* the responses a whole request can get

VARIABLES conn,     \* conn[s]: how far the connection in slot s has come
          answer    \* answer[s]: what its client is being sent

svars == <<conn, answer>>

Refused == "refused"
Nothing == "none"
Stages == {"free", "reading", "pending", "answering"}

SInit ==
    /\ conn = [s \in Slots |-> "free"]
    /\ answer = [s \in Slots |-> Nothing]

Move(s, from, to, a) ==
    /\ conn[s] = from
    /\ conn' = [conn EXCEPT ![s] = to]
    /\ answer' = [answer EXCEPT ![s] = a]

\* A client connects.
Connect(s) == Move(s, "free", "reading", Nothing)
\* Its request has arrived completely.
Complete(s) == Move(s, "reading", "pending", Nothing)
\* Its request is malformed, too large or unsupported.
Refuse(s) == Move(s, "reading", "answering", Refused)
\* The answer to a whole request is settled.
Answer(s) == \E a \in Answers : Move(s, "pending", "answering", a)
\* The answer is on the wire, or one side has given up: no whole request is
\* dropped without an answer.
Close(s) == \/ Move(s, "answering", "free", Nothing)
            \/ Move(s, "reading", "free", Nothing)

\* The program stops the server, whatever its connections are doing.
Shutdown ==
    /\ conn' = [s \in Slots |-> "free"]
    /\ answer' = [s \in Slots |-> Nothing]

SNext ==
    \/ Shutdown
    \/ \E s \in Slots : Connect(s) \/ Complete(s) \/ Refuse(s) \/ Answer(s) \/ Close(s)

SSpec == SInit /\ [][SNext]_svars
==============================================================================
