------------------------------ MODULE LspService ------------------------------
(***************************************************************************)
(* What the language server promises for each request it receives: it is   *)
(* answered at most once, from the documents as they were when it was      *)
(* received, and it is left without an answer only if a cancellation was   *)
(* meant for it or the server has ended.                                   *)
(*                                                                         *)
(* A cancellation names an id.  It is meant for the request received last  *)
(* under that id, if that one is still open, and otherwise for the first   *)
(* request under an id that has not been received at all.                  *)
(*                                                                         *)
(* There are no workers, queue, futures or locks here.  LspRequests has    *)
(* them, and is shown to implement this module.                            *)
(***************************************************************************)
EXTENDS Naturals, Sequences

CONSTANTS Ids,     \* the ids of requests
          Views    \* the states of the documents

VARIABLES view,      \* the documents as the last edit left them
          received,  \* received[i]: id and view of the i-th request
          outcome,   \* outcome[i]: what has become of it
          excused,   \* the open requests that may be left without an answer
          early,     \* ids cancelled before any request had them
          serving    \* whether the server still takes messages

svars == <<view, received, outcome, excused, early, serving>>

Open       == <<"open">>
Dropped    == <<"dropped">>
Refused    == <<"refused">>      \* the queue is full
Failed     == <<"failed">>       \* the work threw an exception
Result(v)  == <<"result", v>>

Last(id) == {i \in 1..Len(received) : /\ received[i].id = id
                                      /\ \A j \in i+1..Len(received) : received[j].id # id}

SInit ==
    /\ view \in Views /\ serving = TRUE
    /\ received = <<>> /\ outcome = <<>>
    /\ excused = {} /\ early = {}

\* A request arrives; some are answered on the spot.
Receive(id, o) ==
    /\ serving
    /\ o \in {Open, Refused, Result(view)}
    /\ received' = Append(received, [id |-> id, view |-> view])
    /\ outcome' = Append(outcome, o)
    /\ \/ excused' = excused
       \/ id \in early /\ o = Open /\ excused' = excused \cup {Len(received) + 1}
    /\ early' = early \ {id}
    /\ UNCHANGED <<view, serving>>

Cancel(id) ==
    /\ serving
    /\ excused' = excused \cup {i \in Last(id) : outcome[i] = Open}
    /\ \E kept \in SUBSET early :     \* early cancellations may be forgotten
          early' = IF Last(id) = {} THEN kept \cup {id} ELSE kept
    /\ UNCHANGED <<view, received, outcome, serving>>

Change(v) == /\ serving /\ view' = v
             /\ UNCHANGED <<received, outcome, excused, early, serving>>

Settle(i, o) ==
    /\ outcome[i] = Open
    /\ \/ o \in {Result(received[i].view), Failed}
       \/ o = Dropped /\ i \in excused
    /\ outcome' = [outcome EXCEPT ![i] = o]
    /\ excused' = excused \ {i}
    /\ UNCHANGED <<view, received, early, serving>>

\* The client shuts the server down, or leaves: what is queued may be dropped,
\* what is running may still be answered.
End ==
    /\ serving /\ serving' = FALSE
    /\ \E lost \in SUBSET {i \in 1..Len(received) : outcome[i] = Open} :
          /\ outcome' = [i \in 1..Len(received) |-> IF i \in lost THEN Dropped ELSE outcome[i]]
          /\ excused' = excused \ lost
    /\ UNCHANGED <<view, received, early>>

SNext ==
    \/ \E id \in Ids, o \in {Open, Refused, Result(view)} : Receive(id, o)
    \/ \E id \in Ids : Cancel(id)
    \/ \E v \in Views : Change(v)
    \/ \E i \in 1..Len(received) :
          \E o \in {Result(received[i].view), Failed, Dropped} : Settle(i, o)
    \/ End

SSpec == SInit /\ [][SNext]_svars
===============================================================================
