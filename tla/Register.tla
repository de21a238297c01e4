-------------------------------- MODULE Register -------------------------------
(* What the data path promises for one key to clients that take turns: a      *)
(* register.  A request takes effect at once and completely, or is answered   *)
(* with an error and has no effect at all.  Which replicas there are, and     *)
(* which of them could be reached, is not to be seen.                         *)
CONSTANTS Ops, Records, NoRec,
          Menu,     \* operation -> the requests it may be
          NoRequest

VARIABLES value,    \* the record
          request,  \* operation -> what was asked
          answer    \* operation -> status and, of a get, the record

vars == <<value, request, answer>>

Answer(status, record) == [status |-> status, record |-> record]
Waiting == Answer("none", NoRec)
Error == Answer("err", NoRec)

Init ==
    /\ value \in Records
    /\ request = [o \in Ops |-> NoRequest]
    /\ answer = [o \in Ops |-> Waiting]

Call(o, q) ==
    /\ request[o] = NoRequest
    /\ request' = [request EXCEPT ![o] = q]
    /\ UNCHANGED <<value, answer>>

\* The entry node does not know the space.
Reject(o, q) ==
    /\ request[o] = NoRequest
    /\ request' = [request EXCEPT ![o] = q]
    /\ answer' = [answer EXCEPT ![o] = Error]
    /\ UNCHANGED value

Pending(o) == request[o] # NoRequest /\ answer[o] = Waiting

\* The record a request leaves behind, and its answer.
After(q) ==
    CASE q.kind = "put" -> q.value
      [] q.kind = "cput" -> IF value = q.expect THEN q.value ELSE value
      [] q.kind = "delete" -> NoRec
      [] q.kind = "get" -> value
AnswerTo(q) ==
    CASE q.kind = "get" -> Answer("ok", value)
      [] q.kind = "cput" /\ value # q.expect -> Answer("condition_failed", NoRec)
      [] OTHER -> Answer("ok", NoRec)

Take(o) ==
    /\ Pending(o)
    /\ value' = After(request[o])
    /\ answer' = [answer EXCEPT ![o] = AnswerTo(request[o])]
    /\ UNCHANGED request

Fail(o) ==
    /\ Pending(o)
    /\ answer' = [answer EXCEPT ![o] = Error]
    /\ UNCHANGED <<value, request>>

Next == \E o \in Ops : Take(o) \/ Fail(o) \/ \E q \in Menu[o] : Call(o, q) \/ Reject(o, q)

Spec == Init /\ [][Next]_vars
===============================================================================
