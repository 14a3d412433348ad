---------------------------- MODULE MediaSource ----------------------------
(***************************************************************************)
(* What the media route promises, with nothing of how: every request gets  *)
(* one reply, and the reply fits that request, whoever else asks for what  *)
(* at the same time.                                                       *)
(***************************************************************************)
CONSTANTS Player, Request, NoRequest, NoReply,
          Fits(_, _)     \* Fits(r, x): x is a proper reply to request r

VARIABLES req,    \* req[p]: the request p is working on
          reply   \* reply[p]: what is written to it

Init == /\ req = [p \in Player |-> NoRequest]
        /\ reply = [p \in Player |-> NoReply]

Ask(p) == /\ req[p] = NoRequest
          /\ \E r \in Request : req' = [req EXCEPT ![p] = r]
          /\ UNCHANGED reply

Answer(p) == /\ req[p] # NoRequest /\ reply[p] = NoReply
             /\ Fits(req[p], reply'[p])
             /\ reply' = [reply EXCEPT ![p] = reply'[p]]
             /\ UNCHANGED req

Return(p) == /\ reply[p] # NoReply
             /\ req' = [req EXCEPT ![p] = NoRequest]
             /\ reply' = [reply EXCEPT ![p] = NoReply]

\* The process restarts and nobody gets an answer.
Restart == /\ req' = [p \in Player |-> NoRequest]
           /\ reply' = [p \in Player |-> NoReply]

Next == (\E p \in Player : Ask(p) \/ Answer(p) \/ Return(p)) \/ Restart

Spec == Init /\ [][Next]_<<req, reply>>
===========================================================================
