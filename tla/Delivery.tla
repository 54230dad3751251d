------------------------------ MODULE Delivery ------------------------------
(***************************************************************************)
(* What submitting a report promises: at-least-once delivery with a known  *)
(* end.  A report is queued at most once for each time it is sent; rteval  *)
(* only says it was accepted when it is queued; it only gives up after     *)
(* every attempt; and where the server answers, it comes to an end.        *)
(* Submission implements it.                                               *)
(***************************************************************************)
EXTENDS Naturals

CONSTANTS Clients, MaxAttempts

VARIABLES
  hello,   \* whether the server knows the method it is asked for first
  sent,    \* how often each report has been sent
  copies,  \* how often it is in the submission queue
  answer   \* what became of it, for rteval

vars == <<hello, sent, copies, answer>>

Init ==
  /\ hello \in BOOLEAN /\ sent = [c \in Clients |-> 0] /\ copies = [c \in Clients |-> 0]
  /\ answer = [c \in Clients |-> "none"]

Send(c) ==
  /\ answer[c] = "none" /\ sent' = [sent EXCEPT ![c] = @ + 1]
  /\ UNCHANGED <<hello, copies, answer>>

(* Also after rteval has given up. *)
Queue(c) ==
  /\ copies[c] < sent[c] /\ copies' = [copies EXCEPT ![c] = @ + 1]
  /\ UNCHANGED <<hello, sent, answer>>

Answer(c, a) ==
  answer[c] = "none" /\ answer' = [answer EXCEPT ![c] = a] /\ UNCHANGED <<hello, sent, copies>>

Accept(c)      == copies[c] > 0 /\ Answer(c, "accepted")
Refuse(c)      == sent[c] > 0 /\ Answer(c, "error")
GiveUp(c)      == sent[c] >= MaxAttempts /\ Answer(c, "failed")
Unreachable(c) == sent[c] = 0 /\ Answer(c, "not run")

Next == \E c \in Clients :
          Send(c) \/ Queue(c) \/ Accept(c) \/ Refuse(c) \/ GiveUp(c) \/ Unreachable(c)

Safe == Init /\ [][Next]_vars
Ends == hello => <>(\A c \in Clients : answer[c] # "none")
Spec == Safe /\ Ends
=============================================================================
