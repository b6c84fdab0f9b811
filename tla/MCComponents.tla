-------------------------------- MODULE MCComponents --------------------------------
(***************************************************************************)
(* The components of MCHouse and MCMind, each on its own.                  *)
(***************************************************************************)
EXTENDS MCHouse, MCMind

Init == HouseInit \/ MindInit
Next == HouseNext \/ MindNext

\* What the components themselves assume of their threads, loops and sockets.
Events(A) == part = "events" /\ A /\ Keep9
Speech(A) == part = "speech" /\ A /\ Keep18
Fairness ==
    /\ \A w \in {1, 2} : WF_vars(Events(Bus!Emit(w)))
    /\ WF_vars(Events(Bus!Deliver)) /\ WF_vars(Events(Bus!Hello))
    /\ WF_vars(Events(Bus!Receive)) /\ WF_vars(Events(Bus!Ping))
    /\ WF_vars(Speech(Voice!Open)) /\ WF_vars(Speech(Voice!Sender))
    /\ WF_vars(Speech(Voice!Listen)) /\ WF_vars(Speech(Voice!Http))

Spec == Init /\ [][Next]_vars /\ Fairness

\* The variables of every component have their types.
TypeOK == HouseTypeOK /\ MindTypeOK
=============================================================================
