------------------------------ MODULE MCPostbox -------------------------------
(***************************************************************************)
(* Two cores that make any calls at all, in any order, matched or not.     *)
(***************************************************************************)
EXTENDS Postbox

\* What a run that completed its transfers leaves in memory: answers.
AnswerSeqs == {s \in 0..SyncMax : s % 2 = 0}
AnySeq == 0..SyncMax
===============================================================================
