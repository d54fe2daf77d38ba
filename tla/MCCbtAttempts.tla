--------------------------- MODULE MCCbtAttempts ---------------------------
(* Small instances of CbtAttempts: one or two questions, two or three tries; *)
(* and the facts about how an attempt is scored, which exams a student may   *)
(* begin and how questions enter the bank.                                   *)
EXTENDS CbtAttempts, CbtScoring, CbtQuestionBank, CbtEligibility, TLC

ReqSymmetry == Permutations(Req)
=============================================================================
