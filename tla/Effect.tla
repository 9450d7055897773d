------------------------------- MODULE Effect -------------------------------
(***************************************************************************)
(* What a command promises of the one thing it does to the world outside - *)
(* a transaction, an approval, a payment: it asks for it at most once, and *)
(* never after it has answered; it answers once, and what the answer says  *)
(* is true when it is given.                                               *)
(***************************************************************************)
VARIABLES
    effect,  \* what becomes of it at the other side
    answer   \* what the command has said of it

vars == <<effect, answer>>

\* asked: on its way; taken: the other side will act; refused: it never will.
Effects == {"none", "asked", "taken", "refused", "ok", "failed"}
\* none: there was no effect and none will come; unknown: there may be one.
Answers == {"none", "unknown", "submitted", "confirmed", "failed"}

\* What an answer says of the effect.
Allows(a) ==
    CASE a = "none" -> {"none", "refused"}
      [] a = "submitted" -> {"taken", "ok", "failed"}
      [] a = "confirmed" -> {"ok"}
      [] a = "failed" -> {"failed"}
      [] a \in {"silent", "unknown"} -> Effects

\* There is nothing yet, or the command only reports on what was asked for before.
Init == effect \in Effects /\ answer = "silent"

\* The command asks, and still owes its answer.
Ask == effect = "none" /\ effect' = "asked" /\ answer' = "silent"

\* The other side learns of it, and acts; a step of its own may do both.
Decide == effect = "asked" /\ effect' \in Effects \ {"none", "asked"}
Execute == effect = "taken" /\ effect' \in {"ok", "failed"}

Say == answer = "silent" /\ answer' \in Answers /\ effect' \in Allows(answer')

Next ==
    /\ Ask \/ Decide \/ Execute \/ UNCHANGED effect
    /\ Say \/ UNCHANGED answer

Spec == Init /\ [][Next]_vars

-----------------------------------------------------------------------------
\* No answer is contradicted later: what was true of the effect when it was
\* said stays true.
Uncontradicted == effect \in Allows(answer)

\* Nothing is asked for behind an answer, and no answer is taken back.
AnswerIsFinal == [][answer # "silent" => answer' = answer /\ (effect = "none" => effect' = "none")]_vars
=============================================================================
