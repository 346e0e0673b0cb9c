----------------------------- MODULE MCBudgets -----------------------------
(* Instances of Budgets for TLC. *)
EXTENDS Budgets

\* Each limit absent, tight and loose, in most pairs of combinations; a sleep
\* limit below a microsecond and one that is no whole number of them; a cap
\* that is unlimited, zero, no whole number of microseconds, or refused.
MCOptions ==
  {[suspensions |-> o[1], sleep |-> o[2], duration |-> o[3], mode |-> o[4], max |-> o[5]] :
     o \in {<<0, 0, 0, "system", <<>>>>, <<1, 5, 0, "system", <<3>>>>,
            <<0, 5, 1, "system", <<UnlimitedSleep>>>>, <<1, 0, 2, "call_host", <<>>>>,
            <<2, 1, 2, "system", <<>>>>, <<0, 1, 0, "system", <<0>>>>,
            <<0, 0, 0, "zero", <<4>>>>}}
=============================================================================
