----------------------------- MODULE MCDispatch -----------------------------
(* Dispatch with two concurrent requests over three models.                  *)
EXTENDS Dispatch

CONSTANTS big, mid, small, r1, r2

MCModels == {big, mid, small}
MCPlans == {[primary |-> big, fallbacks |-> <<mid, small>>],
            [primary |-> mid, fallbacks |-> <<big>>]}
ShortPlan == {[primary |-> big, fallbacks |-> <<small>>]}
MCRequests == {r1, r2}
=============================================================================
