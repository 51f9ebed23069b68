----------------------------- MODULE CpuLedger -----------------------------
(***************************************************************************)
(* What a host promises about CPU, without saying how: a job is charged    *)
(* before it runs, only when the charge fits, and keeps its charge for as  *)
(* long as it runs.  Jailerd implements it across launches, failures,      *)
(* containment and restarts of the daemon.                                 *)
(***************************************************************************)
EXTENDS Naturals, Functions

CONSTANTS Jobs, Cost, Capacity

VARIABLES
    charged,  \* jobs that hold capacity
    running   \* jobs that use it

ledger == <<charged, running>>

Cores(S) == SumFunctionOnSet(Cost, S)

LedgerInit == charged = {} /\ running = {}

Charge(j) ==
    /\ j \notin charged
    /\ charged' = charged \cup {j}
    /\ Cores(charged') <= Capacity
    /\ UNCHANGED running

Run(j) ==
    /\ j \in charged \ running
    /\ running' = running \cup {j}
    /\ UNCHANGED charged

\* Jobs stop, and jobs that do not run give their charge back.
Settle(stopped, refunded) ==
    /\ running' = running \ stopped
    /\ charged' = charged \ refunded
    /\ running' \subseteq charged'

LedgerNext ==
    \/ \E j \in Jobs : Charge(j) \/ Run(j)
    \/ \E stopped \in SUBSET running, refunded \in SUBSET charged : Settle(stopped, refunded)

LedgerSpec == LedgerInit /\ [][LedgerNext]_ledger
============================================================================
