-------------------------------- MODULE Crontab --------------------------------
\* When a guarded job runs, and the settings of its guard: the crontab of
\* docs/deployment.md and scripts/cron-guard.
EXTENDS Integers

CONSTANTS
    Period,   \* half-days between two runs: 2, the jobs are daily
    MaxGap,   \* CRON_GUARD_MAX_GAP_HOURS in half-days: 3, for 36 hours
    Horizon,  \* half-days: bounds the model
    NoStamp   \* no readable stamp

ASSUME PeriodAssumption == Period \in Nat \ {0}
ASSUME MaxGapAssumption == MaxGap \in Nat
ASSUME HorizonAssumption == Horizon \in Nat
ASSUME NoStampAssumption == NoStamp \notin Nat

Times  == 0..Horizon
Firing == {t \in Times : t # 0 /\ t % Period = 0}  \* when cron fires a run
================================================================================
