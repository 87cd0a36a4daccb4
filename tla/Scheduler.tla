------------------------------ MODULE Scheduler ------------------------------
(* The scheduler (core/scheduler.py): once a minute one task reads the reports  *)
(* that are due, delivers each and moves it on, and then does the same with     *)
(* the discovery sweeps, whose delivery is a job for an agent.  The two passes  *)
(* have the same steps, each in a session of its own; this is one of them.      *)
EXTENDS Naturals

CONSTANTS Schedules,
          Period,   \* daily, weekly..., the same for all of them here
          MaxTime   \* bound of the model

ASSUME SchedulerAssumption == Period \in Nat /\ MaxTime \in Nat \ {0}

VARIABLES time,
          nextRun,  \* next_run_at of each schedule, Absent if there is no row
          tick,     \* the pass under way
          last,     \* when each was last delivered, Absent if never (not in the
                    \* code)
          cut      \* delivered, and stopped before it was moved on (not in the
                    \* code)

schedulerVars == <<time, nextRun, tick, last, cut>>

Absent == 0
Times == 1..MaxTime
Asleep == [at |-> "asleep"]
\* left: due schedules not reached yet; spoiled: the session was rolled back,
\* and the rows it had read cannot be read again without a query.
Tick == [at : {"next"}, left : SUBSET Schedules, spoiled : BOOLEAN]
   \cup [at : {"send"}, left : SUBSET Schedules, cur : Schedules]
   \cup [at : {"mark"}, left : SUBSET Schedules, cur : Schedules, sent : BOOLEAN]

SchedulerInit ==
    /\ time = 1 /\ tick = Asleep /\ cut = {}
    /\ nextRun = [s \in Schedules |-> Absent]
    /\ last = [s \in Schedules |-> Absent]

Rows == {s \in Schedules : nextRun[s] # Absent}
Due == {s \in Rows : nextRun[s] <= time}
\* Mutant: the next run is planned from the last plan.
NextRunPlanned(s) == nextRun[s] + Period
NextRun(s) == time + Period

\* Analysts: a new schedule first runs a period later.
CreateSchedule ==
    /\ \E s \in Schedules \ Rows :
         /\ tick.at # "asleep" => s \notin tick.left
         /\ tick.at \in {"send", "mark"} => s # tick.cur
         /\ nextRun' = [nextRun EXCEPT ![s] = time + Period]
         /\ last' = [last EXCEPT ![s] = Absent]
         /\ cut' = cut \ {s}
    /\ UNCHANGED <<time, tick>>
DeleteSchedule ==
    /\ \E s \in Rows : nextRun' = [nextRun EXCEPT ![s] = Absent]
    /\ UNCHANGED <<time, tick, last, cut>>

StartTick ==
    /\ tick = Asleep /\ Due # {}
    /\ tick' = [at |-> "next", left |-> Due, spoiled |-> FALSE]
    /\ UNCHANGED <<time, nextRun, last, cut>>

\* The rows come in no order.
NextSchedule ==
    /\ tick.at = "next" /\ ~tick.spoiled
    /\ \E s \in tick.left : tick' = [at |-> "send", left |-> tick.left \ {s}, cur |-> s]
    /\ UNCHANGED <<time, nextRun, last, cut>>

\* After a rollback each of the others fails at its first attribute, unmarked.
EndTick ==
    /\ tick.at = "next" /\ (tick.spoiled \/ tick.left = {}) /\ tick' = Asleep
    /\ UNCHANGED <<time, nextRun, last, cut>>

Deliver ==
    /\ tick.at = "send"
    /\ tick' = [at |-> "mark", left |-> tick.left, cur |-> tick.cur, sent |-> TRUE]
    /\ last' = [last EXCEPT ![tick.cur] = time]
    /\ UNCHANGED <<time, nextRun, cut>>

\* An error that is not the database's: it is moved on undelivered.
DeliveryFails ==
    /\ tick.at = "send"
    /\ tick' = [at |-> "mark", left |-> tick.left, cur |-> tick.cur, sent |-> FALSE]
    /\ UNCHANGED <<time, nextRun, last, cut>>

\* mark_ran
MarkRan ==
    /\ tick.at = "mark" /\ tick.cur \in Rows
    /\ nextRun' = [nextRun EXCEPT ![tick.cur] = NextRun(tick.cur)]
    /\ cut' = cut \ {tick.cur}
    /\ tick' = [at |-> "next", left |-> tick.left, spoiled |-> FALSE]
    /\ UNCHANGED <<time, last>>

Unmarked == IF tick.at = "mark" /\ tick.sent THEN cut \cup {tick.cur} ELSE cut

\* The row is gone, or the database fails: mark_ran is tried once more in the
\* session that has failed, and the session is rolled back.
SessionFails ==
    /\ tick.at \in {"send", "mark"}
    /\ tick' = [at |-> "next", left |-> tick.left, spoiled |-> TRUE]
    /\ cut' = Unmarked
    /\ UNCHANGED <<time, nextRun, last>>

\* The process stops: nothing of the pass is remembered.
SchedulerRestarts ==
    /\ tick # Asleep /\ tick' = Asleep
    /\ cut' = Unmarked
    /\ UNCHANGED <<time, nextRun, last>>

TimePasses ==
    /\ time < MaxTime /\ time' = time + 1
    /\ UNCHANGED <<nextRun, tick, last, cut>>

SchedulerNext ==
    \/ CreateSchedule \/ DeleteSchedule
    \/ StartTick \/ NextSchedule \/ EndTick
    \/ Deliver \/ DeliveryFails \/ MarkRan \/ SessionFails \/ SchedulerRestarts
    \/ TimePasses

SchedulerSpec == SchedulerInit /\ [][SchedulerNext]_schedulerVars

(******************************** properties ********************************)
\* The pass and the rows are of their kind.
SchedulerTypeOK ==
    /\ time \in Times /\ tick \in {Asleep} \cup Tick /\ cut \subseteq Schedules
    /\ nextRun \in [Schedules -> {Absent} \cup 1..(MaxTime + Period)]
    /\ last \in [Schedules -> {Absent} \cup Times]

\* core/scheduler.py, next_run: however late a pass is, and however many periods
\* were missed, a schedule is not delivered twice within its period, unless the
\* first pass was cut off before it moved the schedule on.
OncePerPeriod ==
    [][\A s \in Schedules :
         tick.at = "send" /\ tick.cur = s /\ tick'.at = "mark" /\ tick'.sent =>
           \/ last[s] = Absent \/ s \in cut
           \/ time >= last[s] + Period]_schedulerVars
=============================================================================
