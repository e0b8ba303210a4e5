---- MODULE ScheduleTimes ----
(***************************************************************************)
(* When a schedule runs (the calculations of schedules.rs).  Instants and  *)
(* local times are counted in the same units; a zone gives the offset of   *)
(* each instant, and its offset may change once, forwards or backwards.    *)
(***************************************************************************)
EXTENDS Integers, FiniteSetsExt

CONSTANT Day       \* units of a local day

ASSUME TimesAssumption == Day \in Nat \ {0}

Never == -1    \* no instant: schedule_unresolvable, or a schedule that is off
Local(zone, instant) == instant + (IF instant < zone.change THEN zone.before ELSE zone.later)
DateOf(zone, instant) == Local(zone, instant) \div Day

\* A change is of a day at most.
IsZone(zone) ==
    /\ zone.change \in Int /\ zone.before \in Int /\ zone.later \in Int
    /\ zone.before - zone.later <= Day /\ zone.later - zone.before <= Day

\* local_instant: a repeated local time is its first instant, a missing one is none.
Instants(zone, date, time) ==
    LET local == date * Day + time
    IN  {t \in {local - zone.before, local - zone.later} : Local(zone, t) = local}
LocalInstant(zone, date, time) ==
    IF Instants(zone, date, time) = {} THEN Never ELSE Min(Instants(zone, date, time))

\* The first of four days on which the time has an instant that is good enough.
FirstDay(zone, date, time, Good(_)) ==
    LET days == {d \in 0..3 : LET t == LocalInstant(zone, date + d, time) IN t # Never /\ Good(t)}
    IN  IF days = {} THEN Never ELSE LocalInstant(zone, date + Min(days), time)

\* next_daily
NextDaily(time, zone, after) ==
    LET Good(t) == t > after IN FirstDay(zone, DateOf(zone, after), time, Good)

\* anchor: today's, which may be past.
Anchor(time, zone, after) ==
    LET Good(t) == TRUE IN FirstDay(zone, DateOf(zone, after), time, Good)

\* next
NextRun(timing, start, zone, after) ==
    IF timing.cadence = "daily" THEN NextDaily(timing.time, zone, after)
    ELSE IF start > after THEN start
    ELSE start + ((after - start) \div timing.period + 1) * timing.period
====
