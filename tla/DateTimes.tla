----------------------------- MODULE DateTimes ------------------------------
(***************************************************************************)
(* Dates and times: datetime.c.  A precision is its number in              *)
(* fudge/types.h, where a finer one has a greater number.  A zone is a set *)
(* of at most one offset, in quarters of an hour.                          *)
(***************************************************************************)
EXTENDS FieldCodes, Results

MILLENNIUM  == 0
CENTURY     == 1
YEAR        == 2
MONTH       == 3
DAY         == 4
HOUR        == 5
MINUTE      == 6
SECOND      == 7
MILLISECOND == 8
MICROSECOND == 9
NANOSECOND  == 10
Precisions  == 0..10

(* The % of C, which rounds towards zero.                                  *)
Rem(v, n) == IF v >= 0 THEN v % n ELSE -((-v) % n)

RoundYear(year, precision) ==
    CASE precision = MILLENNIUM -> year - Rem(year, 1000)
      [] precision = CENTURY    -> year - Rem(year, 100)
      [] OTHER                  -> year

RoundSeconds(seconds, precision) ==
    CASE precision <= DAY   -> 0
      [] precision = HOUR   -> seconds - (seconds % 3600)
      [] precision = MINUTE -> seconds - (seconds % 60)
      [] OTHER              -> seconds

RoundNanoseconds_KeepsMinute(nanoseconds, precision) ==
    CASE precision <= HOUR \/ precision = SECOND -> 0
      [] precision = MILLISECOND -> nanoseconds - (nanoseconds % 1000000)
      [] precision = MICROSECOND -> nanoseconds - (nanoseconds % 1000)
      [] OTHER                   -> nanoseconds

RoundNanoseconds(nanoseconds, precision) ==
    CASE precision <= SECOND     -> 0
      [] precision = MILLISECOND -> nanoseconds - (nanoseconds % 1000000)
      [] precision = MICROSECOND -> nanoseconds - (nanoseconds % 1000)
      [] OTHER                   -> nanoseconds

-----------------------------------------------------------------------------
(* FudgeDate_initialise: whether the month has that many days is not asked. *)
DateInitialise(year, month, day) ==
    IF year \notin Between(-8388607, 8388607) THEN Fail("DATETIME_INVALID_YEAR")
    ELSE IF month > 12 THEN Fail("DATETIME_INVALID_MONTH")
    ELSE IF day > 31   THEN Fail("DATETIME_INVALID_DAY")
    ELSE Ok([year |-> year, month |-> month, day |-> day])

(* FudgeTime_initialise and FudgeTime_initialiseWithTimezone round first   *)
(* and look at the bounds afterwards.                                      *)
TimeInitialise(seconds, nanoseconds, precision, zone) ==
    LET s == RoundSeconds(seconds, precision)
        n == RoundNanoseconds(nanoseconds, precision)
    IN  IF s > 131071 THEN Fail("DATETIME_INVALID_SECONDS")
        ELSE IF n > TwoTo30 THEN Fail("DATETIME_INVALID_NANOSECONDS")
        ELSE Ok([seconds |-> s, nanoseconds |-> n, precision |-> precision,
                 hasTimezone |-> zone # {},
                 timezoneOffset |-> IF zone = {} THEN 0 ELSE The(zone)])

(* FudgeDateTime_initialise and FudgeDateTime_initialiseWithTimezone.      *)
DateTimeInitialise(year, month, day, seconds, nanoseconds, precision, zone) ==
    LET date == DateInitialise(RoundYear(year, precision),
                               IF precision <= YEAR THEN 0 ELSE month,
                               IF precision <= MONTH THEN 0 ELSE day)
        time == TimeInitialise(seconds, nanoseconds, precision, zone)
    IN  IF date.status # "OK" THEN date
        ELSE IF time.status # "OK" THEN time
        ELSE Ok([date |-> date.value, time |-> time.value])

-----------------------------------------------------------------------------
(* Comparison.                                                             *)

(* The first of several comparisons that finds a difference.               *)
FirstOf(first, second) == IF first # 0 THEN first ELSE second

DateCompare(left, right) ==
    NullsFirst(left, right, LAMBDA l, r :
        FirstOf(Sign(l.year, r.year), FirstOf(Sign(l.month, r.month), Sign(l.day, r.day))))

(* FudgeTime_getTimeZoneAdjustedSeconds.  Seconds are unsigned: what would *)
(* be below zero, for more than a day back, is above everything else.      *)
AdjustedSeconds_AtMidnight(t) ==
    LET adjusted    == t.timezoneOffset * 15 * 60
        previousDay == t.hasTimezone /\ adjusted < 0 /\ -adjusted >= t.seconds
    IN  [previousDay |-> previousDay,
         seconds |-> IF ~t.hasTimezone THEN t.seconds
                     ELSE IF previousDay THEN 86400 - (-adjusted - t.seconds)
                     ELSE t.seconds + adjusted]

AdjustedSeconds(t) ==
    LET adjusted    == t.timezoneOffset * 15 * 60
        previousDay == t.hasTimezone /\ adjusted < 0 /\ -adjusted > t.seconds
    IN  [previousDay |-> previousDay,
         seconds |-> IF ~t.hasTimezone THEN t.seconds
                     ELSE IF previousDay THEN 86400 - (-adjusted - t.seconds)
                     ELSE t.seconds + adjusted]

UnsignedSign(l, r) == IF (l < 0) = (r < 0) THEN Sign(l, r) ELSE IF l < 0 THEN 1 ELSE -1

TimeCompare(left, right) ==
    NullsFirst(left, right, LAMBDA l, r :
        LET a == AdjustedSeconds(l)
            b == AdjustedSeconds(r)
        IN  CASE a.previousDay /\ ~b.previousDay -> -1
              [] b.previousDay /\ ~a.previousDay -> 1
              [] OTHER -> FirstOf(UnsignedSign(a.seconds, b.seconds),
                                  Sign(l.nanoseconds, r.nanoseconds)))
=============================================================================
