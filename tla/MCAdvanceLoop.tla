---------------------------- MODULE MCAdvanceLoop ----------------------------
(* Schedules around the ends of January and February of a leap year and of *)
(* the year after it, days apart or months apart.                          *)
EXTENDS AdvanceLoop

Every(months, weeks, days) == [months |-> months, weeks |-> weeks, days |-> days]

\* Ends of January, in both years, and the leap day.
MonthEnds == {30, 59, 395}

\* A week early, on time, a day late, and up to two and a half months late.
ManyLags == {-7, 0, 1, 31, 75}

ManyMinutes == {-7, 0, 7, 45}

\* Long before the first instant of any form.
BeginningOfTime == -90

ManyIntervals ==
    {Every(1, 0, 0), Every(3, 0, 0), Every(12, 0, 0), Every(1, 0, 1),
     Every(0, 1, 0), Every(0, 0, 10), Every(0, 2, -3), Every(1, -1, 0),
     Every(-1, 0, 40), Every(0, 1, -7), Every(0, 0, 0)}

=============================================================================
