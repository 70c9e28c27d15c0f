SPECIFICATION ClockSpec
CONSTANTS
    Calendars <- MCCalendars
    Shifts <- MCShifts
    LongestBreak = 6
    ShiftDay = 6
    LastDay = 17
INVARIANT ClockTypeOK
PROPERTY AnnouncementHolds
\* The clock stops on the last day.
CHECK_DEADLOCK FALSE
