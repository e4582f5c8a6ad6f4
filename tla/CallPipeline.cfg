\* Two calls to one lead.  The quarters of an hour are 3:15, 4:15, 9:00 and
\* 10:00 in UTC, which is 8:45, 9:45, 14:30 and 15:30 in India: of the window
\* from 9 to 10 each zone sees the hour before, the hour itself, and later.
CONSTANTS
    Call = {k1, k2}
    Lead = {l1}
    Phone = {p1}
    Clock = {13, 17, 36, 40}
    Expiry = {17, None}
    Timezone <- MCTimezone
    Offset <- MCOffset
    WindowStart = 9
    WindowEnd = 10
    None = None
SPECIFICATION Spec
INVARIANTS
    TypeOK
    RingsWereAllowed
    QueuedByWhoRings
PROPERTIES
    ImplementsGate
    CallIsRecorded
\* Calls that have been placed leave nothing to do.
CHECK_DEADLOCK FALSE
