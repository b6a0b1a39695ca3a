--------------------------- MODULE MCCalendarSync ---------------------------
\* One calendar of one or two events. Three row keys outlast every way of deleting
\* and recreating one event that MaxChanges allows.
EXTENDS CalendarSync

MCEventId == 1..3
MCEventIdTwo == 1..4
=============================================================================
