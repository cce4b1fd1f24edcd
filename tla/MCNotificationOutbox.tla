------------------------- MODULE MCNotificationOutbox -------------------------
\* Two critical events with one key, and an ordinary event.
EXTENDS NotificationOutbox

CONSTANTS a, b, c, alert, info

MCNotes == {a, b, c}
MCKeys == {alert, info}
MCKeyOf == [n \in MCNotes |-> IF n = c THEN info ELSE alert]
MCCritical == {alert}
=============================================================================
