------------------------------ MODULE MCAlerts ------------------------------
EXTENDS Alerts

\* A run of degraded cycles that is broken, one that outlasts the limit, one
\* with an outcome in it that nobody can read, notices that supersede one
\* another around one that does not, and a malformed row and a notice refused
\* for good with something before and after them.
MCHistories == {<<"degraded", "sound", "degraded">>, <<"degraded", "degraded", "degraded">>,
                <<"degraded", "unreadable", "degraded">>, <<"passed", "halted", "passed">>,
                <<"halted", "malformed", "halted">>, <<"halted", "unsendable", "halted">>}
=============================================================================
