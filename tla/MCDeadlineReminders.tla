------------------------ MODULE MCDeadlineReminders ------------------------
(* A small instance of DeadlineReminders for TLC.                          *)
EXTENDS DeadlineReminders

CONSTANTS u1, u2, nobody, t1, t2, nothing, r1, w1, w2

OneAccount == {u1}
TwoAccounts == {u1, u2}
OneTask == {t1}
TwoTasks == {t1, t2}
OneRequest == {r1}
OneServer == {w1}
TwoServers == {w1, w2}

=============================================================================
