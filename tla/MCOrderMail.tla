---------------------------- MODULE MCOrderMail ----------------------------
(***************************************************************************)
(* Instances of OrderMail for TLC: two members of the team, one Optiz      *)
(* user, one or two Celery processes.                                      *)
(***************************************************************************)
EXTENDS OrderMail, TLC

CONSTANTS r1, r2, employee, manager, optiz, c1, c2

MCOneRequest  == {r1}
MCEmployees   == {employee}
MCManagers    == {manager}
MCTeam        == {employee, manager}
MCStaff       == {optiz}
MCTwoCelery   == {c1, c2}

=============================================================================
