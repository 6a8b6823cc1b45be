------------------------------ MODULE MCSourceSet ------------------------------
\* Two writers of one archive: writer 1 owns the mutable head and lags, writer 2
\* runs ahead, branches or falls behind; the operator adds writer 2 to
\* the roster and then takes the finalized head away from writer 1.
EXTENDS SourceSet

CONSTANTS f, m

Line(log, mani) == [log |-> log, mani |-> mani]
Doc(s, r, line, mu) == [src |-> s, rev |-> r, fin |-> [h \in FinHeads |-> line], mut |-> mu]

Lagging == Doc(1, 1, Line(<<"x">>, <<"p">>), TRUE)
Ahead == Doc(2, 1, Line(<<"x", "y">>, <<"p", "q">>), FALSE)
CaughtUp == Doc(1, 2, Line(<<"x", "y">>, <<"p", "q">>), TRUE)
Branch == Doc(2, 2, Line(<<"x", "z">>, <<"p", "q">>), FALSE)
Withdrawn == Doc(1, 3, Line(<<"x", "y">>, <<"p", "q">>), FALSE)
Twice == Doc(1, 2, Line(<<"x", "y">>, <<"p">>), TRUE)

MCDocs == {Lagging, Ahead, CaughtUp, Branch, Withdrawn, Twice}
MCRecords == {<<Lagging, 1>>, <<CaughtUp, 2>>}
Roster(one, two) == [s \in {1, 2} |-> IF s = 1 THEN one ELSE two]
MCRosters == <<Roster({f, m}, {}), Roster({f, m}, {f}), Roster({m}, {f})>>
MCLegacy == {Lagging}
================================================================================
