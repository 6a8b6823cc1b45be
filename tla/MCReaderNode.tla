----------------------------- MODULE MCReaderNode ------------------------------
(***************************************************************************)
(* The deployments of one run.  A line is <<fin, mut>>.                    *)
(***************************************************************************)
EXTENDS ReaderNode

CONSTANTS w1, w2, m1, m2, p1, p2, d1, d2, d3, k1, k2, q1, q2, r1, r2, c1, c2, c3

From(l, S) == {<<l, k>> : k \in S}
Plain == [signers |-> {w1}, moves |-> {}, writer |-> "atomic", ipns |-> FALSE, https |-> TRUE,
          key |-> w1, dns |-> None, heads |-> {"fin"}, pollers |-> {p1}, gc |-> FALSE, full |-> FALSE,
          external |-> FALSE, edge |-> FALSE, provider |-> FALSE, hints |-> FALSE,
          promote |-> FALSE, starters |-> {}, required |-> {}, keys |-> {}, peers |-> {}, readers |-> {}, clients |-> {},
          faulty |-> {}, limit |-> 1]

\* Coverage, the live overlay, withdrawal and return.
Turns == From(<<0, None>>, {<<1, None>>, <<2, m1>>})
         \cup From(<<1, None>>, {<<2, m1>>})
         \cup From(<<2, m1>>, {<<3, m2>>, <<None, None>>, <<2, None>>})
         \cup From(<<None, None>>, {<<1, None>>, <<2, m2>>})
         \cup From(<<3, m2>>, {<<2, m2>>})
Live == From(<<0, None>>, {<<1, m1>>}) \cup From(<<1, m1>>, {<<1, m2>>, <<1, None>>})
        \cup From(<<1, m2>>, {<<1, m1>>}) \cup From(<<1, None>>, {<<1, m1>>})

Publisher == [Plain EXCEPT !.moves = Turns, !.writer = "steps", !.heads = {},
                           !.faulty = {"disk", "writer", "routing"}, !.limit = 2]
Admission == [Plain EXCEPT !.moves = Turns, !.ipns = TRUE, !.heads = {"fin", "mut"},
                           !.pollers = {p1, p2}, !.faulty = {"fetch", "reader", "backup"}]
LiveHead == [Plain EXCEPT !.moves = Live, !.heads = {"mut"}, !.gc = TRUE, !.full = TRUE,
                          !.faulty = {"fetch", "reader"}]
Rotation == [Plain EXCEPT !.moves = From(<<0, None>>, {<<1, m1>>, <<2, m1>>}) \cup From(<<1, m1>>, {<<2, m1>>}),
                          !.signers = {w1, w2}, !.ipns = TRUE, !.key = None, !.dns = w1,
                          !.faulty = {"rotation", "reader"}, !.limit = 2]
Replica == [Plain EXCEPT !.moves = From(<<0, None>>, {<<1, None>>}) \cup From(<<1, None>>, {<<2, m1>>})
                                   \cup From(<<2, m1>>, {<<None, None>>}),
                         !.external = TRUE, !.faulty = {"kubo", "reader"}, !.limit = 2]
Relay == [Plain EXCEPT !.moves = From(<<0, None>>, {<<1, m1>>}) \cup From(<<1, m1>>, {<<1, m2>>}),
                       !.writer = "steps", !.heads = {}, !.edge = TRUE,
                       !.faulty = {"writer", "edge", "socket", "routing", "disk", "hints"}, !.limit = 2]
Advertiser == [Relay EXCEPT !.provider = TRUE, !.faulty = {"hints"}, !.limit = 1]
Hints == [Plain EXCEPT !.moves = Live, !.heads = {"fin", "mut"}, !.hints = TRUE,
                       !.faulty = {"backup", "reader", "hints"}]
Doubtful == [Plain EXCEPT !.moves = From(<<0, None>>, {<<3, m2>>}), !.heads = {"fin", "mut"},
                          !.gc = TRUE, !.full = TRUE, !.hints = TRUE]
Drifting == [Plain EXCEPT !.moves = From(<<0, None>>, {<<1, m1>>, <<2, None>>}), !.signers = {w1, w2},
                          !.ipns = TRUE, !.https = FALSE, !.key = None, !.dns = w1, !.heads = {"fin", "mut"},
                          !.hints = TRUE, !.faulty = {"rotation"}]
Promotion == [Plain EXCEPT !.moves = From(<<0, None>>, {<<1, None>>}) \cup From(<<1, None>>, {<<2, m1>>})
                                     \cup From(<<2, m1>>, {<<None, None>>}),
                           !.gc = TRUE, !.promote = TRUE,
                           !.faulty = {"operator", "reader"}, !.limit = 3]
Silent == [Plain EXCEPT !.signers = {}, !.key = None, !.heads = {}, !.pollers = {}]
KeyFile == [Silent EXCEPT !.starters = {d1, d2, d3}, !.required = {d3},
                          !.faulty = {"disk", "process", "power", "operator"}, !.limit = 2]
Meeting == [Silent EXCEPT !.keys = {k1, k2}, !.peers = {q1, q2}, !.faulty = {"addresses", "time", "routing"}]
Gateway == [Silent EXCEPT !.readers = {r1, r2}, !.clients = {c1, c2, c3}]
MCSites == {Publisher, Admission, LiveHead, Rotation, Replica, Relay, Advertiser, Hints, Doubtful, Drifting, Promotion,
            KeyFile, Meeting, Gateway}
ReplicaSite == {Replica}
================================================================================
