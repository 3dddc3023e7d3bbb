----------------------------- MODULE MCLibrary ------------------------------
(***************************************************************************)
(* Values for the constants of Library.                                    *)
(***************************************************************************)
EXTENDS Library

\* Two lives of the counter, with a reborn id.
ThreeShots == {<<1, 1>>, <<1, 2>>, <<2, 1>>}

\* The clock goes back by an hour west of Greenwich: instants 0 and 1 have the
\* same local time.
FallBack == <<-1, -2, -2>>
OffsetWest == [at \in 0..2 |-> FallBack[at + 1]]
ASSUME WestSorts == TextOrder

\* No job touches the logs and no log entry the files of the jobs: it is enough
\* to look at entries beside a daemon that finds nothing to do.
Quiet == pulled = {} /\ runs = 0 /\ mishaps = 0

\* A call meets the same steps of a job whoever runs it: it is enough to look
\* at calls beside the daemon, before a command was run.
BesideDaemon == call = "idle" \/ runs = 0
MCNext == Next /\ (Logged' = 0 \/ Quiet') /\ BesideDaemon'
MCSpec == Init /\ [][MCNext]_vars /\ Fairness
=============================================================================
