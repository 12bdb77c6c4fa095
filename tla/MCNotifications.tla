--------------------------- MODULE MCNotifications ---------------------------
(***************************************************************************)
(* Model values and title assignments for checking Notifications.         *)
(***************************************************************************)
EXTENDS Notifications, TLC

CONSTANTS u1, u2, p1, p2, r1, r2

MCUsers == {u1, u2}
MCProjects == {p1, p2}
OneRun == {r1}
TwoRuns == {r1, r2}

\* Projects with different titles, and two projects with the same title.
DistinctTitles == (p1 :> "Alpha" @@ p2 :> "Beta")
SharedTitle == (p1 :> "Alpha" @@ p2 :> "Alpha")

\* u1 has an email address, u2 has none.
MCHasEmail == {u1}

\* Only u2 subscribes to web push: each user has one channel to use.
MCSubscribers == {u2}

\* Stored settings rows: every channel on; deadline alerts off.  The
\* defaults (no row) are email only, and u2 has no address, so each channel
\* is both used and skipped.
MCSettingValues ==
    {[stored |-> TRUE, deadlines |-> TRUE, email |-> TRUE, push |-> TRUE],
     [stored |-> TRUE, deadlines |-> FALSE, email |-> TRUE, push |-> FALSE]}

UserSymmetry == Permutations(MCUsers)
=============================================================================
