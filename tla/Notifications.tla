---------------------------- MODULE Notifications ----------------------------
(***************************************************************************)
(* DeadlineAlertTask.handleCron and the NotificationService.notify calls   *)
(* it makes, with the settings endpoints of NotificationController and new *)
(* contributions as the environment.                                       *)
(*                                                                         *)
(* Projects are the ACTIVE projects inside the 24-hour window; every       *)
(* hourly run sees all of them.  A run reads them with their distinct      *)
(* contributors, then for each project asks whether any DEADLINE           *)
(* notification with the alert title exists and, if none does, notifies   *)
(* every contributor.  notify reads the user and settings, returns early   *)
(* for an unknown user or disabled deadline alerts, writes the history     *)
(* row, then dispatches email and web push, swallowing their errors.       *)
(* Every await is a point where other runs, requests or a restart          *)
(* interleave.  What happens to an email after sendEmail is called is the  *)
(* EmailOutbox model's concern; here a dispatch is the call itself.        *)
(***************************************************************************)
EXTENDS Naturals, FiniteSets

CONSTANTS
    Users,        \* user ids (investorId values)
    Projects,     \* ACTIVE projects whose deadline is within 24 hours
    TitleOf,      \* Projects -> project title (titles need not be distinct)
    RunSlots,     \* handleCron invocations that can be in flight at once
    HasEmail,     \* users whose record has an email address
    Subscribers,  \* users whose browser posts a push subscription
    SettingValues,\* NotificationSetting rows the endpoints may store
    VapidKey,     \* VAPID_PUBLIC_KEY is set in the environment (TRUE/FALSE)
    MaxDbFaults,  \* bound on failed notification.create calls
    MaxRestarts   \* bound on process restarts

ASSUME MaxDbFaults \in Nat /\ MaxRestarts \in Nat

VARIABLES
    registered,    \* users that prisma.user.findUnique finds
    settings,      \* Users -> the NotificationSetting row, or NoSettings
    subscribed,    \* users whose pushSubscription is set
    contributors,  \* Projects -> users with a contribution
    alerts,        \* Users -> Projects -> DEADLINE rows written for it
    dispatched,    \* channel -> Users -> Projects -> sends notify made for it (history)
    run,           \* RunSlots -> state of a handleCron invocation
    dbFaults,
    restarts

vars == <<registered, settings, subscribed, contributors, alerts,
         dispatched, run, dbFaults, restarts>>

IdleRun == [pc |-> "idle", todo |-> {}, snap |-> [p \in Projects |-> {}],
            proj |-> "none", users |-> {}, user |-> "none", chan |-> {}]

Channels == {"email", "push"}

\* notify's built-in defaults for a user without a settings row.  Only the
\* flags a DEADLINE notification reads are kept.
NoSettings == [stored |-> FALSE, deadlines |-> TRUE, email |-> TRUE, push |-> FALSE]

WantsDeadlines(u) == settings[u].deadlines

\* Fault variant: the findFirst filter loses its title condition.
AlertExists_AnyDeadline(title) == \E u \in Users, q \in Projects : alerts[u][q] > 0

\* prisma.notification.findFirst({type: DEADLINE, title}): a row by any
\* user, for any project whose title renders the same.
AlertExists(title) == \E u \in Users, q \in Projects : TitleOf[q] = title /\ alerts[u][q] > 0

Init ==
    /\ registered \in SUBSET Users
    /\ settings \in [Users -> {NoSettings} \cup SettingValues]
    /\ subscribed \in SUBSET (registered \cap Subscribers)
    /\ contributors \in [Projects -> SUBSET Users]
    /\ alerts = [u \in Users |-> [p \in Projects |-> 0]]
    /\ dispatched = [c \in Channels |-> [u \in Users |-> [p \in Projects |-> 0]]]
    /\ run = [r \in RunSlots |-> IdleRun]
    /\ dbFaults = 0
    /\ restarts = 0

(***************************************************************************)
(* handleCron up to its findMany: the projects in the window, each with   *)
(* the contributor set as it is now.                                       *)
(***************************************************************************)
StartAlertRun(r) ==
    /\ run[r].pc = "idle"
    /\ run' = [run EXCEPT ![r] = [IdleRun EXCEPT !.pc = "projects", !.todo = Projects,
                                                  !.snap = contributors]]
    /\ UNCHANGED <<registered, settings, contributors, alerts, dbFaults, restarts, subscribed, dispatched>>

(***************************************************************************)
(* One turn of the project loop: the run ends when no project is left;    *)
(* otherwise the next project (findMany has no orderBy) is checked with   *)
(* findFirst and skipped when an alert with its title exists.             *)
(***************************************************************************)
\* Fault variant: the dedup is per contributor (a findFirst on userId as
\* well): every project is entered and its contributors without a row
\* are notified.
CheckProject_PerUserDedup(r) ==
    /\ run[r].pc = "projects"
    /\ \/ /\ run[r].todo = {}
          /\ run' = [run EXCEPT ![r] = IdleRun]
       \/ \E p \in run[r].todo :
            run' = [run EXCEPT ![r] = [@ EXCEPT !.todo = @ \ {p}, !.pc = "contributors", !.proj = p,
                                      !.users = {u \in run[r].snap[p] : alerts[u][p] = 0}]]
    /\ UNCHANGED <<registered, settings, contributors, alerts, dbFaults, restarts, subscribed, dispatched>>

CheckProject(r) ==
    /\ run[r].pc = "projects"
    /\ \/ /\ run[r].todo = {}
          /\ run' = [run EXCEPT ![r] = IdleRun]
       \/ \E p \in run[r].todo :
            /\ AlertExists(TitleOf[p])
            /\ run' = [run EXCEPT ![r].todo = @ \ {p}]
       \/ \E p \in run[r].todo :
            /\ ~AlertExists(TitleOf[p])
            /\ run' = [run EXCEPT ![r] = [@ EXCEPT !.todo = @ \ {p}, !.pc = "contributors",
                                                   !.proj = p, !.users = run[r].snap[p]]]
    /\ UNCHANGED <<registered, settings, contributors, alerts, dbFaults, restarts, subscribed, dispatched>>

(***************************************************************************)
(* One turn of the contributor loop, through notify's findUnique and its  *)
(* preference checks: an unknown user or one with deadline alerts off     *)
(* returns at once; otherwise notify goes on to write the history row.    *)
(***************************************************************************)
Notifiable(u) == u \in registered /\ WantsDeadlines(u)

(* The channels notify will use, decided from the user row it read:        *)
(* emailEnabled and an email address, pushEnabled and a pushSubscription. *)
ChannelsOf(u) ==
    {c \in Channels : \/ c = "email" /\ settings[u].email /\ u \in HasEmail
                      \/ c = "push" /\ settings[u].push /\ u \in subscribed}

\* Fault variant: the loop does not advance past a notified contributor.
NotifyContributor_NoAdvance(r) ==
    /\ run[r].pc = "contributors"
    /\ \/ /\ run[r].users = {}
          /\ run' = [run EXCEPT ![r].pc = "projects", ![r].proj = "none"]
       \/ \E u \in run[r].users :
            /\ ~Notifiable(u)
            /\ run' = [run EXCEPT ![r].users = @ \ {u}]
       \/ \E u \in run[r].users :
            /\ Notifiable(u)
            /\ run' = [run EXCEPT ![r].pc = "saving", ![r].user = u, ![r].chan = ChannelsOf(u)]
    /\ UNCHANGED <<registered, settings, subscribed, contributors, alerts, dispatched, dbFaults, restarts>>

NotifyContributor(r) ==
    /\ run[r].pc = "contributors"
    /\ \/ /\ run[r].users = {}
          /\ run' = [run EXCEPT ![r].pc = "projects", ![r].proj = "none"]
       \/ \E u \in run[r].users :
            /\ ~Notifiable(u)
            /\ run' = [run EXCEPT ![r].users = @ \ {u}]
       \/ \E u \in run[r].users :
            /\ Notifiable(u)
            /\ run' = [run EXCEPT ![r].users = @ \ {u}, ![r].pc = "saving", ![r].user = u,
                                  ![r].chan = ChannelsOf(u)]
    /\ UNCHANGED <<registered, settings, subscribed, contributors, alerts, dispatched, dbFaults, restarts>>

EndNotify(r) == run' = [run EXCEPT ![r].pc = "contributors", ![r].user = "none", ![r].chan = {}]

\* Fault variant: a failed create is caught inside notify, which goes on to
\* dispatch the alert without its history row.
SaveAlert_DispatchAnyway(r) ==
    LET u == run[r].user
        p == run[r].proj
    IN
    /\ run[r].pc = "saving"
    /\ \/ /\ alerts' = [alerts EXCEPT ![u][p] = @ + 1]
          /\ UNCHANGED dbFaults
       \/ /\ dbFaults < MaxDbFaults
          /\ dbFaults' = dbFaults + 1
          /\ UNCHANGED alerts
    /\ run' = [run EXCEPT ![r].pc = "dispatching"]
    /\ UNCHANGED <<registered, settings, subscribed, contributors, dispatched, restarts>>

(***************************************************************************)
(* notify's prisma.notification.create.  If it fails, notify throws, the  *)
(* task's catch logs it, and the loop goes on with the next contributor.  *)
(***************************************************************************)
SaveAlert(r) ==
    LET u == run[r].user
        p == run[r].proj
    IN
    /\ run[r].pc = "saving"
    /\ \/ /\ alerts' = [alerts EXCEPT ![u][p] = @ + 1]
          /\ run' = [run EXCEPT ![r].pc = "dispatching"]
          /\ UNCHANGED dbFaults
       \/ /\ dbFaults < MaxDbFaults
          /\ dbFaults' = dbFaults + 1
          /\ EndNotify(r)
          /\ UNCHANGED alerts
    /\ UNCHANGED <<registered, settings, subscribed, contributors, dispatched, restarts>>

(***************************************************************************)
(* notify's dispatch: the awaited sendEmail when the email channel was    *)
(* chosen, then the web push, where WebPushService.sendNotification       *)
(* returns without a VAPID_PUBLIC_KEY and otherwise awaits                *)
(* webpush.sendNotification.  Every error is logged and swallowed, so     *)
(* notify returns to the contributor loop.  A dispatch counts the call    *)
(* made, whatever the provider then does.                                 *)
(***************************************************************************)
Calls(r) == {c \in run[r].chan : c = "push" => VapidKey}

DispatchAlert(r) ==
    LET u == run[r].user
        p == run[r].proj
    IN
    /\ run[r].pc = "dispatching"
    /\ dispatched' = [c \in Channels |->
                        IF c \in Calls(r) THEN [dispatched[c] EXCEPT ![u][p] = @ + 1]
                                          ELSE dispatched[c]]
    /\ EndNotify(r)
    /\ UNCHANGED <<registered, settings, subscribed, contributors, alerts, dbFaults, restarts>>

(***************************************************************************)
(* GET settings/:userId upserts a row with the schema defaults when none  *)
(* exists (the defaults are in the Prisma schema, not in this repository, *)
(* so any row is allowed); PUT settings/:userId upserts the fields given, *)
(* so that any row can result.                                             *)
(***************************************************************************)
GetSettings(u) ==
    /\ ~settings[u].stored
    /\ \E v \in SettingValues : settings' = [settings EXCEPT ![u] = v]
    /\ UNCHANGED <<registered, subscribed, contributors, alerts, dispatched, run, dbFaults, restarts>>

UpdateSettings(u, v) ==
    /\ settings' = [settings EXCEPT ![u] = v]
    /\ UNCHANGED <<registered, subscribed, contributors, alerts, dispatched, run, dbFaults, restarts>>

(* POST subscribe/:userId: user.update sets pushSubscription (and throws  *)
(* for an unknown user, changing nothing).                                 *)
SubscribeToPush(u) ==
    /\ u \in registered \cap Subscribers
    /\ subscribed' = subscribed \cup {u}
    /\ UNCHANGED <<registered, settings, contributors, alerts, dispatched, run, dbFaults, restarts>>

\* A new contribution to a project in the window (from the indexer).
Contribute(u, p) ==
    /\ u \notin contributors[p]
    /\ contributors' = [contributors EXCEPT ![p] = @ \cup {u}]
    /\ UNCHANGED <<registered, settings, subscribed, alerts, dispatched, run, dbFaults, restarts>>

\* A process restart: every in-flight run is lost; rows persist.
Restart ==
    /\ restarts < MaxRestarts
    /\ restarts' = restarts + 1
    /\ run' = [r \in RunSlots |-> IdleRun]
    /\ UNCHANGED <<registered, settings, subscribed, contributors, alerts, dispatched, dbFaults>>

Next ==
    \/ \E r \in RunSlots : \/ StartAlertRun(r) \/ CheckProject(r) \/ NotifyContributor(r)
                           \/ SaveAlert(r) \/ DispatchAlert(r)
    \/ \E u \in Users : \/ GetSettings(u) \/ SubscribeToPush(u)
                        \/ \E v \in SettingValues : UpdateSettings(u, v)
    \/ \E u \in Users, p \in Projects : Contribute(u, p)
    \/ Restart

Spec == Init /\ [][Next]_vars

(***************************************************************************)
(* The hourly cron keeps firing and awaited calls return: every step of a *)
(* run is weakly fair.  Requests and contributions are not.               *)
(***************************************************************************)
Fairness ==
    \A r \in RunSlots : /\ WF_vars(StartAlertRun(r)) /\ WF_vars(CheckProject(r))
                        /\ WF_vars(NotifyContributor(r)) /\ WF_vars(SaveAlert(r))
                        /\ WF_vars(DispatchAlert(r))

FairSpec == Spec /\ Fairness

-----------------------------------------------------------------------------
(***************************************************************************)
(* Properties                                                              *)
(***************************************************************************)

\* A run notifies a user at most once per project it alerts, and a run
\* passes the findFirst check for a project at most once, so no project
\* ever has more rows per user than there can be runs.
AlertBound == Cardinality(RunSlots) * (MaxRestarts + 1)

RunStates == [pc : {"idle", "projects", "contributors", "saving", "dispatching"},
              todo : SUBSET Projects, snap : [Projects -> SUBSET Users],
              proj : Projects \cup {"none"}, users : SUBSET Users,
              user : Users \cup {"none"}, chan : SUBSET Channels]

TypeOK ==
    /\ registered \subseteq Users
    /\ settings \in [Users -> {NoSettings} \cup SettingValues]
    /\ subscribed \subseteq registered \cap Subscribers
    /\ contributors \in [Projects -> SUBSET Users]
    /\ alerts \in [Users -> [Projects -> 0 .. AlertBound]]
    /\ dispatched \in [Channels -> [Users -> [Projects -> 0 .. AlertBound]]]
    /\ run \in [RunSlots -> RunStates]
    /\ dbFaults \in 0 .. MaxDbFaults
    /\ restarts \in 0 .. MaxRestarts

(***************************************************************************)
(* No contributor gets the 24-hour alert for a project twice: the          *)
(* findFirst check before the contributor loop is the only thing that      *)
(* stops a later run from alerting a project again.                        *)
(***************************************************************************)
AlertAtMostOnce ==
    \A u \in Users, p \in Projects : alerts[u][p] <= 1

(***************************************************************************)
(* Every email and web push notify sends for a project's deadline has its *)
(* history row: notify writes the row before it dispatches, and a failed  *)
(* write ends notify.  The row is what the hourly findFirst looks for, so *)
(* a dispatch without one is repeated by the next run; with               *)
(* AlertAtMostOnce this keeps each channel to one message per project,    *)
(* through failed inserts and restarts between the steps.                 *)
(***************************************************************************)
DispatchRecorded ==
    \A c \in Channels, u \in Users, p \in Projects : dispatched[c][u][p] <= alerts[u][p]

AlertedUsers(p) == {u \in Users : alerts[u][p] > 0}

\* u is a contributor of p, a known user, and wants deadline alerts.
Alertable(u, p) == u \in contributors[p] /\ u \in registered /\ WantsDeadlines(u)

(***************************************************************************)
(* Every project in the window that keeps a contributor who wants the     *)
(* alert eventually gets it: the hourly run keeps checking the project    *)
(* until an alert row for it exists, however a run was interrupted        *)
(* before, since findFirst only finds rows carrying this project's title. *)
(***************************************************************************)
ProjectAlerted ==
    \A p \in Projects :
        (\E u \in Users : <>[]Alertable(u, p)) => <>(\E u \in Users : alerts[u][p] > 0)

(***************************************************************************)
(* Once a contributor of a project has the alert row, every contributor  *)
(* of it who keeps wanting deadline alerts eventually has one too: the     *)
(* round that wrote the first row reaches them all, or a later run does.   *)
(***************************************************************************)
AlertRoundCompletes ==
    \A p \in Projects, u \in Users :
        <>[](Alertable(u, p) /\ AlertedUsers(p) # {})
            => <>(alerts[u][p] > 0)


(***************************************************************************)
(* Refinement: the deadline alert task implements AlertRounds.  A round   *)
(* for a project is in progress while a run is in its contributor loop    *)
(* for it (through notify); the alerted users are those with a history    *)
(* row.  So a project's alerts all come from one pass of the contributor  *)
(* loop: once a round has written a row, findFirst keeps every later run  *)
(* out of the project, late contributors included, and a round that      *)
(* wrote none (failed inserts, a restart) leaves the project to the next *)
(* hourly run.                                                             *)
(***************************************************************************)
InRound(p) == \E r \in RunSlots : run[r].pc \in {"contributors", "saving", "dispatching"}
                                  /\ run[r].proj = p

Rounds == INSTANCE AlertRounds
    WITH alerted <- [p \in Projects |-> AlertedUsers(p)],
         round <- [p \in Projects |-> IF InRound(p) THEN "alerting"
                                       ELSE IF AlertedUsers(p) # {} THEN "closed" ELSE "open"]

ImplementsAlertRounds == Rounds!ASpec

======================================================================================================================================================
