----------------------------- MODULE EmailOutbox -----------------------------
(***************************************************************************)
(* EmailService.sendEmail and the EmailRetryTask cron that re-sends the    *)
(* EmailOutbox rows a failed send leaves behind.                           *)
(*                                                                         *)
(* sendEmail is one call per email: it asks the provider (SendGrid) to     *)
(* send, and when that throws it writes a FAILED outbox row.  A retry run  *)
(* (handleCron) reads up to BatchSize FAILED rows with attempts below      *)
(* MAX_ATTEMPTS and then, one row at a time, sends and updates the row.    *)
(* A run is split at its awaits: other runs and calls interleave there.    *)
(* The cron fires on its schedule whether or not the previous run has      *)
(* finished, so RunSlots > 1 models overlapping runs.                      *)
(*                                                                         *)
(* The provider may accept, reject, or accept and still throw (a timeout   *)
(* after the request went through).  A database write may fail            *)
(* (MaxDbFaults in total), and the process may restart (MaxRestarts),      *)
(* losing every in-flight call; a restart may come with a different        *)
(* SENDGRID_API_KEY setting.                                               *)
(***************************************************************************)
EXTENDS Naturals, FiniteSets, FiniteSetsExt

CONSTANTS
    Emails,           \* the emails some caller hands to sendEmail (one call each)
    RunSlots,         \* handleCron invocations that can be in flight at once
    MAX_ATTEMPTS,     \* EmailRetryTask.MAX_ATTEMPTS
    BatchSize,        \* findMany take:
    SendCap,          \* saturation bound of the per-email history counters
    MaxDbFaults,      \* bound on failed database writes
    MaxRestarts,      \* bound on process restarts
    ProviderOutcomes  \* outcomes the provider may give: ok, rejected, timeout

ASSUME /\ MAX_ATTEMPTS \in Nat \ {0}
       /\ BatchSize \in Nat \ {0}
       /\ SendCap \in Nat /\ MaxDbFaults \in Nat /\ MaxRestarts \in Nat

VARIABLES
    apiKey,      \* SENDGRID_API_KEY is set
    origin,      \* Emails -> state of the sendEmail call for that email
    outbox,      \* Emails -> the EmailOutbox row for it
    run,         \* RunSlots -> state of a handleCron invocation
    sends,       \* Emails -> provider calls made (history)
    delivered,   \* Emails -> times the provider actually sent it (history)
    dbFaults,    \* database writes that failed so far
    restarts     \* process restarts so far

vars == <<apiKey, origin, outbox, run, sends, delivered, dbFaults, restarts>>

NoRow == [status |-> "NONE", attempts |-> 0]
IdleRun == [pc |-> "idle", batch |-> {}, cur |-> [id |-> "none", attempts |-> 0]]

\* Provider outcomes: "ok" returns normally, "rejected" throws and sends
\* nothing, "timeout" throws although the email went out.
Outcomes == ProviderOutcomes
Delivers(o) == o \in {"ok", "timeout"}

\* One provider call for email e with outcome o.  The two history counters
\* saturate at SendCap: the properties only tell 0, 1 and "more" apart, and
\* the call itself is never blocked by the bound.
Bump(n) == IF n < SendCap THEN n + 1 ELSE n

ProviderCall(e, o) ==
    /\ sends' = [sends EXCEPT ![e] = Bump(@)]
    /\ delivered' = [delivered EXCEPT ![e] = IF Delivers(o) THEN Bump(@) ELSE @]

Init ==
    /\ apiKey \in BOOLEAN
    /\ origin = [e \in Emails |-> "pending"]
    /\ outbox = [e \in Emails |-> NoRow]
    /\ run = [r \in RunSlots |-> IdleRun]
    /\ sends = [e \in Emails |-> 0]
    /\ delivered = [e \in Emails |-> 0]
    /\ dbFaults = 0
    /\ restarts = 0

(***************************************************************************)
(* sendEmail, up to its await on the provider: without an API key it logs *)
(* and returns; otherwise the provider call either returns (done) or      *)
(* throws, and the catch block goes on to write the outbox row.           *)
(***************************************************************************)
SendEmail(e) ==
    /\ origin[e] = "pending"
    /\ \/ /\ ~apiKey
          /\ origin' = [origin EXCEPT ![e] = "done"]
          /\ UNCHANGED <<sends, delivered>>
       \/ /\ apiKey
          /\ \E o \in Outcomes :
               /\ ProviderCall(e, o)
               /\ origin' = [origin EXCEPT ![e] = IF o = "ok" THEN "done" ELSE "queueing"]
    /\ UNCHANGED <<apiKey, outbox, run, dbFaults, restarts>>

(***************************************************************************)
(* sendEmail's catch block: emailOutbox.create with status FAILED (the    *)
(* attempts column takes its default, 0), then rethrow.  If the create    *)
(* itself fails, that error propagates instead and nothing is queued.     *)
(***************************************************************************)
QueueFailedEmail(e) ==
    /\ origin[e] = "queueing"
    /\ origin' = [origin EXCEPT ![e] = "done"]
    /\ \/ /\ outbox' = [outbox EXCEPT ![e] = [status |-> "FAILED", attempts |-> 0]]
          /\ UNCHANGED dbFaults
       \/ /\ dbFaults < MaxDbFaults
          /\ dbFaults' = dbFaults + 1
          /\ UNCHANGED outbox
    /\ UNCHANGED <<apiKey, run, sends, delivered, restarts>>

(***************************************************************************)
(* handleCron: findMany({status: FAILED, attempts < MAX_ATTEMPTS},        *)
(* take BatchSize), in no particular order.  Each entry keeps the         *)
(* attempts value read here; the later updates write that value + 1.      *)
(***************************************************************************)
\* Fault variant of the findMany filter: lte instead of lt.
Retryable_Lte == {e \in Emails : outbox[e].status = "FAILED" /\ outbox[e].attempts <= MAX_ATTEMPTS}
Retryable == {e \in Emails : outbox[e].status = "FAILED" /\ outbox[e].attempts < MAX_ATTEMPTS}

StartRetryRun(r) ==
    /\ run[r].pc = "idle"
    /\ \E picked \in kSubset(Min({BatchSize, Cardinality(Retryable)}), Retryable) :
         run' = [run EXCEPT ![r] = [@ EXCEPT !.pc = "looping",
                     !.batch = {[id |-> e, attempts |-> outbox[e].attempts] : e \in picked}]]
    /\ UNCHANGED <<apiKey, origin, outbox, sends, delivered, dbFaults, restarts>>

(***************************************************************************)
(* One turn of the for loop, up to the await on sgMail.send: the loop      *)
(* ends when the batch is exhausted; without an API key the whole run      *)
(* returns; otherwise the provider is called for the next row and the run *)
(* goes on to mark it SENT, or to the catch block when send throws.       *)
(***************************************************************************)
\* Fault variant: the send is not awaited, so the row is marked SENT
\* whatever the provider answers.
RetryNextEmail_NoAwait(r) ==
    /\ run[r].pc = "looping"
    /\ \/ /\ run[r].batch = {}
          /\ run' = [run EXCEPT ![r] = IdleRun]
          /\ UNCHANGED <<sends, delivered>>
       \/ /\ run[r].batch # {}
          /\ ~apiKey
          /\ run' = [run EXCEPT ![r] = IdleRun]
          /\ UNCHANGED <<sends, delivered>>
       \/ /\ apiKey
          /\ \E row \in run[r].batch, o \in Outcomes :
               /\ ProviderCall(row.id, o)
               /\ run' = [run EXCEPT ![r] = [pc |-> "marking",
                                             batch |-> @.batch \ {row}, cur |-> row]]
    /\ UNCHANGED <<apiKey, origin, outbox, dbFaults, restarts>>

RetryNextEmail(r) ==
    /\ run[r].pc = "looping"
    /\ \/ /\ run[r].batch = {}
          /\ run' = [run EXCEPT ![r] = IdleRun]
          /\ UNCHANGED <<sends, delivered>>
       \/ /\ run[r].batch # {}
          /\ ~apiKey
          /\ run' = [run EXCEPT ![r] = IdleRun]
          /\ UNCHANGED <<sends, delivered>>
       \/ /\ apiKey
          /\ \E row \in run[r].batch, o \in Outcomes :
               /\ ProviderCall(row.id, o)
               /\ run' = [run EXCEPT ![r] = [pc |-> IF o = "ok" THEN "marking" ELSE "recording",
                                             batch |-> @.batch \ {row}, cur |-> row]]
    /\ UNCHANGED <<apiKey, origin, outbox, dbFaults, restarts>>

(***************************************************************************)
(* "Mark as sent": update {status: SENT, attempts: read + 1}.  If the      *)
(* update throws, control passes to the same catch block as a failed send.*)
(***************************************************************************)
MarkRetrySent(r) ==
    LET row == run[r].cur IN
    /\ run[r].pc = "marking"
    /\ \/ /\ outbox' = [outbox EXCEPT ![row.id] = [status |-> "SENT", attempts |-> row.attempts + 1]]
          /\ run' = [run EXCEPT ![r].pc = "looping"]
          /\ UNCHANGED dbFaults
       \/ /\ dbFaults < MaxDbFaults
          /\ dbFaults' = dbFaults + 1
          /\ run' = [run EXCEPT ![r].pc = "recording"]
          /\ UNCHANGED outbox
    /\ UNCHANGED <<apiKey, origin, sends, delivered, restarts>>

RecordRetryFailure(r) ==
    LET row == run[r].cur IN
    /\ run[r].pc = "recording"
    /\ \/ /\ outbox' = [outbox EXCEPT ![row.id].attempts = row.attempts + 1]
          /\ run' = [run EXCEPT ![r].pc = "looping"]
          /\ UNCHANGED dbFaults
       \/ /\ dbFaults < MaxDbFaults
          /\ dbFaults' = dbFaults + 1
          /\ run' = [run EXCEPT ![r] = IdleRun]
          /\ UNCHANGED outbox
    /\ UNCHANGED <<apiKey, origin, sends, delivered, restarts>>

(***************************************************************************)
(* A process restart: every in-flight handleCron and every sendEmail that *)
(* has not written its outbox row yet is lost; rows persist.  The         *)
(* restarted process may read a different SENDGRID_API_KEY.               *)
(***************************************************************************)
Restart ==
    /\ restarts < MaxRestarts
    /\ restarts' = restarts + 1
    /\ apiKey' \in BOOLEAN
    /\ run' = [r \in RunSlots |-> IdleRun]
    /\ origin' = [e \in Emails |-> IF origin[e] = "queueing" THEN "done" ELSE origin[e]]
    /\ UNCHANGED <<outbox, sends, delivered, dbFaults>>

Next ==
    \/ \E e \in Emails : SendEmail(e) \/ QueueFailedEmail(e)
    \/ \E r \in RunSlots : \/ StartRetryRun(r) \/ RetryNextEmail(r)
                           \/ MarkRetrySent(r) \/ RecordRetryFailure(r)
    \/ Restart

Spec == Init /\ [][Next]_vars

(***************************************************************************)
(* The cron fires on its schedule and every awaited call eventually        *)
(* returns, so each step of a call in flight and the start of a run are   *)
(* weakly fair.  Nothing forces a provider or database call to succeed.   *)
(***************************************************************************)
Fairness ==
    /\ \A e \in Emails : WF_vars(SendEmail(e)) /\ WF_vars(QueueFailedEmail(e))
    /\ \A r \in RunSlots : /\ WF_vars(StartRetryRun(r)) /\ WF_vars(RetryNextEmail(r))
                           /\ WF_vars(MarkRetrySent(r)) /\ WF_vars(RecordRetryFailure(r))

FairSpec == Spec /\ Fairness

-----------------------------------------------------------------------------
(***************************************************************************)
(* Properties                                                              *)
(***************************************************************************)

RunStates == [pc : {"idle", "looping", "marking", "recording"},
              batch : SUBSET [id : Emails, attempts : 0 .. MAX_ATTEMPTS - 1],
              cur : [id : Emails \cup {"none"}, attempts : 0 .. MAX_ATTEMPTS - 1]]

TypeOK ==
    /\ apiKey \in BOOLEAN
    /\ origin \in [Emails -> {"pending", "queueing", "done"}]
    /\ outbox \in [Emails -> [status : {"NONE", "FAILED", "SENT"}, attempts : 0 .. MAX_ATTEMPTS]]
    /\ run \in [RunSlots -> RunStates]
    /\ sends \in [Emails -> 0 .. SendCap]
    /\ delivered \in [Emails -> 0 .. SendCap]
    /\ dbFaults \in 0 .. MaxDbFaults
    /\ restarts \in 0 .. MaxRestarts

(***************************************************************************)
(* Outbox rows only move forward (handleCron's read-then-update of        *)
(* attempts and status): a row marked SENT stays SENT and is never handed *)
(* to the provider again, and a row's attempts count never goes down.     *)
(* Every update writes a value computed from the findMany read, so this   *)
(* holds only if no other run wrote the row in between.                   *)
(***************************************************************************)
RowProgress ==
    [][\A e \in Emails :
         /\ outbox[e].status = "SENT" => outbox'[e].status = "SENT" /\ sends'[e] = sends[e]
         /\ outbox'[e].attempts >= outbox[e].attempts]_vars

(***************************************************************************)
(* A row is marked SENT only for an email the provider really sent: the   *)
(* SENT update follows a send call that returned normally.                *)
(***************************************************************************)
SentRowsWereDelivered ==
    \A e \in Emails : outbox[e].status = "SENT" => delivered[e] >= 1

DeliveredAtMostOnce ==
    \A e \in Emails : delivered[e] <= 1

=============================================================================
