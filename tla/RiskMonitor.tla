----------------------------- MODULE RiskMonitor -----------------------------
(***************************************************************************)
(* The real-time risk monitor of frontend/src/lib/risk-engine.ts for one  *)
(* project: startMonitoring creates a MonitorSession in _sessions, sets a *)
(* setInterval timer and runs a poll at once; each poll (runPoll) reads   *)
(* the session, invalidates the project's cache entries, awaits           *)
(* assessProject, which fetches the on-chain and off-chain data through   *)
(* fetchWithCache (three attempts each, Promise.allSettled), and then     *)
(* pushes a snapshot, capped at a fixed length, and calls the session's  *)
(* alert and snapshot handlers.  Polls overlap: the timer does not wait   *)
(* for the previous poll.  The risk heuristic itself (assessFromRawData)  *)
(* is the constant function Assess of the two fetched documents.          *)
(***************************************************************************)
EXTENDS Integers, Sequences, FiniteSets

CONSTANTS
    Handlers,     \* handler functions components pass to onRiskAlert / onRiskSnapshot
    Data,         \* the documents an API endpoint can return
    Assess,       \* [Data -> [Data -> Int]]: riskScore.overall of (on-chain, off-chain)
    Cap,          \* the snapshot cap (100 in runPoll)
    PollSlots,    \* runPoll invocations that can be in flight at once
    MaxSessions,  \* MonitorSession objects startMonitoring may create
    MaxChanges    \* changes of the projects' source data

Keys == {"on", "off"}   \* the cache keys on:<id>:<chain> and off:<id>
None == "none"
Sessions == 1..MaxSessions

VARIABLES
    current,  \* the session _sessions maps the project to (0: none)
    born,     \* sessions created so far
    sess,     \* Sessions -> [snaps, alertH, snapH, ticking]
    poll,     \* PollSlots -> a runPoll invocation
    remote,   \* Keys -> the document the endpoint returns now
    changes,  \* changes of remote so far
    late      \* history: handlers called back by a session no longer in _sessions

vars == <<current, born, sess, poll, remote, changes, late>>

IdlePoll == [pc |-> "idle", s |-> 0,
             key |-> [k \in Keys |-> [st |-> "pending", val |-> None]]]

NewSession == [snaps |-> <<>>, alertH |-> {}, snapH |-> {}, ticking |-> FALSE]

Init ==
    /\ current = 0
    /\ born = 0
    /\ sess = [g \in Sessions |-> NewSession]
    /\ poll = [p \in PollSlots |-> IdlePoll]
    /\ \E d \in [Keys -> Data] : remote = d
    /\ changes = 0
    /\ late = {}

(***************************************************************************)
(* classifyRiskLevel.                                                      *)
(***************************************************************************)
RiskLevel(score) ==
    CASE score >= 80 -> "VERY_LOW"
      [] score >= 65 -> "LOW"
      [] score >= 45 -> "MEDIUM"
      [] score >= 25 -> "HIGH"
      [] OTHER       -> "VERY_HIGH"

(* The severity of the alert runPoll raises for a score delta. *)
Severity(delta) ==
    CASE delta <= -10 -> "CRITICAL"
      [] delta <= -5  -> "WARNING"
      [] delta >= 10  -> "INFO"
      [] OTHER        -> "NONE"

AbsVal(x) == IF x < 0 THEN -x ELSE x

(***************************************************************************)
(* detectTrend over the snapshots before the new one is pushed: the last   *)
(* five, once there are at least three.                                    *)
(***************************************************************************)
DetectTrend(snaps) ==
    IF Len(snaps) < 3 THEN "STABLE"
    ELSE LET from   == IF Len(snaps) > 5 THEN Len(snaps) - 4 ELSE 1
             delta  == snaps[Len(snaps)].score - snaps[from].score
         IN  IF AbsVal(delta) < 2 THEN "STABLE"
             ELSE IF delta > 0 THEN "IMPROVING" ELSE "DECLINING"

(***************************************************************************)
(* The synchronous part of runPoll, up to its await: it read the session  *)
(* g, invalidateCache deleted the project's keys, and each fetchWithCache *)
(* looks its key up in the cache just emptied, so it misses and starts    *)
(* its first attempt.  (The cache is therefore never read by a poll; what *)
(* the attempts write into it is left out.)                               *)
(***************************************************************************)
LaunchPoll(p, g) ==
    /\ poll[p].pc = "idle"
    /\ poll' = [poll EXCEPT ![p] = [IdlePoll EXCEPT !.pc = "fetching", !.s = g]]

\* Fault variant: startMonitoring without its _sessions.has check; the
\* new session replaces the old one in the map, whose timer keeps running.
StartMonitoring_NoHasCheck ==
    /\ born < MaxSessions
    /\ \E p \in PollSlots : LaunchPoll(p, born + 1)
    /\ born' = born + 1
    /\ current' = born + 1
    /\ sess' = [sess EXCEPT ![born + 1].ticking = TRUE]
    /\ UNCHANGED <<remote, changes, late>>

(* startMonitoring: a no-op while a session exists; else a new session,  *)
(* its interval timer, and an immediate runPoll.                         *)
StartMonitoring ==
    /\ current = 0
    /\ born < MaxSessions
    /\ \E p \in PollSlots : LaunchPoll(p, born + 1)
    /\ born' = born + 1
    /\ current' = born + 1
    /\ sess' = [sess EXCEPT ![born + 1].ticking = TRUE]
    /\ UNCHANGED <<remote, changes, late>>

(* The interval timer of a session fires: void runPoll(projectId). *)
Tick(g) ==
    /\ sess[g].ticking
    /\ current = g
    /\ \E p \in PollSlots : LaunchPoll(p, g)
    /\ UNCHANGED <<current, born, sess, remote, changes, late>>

(* stopMonitoring: clearInterval and delete the session from _sessions. *)
StopMonitoring ==
    /\ current # 0
    /\ sess' = [sess EXCEPT ![current].ticking = FALSE]
    /\ current' = 0
    /\ UNCHANGED <<born, poll, remote, changes, late>>

(* onRiskAlert / onRiskSnapshot add the handler to the session's set if  *)
(* a session exists (else the handler is silently dropped); the returned *)
(* unsubscribe deletes it from whatever session exists when it is called.*)
OnRiskAlert(h) ==
    /\ current # 0
    /\ sess' = [sess EXCEPT ![current].alertH = @ \cup {h}]
    /\ UNCHANGED <<current, born, poll, remote, changes, late>>

OnRiskSnapshot(h) ==
    /\ current # 0
    /\ sess' = [sess EXCEPT ![current].snapH = @ \cup {h}]
    /\ UNCHANGED <<current, born, poll, remote, changes, late>>

UnsubscribeAlert(h) ==
    /\ current # 0
    /\ sess' = [sess EXCEPT ![current].alertH = @ \ {h}]
    /\ UNCHANGED <<current, born, poll, remote, changes, late>>

UnsubscribeSnapshot(h) ==
    /\ current # 0
    /\ sess' = [sess EXCEPT ![current].snapH = @ \ {h}]
    /\ UNCHANGED <<current, born, poll, remote, changes, late>>

(***************************************************************************)
(* fetchWithCache for key k settles.  Its loop makes up to three attempts *)
(* with backoff; an attempt that throws (a network error or a non-ok      *)
(* status) changes nothing but the loop counter, so the model takes the   *)
(* failed attempts and the successful one as one step: the promise        *)
(* resolves with what the endpoint returns at that moment, or, after the  *)
(* third failure, rejects with the last error.                             *)
(***************************************************************************)
FetchSettle(p, k) ==
    /\ poll[p].pc = "fetching"
    /\ poll[p].key[k].st = "pending"
    /\ \/ poll' = [poll EXCEPT ![p].key[k] = [st |-> "ok", val |-> remote[k]]]
       \/ poll' = [poll EXCEPT ![p].key[k] = [st |-> "rejected", val |-> None]]
    /\ UNCHANGED <<current, born, sess, remote, changes, late>>

(* session.snapshots[session.snapshots.length - 1]: the latest snapshot. *)
Previous(snaps) == snaps[Len(snaps)]

\* Fault variant: the cap is tested one element late.
Capped_OffByOne(snaps) == IF Len(snaps) > Cap + 1 THEN Tail(snaps) ELSE snaps

(* push, then shift once if the array is over the cap. *)
Capped(snaps) == IF Len(snaps) > Cap THEN Tail(snaps) ELSE snaps

(***************************************************************************)
(* What assessProject resolves with once both fetches of a poll settled,  *)
(* as a set of at most one score: fetchProjectData returns null (the      *)
(* empty set) if either allSettled entry rejected, else assessFromRawData *)
(* scores the two documents.                                               *)
(***************************************************************************)
Assessment(p) ==
    IF \E k \in Keys : poll[p].key[k].st = "rejected" THEN {}
    ELSE {Assess[poll[p].key["on"].val][poll[p].key["off"].val]}

(***************************************************************************)
(* The rest of runPoll for a non-null result: the latest snapshot of the  *)
(* session object read before the await gives the delta and the alert;   *)
(* the snapshot is pushed, the array trimmed to the cap, and that         *)
(* session's handlers are called, whether or not the session is still    *)
(* the one in _sessions.                                                  *)
(***************************************************************************)
RecordSnapshot(p, score) ==
    LET g      == poll[p].s
        snaps  == sess[g].snaps
        prev   == IF snaps = <<>> THEN score ELSE Previous(snaps).score
        sev    == Severity(score - prev)
        snap   == [score |-> score, level |-> RiskLevel(score), delta |-> score - prev,
                   severity |-> sev, trend |-> DetectTrend(snaps)]
        called == (IF sev = "NONE" THEN {} ELSE sess[g].alertH) \cup sess[g].snapH
    IN
    /\ sess' = [sess EXCEPT ![g].snaps = Capped(Append(snaps, snap))]
    /\ late' = IF g = current THEN late ELSE late \cup called

(* assessProject returns and runPoll resumes; on null it returns. *)
CompletePoll(p) ==
    /\ poll[p].pc = "fetching"
    /\ \A k \in Keys : poll[p].key[k].st # "pending"
    /\ poll' = [poll EXCEPT ![p] = IdlePoll]
    /\ \/ /\ Assessment(p) = {}
          /\ UNCHANGED <<sess, late>>
       \/ \E score \in Assessment(p) : RecordSnapshot(p, score)
    /\ UNCHANGED <<current, born, remote, changes>>

(* The project's on-chain or off-chain data changes at its source. *)
ChangeData(k, d) ==
    /\ changes < MaxChanges
    /\ remote[k] # d
    /\ remote' = [remote EXCEPT ![k] = d]
    /\ changes' = changes + 1
    /\ UNCHANGED <<current, born, sess, poll, late>>

Next ==
    \/ StartMonitoring
    \/ StopMonitoring
    \/ \E g \in Sessions : Tick(g)
    \/ \E h \in Handlers :
          \/ OnRiskAlert(h) \/ OnRiskSnapshot(h)
          \/ UnsubscribeAlert(h) \/ UnsubscribeSnapshot(h)
    \/ \E p \in PollSlots :
          \/ CompletePoll(p)
          \/ \E k \in Keys : FetchSettle(p, k)
    \/ \E k \in Keys, d \in Data : ChangeData(k, d)

Spec == Init /\ [][Next]_vars

-----------------------------------------------------------------------------
(***************************************************************************)
(* Properties                                                              *)
(***************************************************************************)

Scores == {Assess[a][b] : a, b \in Data}

Snapshot == [score : Scores, level : {"VERY_LOW", "LOW", "MEDIUM", "HIGH", "VERY_HIGH"},
             delta : Int, severity : {"CRITICAL", "WARNING", "INFO", "NONE"},
             trend : {"IMPROVING", "DECLINING", "STABLE"}]

KeyState == [st : {"pending", "ok", "rejected"}, val : Data \cup {None}]

(* Types, and the snapshot array never longer than the cap runPoll trims to. *)
TypeOK ==
    /\ current \in 0..MaxSessions /\ born \in 0..MaxSessions
    /\ \A g \in Sessions :
          /\ sess[g].snaps \in Seq(Snapshot) /\ Len(sess[g].snaps) <= Cap
          /\ sess[g].alertH \subseteq Handlers /\ sess[g].snapH \subseteq Handlers
          /\ sess[g].ticking \in BOOLEAN
    /\ poll \in [PollSlots -> [pc : {"idle", "fetching"}, s : 0..MaxSessions,
                               key : [Keys -> KeyState]]]
    /\ remote \in [Keys -> Data] /\ changes \in 0..MaxChanges
    /\ late \subseteq Handlers

(***************************************************************************)
(* Only the session in _sessions has a live interval timer: stopMonitoring *)
(* clears the timer before deleting the session, and startMonitoring       *)
(* refuses to create a second session (and timer) while one exists.       *)
(***************************************************************************)
TimerOnlyForLiveSession == \A g \in Sessions : sess[g].ticking => g = current

(***************************************************************************)
(* After stopMonitoring no handler hears from the stopped session: the    *)
(* alert and snapshot callbacks a component registered stop with it.      *)
(***************************************************************************)
NoCallbackAfterStop == late = {}

=============================================================================
