----------------------------- MODULE MpControl -----------------------------
(***************************************************************************)
(* tools/mp_control.py: the web service that starts, stops and restarts    *)
(* the sender.  Every request has a thread of its own, next to the         *)
(* watchdog; they share the process handle under a lock, and the last      *)
(* parameters without one.                                                 *)
(***************************************************************************)
EXTENDS FiniteSets, Naturals

CONSTANTS
  Requests,  \* bound: threads serving requests
  Params     \* parameters a start may ask for, without the empty ones

ControlAssumption == "none" \notin Params /\ {"watchdog", "free"} \cap Requests = {}

VARIABLES
  pc,             \* per thread
  local,          \* per thread: what it does, was_running, the parameters it passes on
  proc,           \* _proc's process; "none": no handle, or poll() says that it has ended
  proc_lock,      \* _proc_lock: the thread that holds it
  stray,          \* whether processes run without being _proc's, and how
  last_params,    \* "none" stands for {}, which it is at first and after an empty start
  snapshot_lock

vars == << pc, local, proc, proc_lock, stray, last_params, snapshot_lock >>

-----------------------------------------------------------------------------
Watchdog == "watchdog"
Threads == Requests \cup {Watchdog}
Free == "free"

(* A process that was sent SIGKILL runs on for a moment. *)
Running == {"running", "killed"}

Idle == [op |-> "none", was |-> FALSE, params |-> "none"]

Init ==
  /\ pc = [t \in Threads |-> "idle"]
  /\ local = [t \in Threads |-> Idle]
  /\ proc = "none"
  /\ proc_lock = Free
  /\ stray = {}
  /\ last_params = "none"
  /\ snapshot_lock = FALSE

GoTo(t, to) == pc' = [pc EXCEPT ![t] = to]

Unlocks(t) == snapshot_lock' = IF local[t].op = "snapshot" THEN FALSE ELSE snapshot_lock

(* Return or let an error through: release the lock of a snapshot, forget. *)
Finish(t) ==
  /\ GoTo(t, "idle")
  /\ local' = [local EXCEPT ![t] = Idle]
  /\ Unlocks(t)

(* Go on at "to" with "l" at hand. *)
GoOn(t, to, l) ==
  /\ GoTo(t, to)
  /\ local' = [local EXCEPT ![t] = l]
  /\ UNCHANGED snapshot_lock

(* The sender ends by itself, or of what it was sent. *)
Dies ==
  /\ proc \in Running
  /\ proc' = "none"
  /\ UNCHANGED << pc, local, proc_lock, stray, last_params, snapshot_lock >>

StrayDies ==
  /\ \E s \in stray : stray' = stray \ {s}
  /\ UNCHANGED << pc, local, proc, proc_lock, last_params, snapshot_lock >>

-----------------------------------------------------------------------------
(* What the requests and the watchdog do *)

Begin(t, op, at) ==
  /\ pc[t] = "idle"
  /\ GoTo(t, at)
  /\ local' = [local EXCEPT ![t].op = op]
  /\ UNCHANGED << proc, proc_lock, stray, last_params >>

(* The body of the request may be empty. *)
Start(t) ==
  /\ pc[t] = "idle"
  /\ \E p \in Params \cup {"none"} :
       local' = [local EXCEPT ![t] = [op |-> "start", was |-> FALSE, params |-> p]]
  /\ GoTo(t, "set_params")
  /\ UNCHANGED << proc, proc_lock, stray, last_params, snapshot_lock >>

Stop(t) == Begin(t, "stop", "halt") /\ UNCHANGED snapshot_lock

Snapshot(t) == Begin(t, "snapshot", "look") /\ ~snapshot_lock /\ snapshot_lock' = TRUE

Cameras(t) == Begin(t, "cameras", "look") /\ UNCHANGED snapshot_lock

FixAll(t) == Begin(t, "fix_all", "look") /\ UNCHANGED snapshot_lock

Watch == Begin(Watchdog, "watch", "look") /\ UNCHANGED snapshot_lock

Shoots(t) == local[t].op \in {"snapshot", "cameras"}

(* proc_running, under the lock.  Whoever is to shoot stops a running       *)
(* sender first, whoever is to repair starts one that does not run.        *)
Look(t) ==
  /\ pc[t] = "look" /\ proc_lock = Free
  /\ LET running == proc \in Running
         l == [local[t] EXCEPT !.was = running]
     IN  IF Shoots(t) THEN GoOn(t, IF running THEN "halt" ELSE "shoot", l)
         ELSE IF running THEN Finish(t) ELSE GoOn(t, "check_params", l)
  /\ UNCHANGED << proc, proc_lock, stray, last_params >>

(* The cameras are used one after the other; then a sender that ran before *)
(* is started again.  (What is not read any more is set back.)             *)
Shoot(t) ==
  /\ pc[t] = "shoot"
  /\ IF local[t].was THEN GoOn(t, "check_params", [local[t] EXCEPT !.was = FALSE]) ELSE Finish(t)
  /\ UNCHANGED << proc, proc_lock, stray, last_params >>

(* Empty parameters are taken for none, ... *)
CheckParams(t) ==
  /\ pc[t] = "check_params"
  /\ IF last_params = "none" THEN Finish(t) ELSE GoOn(t, "read_params", local[t])
  /\ UNCHANGED << proc, proc_lock, stray, last_params >>

(* ... read once more to be passed to start_sender, ... *)
ReadParams(t) ==
  /\ pc[t] = "read_params"
  /\ GoOn(t, "set_params", [local[t] EXCEPT !.params = last_params])
  /\ UNCHANGED << proc, proc_lock, stray, last_params >>

(* ... and written back before the lock is taken. *)
SetParams(t) ==
  /\ pc[t] = "set_params"
  /\ last_params' = local[t].params
  /\ GoOn(t, "spawn", [local[t] EXCEPT !.params = "none"])
  /\ UNCHANGED << proc, proc_lock, stray >>

-----------------------------------------------------------------------------
(* start_sender and stop_sender, from taking the lock to releasing it *)

(* A process that runs is terminated and waited for; one that is not gone  *)
(* in time is killed, and not waited for.                                  *)
Enter(t) ==
  /\ pc[t] \in {"halt", "spawn"}
  /\ proc_lock' = t
  /\ IF proc \in Running THEN proc' \in {"none", "killed"} ELSE UNCHANGED proc
  /\ GoTo(t, IF pc[t] = "halt" THEN "forget" ELSE "launch")
  /\ UNCHANGED << local, stray, last_params, snapshot_lock >>

(* Defect: the lock is not waited for. *)
BargeIn(t) == Enter(t)

TakeLock(t) == Enter(t) /\ proc_lock = Free

(* The handle is overwritten: a process of it that still runs is on its own. *)
Replace(by) ==
  /\ proc' = by
  /\ stray' = IF proc \in Running THEN stray \cup {proc} ELSE stray
  /\ proc_lock' = Free

Forget(t) ==
  /\ pc[t] = "forget"
  /\ Replace("none")
  /\ IF Shoots(t) THEN GoOn(t, "shoot", local[t]) ELSE Finish(t)
  /\ UNCHANGED last_params

Launch(t) ==
  /\ pc[t] = "launch"
  /\ Replace("running")
  /\ Finish(t)
  /\ UNCHANGED last_params

(* Defect: the error ends the watchdog. *)
LaunchFailsForGood(t) ==
  /\ pc[t] = "launch"
  /\ proc_lock' = Free
  /\ IF t = Watchdog THEN GoOn(t, "ended", Idle) ELSE Finish(t)
  /\ UNCHANGED << proc, stray, last_params >>

(* The log or the program cannot be opened: the handle stays that of the   *)
(* old process, the error goes to whoever asked.                           *)
LaunchFails(t) ==
  /\ pc[t] = "launch"
  /\ proc_lock' = Free
  /\ Finish(t)
  /\ UNCHANGED << proc, stray, last_params >>

Ask(t) == Start(t) \/ Stop(t) \/ Snapshot(t) \/ Cameras(t) \/ FixAll(t)

Step(t) ==
  \/ Look(t) \/ Shoot(t) \/ CheckParams(t) \/ ReadParams(t) \/ SetParams(t)
  \/ TakeLock(t) \/ Forget(t) \/ Launch(t) \/ LaunchFails(t)

Next ==
  \/ \E t \in Requests : Ask(t)
  \/ Watch
  \/ \E t \in Threads : Step(t)
  \/ Dies \/ StrayDies

(* Requests are worked on, the watchdog looks every 10 s and gets a lock   *)
(* that is free again and again, a program that is started again and again *)
(* starts some time, and one that is killed ends.                          *)
Fairness ==
  /\ WF_vars(Watch) /\ SF_vars(Step(Watchdog)) /\ SF_vars(Launch(Watchdog))
  /\ \A t \in Requests : WF_vars(Step(t))
  /\ WF_vars(proc = "killed" /\ Dies)

Spec == Init /\ [][Next]_vars /\ Fairness

-----------------------------------------------------------------------------
(* The shape of the state. *)
TypeOK ==
  /\ pc \in [Threads -> {"idle", "look", "halt", "shoot", "check_params", "read_params",
                         "set_params", "spawn", "forget", "launch"}]
  /\ proc \in Running \cup {"none"} /\ stray \subseteq Running
  /\ proc_lock \in Threads \cup {Free}
  /\ last_params \in Params \cup {"none"} /\ snapshot_lock \in BOOLEAN

(* Requests and watchdog may start and stop at once: a sender runs that a  *)
(* stop would not end only if it has been killed already.                  *)
OneSender == "running" \notin stray

Shooting == {t \in Threads : local[t].op = "snapshot" /\ pc[t] # "idle"}

(* Two browsers asking for a snapshot do not share the cameras, and the    *)
(* one that is refused may ask again: the lock is held exactly as long as  *)
(* a snapshot goes on, though it end in an error.                          *)
OneSnapshot == Cardinality(Shooting) = (IF snapshot_lock THEN 1 ELSE 0)

(* "restart sender if needed" (mp_control.py:71): once a sender has been   *)
(* asked for, one runs again and again, whatever ends it, and though it    *)
(* could not be started at some time; unless it was asked for without any  *)
(* parameters: these the watchdog takes for nothing asked for.             *)
SenderComesBack == last_params # "none" ~> proc = "running" \/ last_params = "none"

(* "libcamera won't allow parallel access" (mp_control.py:482): while a    *)
(* snapshot uses the cameras, the sender does not.                         *)
CamerasAreExclusive ==
  proc \in Running => \A t \in Threads : ~(local[t].op = "snapshot" /\ pc[t] = "shoot")
=============================================================================
