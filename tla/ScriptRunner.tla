----------------------------- MODULE ScriptRunner -----------------------------
(***************************************************************************)
(* execute_script of alert.rs: when a script is configured every payload   *)
(* gets a task of its own, which spawns the script, writes the payload to  *)
(* its standard input and waits for it, at most Timeout seconds.  A task   *)
(* that cannot spawn, write or wait gives up and leaves a script it        *)
(* spawned to itself.                                                      *)
(*                                                                         *)
(* Tasks run promptly: a client lets the clock go on only when no task has *)
(* a step that is due.  What a script does, and when it exits, is free.    *)
(***************************************************************************)
EXTENDS Integers

CONSTANTS
  Timeout,  \* the seconds a task waits for its script, 30 in the code
  Sizes     \* of payloads: a small one fits the pipe, a large one does not

ASSUME TimeoutAssumption == Timeout \in Nat

ASSUME SizesAssumption == Sizes \subseteq {"small", "large"}

VARIABLES
  clock,  \* the current second
  tasks   \* the tasks that are not over, or whose script is still running

\* `id` is the second of the payload, `since` that of the last step.
Task ==
  [id : Nat, size : Sizes, stage : {"queued", "writing", "waiting", "over"},
   script : {"none", "running", "gone"}, since : Nat]

\* AlertManager::script_path, an option.
ScriptPath == SUBSET {"script"}

NewTask(id, size) ==
  [id |-> id, size |-> size, stage |-> "queued", script |-> "none", since |-> id]

\* The tasks spawned for a payload: none without a script.
ExecuteScript(path, id, size) == {NewTask(id, size) : script \in path}

Forgotten(task) == task.stage = "over" /\ task.script # "running"

Becomes(task, changed) ==
  tasks' = {t \in (tasks \ {task}) \cup {changed} : ~Forgotten(t)}

Enters(task, stage, script) ==
  Becomes(task, [task EXCEPT !.stage = stage, !.script = script, !.since = clock])

\* Mutant of Expired: the timeout comes a second late.
ExpiredLate(task) == clock - task.since > Timeout

Expired(task) == clock - task.since >= Timeout

Spawn(task) ==
  /\ task.stage = "queued"
  /\ \/ Enters(task, "writing", "running")
     \/ Enters(task, "over", "none")

\* A payload that fits the pipe is written at once; the rest of a larger one
\* when the script reads.
Write(task) ==
  /\ task.stage = "writing" /\ task.script = "running"
  /\ Enters(task, "waiting", "running")

\* The script has exited or closed its input.
WriteFails(task) ==
  /\ task.stage = "writing"
  /\ Enters(task, "over", task.script)

ScriptExits(task) ==
  /\ task.script = "running"
  /\ Becomes(task, [task EXCEPT !.script = "gone"])

\* child.wait() returns a status.
Reap(task) ==
  /\ task.stage = "waiting" /\ task.script = "gone"
  /\ Enters(task, "over", "gone")

\* child.wait() returns an error, whatever the script does.
WaitFails(task) ==
  /\ task.stage = "waiting"
  /\ Enters(task, "over", task.script)

\* The wait times out and the script is killed.
Kill(task) ==
  /\ task.stage = "waiting" /\ task.script = "running"
  /\ Expired(task)
  /\ Enters(task, "over", "gone")

ScriptStep(task) ==
  \/ Spawn(task) \/ Write(task) \/ WriteFails(task)
  \/ ScriptExits(task) \/ Reap(task) \/ WaitFails(task) \/ Kill(task)

\* A step of the task that does not wait for its script.
Due(task) ==
  \/ task.stage = "queued"
  \/ task.stage = "writing" /\ (task.size = "small" \/ task.script = "gone")
  \/ task.stage = "waiting" /\ (task.script = "gone" \/ Expired(task))

\* A script no task waits for: it may run for ever.
Unsupervised(task) == task.stage # "waiting"

\* The timeout began only when the script had read the last of the payload.
ReadLate(task) == task.stage = "waiting" /\ task.since > task.id
=============================================================================
