------------------------------- MODULE Logger -------------------------------
(***************************************************************************)
(* persistence/persistence.go: a Logger writes operations to a logfile     *)
(* and, when the file is too large, starts another one while a goroutine   *)
(* merges the old files into a snapshot and deletes them.                  *)
(*                                                                         *)
(* There are three threads: the caller (the tree, whose lock makes its     *)
(* calls follow each other), the record goroutine, and at most one         *)
(* snapshotAndDelete goroutine.  Channels are unbuffered, so a send and    *)
(* its receive are one step.  A crash may come between any two steps.      *)
(***************************************************************************)
EXTENDS LogOps

CONSTANTS MaxSize,      \* Limit: operations a logfile may hold; 0 is no limit
          MaxOps,       \* bound: calls of Dump
          MaxStops,     \* bound: calls of Stop, by itself or in Clear
          MaxCrashes    \* bound: crashes

ASSUME LoggerAssumption == {MaxSize, MaxOps, MaxStops, MaxCrashes} \subseteq Nat

VARIABLES tree,       \* what the caller has in memory
          files,      \* the files in dir: timestamp, suffix and contents
          clock,      \* the timestamp the next file gets
          state,      \* Logger.state
          snapping,   \* Logger.snapping
          caller,     \* the caller: where it is, and the operation it dumps
          recorder,   \* the record goroutine, its logfile, what it received
          snapper,    \* the snapshotAndDelete goroutine
          budget      \* what is left of the bounds

vars == <<tree, files, clock, state, snapping, caller, recorder, snapper, budget>>

Ops == {PutOp(k, Nil, v) : k \in Key, v \in Value} \cup {DelOp(k, Nil) : k \in Key}
NoOp == ConfOp(Nil, Nil)

NoRecorder == [pc |-> "none", file |-> 0, op |-> NoOp]
NoSnapper == [pc |-> "none", ts |-> 0, reads |-> {}, todo |-> {}]
NewFile(suffix) == [ts |-> clock, suffix |-> suffix, ops |-> <<>>]
----------------------------------------------------------------------------
(* The files in dir *)

Snapshots(F) == {f \in F : f.suffix = "snap"}

(* Mutant: logs are played whether the snapshot is older or not. *)
Latest_AllLogs(F) ==
  {s \in Snapshots(F) : \A o \in Snapshots(F) : s.ts <= o.ts} \cup {f \in F : f.suffix = "log"}

(***************************************************************************)
(* latest: the snapshot with the smallest timestamp (so says the           *)
(* comparison), if there is one, and the logs after it.                    *)
(***************************************************************************)
Latest(F) ==
  LET first == {s \in Snapshots(F) : \A o \in Snapshots(F) : s.ts <= o.ts}
  IN first \cup {f \in F : f.suffix = "log" /\ \A s \in first : s.ts < f.ts}

(* The operations of the files in the order of their timestamps, which is  *)
(* the order they are played in: the snapshot is older than the logs.      *)
OpsAt(F, t) == IF \E f \in F : f.ts = t THEN (CHOOSE f \in F : f.ts = t).ops ELSE <<>>
UpTo(F, n) ==
  LET ops[t \in 0 .. n] == IF t = 0 THEN <<>> ELSE ops[t - 1] \o OpsAt(F, t) IN ops[n]
Contents(F) == UpTo(F, clock)

(* Play, and what the caller makes of it. *)
Played(F) == Replay(Contents(Latest(F)))

(* What clearOlderThan(t) deletes; unfinished files are not looked at. *)
Older(F, t) == {f \in F : f.suffix \in {"log", "snap"} /\ f.ts < t}

Current == CHOOSE f \in files : f.ts = recorder.file

(* Record: a new logfile, and a goroutine to write it. *)
StartRecording ==
  /\ files' = files \cup {NewFile("log")}
  /\ clock' = clock + 1
  /\ state' = "recording"
  /\ recorder' = [pc |-> "top", file |-> clock, op |-> NoOp]

Init ==
  /\ tree = EmptyTree
  /\ files = {[ts |-> 1, suffix |-> "log", ops |-> <<>>]}
  /\ clock = 2
  /\ state = "recording"
  /\ snapping = 0
  /\ caller = [pc |-> "idle", op |-> NoOp, then |-> "stop", todo |-> {}]
  /\ recorder = [pc |-> "top", file |-> 1, op |-> NoOp]
  /\ snapper = NoSnapper
  /\ budget = [ops |-> MaxOps, stops |-> MaxStops, crashes |-> MaxCrashes]
----------------------------------------------------------------------------
(* The caller *)

(* The tree changes and the operation is handed to the recorder. *)
Dump(op) ==
  /\ caller.pc = "idle" /\ state = "recording" /\ budget.ops > 0
  /\ tree' = Restore(tree, op)
  /\ caller' = [caller EXCEPT !.pc = "dumping", !.op = op]
  /\ budget' = [budget EXCEPT !.ops = @ - 1]
  /\ UNCHANGED <<files, clock, state, snapping, recorder, snapper>>

(* Stop, alone or in Clear (which the tree calls when it is emptied). *)
Stop(then) ==
  /\ caller.pc = "idle" /\ state = "recording" /\ budget.stops > 0
  /\ caller' = [caller EXCEPT !.pc = "stopping", !.then = then]
  /\ tree' = IF then = "clear" THEN EmptyTree ELSE tree
  /\ budget' = [budget EXCEPT !.stops = @ - 1]
  /\ UNCHANGED <<files, clock, state, snapping, recorder, snapper>>

(* Mutant: Stop does not wait for the snapshot. *)
StopLooks_Once ==
  /\ caller.pc = "looking"
  /\ caller' = [caller EXCEPT !.pc = "stopped"]
  /\ UNCHANGED <<tree, files, clock, state, snapping, recorder, snapper, budget>>

(* The loop of Stop: while a snapshot is being made, *)
StopLooks ==
  /\ caller.pc = "looking"
  /\ caller' = [caller EXCEPT !.pc = IF snapping = 1 THEN "locking" ELSE "stopped"]
  /\ UNCHANGED <<tree, files, clock, state, snapping, recorder, snapper, budget>>

(* wait for the next Broadcast. *)
StopWaits ==
  /\ caller.pc = "locking"
  /\ caller' = [caller EXCEPT !.pc = "waiting"]
  /\ UNCHANGED <<tree, files, clock, state, snapping, recorder, snapper, budget>>

(* Clear, after Stop: every file older than now goes, one by one, *)
ClearBegins ==
  /\ caller.pc = "stopped" /\ caller.then = "clear"
  /\ caller' = [caller EXCEPT !.pc = "clearing", !.todo = Older(files, clock)]
  /\ UNCHANGED <<tree, files, clock, state, snapping, recorder, snapper, budget>>

ClearRemoves ==
  /\ caller.pc = "clearing"
  /\ \E f \in caller.todo :
       /\ files' = files \ {f}
       /\ caller' = [caller EXCEPT !.todo = @ \ {f}]
  /\ UNCHANGED <<tree, clock, state, snapping, recorder, snapper, budget>>

(* Play brings the tree back; it runs only when the Logger is stopped. *)
Play ==
  /\ caller.pc = "stopped" /\ caller.then = "restore" /\ state = "stopped"
  /\ tree' = Played(files)
  /\ caller' = [caller EXCEPT !.then = "stop"]
  /\ UNCHANGED <<files, clock, state, snapping, recorder, snapper, budget>>

(* Record again, after a plain Stop, at the end of Clear, or after Play. *)
Record ==
  /\ \/ caller.pc = "stopped" /\ caller.then = "stop"
     \/ caller.pc = "clearing" /\ caller.todo = {}
  /\ StartRecording
  /\ caller' = [caller EXCEPT !.pc = "idle"]
  /\ UNCHANGED <<tree, snapping, snapper, budget>>

CallerStep == StopLooks \/ StopWaits \/ ClearBegins \/ ClearRemoves \/ Play \/ Record
----------------------------------------------------------------------------
(* The record goroutine *)

TooLarge == MaxSize # 0 /\ snapping = 0 /\ Len(Current.ops) > MaxSize

(* swap: the logfile is too large, a snapshot is started. *)
Swap ==
  /\ recorder.pc = "top" /\ TooLarge
  /\ snapping' = 1
  /\ snapper' = [snapper EXCEPT !.pc = "latest"]
  /\ recorder' = [recorder EXCEPT !.pc = "swap"]
  /\ UNCHANGED <<tree, files, clock, state, caller, budget>>

NoSwap ==
  /\ recorder.pc = "top" /\ ~TooLarge
  /\ recorder' = [recorder EXCEPT !.pc = "select"]
  /\ UNCHANGED <<tree, files, clock, state, snapping, caller, snapper, budget>>

(* The rest of swap, once the snapshot's file is there. *)
SwapLog ==
  /\ recorder.pc = "new log"
  /\ files' = files \cup {NewFile("log")}
  /\ clock' = clock + 1
  /\ recorder' = [recorder EXCEPT !.pc = "select", !.file = clock]
  /\ UNCHANGED <<tree, state, snapping, caller, snapper, budget>>

Receive ==
  /\ recorder.pc = "select" /\ caller.pc = "dumping"
  /\ recorder' = [recorder EXCEPT !.pc = "encode", !.op = caller.op]
  /\ caller' = [caller EXCEPT !.pc = "idle", !.op = NoOp]
  /\ UNCHANGED <<tree, files, clock, state, snapping, snapper, budget>>

Encode ==
  /\ recorder.pc = "encode"
  /\ files' = (files \ {Current}) \cup
                {[Current EXCEPT !.ops = Append(@, Written(recorder.op))]}
  /\ recorder' = [recorder EXCEPT !.pc = "poll", !.op = NoOp]
  /\ UNCHANGED <<tree, clock, state, snapping, caller, snapper, budget>>

(* The second select goes round when nobody is stopping. *)
Poll ==
  /\ recorder.pc = "poll" /\ caller.pc # "stopping"
  /\ recorder' = [recorder EXCEPT !.pc = "top"]
  /\ UNCHANGED <<tree, files, clock, state, snapping, caller, snapper, budget>>

Stopped ==
  /\ recorder.pc \in {"select", "poll"} /\ caller.pc = "stopping"
  /\ state' = "stopped"
  /\ recorder' = NoRecorder
  /\ caller' = [caller EXCEPT !.pc = "looking"]
  /\ UNCHANGED <<tree, files, clock, snapping, snapper, budget>>

RecorderStep == Swap \/ NoSwap \/ SwapLog \/ Receive \/ Encode \/ Poll \/ Stopped
----------------------------------------------------------------------------
(* The snapshotAndDelete goroutine *)

SnapLatest ==
  /\ snapper.pc = "latest"
  /\ snapper' = [snapper EXCEPT !.pc = "create", !.reads = Latest(files)]
  /\ UNCHANGED <<tree, files, clock, state, snapping, caller, recorder, budget>>

(* Mutant: the snapshot and the next logfile get the same timestamp. *)
SnapCreate_SameTime ==
  /\ snapper.pc = "create"
  /\ files' = files \cup {NewFile("unfinished")}
  /\ snapper' = [snapper EXCEPT !.pc = "started", !.ts = clock]
  /\ UNCHANGED <<tree, clock, state, snapping, caller, recorder, budget>>

(* The snapshot's file has a suffix that latest does not look at. *)
SnapCreate ==
  /\ snapper.pc = "create"
  /\ files' = files \cup {NewFile("unfinished")}
  /\ clock' = clock + 1
  /\ snapper' = [snapper EXCEPT !.pc = "started", !.ts = clock]
  /\ UNCHANGED <<tree, state, snapping, caller, recorder, budget>>

(* Mutant: the recorder is not told. *)
SnapStarted_Untold ==
  /\ snapper.pc = "started"
  /\ snapper' = [snapper EXCEPT !.pc = "write"]
  /\ UNCHANGED <<tree, files, clock, state, snapping, caller, recorder, budget>>

SnapStarted ==
  /\ snapper.pc = "started" /\ recorder.pc = "swap"
  /\ snapper' = [snapper EXCEPT !.pc = "write"]
  /\ recorder' = [recorder EXCEPT !.pc = "new log"]
  /\ UNCHANGED <<tree, files, clock, state, snapping, caller, budget>>

(* The files listed are merged into it by a Logger of its own. *)
Unfinished == CHOOSE f \in files : f.ts = snapper.ts
SnapWrite ==
  /\ snapper.pc = "write"
  /\ files' = (files \ {Unfinished}) \cup
                {[Unfinished EXCEPT !.ops = Snapshot(Contents(snapper.reads))]}
  /\ snapper' = [snapper EXCEPT !.pc = "rename", !.reads = {}]
  /\ UNCHANGED <<tree, clock, state, snapping, caller, recorder, budget>>

SnapRename ==
  /\ snapper.pc = "rename"
  /\ files' = (files \ {Unfinished}) \cup {[Unfinished EXCEPT !.suffix = "snap"]}
  /\ snapper' = [snapper EXCEPT !.pc = "clear", !.todo = Older(files, snapper.ts)]
  /\ UNCHANGED <<tree, clock, state, snapping, caller, recorder, budget>>

(* clearOlderThan deletes in the order of the directory, which is any. *)
SnapRemove ==
  /\ snapper.pc = "clear"
  /\ \E f \in snapper.todo :
       /\ files' = files \ {f}
       /\ snapper' = [snapper EXCEPT !.todo = @ \ {f}]
  /\ UNCHANGED <<tree, clock, state, snapping, caller, recorder, budget>>

(* The deferred calls, last first: Broadcast, *)
SnapBroadcast ==
  /\ snapper.pc = "clear" /\ snapper.todo = {}
  /\ snapper' = [snapper EXCEPT !.pc = "done"]
  /\ caller' = [caller EXCEPT !.pc = IF @ = "waiting" THEN "looking" ELSE @]
  /\ UNCHANGED <<tree, files, clock, state, snapping, recorder, budget>>

(* then snapping = 0. *)
SnapDone ==
  /\ snapper.pc = "done"
  /\ snapping' = 0
  /\ snapper' = NoSnapper
  /\ UNCHANGED <<tree, files, clock, state, caller, recorder, budget>>

SnapperStep ==
  \/ SnapLatest \/ SnapCreate \/ SnapStarted \/ SnapWrite \/ SnapRename
  \/ SnapRemove \/ SnapBroadcast \/ SnapDone
----------------------------------------------------------------------------
(* Crash and restart *)

Crash ==
  /\ caller.pc # "down" /\ budget.crashes > 0
  /\ caller' = [pc |-> "down", op |-> NoOp, then |-> "stop", todo |-> {}]
  /\ tree' = EmptyTree
  /\ state' = "stopped"
  /\ snapping' = 0
  /\ recorder' = NoRecorder
  /\ snapper' = NoSnapper
  /\ budget' = [budget EXCEPT !.crashes = @ - 1]
  /\ UNCHANGED <<files, clock>>

(* Tree.Log starts recording; Tree.Restore stops that, plays and records. *)
Restart ==
  /\ caller.pc = "down"
  /\ StartRecording
  /\ caller' = [caller EXCEPT !.pc = "stopping", !.then = "restore"]
  /\ UNCHANGED <<tree, snapping, snapper, budget>>

Next ==
  \/ CallerStep \/ RecorderStep \/ SnapperStep
  \/ Crash \/ Restart
  \/ \E op \in Ops : Dump(op)
  \/ \E then \in {"stop", "clear"} : Stop(then)

Spec == Init /\ [][Next]_vars

(* Go's scheduler lets every goroutine that can run do so. *)
Fairness == WF_vars(CallerStep) /\ WF_vars(RecorderStep) /\ WF_vars(SnapperStep)
FairSpec == Spec /\ Fairness
----------------------------------------------------------------------------
(* A file's timestamp is in the past, and tells it from all others: it is  *)
(* the name that createLogger gives it.                                    *)
TypeOK ==
  /\ state \in {"stopped", "recording"} /\ snapping \in {0, 1} /\ clock \in Nat
  /\ \A f \in files : f.ts < clock /\ f.suffix \in {"log", "snap", "unfinished"}
  /\ \A f, g \in files : f.ts = g.ts => f = g
  /\ caller.pc \in {"idle", "dumping", "stopping", "looking", "locking", "waiting", "stopped",
                    "clearing", "down"}
  /\ recorder.pc \in {"none", "top", "swap", "new log", "select", "encode", "poll"}
  /\ snapper.pc \in {"none", "latest", "create", "started", "write", "rename", "clear", "done"}

(* Play and Clear have the files for themselves, and the logfile that the  *)
(* recorder writes to is there, and newer than all that a snapshot or its  *)
(* clean-up may touch.                                                     *)
FilesAreSafe ==
  /\ caller.pc \in {"stopped", "clearing"} => recorder.pc = "none" /\ snapper.pc = "none"
  /\ recorder.pc \in {"top", "swap", "select", "encode", "poll"} =>
       /\ \E f \in files : f.ts = recorder.file /\ f.suffix = "log"
       /\ \A f \in files : f.suffix \in {"log", "snap"} => f.ts <= recorder.file

(* What is on its way from the caller to the logfile. *)
Applied(t, op) == IF op = NoOp THEN t ELSE Restore(t, op)
InMemory ==
  Applied(Applied(Played(files), recorder.op), IF caller.pc = "dumping" THEN caller.op ELSE NoOp)

(* The tree is what was restored and changed since: not while the process  *)
(* is down or restoring, or while Clear is at work.                        *)
Settled == /\ caller.pc # "down" /\ caller.then # "restore"
           /\ caller.then = "clear" => caller.pc \in {"idle", "dumping"}

(* Whatever the recorder and the snapshot are in the middle of, a crash    *)
(* now would lose at most what has not reached the logfile yet.            *)
NothingLost == Settled => InMemory = tree

(* The same while there is one snapshot at most, which is when no crash    *)
(* or running clearOlderThan has left an old one beside a new one.         *)
NothingLostWithOneSnapshot ==
  Settled /\ Cardinality(Snapshots(files)) <= 1 => InMemory = tree

(* Dump and Stop are heard by the recorder in the end, also when they meet *)
(* the start of a snapshot.                                                *)
RecorderListens == caller.pc \in {"dumping", "stopping"} ~> caller.pc \notin {"dumping", "stopping"}
============================================================================
