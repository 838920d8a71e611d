------------------------------ MODULE FileSensor ------------------------------
(***************************************************************************)
(* The file sensor (pkg/filesensor/sensor.go, source_local.go) for one     *)
(* source of files, as cmd/modelsrv/server.go starts and stops it: every   *)
(* file is applied once; then the source is watched, or polled, or left    *)
(* alone.                                                                  *)
(*                                                                         *)
(* A poll lists the files with a token each (ETag or time of last change)  *)
(* and applies those whose token is not the one it saw last.  A watch gets *)
(* notifications, which a timer per file holds back until the file is left *)
(* alone, and passes them on through a bounded channel.  Files are read    *)
(* when they are applied, not when they are listed or notified.            *)
(*                                                                         *)
(* A file is the number of its last write, 0 if it is not there.  To apply *)
(* it is to read it and to add its documents to the model, one step here:  *)
(* only this goroutine applies the file.  That may fail in many ways, all  *)
(* of which are logged and otherwise alike.                                *)
(***************************************************************************)
EXTENDS Integers, Sequences, FiniteSets, Functions

CONSTANTS
  File,
  MaxWrites,     (* bound: writes to the files                             *)
  Token,         (* ETags or times of last change                          *)
  NoToken,       (* the source gives neither                               *)
  TokenOf,       (* the token of a write                                   *)
  ChannelSize

ASSUME SensorAssumption ==
  /\ MaxWrites \in Nat \ {0}
  /\ TokenOf \in [1 .. MaxWrites -> Token] /\ NoToken \notin Token
  /\ ChannelSize \in Nat \ {0}

WriteNumber == 0 .. MaxWrites

(* A source that is configured neither to be watched nor to be polled is   *)
(* applied once.                                                           *)
Mode == {"watch", "poll", "pollBlind", "once"}

VARIABLES
  mode,          (* how the source is configured; it does not change       *)
  disk,          (* the files                                              *)
  writes,        (* writes so far                                          *)
  applied,       (* the write of each file the model has                   *)
  pass,          (* startup, the first pass of a poll, a later one, ...    *)
  todo,          (* the pass under way: the listed files and their writes  *)
  summary,       (* ApplySummary at startup: nothing, or something failed, *)
                 (* or something was applied                               *)
  seen,          (* runPoll: the token of each file                        *)
  notified,      (* fsnotify: the files it has an event for                *)
  timers,        (* the debounce timers and their callbacks, by file       *)
  channel,       (* Changes on their way to runWatch                       *)
  stop,          (* the context is cancelled, the channel closed, ...      *)
  passedOver     (* history: the write of a file that was passed over last *)
                 (* without being applied                                  *)

polling    == << todo, seen >>
watching   == << notified, timers, channel >>
sensorVars == << mode, disk, writes, applied, pass, summary, polling, watching, stop, passedOver >>

Passes == {"startup", "first", "later"}
InPass == DOMAIN todo # {}

(* A timer is in the map, or an orphan: set, but not in the map any more.  *)
(* map is "gone" for a timer that has expired.  A callback is about to     *)
(* take its entry out of the map (firing) or to send (sending).            *)
TimerType ==
  [map : {"none", "set", "gone"}, orphans : Nat, firing : Nat, sending : Nat]

NoTimer == [map |-> "none", orphans |-> 0, firing |-> 0, sending |-> 0]
Settled(f) == timers[f].orphans + timers[f].firing + timers[f].sending = 0 /\ timers[f].map # "set"

SensorInit ==
  /\ mode \in Mode
  /\ disk \in [File -> {0, 1}]
  /\ writes = 1
  /\ applied = [f \in File |-> 0]
  /\ pass = "startup"
  /\ todo = << >>
  /\ summary = "nothing"
  /\ seen = << >>
  /\ notified = {}
  /\ timers = [f \in File |-> NoTimer]
  /\ channel = << >>
  /\ stop = "no"
  /\ passedOver = [f \in File |-> 0]

-----------------------------------------------------------------------------
(***************************************************************************)
(* Somebody writes, removes or renames files.  A watched directory is      *)
(* notified of all but removals.                                           *)
(***************************************************************************)
ChangeFile(f, w) ==
  /\ disk' = [disk EXCEPT ![f] = w]
  /\ \/ notified' = IF pass = "watching" THEN notified \cup {f} ELSE notified
     \/ w = 0 /\ UNCHANGED notified
  /\ UNCHANGED << mode, applied, pass, summary, polling, timers, channel, stop, passedOver >>

WriteFile(f) ==
  /\ writes < MaxWrites
  /\ writes' = writes + 1
  /\ ChangeFile(f, writes + 1)

RemoveFile(f) ==
  /\ disk[f] # 0
  /\ UNCHANGED writes
  /\ ChangeFile(f, 0)

-----------------------------------------------------------------------------
(***************************************************************************)
(* Applying.                                                               *)
(***************************************************************************)

(* What is applied counts for more than what failed.                       *)
Summed(outcome) == IF pass = "startup" /\ summary # "applied" THEN outcome ELSE summary

(* applyOne: the file is read as it is now; that or its parsing may fail.  *)
ApplyOne(f) ==
  \/ /\ disk[f] # 0
     /\ applied' = [applied EXCEPT ![f] = disk[f]]
     /\ summary' = Summed("applied")
     /\ UNCHANGED passedOver
  \/ /\ passedOver' = [passedOver EXCEPT ![f] = disk[f]]
     /\ summary' = Summed("failed")
     /\ UNCHANGED applied

Listing == [f \in {g \in File : disk[g] # 0} |-> disk[f]]

(* What follows a pass.  The server does not start if files failed and     *)
(* none was applied, unless it watches the data directory (ApplyExisting   *)
(* ignores the summary).                                                   *)
NextPass ==
  IF pass # "startup" THEN {"later"} ELSE
    (IF summary' = "failed" THEN {"refused"} ELSE {})
      \cup (IF mode = "watch" THEN {"unwatched"} ELSE {})
      \cup (IF mode = "once" /\ summary' # "failed" THEN {"idle"} ELSE {})
      \cup (IF mode \in {"poll", "pollBlind"} /\ summary' # "failed" THEN {"first"} ELSE {})

(* A pass begins with a list of the files.  If that cannot be had, or is   *)
(* empty, the pass is over.  A select picks at random between the ticker   *)
(* and the cancelled context, so there may be a pass after that.           *)
List ==
  /\ pass \in Passes /\ ~ InPass
  /\ \/ /\ Listing # << >>
        /\ todo' = Listing
        /\ UNCHANGED << pass, summary >>
     \/ /\ Listing = << >>
        /\ UNCHANGED << todo, summary >>
        /\ pass' \in NextPass
     \/ /\ summary' = Summed("failed")
        /\ pass' \in NextPass
        /\ UNCHANGED todo
  /\ UNCHANGED << mode, disk, writes, applied, seen, watching, stop, passedOver >>

(* A file of the list is done with.                                        *)
Done(f) ==
  /\ todo' = Restrict(todo, DOMAIN todo \ {f})
  /\ pass' \in IF DOMAIN todo = {f} THEN NextPass ELSE {pass}

ListedToken(f) == IF mode = "pollBlind" THEN NoToken ELSE TokenOf[todo[f]]

(* Seeded fault: the file is known, whatever its token.                    *)
KnownFile(f) == f \in DOMAIN seen

(* A file without a token is never known.                                  *)
Known(f) == f \in DOMAIN seen /\ ListedToken(f) # NoToken /\ seen[f] = ListedToken(f)

Remember(f) == seen' = [g \in DOMAIN seen \cup {f} |-> IF g = f THEN ListedToken(f) ELSE seen[g]]

(* At startup every file is applied.                                       *)
ApplyAtStartup ==
  /\ pass = "startup"
  /\ \E f \in DOMAIN todo : ApplyOne(f) /\ Done(f)
  /\ UNCHANGED << mode, disk, writes, seen, watching, stop >>

(* The first pass of a poll only records the tokens.                       *)
RecordToken ==
  /\ pass = "first"
  /\ \E f \in DOMAIN todo :
       /\ Remember(f)
       /\ passedOver' = [passedOver EXCEPT ![f] = todo[f]]
       /\ Done(f)
  /\ UNCHANGED << mode, disk, writes, applied, summary, watching, stop >>

SkipKnown ==
  /\ pass = "later"
  /\ \E f \in DOMAIN todo : Known(f) /\ Done(f)
  /\ UNCHANGED << mode, disk, writes, applied, summary, seen, watching, stop, passedOver >>

(* Seeded fault: a file that is new is recorded, as in the first pass.     *)
ApplyUnlessNew(f) ==
  IF f \in DOMAIN seen THEN ApplyOne(f) ELSE UNCHANGED << applied, summary, passedOver >>

ApplyChanged(f) == ApplyOne(f)

(* The token is recorded whether or not the file could be applied.         *)
ApplyListed ==
  /\ pass = "later"
  /\ \E f \in DOMAIN todo :
       /\ ~ Known(f)
       /\ ApplyChanged(f)
       /\ Remember(f)
       /\ Done(f)
  /\ UNCHANGED << mode, disk, writes, watching, stop >>

-----------------------------------------------------------------------------
(***************************************************************************)
(* Watching.                                                               *)
(***************************************************************************)
SetTimer(f, t) == timers' = [timers EXCEPT ![f] = t]

(* LocalSource.Watch adds the directory; what was changed since startup    *)
(* read the file is not noticed.  If that fails, runWatch logs it and      *)
(* returns: nobody looks at the source any more, or polls it instead.      *)
AddWatch ==
  /\ pass = "unwatched"
  /\ \/ /\ pass' = "watching"
        /\ passedOver' = [f \in File |-> IF applied[f] = disk[f] THEN passedOver[f] ELSE disk[f]]
     \/ pass' = "idle" /\ UNCHANGED passedOver
  /\ UNCHANGED << mode, disk, writes, applied, summary, polling, watching, stop >>

(* The queue of notifications overflows: some are lost, and the error that *)
(* tells of it is taken off watcher.Errors and dropped.                    *)
Overflow ==
  /\ stop \in {"no", "cancelled"}
  /\ \E lost \in SUBSET notified \ {{}} :
       /\ notified' = notified \ lost
       /\ passedOver' = [f \in File |-> IF f \in lost THEN disk[f] ELSE passedOver[f]]
  /\ UNCHANGED << mode, disk, writes, applied, pass, summary, polling, timers, channel, stop >>

(* schedule: the timer in the map is stopped, if that is not too late, and *)
(* a new one takes its place.                                              *)
Schedule ==
  /\ stop \in {"no", "cancelled"}
  /\ \E f \in notified :
       /\ notified' = notified \ {f}
       /\ SetTimer(f, [timers[f] EXCEPT !.map = "set"])
  /\ UNCHANGED << mode, disk, writes, applied, pass, summary, polling, channel, stop, passedOver >>

(* A timer expires; its callback runs in a goroutine of its own.           *)
Expire ==
  /\ \E f \in File :
       \/ /\ timers[f].map = "set"
          /\ SetTimer(f, [timers[f] EXCEPT !.map = "gone", !.firing = @ + 1])
       \/ /\ timers[f].orphans > 0
          /\ SetTimer(f, [timers[f] EXCEPT !.orphans = @ - 1, !.firing = @ + 1])
  /\ UNCHANGED << mode, disk, writes, applied, pass, summary, polling, notified, channel, stop,
                  passedOver >>

(* The callback takes the entry out of the map, which may be that of a     *)
(* timer set since; that one will expire all the same.                     *)
Orphaned(t) == IF t.map = "set" THEN t.orphans + 1 ELSE t.orphans

Forget ==
  /\ \E f \in File :
       /\ timers[f].firing > 0
       /\ SetTimer(f, [timers[f] EXCEPT !.map = "none", !.orphans = Orphaned(timers[f]),
                                        !.firing = @ - 1, !.sending = @ + 1])
  /\ UNCHANGED << mode, disk, writes, applied, pass, summary, polling, notified, channel, stop,
                  passedOver >>

Sent(f) == SetTimer(f, [timers[f] EXCEPT !.sending = @ - 1])

(* Seeded fault: the channel is a list.                                    *)
AlwaysRoom == TRUE

Room == Len(channel) < ChannelSize

(* The callback sends, when there is room ...                              *)
Send ==
  /\ stop \in {"no", "cancelled"}
  /\ Room
  /\ \E f \in File :
       /\ timers[f].sending > 0
       /\ Sent(f)
       /\ channel' = Append(channel, f)
  /\ UNCHANGED << mode, disk, writes, applied, pass, summary, polling, notified, stop, passedOver >>

(* Seeded faults: the callback waits for room only; it does not wait.      *)
NoticesNothing == FALSE

NoticesNoRoom == stop # "no" \/ ~ Room

NoticesCancel == stop # "no"

(* ... or does not, if the context is cancelled.                           *)
SendNoMore ==
  /\ NoticesCancel
  /\ \E f \in File : timers[f].sending > 0 /\ Sent(f)
  /\ UNCHANGED << mode, disk, writes, applied, pass, summary, polling, notified, channel, stop,
                  passedOver >>

(* To send to the closed channel is a panic.  The select picks at random   *)
(* among this and the cancelled context.                                   *)
SendToClosed ==
  /\ stop = "closed"
  /\ \E f \in File : timers[f].sending > 0 /\ Sent(f)
  /\ stop' = "panicked"
  /\ UNCHANGED << mode, disk, writes, applied, pass, summary, polling, notified, channel, passedOver >>

(* runWatch applies the file as it is by now.  It may take a change that   *)
(* is in the channel, or see that the context is cancelled.                *)
ApplyNotified ==
  /\ channel # << >>
  /\ ApplyOne(Head(channel))
  /\ channel' = Tail(channel)
  /\ UNCHANGED << mode, disk, writes, pass, polling, notified, timers, stop >>

(* The server stops, once it has started; the goroutine of the watch ends  *)
(* and closes the channel.                                                 *)
CancelSensor ==
  /\ pass \notin {"startup", "refused"}
  /\ stop = "no"
  /\ stop' = "cancelled"
  /\ UNCHANGED << mode, disk, writes, applied, pass, summary, polling, watching, passedOver >>

Close ==
  /\ stop = "cancelled"
  /\ pass = "watching"
  /\ stop' = "closed"
  /\ UNCHANGED << mode, disk, writes, applied, pass, summary, polling, watching, passedOver >>

Poll  == List \/ ApplyAtStartup \/ RecordToken \/ SkipKnown \/ ApplyListed
Watch == AddWatch \/ Overflow \/ Schedule \/ ApplyNotified \/ Close
Call  == Forget \/ Send \/ SendNoMore \/ SendToClosed

SensorNext ==
  /\ stop # "panicked"
  /\ \/ \E f \in File : WriteFile(f) \/ RemoveFile(f)
     \/ Poll \/ Watch \/ Expire \/ Call \/ CancelSensor

(* Polls and watches go on while the server runs, timers expire, and       *)
(* callbacks go on.  Files need not change, and no notification need be    *)
(* lost.  A list that cannot be had is no step of a later pass, so the     *)
(* fairness of Poll asks that the source can be listed again in the end.   *)
SensorFairness ==
  /\ WF_sensorVars(stop = "no" /\ Poll)
  /\ WF_sensorVars(AddWatch) /\ WF_sensorVars(Close)
  /\ WF_sensorVars(stop = "no" /\ Schedule) /\ WF_sensorVars(stop = "no" /\ ApplyNotified)
  /\ WF_sensorVars(Expire)
  /\ WF_sensorVars(Forget) /\ WF_sensorVars(Send) /\ WF_sensorVars(SendNoMore)

SensorSpec == SensorInit /\ [][SensorNext]_sensorVars /\ SensorFairness

-----------------------------------------------------------------------------
(* The type invariant.  At most as many callbacks and timers exist as      *)
(* there were notifications.                                               *)
SensorTypeOK ==
  /\ mode \in Mode
  /\ disk \in [File -> WriteNumber] /\ applied \in [File -> WriteNumber]
  /\ passedOver \in [File -> WriteNumber]
  /\ writes \in WriteNumber
  /\ pass \in Passes \cup {"refused", "unwatched", "watching", "idle"}
  /\ DOMAIN todo \subseteq File /\ \A f \in DOMAIN todo : todo[f] \in 1 .. MaxWrites
  /\ summary \in {"nothing", "failed", "applied"}
  /\ DOMAIN seen \subseteq File /\ \A f \in DOMAIN seen : seen[f] \in Token \cup {NoToken}
  /\ notified \subseteq File
  /\ timers \in [File -> TimerType]
  /\ channel \in Seq(File) /\ Len(channel) <= ChannelSize
  /\ stop \in {"no", "cancelled", "closed", "panicked"}

(* The model has the file as it is, or it was passed over: it could not be *)
(* read or parsed, or the first pass of a poll recorded it, or it changed  *)
(* before the watch was on, or its notification was lost.                  *)
Current(f) == disk[f] = 0 \/ disk[f] \in {applied[f], passedOver[f]}

(***************************************************************************)
(* A token that was seen stands for a file that was applied: if the file   *)
(* still has the token a poll recorded, the poll will not look at it any   *)
(* more, so the model must have it, unless applying it failed or it was    *)
(* recorded by the first pass (sensor.go, runPoll).  In particular a file  *)
(* that changes between being listed and being read is not lost.           *)
(***************************************************************************)
SeenIsApplied ==
  \A f \in DOMAIN seen :
    disk[f] # 0 /\ seen[f] = TokenOf[disk[f]] => Current(f)

(***************************************************************************)
(* A watched file that changed is on its way to the model, however its     *)
(* notifications, the timers that replace each other, and their callbacks  *)
(* interleave (source_local.go, Watch); unless the notification was lost.  *)
(***************************************************************************)
ChangeIsComing ==
  pass = "watching" /\ stop = "no" =>
    \A f \in File :
      Current(f) \/ f \in notified \/ ~ Settled(f) \/ \E i \in DOMAIN channel : channel[i] = f

(***************************************************************************)
(* When the files are left alone, the model has them all in the end, if    *)
(* the source is polled or its watch could be set up, but for what was     *)
(* passed over.  A source that is idle, because it is configured neither   *)
(* way or because its watch failed, does not follow the files at all       *)
(* (MCIdleSource).                                                         *)
(***************************************************************************)
Followed == pass \in Passes \cup {"unwatched", "watching"}

SensorCatchesUp ==
  <>[](stop = "no" /\ Followed) => <>[](\A f \in File : Current(f))

(* The same of every source, however it is configured.                     *)
SourceCatchesUp ==
  <>[](stop = "no" /\ pass # "refused") => <>[](\A f \in File : Current(f))

(***************************************************************************)
(* When the server stops, no callback is left waiting on the channel that  *)
(* nobody reads any more (source_local.go:108).                            *)
(***************************************************************************)
NobodyLeftSending == stop # "no" ~> \A f \in File : timers[f].sending = 0

(* To stop the watch is not to bring the server down: "The watcher runs in *)
(* a background goroutine until ctx is cancelled" (sensor.go:15).          *)
NoPanic == stop # "panicked"

(***************************************************************************)
(* StartSources "assumes the sources were already applied by               *)
(* [ApplySources], so poll loops record the current state without          *)
(* re-applying it" (sensor.go:253): what the first pass of a poll records, *)
(* or the beginning of a watch takes for known, startup had applied or     *)
(* failed to.                                                              *)
(***************************************************************************)
StartupMissesNothing ==
  [][(pass \in {"first", "unwatched"} /\ summary = "applied") =>
       \A f \in File : passedOver'[f] \in {passedOver[f], applied[f]}]_sensorVars

=============================================================================
