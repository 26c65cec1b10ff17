----------------------------- MODULE ToolCalls -----------------------------
(***************************************************************************)
(* The tool calls of one task: the intents and settlements of              *)
(* persistence/src/tool-call-journal.ts, ToolHost.execute                  *)
(* (tool-host/src/host.ts) over the adapter of                             *)
(* ralph-cli/src/tool-journal-adapter.ts, the file tools                   *)
(* (tool-host/src/tools/fs.ts), the durable owner of a command             *)
(* (ralph-cli/src/durable-process-owner.ts), and the reconciliation of     *)
(* unsettled calls before new model work                                   *)
(* (orchestration/src/tool-reconciliation.ts, runner.ts).                  *)
(*                                                                         *)
(* An intent is durable before anything happens and is settled after it    *)
(* happened, so a crash or a lost transport leaves intents whose effect is *)
(* unknown.  executeTool races the host with the signal of the attempt     *)
(* (deadline.ts): when the model call is cancelled the host of a call goes *)
(* on by itself.                                                           *)
(*                                                                         *)
(* Left out: budgets of calls, permission rules (an authorization is a     *)
(* choice), the contents of results, redaction of secrets except that it   *)
(* may make the arguments of a call unrecoverable (Opaque), and the        *)
(* expiry of the owner's lease (a probe may distrust an owner at any time).*)
(***************************************************************************)
EXTENDS Naturals, FiniteSets

CONSTANTS
  Reads, Writes, Processes, Externals,  \* the calls, by risk
  Opaque,       \* calls whose arguments the journal keeps only redacted
  Targets,      \* number of files a write changes, one after the other
  MaxCalls,     \* bound: calls the model makes
  MaxCrashes,   \* bound: crashes of the command and of process owners
  MaxEdits      \* bound: files the user changes

Calls == Reads \cup Writes \cup Processes \cup Externals

ASSUME ToolAssumption ==
  /\ IsFiniteSet(Calls)
  /\ Reads \cap (Writes \cup Processes \cup Externals) = {}
  /\ Writes \cap (Processes \cup Externals) = {}
  /\ Processes \cap Externals = {}
  /\ Opaque \subseteq Calls
  /\ Targets \in Nat \ {0}
  /\ {MaxCalls, MaxCrashes, MaxEdits} \subseteq Nat

None == "none"
Outcomes == {"succeeded", "failed", "denied"}
Files == 1..Targets

VARIABLES
  \* durable
  intent,     \* calls with a row in tool_call_intents
  settled,    \* outcome of the row in tool_call_settlements, or None
  file,       \* content of each target of a write: before, after, other
  life,       \* state of the lifecycle file of a command
  result,     \* the outcome a settled lifecycle carries
  stop,       \* commands with a persisted stop intent
  model,      \* the last model call is "started" in the ledger
  \* processes
  owner,      \* the durable owner of a command
  child,      \* the command itself
  up,         \* the command process of Ralph runs
  takeover,   \* it displaced a dead writer
  work,       \* what it does with the task
  now,        \* calls of the current model call
  host,       \* ToolHost.execute of each call
  written,    \* targets the host of a write has written
  hostRes,    \* the result a host has and has not journalled
  told,       \* what this model call was told last about a call
  todo,       \* reconciliation: calls listed and not decided
  rec,        \* reconciliation: the call being decided
  \* history and bounds
  runs,       \* how often the command or the external effect was started
  applied,    \* targets the tools of a call ever wrote
  crashes, edits

durable == <<intent, settled, file, life, result, stop, model>>
hosts == <<host, written, hostRes, told>>
owners == <<owner, child, runs, life, result>>
control == <<up, takeover, work, now, todo, rec>>
bounds == <<crashes, edits>>
vars == <<intent, settled, file, life, result, stop, model, owner, child, up,
          takeover, work, now, host, written, hostRes, told, todo, rec, runs,
          applied, crashes, edits>>

\* what the reconciliation knows about the call it decides
Rec == [at : Calls \cup {None},
        pc : {None, "probing", "replaying", "writing", "attached", "settling"},
        pos : 0..Targets,
        seen : SUBSET {"before", "after", "other"},
        res : Outcomes \cup {None}]
NoRec == [at |-> None, pc |-> None, pos |-> 0, seen |-> {}, res |-> None]

TypeOK ==
  /\ intent \subseteq Calls
  /\ settled \in [Calls -> Outcomes \cup {None}]
  /\ file \in [Writes -> [Files -> {"before", "after", "other"}]]
  /\ life \in [Processes -> {None, "launching", "starting", "running",
                             "settled"}]
  /\ result \in [Processes -> Outcomes \cup {None}]
  /\ stop \subseteq Processes
  /\ model \in BOOLEAN
  /\ owner \in [Processes -> {None, "spawned", "leased", "watching", "dead",
                              "gone"}]
  /\ child \in [Processes -> {None, "alive", "gone"}]
  /\ up \in BOOLEAN /\ takeover \in BOOLEAN
  /\ work \in {"idle", "reconciling", "working"}
  /\ now \subseteq Calls
  /\ host \in [Calls -> {None, "requested", "started", "planned", "launching",
                         "waiting", "ended"}]
  /\ written \in [Writes -> 0..Targets]
  /\ hostRes \in [Calls -> Outcomes \cup {None}]
  /\ told \in [Calls -> Outcomes \cup {None, "unsettled"}]
  /\ todo \subseteq Calls
  /\ rec \in Rec
  /\ runs \in [Processes \cup Externals -> Nat]
  /\ applied \in [Writes -> SUBSET Files]
  /\ crashes \in 0..MaxCrashes /\ edits \in 0..MaxEdits

Init ==
  /\ intent = {} /\ settled = [c \in Calls |-> None]
  /\ file = [c \in Writes |-> [f \in Files |-> "before"]]
  /\ life = [c \in Processes |-> None]
  /\ result = [c \in Processes |-> None]
  /\ stop = {} /\ model = FALSE
  /\ owner = [c \in Processes |-> None]
  /\ child = [c \in Processes |-> None]
  /\ up = TRUE /\ takeover = FALSE /\ work = "idle" /\ now = {}
  /\ host = [c \in Calls |-> None]
  /\ written = [c \in Writes |-> 0]
  /\ hostRes = [c \in Calls |-> None]
  /\ told = [c \in Calls |-> None]
  /\ todo = {} /\ rec = NoRec
  /\ runs = [c \in Processes \cup Externals |-> 0]
  /\ applied = [c \in Writes |-> {}]
  /\ crashes = 0 /\ edits = 0

----------------------------------------------------------------------------
\* ToolHost.execute.  Every step is an await: hosts of several calls, the
\* owners and the reconciliation interleave.

\* journal.reserve of a call the journal does not know
Reserve(c) ==
  /\ work = "working" /\ c \notin intent /\ Cardinality(intent) < MaxCalls
  /\ intent' = intent \cup {c}
  /\ now' = now \cup {c}
  /\ host' = [host EXCEPT ![c] = "requested"]
  /\ UNCHANGED <<settled, file, life, result, stop, model, owner, child, up,
                 takeover, work, written, hostRes, told, todo, rec, runs,
                 applied, bounds>>

RepeatExecutes(c) ==
  /\ work = "working" /\ c \in now /\ c \in Externals /\ host[c] = "ended"
  /\ host' = [host EXCEPT ![c] = "requested"]
  /\ UNCHANGED <<durable, control, owner, child, told, written, hostRes, runs,
                 applied, bounds>>

\* The provider repeats a call id of this model call: the durable settlement
\* is the answer, and without one nothing is executed again.
Repeat(c) ==
  /\ work = "working" /\ c \in now
  /\ told' = [told EXCEPT ![c] = IF settled[c] = None THEN "unsettled"
                                 ELSE settled[c]]
  /\ UNCHANGED <<durable, control, owner, child, host, written, hostRes, runs,
                 applied, bounds>>

HostAt(c, s) == up /\ host[c] = s
HostEnds(c, r) == /\ host' = [host EXCEPT ![c] = "ended"]
                  /\ hostRes' = [hostRes EXCEPT ![c] = r]

\* validation, authorizeToolCall, journal.authorize and journal.start
Authorize(c) ==
  /\ HostAt(c, "requested")
  /\ \/ host' = [host EXCEPT ![c] = "started"] /\ UNCHANGED hostRes
     \/ \E r \in {"denied", "failed"} : HostEnds(c, r)
  /\ UNCHANGED <<durable, control, owner, child, written, told, runs, applied,
                 bounds>>

\* a read, or a tool that fails or is cancelled before it has any effect
HostNoEffect(c) ==
  /\ HostAt(c, "started")
  /\ \E r \in {"succeeded", "failed"} :
       (r = "succeeded" => c \in Reads) /\ HostEnds(c, r)
  /\ UNCHANGED <<durable, control, owner, child, written, told, runs, applied,
                 bounds>>

\* a write checks the before hash of every target, then replaces them
AllBefore(c) == \A f \in Files : file[c][f] = "before"
HostPlan(c) ==
  /\ c \in Writes /\ HostAt(c, "started")
  /\ IF AllBefore(c)
       THEN host' = [host EXCEPT ![c] = "planned"] /\ UNCHANGED hostRes
       ELSE HostEnds(c, "failed")
  /\ UNCHANGED <<durable, control, owner, child, written, told, runs, applied,
                 bounds>>
HostWrite(c) ==
  /\ c \in Writes /\ HostAt(c, "planned") /\ written[c] < Targets
  /\ file' = [file EXCEPT ![c][written[c] + 1] = "after"]
  /\ applied' = [applied EXCEPT ![c] = @ \cup {written[c] + 1}]
  /\ written' = [written EXCEPT ![c] = @ + 1]
  /\ UNCHANGED <<intent, settled, life, result, stop, model, control, owner,
                 child, host, hostRes, told, runs, bounds>>
HostWriteEnds(c) ==
  /\ c \in Writes /\ HostAt(c, "planned")
  /\ \/ written[c] = Targets /\ HostEnds(c, "succeeded")
     \/ written[c] < Targets /\ HostEnds(c, "failed")
  /\ UNCHANGED <<durable, control, owner, child, written, told, runs, applied,
                 bounds>>

HostExternal(c) ==
  /\ c \in Externals /\ HostAt(c, "started")
  /\ runs' = [runs EXCEPT ![c] = @ + 1]
  /\ \E r \in {"succeeded", "failed"} : HostEnds(c, r)
  /\ UNCHANGED <<durable, control, owner, child, written, told, applied,
                 bounds>>

\* executeDurableProcessParentCall: the exclusive lifecycle file, then the
\* owner.  A stop requested before the spawn is written first.
HostLaunch(c) ==
  /\ c \in Processes /\ HostAt(c, "started")
  /\ IF life[c] = None
       THEN /\ life' = [life EXCEPT ![c] = "launching"]
            /\ host' = [host EXCEPT ![c] = "launching"]
       ELSE /\ host' = [host EXCEPT ![c] = "waiting"]
            /\ UNCHANGED life
  /\ UNCHANGED <<intent, settled, file, result, stop, model, control, owner,
                 child, written, hostRes, told, runs, applied, bounds>>
SpawnOwner(c) ==
  /\ c \in Processes /\ HostAt(c, "launching")
  /\ owner' = [owner EXCEPT ![c] = "spawned"]
  /\ host' = [host EXCEPT ![c] = "waiting"]
  /\ stop' = IF c \in now THEN stop ELSE stop \cup {c}
  /\ UNCHANGED <<intent, settled, file, life, result, model, control, child,
                 written, hostRes, told, runs, applied, bounds>>

\* waitForSettlement: an aborted signal leaves a stop intent, a settled
\* lifecycle is the result, a dead owner, a lapsed lease or a launch that
\* takes too long ends the wait with the call unsettled
HostStop(c) ==
  /\ c \in Processes /\ HostAt(c, "waiting") /\ c \notin now
  /\ life[c] # "settled" /\ c \notin stop
  /\ stop' = stop \cup {c}
  /\ UNCHANGED <<intent, settled, file, life, result, model, control, owner,
                 child, hosts, runs, applied, bounds>>
HostCollect(c) ==
  /\ c \in Processes /\ HostAt(c, "waiting") /\ life[c] = "settled"
  /\ HostEnds(c, result[c])
  /\ UNCHANGED <<durable, control, owner, child, written, told, runs, applied,
                 bounds>>
HostLostSettles(c) ==
  /\ c \in Processes /\ HostAt(c, "waiting") /\ life[c] # "settled"
  /\ HostEnds(c, "failed")
  /\ UNCHANGED <<durable, control, owner, child, written, told, runs, applied,
                 bounds>>
HostLost(c) ==
  /\ c \in Processes /\ HostAt(c, "waiting") /\ life[c] # "settled"
  /\ host' = [host EXCEPT ![c] = None]
  /\ UNCHANGED <<durable, control, owner, child, written, hostRes, told, runs,
                 applied, bounds>>

HostTellsOnly(c) ==
  /\ HostAt(c, "ended")
  /\ told' = IF c \in now THEN [told EXCEPT ![c] = hostRes[c]] ELSE told
  /\ host' = [host EXCEPT ![c] = None]
  /\ hostRes' = [hostRes EXCEPT ![c] = None]
  /\ UNCHANGED <<durable, control, owner, child, written, runs, applied,
                 bounds>>
HostSettleOverwrites(c) ==
  /\ HostAt(c, "ended")
  /\ settled' = [settled EXCEPT ![c] = hostRes[c]]
  /\ told' = IF c \in now THEN [told EXCEPT ![c] = hostRes[c]] ELSE told
  /\ host' = [host EXCEPT ![c] = None]
  /\ hostRes' = [hostRes EXCEPT ![c] = None]
  /\ UNCHANGED <<intent, file, life, result, stop, model, control, owner,
                 child, written, runs, applied, bounds>>
\* journal.settle, its event, then the answer to the model.  A settlement that
\* is already there is never the same (its result carries times): the host
\* throws, as it does when the event cannot be written.  executeTool forwards
\* the answer only while its model call lives.
HostSettle(c) ==
  /\ HostAt(c, "ended")
  /\ settled' = IF settled[c] = None
                  THEN [settled EXCEPT ![c] = hostRes[c]] ELSE settled
  /\ \/ told' = told
     \/ settled[c] = None /\ c \in now /\ told' = [told EXCEPT ![c] = hostRes[c]]
  /\ host' = [host EXCEPT ![c] = None]
  /\ hostRes' = [hostRes EXCEPT ![c] = None]
  /\ UNCHANGED <<intent, file, life, result, stop, model, control, owner,
                 child, written, runs, applied, bounds>>

\* An event, or a row of the journal, cannot be written before the effect or
\* after it: the host throws and the call stays unsettled.
HostThrows(c) ==
  /\ up /\ host[c] \in {"requested", "started", "ended"}
  /\ host' = [host EXCEPT ![c] = None]
  /\ hostRes' = [hostRes EXCEPT ![c] = None]
  /\ UNCHANGED <<durable, control, owner, child, written, told, runs, applied,
                 bounds>>

----------------------------------------------------------------------------
\* ownDurableProcess: a process of its own, which survives the command
\* process.  Its lifecycle file only advances.

KeepOwner == UNCHANGED <<intent, settled, file, stop, model, control, hosts,
                         applied, bounds>>
OwnerLease(c) ==
  /\ owner[c] = "spawned" /\ life[c] = "launching"
  /\ owner' = [owner EXCEPT ![c] = "leased"]
  /\ life' = [life EXCEPT ![c] = "starting"]
  /\ KeepOwner /\ UNCHANGED <<child, runs, result>>

OwnerSettled(c, r) == /\ owner' = [owner EXCEPT ![c] = "gone"]
                      /\ life' = [life EXCEPT ![c] = "settled"]
                      /\ result' = [result EXCEPT ![c] = r]

\* cancelledBeforeStart, or startFailure
OwnerGivesUp(c) ==
  /\ owner[c] = "leased"
  /\ OwnerSettled(c, "failed")
  /\ KeepOwner /\ UNCHANGED <<child, runs>>
OwnerStarts(c) ==
  /\ owner[c] = "leased" /\ c \notin stop
  /\ owner' = [owner EXCEPT ![c] = "watching"]
  /\ child' = [child EXCEPT ![c] = "alive"]
  /\ runs' = [runs EXCEPT ![c] = @ + 1]
  /\ KeepOwner /\ UNCHANGED <<life, result>>
\* the identity of the child becomes durable
OwnerBindsChild(c) ==
  /\ owner[c] = "watching" /\ life[c] = "starting"
  /\ life' = [life EXCEPT ![c] = "running"]
  /\ KeepOwner /\ UNCHANGED <<owner, child, runs, result>>
\* the command ends, by itself, by its time limit or by a stop
ChildExits(c) ==
  /\ child[c] = "alive"
  /\ child' = [child EXCEPT ![c] = "gone"]
  /\ KeepOwner /\ UNCHANGED <<owner, life, runs, result>>
OwnerSettles(c) ==
  /\ owner[c] = "watching" /\ child[c] = "gone"
  /\ \E r \in {"succeeded", "failed"} : OwnerSettled(c, r)
  /\ KeepOwner /\ UNCHANGED <<child, runs>>
OwnerDies(c) ==
  /\ owner[c] \in {"spawned", "leased", "watching"} /\ crashes < MaxCrashes
  /\ owner' = [owner EXCEPT ![c] = "dead"]
  /\ crashes' = crashes + 1
  /\ UNCHANGED <<durable, control, hosts, child, runs, applied, edits>>

----------------------------------------------------------------------------
\* reconcileTaskToolCalls, before a task starts new model work.  The
\* unsettled calls are listed once and decided one after the other.

Unsettled == {c \in intent : settled[c] = None}
KeepRec == UNCHANGED <<intent, life, result, stop, owner, child, up, takeover,
                       hosts, runs, bounds>>
Begin ==
  /\ up /\ work = "idle"
  /\ work' = "reconciling"
  /\ todo' = Unsettled
  /\ KeepRec /\ UNCHANGED <<settled, file, model, now, rec, applied>>

Deciding(s) == work = "reconciling" /\ rec.pc = s
\* paused: the call stays unsettled
Paused == todo' = todo \ {rec.at} /\ rec' = NoRec
Settling(r) == /\ rec' = [rec EXCEPT !.pc = "settling", !.res = r]
               /\ UNCHANGED todo
RecGoes(s) == rec' = [rec EXCEPT !.pc = s, !.pos = 0] /\ UNCHANGED todo

\* automaticStrategyDenial and the choice of the strategy.  External and
\* destructive effects, and calls whose arguments are lost, stay paused.
RecPick(c) ==
  /\ Deciding(None) /\ c \in todo
  /\ \/ /\ c \notin Reads \/ c \in Opaque
        /\ todo' = todo \ {c} /\ UNCHANGED rec
     \/ /\ c \in (Reads \cup Writes) \ Opaque
        /\ rec' = [NoRec EXCEPT !.at = c, !.pc = IF c \in Reads
                                   THEN "replaying" ELSE "probing"]
        /\ UNCHANGED todo
     \/ /\ c \in Processes /\ life[c] = "settled"
        /\ rec' = [NoRec EXCEPT !.at = c, !.pc = "settling",
                                !.res = result[c]]
        /\ UNCHANGED todo
     \/ /\ c \in Processes /\ life[c] \in {"starting", "running"}
        /\ owner[c] \in {"leased", "watching"}
        /\ rec' = [NoRec EXCEPT !.at = c, !.pc = "attached"]
        /\ UNCHANGED todo
  /\ KeepRec /\ UNCHANGED <<settled, file, model, work, now, applied>>

\* probeWorkspaceMutation hashes one target after the other
RecProbe ==
  /\ Deciding("probing") /\ rec.pos < Targets
  /\ rec' = [rec EXCEPT !.pos = @ + 1,
                        !.seen = @ \cup {file[rec.at][rec.pos + 1]}]
  /\ KeepRec /\ UNCHANGED <<settled, file, model, work, now, todo, applied>>
RecDecideAny ==
  /\ Deciding("probing") /\ rec.pos = Targets
  /\ CASE "after" \in rec.seen  -> Settling("succeeded")
       [] rec.seen = {"before"} -> RecGoes("replaying")
       [] OTHER                 -> Paused
  /\ KeepRec /\ UNCHANGED <<settled, file, model, work, now, applied>>
RecDecide ==
  /\ Deciding("probing") /\ rec.pos = Targets
  /\ CASE rec.seen = {"after"}  -> Settling("succeeded")
       [] rec.seen = {"before"} -> RecGoes("replaying")
       [] OTHER                 -> Paused
  /\ KeepRec /\ UNCHANGED <<settled, file, model, work, now, applied>>

\* #replayIntent: the tool runs again in a host with a journal in memory,
\* under the current policy
RecReplay ==
  /\ Deciding("replaying")
  /\ \/ Paused
     \/ \E r \in {"denied", "failed"} : Settling(r)
     \/ rec.at \in Reads /\ Settling("succeeded")
     \/ rec.at \in Writes /\ AllBefore(rec.at) /\ RecGoes("writing")
  /\ KeepRec /\ UNCHANGED <<settled, file, model, work, now, applied>>
RecWrite ==
  /\ Deciding("writing") /\ rec.pos < Targets
  /\ file' = [file EXCEPT ![rec.at][rec.pos + 1] = "after"]
  /\ applied' = [applied EXCEPT ![rec.at] = @ \cup {rec.pos + 1}]
  /\ rec' = [rec EXCEPT !.pos = @ + 1]
  /\ KeepRec /\ UNCHANGED <<settled, model, work, now, todo>>
RecWriteEnds ==
  /\ Deciding("writing")
  /\ Settling(IF rec.pos = Targets THEN "succeeded" ELSE "failed")
  /\ KeepRec /\ UNCHANGED <<settled, file, model, work, now, applied>>

\* an error leaves reconcileUnsettledToolCalls: the task is not started
RecThrows == work' = "idle" /\ todo' = {} /\ rec' = NoRec

RecAttachedBlindly ==
  /\ Deciding("attached")
  /\ life[rec.at] = "settled" /\ Settling(result[rec.at])
  /\ KeepRec /\ UNCHANGED <<settled, file, model, work, now, applied>>
\* reattachDurableProcessIntent waits for the owner, and throws without one
RecAttached ==
  /\ Deciding("attached")
  /\ \/ life[rec.at] = "settled" /\ Settling(result[rec.at])
        /\ UNCHANGED work
     \/ life[rec.at] # "settled" /\ owner[rec.at] = "dead" /\ RecThrows
  /\ KeepRec /\ UNCHANGED <<settled, file, model, now, applied>>

\* settle: a settlement of the host that came first is a conflict
RecSettle ==
  /\ Deciding("settling")
  /\ IF settled[rec.at] = None
       THEN /\ settled' = [settled EXCEPT ![rec.at] = rec.res]
            /\ Paused /\ UNCHANGED work
       ELSE RecThrows /\ UNCHANGED settled
  /\ KeepRec /\ UNCHANGED <<file, model, now, applied>>

\* What is still unsettled forbids new model work; so does a model call that
\* never settled, unless its process is proven dead.
RecEnds ==
  /\ Deciding(None) /\ todo = {}
  /\ LET starts == Unsettled = {} /\ (model => takeover)
     IN /\ work' = IF starts THEN "working" ELSE "idle"
        /\ model' = (model \/ starts)
  /\ KeepRec /\ UNCHANGED <<settled, file, now, todo, rec, applied>>

----------------------------------------------------------------------------
\* The model call and the command process

KeepTools == UNCHANGED <<intent, settled, file, life, result, stop, owner,
                         child, runs, applied, edits>>
\* the conversation ends; hosts that still run are no longer heard
EndCall == now' = {} /\ told' = [c \in Calls |-> None]
Finish ==
  /\ work = "working" /\ \A c \in now : host[c] = None
  /\ work' = "idle" /\ model' = FALSE /\ EndCall
  /\ KeepTools
  /\ UNCHANGED <<up, takeover, todo, rec, host, written, hostRes, crashes>>
\* a deadline or a stop: the backend settles within its grace, or not
Cancel ==
  /\ work = "working"
  /\ work' = "idle" /\ EndCall /\ model' \in BOOLEAN
  /\ KeepTools
  /\ UNCHANGED <<up, takeover, todo, rec, host, written, hostRes, crashes>>
\* The watchdog cancels the model call; once that has settled, the next
\* attempt of the task starts its own.
WatchdogRestart ==
  /\ work = "working" /\ EndCall
  /\ KeepTools
  /\ UNCHANGED <<up, takeover, work, model, todo, rec, host, written, hostRes,
                 crashes>>
LateSettle ==
  /\ up /\ model /\ work # "working"
  /\ model' = FALSE
  /\ KeepTools
  /\ UNCHANGED <<up, takeover, work, now, todo, rec, hosts, crashes>>

\* the process ends, by a crash or, between tasks, in order
Gone(dead) ==
  /\ up /\ crashes < MaxCrashes
  /\ ~dead => work = "idle"
  /\ up' = FALSE /\ takeover' = dead /\ work' = "idle" /\ EndCall
  /\ todo' = {} /\ rec' = NoRec
  /\ host' = [c \in Calls |-> None] /\ written' = [c \in Writes |-> 0]
  /\ hostRes' = [c \in Calls |-> None]
  /\ crashes' = crashes + 1
  /\ KeepTools /\ UNCHANGED model
Restart ==
  /\ ~up /\ up' = TRUE
  /\ KeepTools
  /\ UNCHANGED <<takeover, work, now, model, todo, rec, hosts, crashes>>

\* somebody else changes a file
Edit(c, f) ==
  /\ edits < MaxEdits
  /\ file' = [file EXCEPT ![c][f] = "other"]
  /\ edits' = edits + 1
  /\ UNCHANGED <<intent, settled, life, result, stop, model, owner, child,
                 control, hosts, runs, applied, crashes>>

----------------------------------------------------------------------------
Host(c) == \/ Authorize(c) \/ HostNoEffect(c) \/ HostPlan(c) \/ HostWrite(c)
           \/ HostWriteEnds(c) \/ HostExternal(c) \/ HostLaunch(c)
           \/ SpawnOwner(c) \/ HostStop(c) \/ HostCollect(c) \/ HostLost(c)
           \/ HostSettle(c) \/ HostThrows(c)
Owner(c) == \/ OwnerLease(c) \/ OwnerGivesUp(c) \/ OwnerStarts(c)
            \/ OwnerBindsChild(c) \/ OwnerSettles(c)
Reconcile == \/ \E c \in Calls : RecPick(c)
             \/ RecProbe \/ RecDecide \/ RecReplay \/ RecWrite \/ RecWriteEnds
             \/ RecAttached \/ RecSettle \/ RecEnds

Next == \/ \E c \in Calls : Reserve(c) \/ Repeat(c) \/ Host(c)
        \/ \E c \in Processes : Owner(c) \/ ChildExits(c) \/ OwnerDies(c)
        \/ Begin \/ Reconcile
        \/ Finish \/ Cancel \/ WatchdogRestart \/ LateSettle
        \/ Gone(TRUE) \/ Gone(FALSE) \/ Restart
        \/ \E c \in Writes, f \in Files : Edit(c, f)

\* Promises of a living process and of a living owner are eventually run, and
\* a command ends: its time limit kills it (maximumTimeoutMs).
Fairness == /\ WF_vars(Reconcile)
            /\ \A c \in Processes : WF_vars(Owner(c)) /\ WF_vars(ChildExits(c))

Spec == Init /\ [][Next]_vars /\ Fairness

----------------------------------------------------------------------------
\* A command, and an external effect, is started at most once for an intent,
\* whatever crashes, is repeated by the provider or reconciled afterwards.
StartedAtMostOnce == \A c \in Processes \cup Externals : runs[c] <= 1

\* A settled command is over: neither it nor an owner that could still start
\* it is left (the reason why ToolHost rethrows ToolEffectUnsettledError).
SettledIsOver ==
  \A c \in Processes : settled[c] # None =>
     /\ child[c] # "alive"
     /\ owner[c] \notin {"spawned", "leased", "watching"}

\* A call is settled as succeeded only if its whole effect happened: every
\* target of the write was written, the command or the effect ran.
SuccessIsReal ==
  \A c \in Calls : settled[c] = "succeeded" =>
     /\ c \in Writes => applied[c] = Files
     /\ c \in Processes \cup Externals => runs[c] = 1

\* The model is told an outcome only after it is durable, and a repeated call
\* is told the same one.
ToldIsDurable ==
  \A c \in Calls : told[c] \in Outcomes => settled[c] = told[c]

\* A settlement is never replaced: a late host and the reconciliation of the
\* same call cannot both decide it.
SettlementFinal ==
  [][\A c \in Calls : settled[c] # None => settled'[c] = settled[c]]_vars

\* The reconciliation of a task ends, though it waits for commands that run
\* and for owners that may die.
ReconciliationEnds == work = "reconciling" ~> work # "reconciling"

----------------------------------------------------------------------------
\* The inductive invariant: what an intent, its host, its owner and the
\* reconciliation know of each other at every step.

\* Only a reserved call has a host.
HostsHaveIntents == \A c \in Calls \ intent : host[c] = None

\* An external effect happens when its host leaves "started", never before.
ExternalInv(c) ==
  /\ runs[c] <= 1
  /\ c \notin intent \/ host[c] \in {"requested", "started"} => runs[c] = 0
  /\ "succeeded" \in {hostRes[c], settled[c]} => runs[c] = 1

\* The owner of a command starts it once, and a settled lifecycle is its end.
OwnerInv(c) ==
  /\ life[c] = None => owner[c] = None
  /\ owner[c] \in {None, "spawned", "leased"} => runs[c] = 0 /\ child[c] = None
  /\ owner[c] = "watching" => runs[c] = 1
  /\ runs[c] <= 1
  /\ life[c] = "settled" => owner[c] = "gone" /\ child[c] # "alive"
  /\ result[c] = "succeeded" => runs[c] = 1

\* A host launches one owner, and ends, or is settled, before the launch or
\* after the end of the lifecycle.
CommandInv(c) ==
  /\ c \notin intent => life[c] = None
  /\ host[c] \in {"requested", "started"} => life[c] = None
  /\ host[c] = "launching" => life[c] = "launching" /\ owner[c] = None
  /\ host[c] = "ended" => life[c] \in {None, "settled"}
  /\ settled[c] # None =>
       \/ life[c] = "settled"
       \/ life[c] = None /\ host[c] = None /\ c \in intent
  /\ "succeeded" \in {hostRes[c], settled[c]} => runs[c] = 1

\* A target has the content of the call only if a tool of the call wrote it.
WriteInv(c) ==
  /\ 1..written[c] \subseteq applied[c]
  /\ \A f \in Files : file[c][f] = "after" => f \in applied[c]
  /\ "succeeded" \in {hostRes[c], settled[c]} => applied[c] = Files

\* The reconciliation decides on what was durable when it looked, and that
\* stays so until it settles.
RecInv ==
  /\ rec.pc # None => rec.at \in Calls \ Externals
  /\ rec.pc \in {"probing", "writing"} => rec.at \in Writes
  /\ rec.pc = "replaying" => rec.at \in Reads \cup Writes
  /\ rec.pc = "attached" => rec.at \in Processes
  /\ rec.pc = "probing" /\ rec.seen \subseteq {"after"} =>
       1..rec.pos \subseteq applied[rec.at]
  /\ rec.pc = "writing" => 1..rec.pos \subseteq applied[rec.at]
  /\ rec.pc = "settling" =>
       /\ rec.at \in Processes => life[rec.at] = "settled"
       /\ rec.res = "succeeded" =>
            /\ rec.at \in Processes => runs[rec.at] = 1
            /\ rec.at \in Writes => applied[rec.at] = Files

Inv == /\ TypeOK /\ HostsHaveIntents /\ ToldIsDurable /\ RecInv
       /\ \A c \in Externals : ExternalInv(c)
       /\ \A c \in Processes : OwnerInv(c) /\ CommandInv(c)
       /\ \A c \in Writes : WriteInv(c)
=============================================================================
