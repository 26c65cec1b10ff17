-------------------------- MODULE ToolCallsProofs --------------------------
(***************************************************************************)
(* TLAPS proofs about ToolCalls, for any sets of calls of each risk, any   *)
(* number of targets, and any number of calls, crashes and edits.  Inv is  *)
(* inductive: one lemma per action shows that the action preserves it, and *)
(* the theorems at the end follow from Inv.  A lemma treats the parts of   *)
(* Inv that its action can disturb; the frame lemmas give the others.      *)
(***************************************************************************)
EXTENDS ToolCalls, TLAPS

USE ToolAssumption
USE DEF None, Outcomes, Files, Calls, durable, hosts, owners, control, bounds

Externally == \A c \in Externals : ExternalInv(c)
Owned == \A c \in Processes : OwnerInv(c)
Commanded == \A c \in Processes : CommandInv(c)
Written == \A c \in Writes : WriteInv(c)

\* Inv, part by part.
LEMMA Parts ==
  Inv <=> /\ TypeOK /\ HostsHaveIntents /\ ToldIsDurable /\ RecInv
          /\ Externally /\ Owned /\ Commanded /\ Written
  BY DEF Inv, Externally, Owned, Commanded, Written

\* The same of the state after a step.
LEMMA PartsThen ==
  Inv' <=> /\ TypeOK' /\ HostsHaveIntents' /\ ToldIsDurable' /\ RecInv'
           /\ Externally' /\ Owned' /\ Commanded' /\ Written'
  BY DEF Inv, Externally, Owned, Commanded, Written

----------------------------------------------------------------------------
(* Frame lemmas: what each part of Inv depends on. *)

\* Hosts and intents.
LEMMA HostsFrame ==
  ASSUME Inv, UNCHANGED <<intent, host>> PROVE HostsHaveIntents'
  BY DEF Inv, HostsHaveIntents

\* What the model was told.
LEMMA ToldFrame ==
  ASSUME Inv, UNCHANGED <<settled, told>> PROVE ToldIsDurable'
  BY DEF Inv, ToldIsDurable

\* External effects.
LEMMA ExternalFrame ==
  ASSUME Inv, UNCHANGED <<intent, host, hostRes, settled, runs>>
  PROVE  Externally'
  BY DEF Inv, Externally, ExternalInv

\* Owners of commands.
LEMMA OwnerFrame ==
  ASSUME Inv, UNCHANGED <<life, owner, child, runs, result>>
  PROVE  Owned'
  BY DEF Inv, Owned, OwnerInv

\* Hosts of commands.
LEMMA CommandFrame ==
  ASSUME Inv, UNCHANGED <<intent, life, host, hostRes, owner, settled, runs>>
  PROVE  Commanded'
  BY DEF Inv, Commanded, CommandInv

\* Files.
LEMMA WriteFrame ==
  ASSUME Inv, UNCHANGED <<file, written, applied, hostRes, settled>>
  PROVE  Written'
  BY DEF Inv, Written, WriteInv

\* What a reconciliation relies on only grows: more targets are written, and
\* a settled lifecycle stays settled, its command started as often as before.
LEMMA RecFrame ==
  ASSUME Inv, rec' = rec, applied' \in [Writes -> SUBSET Files],
         \A c \in Writes : applied[c] \subseteq applied'[c],
         \A c \in Processes : life[c] = "settled" =>
                                 life'[c] = "settled" /\ runs'[c] = runs[c]
  PROVE  RecInv'
  <1>. DEFINE x == rec.at
  <1>1. RecInv /\ applied \in [Writes -> SUBSET Files]
    BY DEF Inv, TypeOK
  <1>2. rec.pc = "probing" /\ rec.seen \subseteq {"after"} =>
          1..rec.pos \subseteq applied'[x]
    BY <1>1 DEF RecInv
  <1>3. rec.pc = "writing" => 1..rec.pos \subseteq applied'[x]
    BY <1>1 DEF RecInv
  <1>4. rec.pc = "settling" /\ rec.res = "succeeded" /\ x \in Writes =>
          applied'[x] = Files
    BY <1>1 DEF RecInv
  <1>5. rec.pc = "settling" /\ x \in Processes =>
          life'[x] = "settled" /\ (rec.res = "succeeded" => runs'[x] = 1)
    BY <1>1 DEF RecInv
  <1>. QED
    BY <1>1, <1>2, <1>3, <1>4, <1>5 DEF RecInv

\* The reconciliation is unchanged, and so is what it relies on.
LEMMA RecSame ==
  ASSUME Inv, UNCHANGED <<rec, life, runs, applied>> PROVE RecInv'
  BY RecFrame DEF Inv, TypeOK

----------------------------------------------------------------------------
(* What the reconciliation does to its record. *)

RecPcs == {None, "probing", "replaying", "writing", "attached", "settling"}

\* Nothing is being decided.
LEMMA NoRecType == NoRec \in Rec /\ NoRec.pc = None
  BY DEF NoRec, Rec

\* A decision begins.
LEMMA RecOpens ==
  ASSUME NEW r, NEW c \in Calls, NEW s \in RecPcs,
         r = [NoRec EXCEPT !.at = c, !.pc = s]
  PROVE  r \in Rec /\ r.at = c /\ r.pc = s /\ r.pos = 0
  <1>. DEFINE n == NoRec
  <1>1. n \in Rec /\ n.pos = 0
    BY DEF NoRec, Rec
  <1>. HIDE DEF n
  <1>2. r = [n EXCEPT !.at = c, !.pc = s]
    BY DEF n
  <1>. QED
    BY <1>1, <1>2 DEF Rec, RecPcs

\* A decision that is made at once.
LEMMA RecOpensSettling ==
  ASSUME NEW c \in Calls, result[c] \in Outcomes \cup {None},
         rec' = [NoRec EXCEPT !.at = c, !.pc = "settling", !.res = result[c]]
  PROVE  /\ rec' \in Rec /\ rec'.at = c /\ rec'.pc = "settling"
         /\ rec'.res = result[c]
  <1>. DEFINE n == NoRec
  <1>1. n \in Rec
    BY DEF NoRec, Rec
  <1>. HIDE DEF n
  <1>2. rec' = [n EXCEPT !.at = c, !.pc = "settling", !.res = result[c]]
    BY DEF n
  <1>. QED
    BY <1>1, <1>2 DEF Rec

\* A decision is made.
LEMMA RecSettles ==
  ASSUME rec \in Rec, NEW v \in Outcomes \cup {None}, Settling(v)
  PROVE  /\ rec' \in Rec /\ rec'.at = rec.at /\ rec'.pc = "settling"
         /\ rec'.res = v /\ todo' = todo
  BY DEF Rec, Settling

\* A decision goes on to its next phase.
LEMMA RecMoves ==
  ASSUME rec \in Rec, NEW s \in RecPcs, RecGoes(s)
  PROVE  /\ rec' \in Rec /\ rec'.at = rec.at /\ rec'.pc = s /\ rec'.pos = 0
         /\ todo' = todo
  <1>1. 0 \in 0..Targets
    BY ToolAssumption
  <1>. QED
    BY <1>1 DEF Rec, RecPcs, RecGoes

\* The next target is looked at.
LEMMA RecLooks ==
  ASSUME NEW r \in Rec, NEW q, NEW e \in {"before", "after", "other"},
         r.pos < Targets,
         q = [r EXCEPT !.pos = @ + 1, !.seen = @ \cup {e}]
  PROVE  /\ q \in Rec /\ q.at = r.at /\ q.pc = r.pc
         /\ q.pos = r.pos + 1 /\ q.seen = r.seen \cup {e}
  <1>1. r.pos + 1 \in 0..Targets
    BY DEF Rec
  <1>2. r.seen \cup {e} \in SUBSET {"before", "after", "other"}
    BY DEF Rec
  <1>. QED
    BY <1>1, <1>2 DEF Rec

\* The next target is written.
LEMMA RecWrites ==
  ASSUME NEW r \in Rec, NEW q, r.pos < Targets, q = [r EXCEPT !.pos = @ + 1]
  PROVE  q \in Rec /\ q.at = r.at /\ q.pc = r.pc /\ q.pos = r.pos + 1
  <1>1. r.pos + 1 \in 0..Targets
    BY DEF Rec
  <1>. QED
    BY <1>1 DEF Rec

----------------------------------------------------------------------------
(* What a tool does to the targets of a write. *)

\* Target k of call c is written: file and history keep their types, and
\* nothing but target k changes.
LEMMA TargetWritten ==
  ASSUME TypeOK, NEW c \in Writes, NEW k \in Files,
         file' = [file EXCEPT ![c][k] = "after"],
         applied' = [applied EXCEPT ![c] = @ \cup {k}]
  PROVE  /\ file' \in [Writes -> [Files -> {"before", "after", "other"}]]
         /\ applied' \in [Writes -> SUBSET Files]
         /\ \A x \in Writes : applied'[x] = IF x = c THEN applied[x] \cup {k}
                                                     ELSE applied[x]
         /\ \A x \in Writes, g \in Files :
              file'[x][g] = IF x = c /\ g = k THEN "after" ELSE file[x][g]
  <1>1. /\ file \in [Writes -> [Files -> {"before", "after", "other"}]]
        /\ applied \in [Writes -> SUBSET Files]
    BY DEF TypeOK
  <1>2. [file[c] EXCEPT ![k] = "after"]
          \in [Files -> {"before", "after", "other"}]
    BY <1>1
  <1>3. file' \in [Writes -> [Files -> {"before", "after", "other"}]]
    BY <1>1, <1>2
  <1>4. /\ applied' \in [Writes -> SUBSET Files]
        /\ \A x \in Writes : applied'[x] = IF x = c THEN applied[x] \cup {k}
                                                    ELSE applied[x]
    BY <1>1
  <1>5. \A x \in Writes, g \in Files :
          file'[x][g] = IF x = c /\ g = k THEN "after" ELSE file[x][g]
    BY <1>1
  <1>. QED
    BY <1>3, <1>4, <1>5

\* Then every target with the content of the call was written by it.
LEMMA TargetsKept ==
  ASSUME Inv, NEW c \in Writes, NEW k \in Files,
         file' = [file EXCEPT ![c][k] = "after"],
         applied' = [applied EXCEPT ![c] = @ \cup {k}],
         UNCHANGED <<hostRes, settled>>,
         \A x \in Writes : \/ written'[x] = written[x]
                           \/ x = c /\ k = written[x] + 1 /\ written'[x] = k
  PROVE  Written'
  <1>. SUFFICES ASSUME NEW x \in Writes PROVE WriteInv(x)'
    BY DEF Written
  <1>1. WriteInv(x) /\ TypeOK
    BY DEF Inv
  <1>2. applied[x] \subseteq applied'[x] /\ applied'[x] \subseteq Files
    BY ZenonT(60), <1>1, TargetWritten
  <1>3. 1..written'[x] \subseteq applied'[x]
    <2>1. CASE written'[x] = written[x]
      BY <1>1, <1>2, <2>1 DEF WriteInv
    <2>2. CASE x = c /\ k = written[x] + 1 /\ written'[x] = k
      <3>1. written[x] \in Nat /\ 1..written[x] \subseteq applied[x]
        BY <1>1 DEF TypeOK, WriteInv
      <3>2. k \in applied'[x]
        BY ZenonT(30), <1>1, <2>2, TargetWritten
      <3>3. 1..written'[x] = (1..written[x]) \cup {k}
        BY <2>2, <3>1
      <3>. QED
        BY <1>2, <3>1, <3>2, <3>3
    <2>. QED
      BY <2>1, <2>2
  <1>4. \A g \in Files : file'[x][g] = "after" => g \in applied'[x]
    <2>. SUFFICES ASSUME NEW g \in Files, file'[x][g] = "after"
                  PROVE  g \in applied'[x]
      OBVIOUS
    <2>1. CASE x = c /\ g = k
      BY ZenonT(30), <1>1, <2>1, TargetWritten
    <2>2. CASE ~(x = c /\ g = k)
      <3>1. file[x][g] = "after"
        BY <1>1, <2>2, TargetWritten
      <3>. QED
        BY <1>1, <1>2, <3>1 DEF WriteInv
    <2>. QED
      BY <2>1, <2>2
  <1>5. "succeeded" \in {hostRes'[x], settled'[x]} => applied'[x] = Files
    BY <1>1, <1>2 DEF WriteInv
  <1>. QED
    BY <1>3, <1>4, <1>5 DEF WriteInv

----------------------------------------------------------------------------
(* One lemma per action. *)

\* Nothing is reserved, owned or told at first.
LEMMA InitInv == Init => Inv
  <1>. SUFFICES ASSUME Init PROVE Inv
    OBVIOUS
  <1>1. TypeOK
    <2>1. rec \in Rec
      BY NoRecType DEF Init
    <2>2. /\ file \in [Writes -> [Files -> {"before", "after", "other"}]]
          /\ applied \in [Writes -> SUBSET Files]
          /\ written \in [Writes -> 0..Targets]
      BY DEF Init
    <2>3. /\ runs \in [Processes \cup Externals -> Nat]
          /\ told \in [Calls -> Outcomes \cup {None, "unsettled"}]
          /\ crashes \in 0..MaxCrashes /\ edits \in 0..MaxEdits
      BY DEF Init
    <2>. QED
      BY <2>1, <2>2, <2>3 DEF Init, TypeOK
  <1>2. HostsHaveIntents /\ ToldIsDurable /\ RecInv
    BY DEF Init, HostsHaveIntents, ToldIsDurable, RecInv, NoRec
  <1>3. \A c \in Externals : ExternalInv(c)
    BY DEF Init, ExternalInv
  <1>4. \A c \in Processes : OwnerInv(c) /\ CommandInv(c)
    BY DEF Init, OwnerInv, CommandInv
  <1>5. \A c \in Writes : WriteInv(c)
    BY DEF Init, WriteInv
  <1>. QED
    BY <1>1, <1>2, <1>3, <1>4, <1>5 DEF Inv

\* A new intent has no owner, no effect and no settlement.
LEMMA ReserveStep ==
  ASSUME Inv, NEW c \in Calls, Reserve(c)
  PROVE  Inv'
  <1>1. TypeOK'
    BY DEF Inv, TypeOK, Reserve
  <1>2. HostsHaveIntents'
    BY DEF Inv, TypeOK, HostsHaveIntents, Reserve
  <1>3. Externally'
    BY DEF Inv, TypeOK, HostsHaveIntents, Externally, ExternalInv, Reserve
  <1>4. Commanded'
    BY DEF Inv, TypeOK, HostsHaveIntents, OwnerInv, Commanded, CommandInv,
           Reserve
  <1>5. ToldIsDurable' /\ RecInv' /\ Owned' /\ Written'
    BY ToldFrame, RecSame, OwnerFrame, WriteFrame DEF Reserve
  <1>. QED
    BY <1>1, <1>2, <1>3, <1>4, <1>5, PartsThen

\* A repeated call is answered from its settlement.
LEMMA RepeatStep ==
  ASSUME Inv, NEW c \in Calls, Repeat(c)
  PROVE  Inv'
  <1>1. TypeOK'
    BY DEF Inv, TypeOK, Repeat
  <1>2. ToldIsDurable'
    BY DEF Inv, TypeOK, ToldIsDurable, Repeat
  <1>3. /\ HostsHaveIntents' /\ RecInv' /\ Externally'
        /\ Owned' /\ Commanded' /\ Written'
    BY HostsFrame, RecSame, ExternalFrame, OwnerFrame, CommandFrame,
       WriteFrame DEF Repeat
  <1>. QED
    BY <1>1, <1>2, <1>3, PartsThen

\* The host starts, or ends before anything happened.
LEMMA AuthorizeStep ==
  ASSUME Inv, NEW c \in Calls, Authorize(c)
  PROVE  Inv'
  <1>1. TypeOK'
    <2>1. host' \in [Calls -> {None, "requested", "started", "planned", "launching",
                              "waiting", "ended"}]
      BY ZenonT(30) DEF Inv, TypeOK, Authorize, HostEnds
    <2>2. hostRes' \in [Calls -> Outcomes \cup {None}]
      BY ZenonT(30) DEF Inv, TypeOK, Authorize, HostEnds
    <2>. QED
      BY <2>1, <2>2 DEF Inv, TypeOK, Authorize
  <1>2. HostsHaveIntents'
    BY DEF Inv, TypeOK, HostsHaveIntents, Authorize, HostAt, HostEnds
  <1>3. Externally'
    BY DEF Inv, TypeOK, HostsHaveIntents, Externally, ExternalInv, Authorize,
           HostAt, HostEnds
  <1>4. Commanded'
    BY DEF Inv, TypeOK, HostsHaveIntents, OwnerInv, Commanded, CommandInv,
           Authorize, HostAt, HostEnds
  <1>5. Written'
    BY DEF Inv, TypeOK, Written, WriteInv, Authorize, HostAt, HostEnds
  <1>6. ToldIsDurable' /\ RecInv' /\ Owned'
    BY ToldFrame, RecSame, OwnerFrame DEF Authorize
  <1>. QED
    BY <1>1, <1>2, <1>3, <1>4, <1>5, <1>6, PartsThen

\* A tool that had no effect succeeds only as a read.
LEMMA HostNoEffectStep ==
  ASSUME Inv, NEW c \in Calls, HostNoEffect(c)
  PROVE  Inv'
  <1>1. TypeOK'
    BY DEF Inv, TypeOK, HostNoEffect, HostAt, HostEnds
  <1>2. HostsHaveIntents'
    BY DEF Inv, TypeOK, HostsHaveIntents, HostNoEffect, HostAt, HostEnds
  <1>3. Externally'
    BY DEF Inv, TypeOK, HostsHaveIntents, Externally, ExternalInv,
           HostNoEffect, HostAt, HostEnds
  <1>4. Commanded'
    BY DEF Inv, TypeOK, HostsHaveIntents, OwnerInv, Commanded, CommandInv,
           HostNoEffect, HostAt, HostEnds
  <1>5. Written'
    BY DEF Inv, TypeOK, Written, WriteInv, HostNoEffect, HostAt, HostEnds
  <1>6. ToldIsDurable' /\ RecInv' /\ Owned'
    BY ToldFrame, RecSame, OwnerFrame DEF HostNoEffect
  <1>. QED
    BY <1>1, <1>2, <1>3, <1>4, <1>5, <1>6, PartsThen

\* A write is planned or refused.
LEMMA HostPlanStep ==
  ASSUME Inv, NEW c \in Calls, HostPlan(c)
  PROVE  Inv'
  <1>1. TypeOK'
    <2>1. host' \in [Calls -> {None, "requested", "started", "planned", "launching",
                              "waiting", "ended"}]
      <3>1. host \in [Calls -> {None, "requested", "started", "planned", "launching",
                                "waiting", "ended"}]
        BY DEF Inv, TypeOK
      <3>2. \/ host' = [host EXCEPT ![c] = "planned"]
            \/ host' = [host EXCEPT ![c] = "ended"]
        BY DEF HostPlan, HostEnds
      <3>. QED
        BY <3>1, <3>2
    <2>2. hostRes' \in [Calls -> Outcomes \cup {None}]
      BY ZenonT(30) DEF Inv, TypeOK, HostPlan, HostEnds
    <2>. QED
      BY <2>1, <2>2 DEF Inv, TypeOK, HostPlan
  <1>2. HostsHaveIntents'
    BY DEF Inv, TypeOK, HostsHaveIntents, HostPlan, HostAt, HostEnds
  <1>3. Externally'
    BY DEF Inv, TypeOK, HostsHaveIntents, Externally, ExternalInv, HostPlan,
           HostAt, HostEnds
  <1>4. Commanded'
    BY DEF Inv, TypeOK, HostsHaveIntents, OwnerInv, Commanded, CommandInv,
           HostPlan, HostAt, HostEnds
  <1>5. Written'
    BY DEF Inv, TypeOK, Written, WriteInv, HostPlan, HostAt, HostEnds
  <1>6. ToldIsDurable' /\ RecInv' /\ Owned'
    BY ToldFrame, RecSame, OwnerFrame DEF HostPlan
  <1>. QED
    BY <1>1, <1>2, <1>3, <1>4, <1>5, <1>6, PartsThen

\* One target is written, and recorded as written.
LEMMA HostWriteStep ==
  ASSUME Inv, NEW c \in Calls, HostWrite(c)
  PROVE  Inv'
  <1>. DEFINE k == written[c] + 1
  <1>1. c \in Writes /\ k \in Files /\ TypeOK
    BY SMTT(30) DEF Inv, TypeOK, HostWrite
  <1>2. /\ file' = [file EXCEPT ![c][k] = "after"]
        /\ applied' = [applied EXCEPT ![c] = @ \cup {k}]
        /\ written' = [written EXCEPT ![c] = k]
        /\ UNCHANGED <<rec, life, runs, hostRes, settled>>
    BY DEF HostWrite
  <1>3. TypeOK'
    <2>1. written' \in [Writes -> 0..Targets]
      BY <1>1, <1>2 DEF TypeOK, HostWrite
    <2>2. /\ file' \in [Writes -> [Files -> {"before", "after", "other"}]]
          /\ applied' \in [Writes -> SUBSET Files]
      BY ZenonT(30), <1>1, <1>2, TargetWritten
    <2>. QED
      BY <1>1, <1>2, <2>1, <2>2 DEF TypeOK, HostWrite
  <1>4. RecInv'
    BY ZenonT(60), <1>1, <1>2, TargetWritten, RecFrame
  <1>5. Written'
    <2>1. \A x \in Writes : \/ written'[x] = written[x]
                            \/ x = c /\ k = written[x] + 1 /\ written'[x] = k
      BY <1>1, <1>2 DEF TypeOK
    <2>. QED
      BY <1>1, <1>2, <2>1, TargetsKept
  <1>6. /\ HostsHaveIntents' /\ ToldIsDurable' /\ Externally'
        /\ Owned' /\ Commanded'
    BY HostsFrame, ToldFrame, ExternalFrame, OwnerFrame, CommandFrame DEF
       HostWrite
  <1>. QED
    BY <1>3, <1>4, <1>5, <1>6, PartsThen

\* Success needs the last target.
LEMMA HostWriteEndsStep ==
  ASSUME Inv, NEW c \in Calls, HostWriteEnds(c)
  PROVE  Inv'
  <1>1. TypeOK'
    <2>1. host' \in [Calls -> {None, "requested", "started", "planned", "launching",
                              "waiting", "ended"}]
      BY DEF Inv, TypeOK, HostWriteEnds, HostEnds
    <2>2. hostRes' \in [Calls -> Outcomes \cup {None}]
      BY ZenonT(30) DEF Inv, TypeOK, HostWriteEnds, HostEnds
    <2>. QED
      BY <2>1, <2>2 DEF Inv, TypeOK, HostWriteEnds
  <1>2. HostsHaveIntents'
    BY DEF Inv, TypeOK, HostsHaveIntents, HostWriteEnds, HostAt, HostEnds
  <1>3. Externally'
    BY DEF Inv, TypeOK, HostsHaveIntents, Externally, ExternalInv,
           HostWriteEnds, HostAt, HostEnds
  <1>4. Commanded'
    BY DEF Inv, TypeOK, HostsHaveIntents, OwnerInv, Commanded, CommandInv,
           HostWriteEnds, HostAt, HostEnds
  <1>5. Written'
    <2>. SUFFICES ASSUME NEW x \in Writes PROVE WriteInv(x)'
      BY DEF Written
    <2>1. hostRes'[x] = "succeeded" =>
            hostRes[x] = "succeeded" \/ written[x] = Targets
      BY DEF Inv, TypeOK, HostWriteEnds, HostEnds
    <2>2. UNCHANGED <<file, written, applied, settled>>
      BY DEF HostWriteEnds
    <2>. QED
      BY ZenonT(30), <2>1, <2>2 DEF Inv, TypeOK, WriteInv
  <1>6. ToldIsDurable' /\ RecInv' /\ Owned'
    BY ToldFrame, RecSame, OwnerFrame DEF HostWriteEnds
  <1>. QED
    BY <1>1, <1>2, <1>3, <1>4, <1>5, <1>6, PartsThen

\* The one step that has an external effect.
LEMMA HostExternalStep ==
  ASSUME Inv, NEW c \in Calls, HostExternal(c)
  PROVE  Inv'
  <1>1. TypeOK'
    BY DEF Inv, TypeOK, HostExternal, HostAt, HostEnds
  <1>2. HostsHaveIntents'
    BY DEF Inv, TypeOK, HostsHaveIntents, HostExternal, HostAt, HostEnds
  <1>3. RecInv'
    BY DEF Inv, TypeOK, Rec, NoRec, RecInv, OwnerInv, HostExternal, HostAt,
           HostEnds
  <1>4. Externally'
    BY DEF Inv, TypeOK, HostsHaveIntents, Externally, ExternalInv,
           HostExternal, HostAt, HostEnds
  <1>5. Owned'
    BY DEF Inv, TypeOK, Owned, OwnerInv, CommandInv, HostExternal, HostAt,
           HostEnds
  <1>6. Commanded'
    BY DEF Inv, TypeOK, HostsHaveIntents, OwnerInv, Commanded, CommandInv,
           HostExternal, HostAt, HostEnds
  <1>7. Written'
    BY DEF Inv, TypeOK, Written, WriteInv, HostExternal, HostAt, HostEnds
  <1>8. ToldIsDurable'
    BY ToldFrame DEF HostExternal
  <1>. QED
    BY <1>1, <1>2, <1>3, <1>4, <1>5, <1>6, <1>7, <1>8, PartsThen

\* A lifecycle is created by the host that found none.
LEMMA HostLaunchStep ==
  ASSUME Inv, NEW c \in Calls, HostLaunch(c)
  PROVE  Inv'
  <1>1. TypeOK'
    <2>1. host' \in [Calls -> {None, "requested", "started", "planned", "launching",
                              "waiting", "ended"}]
      <3>1. CASE life[c] = None
        BY <3>1 DEF Inv, TypeOK, HostLaunch
      <3>2. CASE life[c] # None
        BY ZenonT(30), <3>2 DEF Inv, TypeOK, HostLaunch
      <3>. QED
        BY <3>1, <3>2
    <2>2. life' \in [Processes -> {None, "launching", "starting", "running",
                                   "settled"}]
      BY DEF Inv, TypeOK, HostLaunch
    <2>. QED
      BY <2>1, <2>2 DEF Inv, TypeOK, HostLaunch
  <1>2. HostsHaveIntents'
    BY DEF Inv, TypeOK, HostsHaveIntents, HostLaunch, HostAt
  <1>3. RecInv'
    BY DEF Inv, TypeOK, Rec, NoRec, RecInv, OwnerInv, HostLaunch, HostAt
  <1>4. Externally'
    BY DEF Inv, TypeOK, HostsHaveIntents, Externally, ExternalInv, HostLaunch,
           HostAt
  <1>5. Owned'
    BY DEF Inv, TypeOK, Owned, OwnerInv, CommandInv, HostLaunch, HostAt
  <1>6. Commanded'
    BY DEF Inv, TypeOK, HostsHaveIntents, OwnerInv, Commanded, CommandInv,
           HostLaunch, HostAt
  <1>7. ToldIsDurable' /\ Written'
    BY ToldFrame, WriteFrame DEF HostLaunch
  <1>. QED
    BY <1>1, <1>2, <1>3, <1>4, <1>5, <1>6, <1>7, PartsThen

\* A host launches one owner.
LEMMA SpawnOwnerStep ==
  ASSUME Inv, NEW c \in Calls, SpawnOwner(c)
  PROVE  Inv'
  <1>1. TypeOK'
    BY DEF Inv, TypeOK, SpawnOwner, HostAt
  <1>2. HostsHaveIntents'
    BY DEF Inv, TypeOK, HostsHaveIntents, SpawnOwner, HostAt
  <1>3. Externally'
    BY DEF Inv, TypeOK, HostsHaveIntents, Externally, ExternalInv, SpawnOwner,
           HostAt
  <1>4. Owned'
    BY DEF Inv, TypeOK, Owned, OwnerInv, CommandInv, SpawnOwner, HostAt
  <1>5. Commanded'
    BY DEF Inv, TypeOK, HostsHaveIntents, OwnerInv, Commanded, CommandInv,
           SpawnOwner, HostAt
  <1>6. ToldIsDurable' /\ RecInv' /\ Written'
    BY ToldFrame, RecSame, WriteFrame DEF SpawnOwner
  <1>. QED
    BY <1>1, <1>2, <1>3, <1>4, <1>5, <1>6, PartsThen

\* A stop intent changes nothing else.
LEMMA HostStopStep ==
  ASSUME Inv, NEW c \in Calls, HostStop(c)
  PROVE  Inv'
  <1>1. TypeOK'
    BY DEF Inv, TypeOK, HostStop, HostAt
  <1>2. /\ HostsHaveIntents' /\ ToldIsDurable' /\ RecInv' /\ Externally'
        /\ Owned' /\ Commanded' /\ Written'
    BY HostsFrame, ToldFrame, RecSame, ExternalFrame, OwnerFrame,
       CommandFrame, WriteFrame DEF HostStop
  <1>. QED
    BY <1>1, <1>2, PartsThen

\* The outcome of a settled lifecycle.
LEMMA HostCollectStep ==
  ASSUME Inv, NEW c \in Calls, HostCollect(c)
  PROVE  Inv'
  <1>1. TypeOK'
    BY DEF Inv, TypeOK, HostCollect, HostAt, HostEnds
  <1>2. HostsHaveIntents'
    BY DEF Inv, TypeOK, HostsHaveIntents, HostCollect, HostAt, HostEnds
  <1>3. Externally'
    BY DEF Inv, TypeOK, HostsHaveIntents, Externally, ExternalInv,
           HostCollect, HostAt, HostEnds
  <1>4. Commanded'
    BY DEF Inv, TypeOK, HostsHaveIntents, OwnerInv, Commanded, CommandInv,
           HostCollect, HostAt, HostEnds
  <1>5. Written'
    BY DEF Inv, TypeOK, Written, WriteInv, HostCollect, HostAt, HostEnds
  <1>6. ToldIsDurable' /\ RecInv' /\ Owned'
    BY ToldFrame, RecSame, OwnerFrame DEF HostCollect
  <1>. QED
    BY <1>1, <1>2, <1>3, <1>4, <1>5, <1>6, PartsThen

\* The host gives up; the call stays unsettled.
LEMMA HostLostStep ==
  ASSUME Inv, NEW c \in Calls, HostLost(c)
  PROVE  Inv'
  <1>1. TypeOK'
    BY DEF Inv, TypeOK, HostLost, HostAt
  <1>2. HostsHaveIntents'
    BY DEF Inv, TypeOK, HostsHaveIntents, HostLost, HostAt
  <1>3. Externally'
    BY DEF Inv, TypeOK, HostsHaveIntents, Externally, ExternalInv, HostLost,
           HostAt
  <1>4. Commanded'
    BY DEF Inv, TypeOK, HostsHaveIntents, OwnerInv, Commanded, CommandInv,
           HostLost, HostAt
  <1>5. ToldIsDurable' /\ RecInv' /\ Owned' /\ Written'
    BY ToldFrame, RecSame, OwnerFrame, WriteFrame DEF HostLost
  <1>. QED
    BY <1>1, <1>2, <1>3, <1>4, <1>5, PartsThen

\* The host settles what it has, or finds it settled.
LEMMA HostSettleStep ==
  ASSUME Inv, NEW c \in Calls, HostSettle(c)
  PROVE  Inv'
  <1>1. TypeOK'
    <2>1. told' \in [Calls -> Outcomes \cup {None, "unsettled"}]
      <3>1. told \in [Calls -> Outcomes \cup {None, "unsettled"}]
        BY DEF Inv, TypeOK
      <3>2. hostRes[c] \in Outcomes \cup {None}
        BY DEF Inv, TypeOK
      <3>. QED
        BY <3>1, <3>2 DEF HostSettle
    <2>2. /\ settled' \in [Calls -> Outcomes \cup {None}]
          /\ hostRes' \in [Calls -> Outcomes \cup {None}]
          /\ host' \in [Calls -> {None, "requested", "started", "planned",
                                  "launching", "waiting", "ended"}]
      BY DEF Inv, TypeOK, HostSettle
    <2>3. UNCHANGED <<intent, file, life, result, stop, model, owner, child,
                      up, takeover, work, now, todo, rec, runs, applied,
                      written, crashes, edits>>
      BY DEF HostSettle, control, bounds
    <2>. QED
      BY <2>1, <2>2, <2>3 DEF Inv, TypeOK
  <1>2. HostsHaveIntents'
    BY DEF Inv, TypeOK, HostsHaveIntents, HostSettle, HostAt
  <1>3. ToldIsDurable'
    BY DEF Inv, TypeOK, ToldIsDurable, HostSettle, HostAt
  <1>4. Externally'
    BY DEF Inv, TypeOK, HostsHaveIntents, Externally, ExternalInv, HostSettle,
           HostAt
  <1>5. Commanded'
    BY DEF Inv, TypeOK, HostsHaveIntents, OwnerInv, Commanded, CommandInv,
           HostSettle, HostAt
  <1>6. Written'
    BY DEF Inv, TypeOK, Written, WriteInv, HostSettle, HostAt
  <1>7. RecInv' /\ Owned'
    BY RecSame, OwnerFrame DEF HostSettle
  <1>. QED
    BY <1>1, <1>2, <1>3, <1>4, <1>5, <1>6, <1>7, PartsThen

\* The host throws; the call stays unsettled.
LEMMA HostThrowsStep ==
  ASSUME Inv, NEW c \in Calls, HostThrows(c)
  PROVE  Inv'
  <1>1. TypeOK'
    BY DEF Inv, TypeOK, HostThrows
  <1>2. HostsHaveIntents'
    BY DEF Inv, TypeOK, HostsHaveIntents, HostThrows
  <1>3. Externally'
    BY DEF Inv, TypeOK, HostsHaveIntents, Externally, ExternalInv, HostThrows
  <1>4. Commanded'
    BY DEF Inv, TypeOK, HostsHaveIntents, OwnerInv, Commanded, CommandInv,
           HostThrows
  <1>5. Written'
    BY DEF Inv, TypeOK, Written, WriteInv, HostThrows
  <1>6. ToldIsDurable' /\ RecInv' /\ Owned'
    BY ToldFrame, RecSame, OwnerFrame DEF HostThrows
  <1>. QED
    BY <1>1, <1>2, <1>3, <1>4, <1>5, <1>6, PartsThen

\* The owner takes its lease.
LEMMA OwnerLeaseStep ==
  ASSUME Inv, NEW c \in Processes, OwnerLease(c)
  PROVE  Inv'
  <1>1. TypeOK'
    BY DEF Inv, TypeOK, OwnerLease, KeepOwner
  <1>2. RecInv'
    BY DEF Inv, TypeOK, Rec, NoRec, RecInv, OwnerInv, OwnerLease, KeepOwner
  <1>3. Owned'
    BY DEF Inv, TypeOK, Owned, OwnerInv, CommandInv, OwnerLease, KeepOwner
  <1>4. Commanded'
    BY DEF Inv, TypeOK, HostsHaveIntents, OwnerInv, Commanded, CommandInv,
           OwnerLease, KeepOwner
  <1>5. HostsHaveIntents' /\ ToldIsDurable' /\ Externally' /\ Written'
    BY HostsFrame, ToldFrame, ExternalFrame, WriteFrame DEF OwnerLease,
       KeepOwner
  <1>. QED
    BY <1>1, <1>2, <1>3, <1>4, <1>5, PartsThen

\* An owner that never started its command settles as failed.
LEMMA OwnerGivesUpStep ==
  ASSUME Inv, NEW c \in Processes, OwnerGivesUp(c)
  PROVE  Inv'
  <1>1. TypeOK'
    BY DEF Inv, TypeOK, OwnerGivesUp, KeepOwner, OwnerSettled
  <1>2. RecInv'
    BY DEF Inv, TypeOK, Rec, NoRec, RecInv, OwnerInv, OwnerGivesUp, KeepOwner,
           OwnerSettled
  <1>3. Owned'
    BY DEF Inv, TypeOK, Owned, OwnerInv, CommandInv, OwnerGivesUp, KeepOwner,
           OwnerSettled
  <1>4. Commanded'
    BY DEF Inv, TypeOK, HostsHaveIntents, OwnerInv, Commanded, CommandInv,
           OwnerGivesUp, KeepOwner, OwnerSettled
  <1>5. HostsHaveIntents' /\ ToldIsDurable' /\ Externally' /\ Written'
    BY HostsFrame, ToldFrame, ExternalFrame, WriteFrame DEF OwnerGivesUp,
       KeepOwner
  <1>. QED
    BY <1>1, <1>2, <1>3, <1>4, <1>5, PartsThen

\* The one step that starts a command.
LEMMA OwnerStartsStep ==
  ASSUME Inv, NEW c \in Processes, OwnerStarts(c)
  PROVE  Inv'
  <1>1. TypeOK'
    BY DEF Inv, TypeOK, OwnerStarts, KeepOwner
  <1>2. RecInv'
    <2>1. life[c] # "settled" /\ \A x \in Processes \ {c} : runs'[x] = runs[x]
      BY DEF Inv, TypeOK, OwnerStarts, OwnerInv
    <2>. QED
      BY <2>1, RecFrame DEF Inv, TypeOK, OwnerStarts, KeepOwner
  <1>3. Externally'
    BY DEF Inv, TypeOK, HostsHaveIntents, Externally, ExternalInv,
           OwnerStarts, KeepOwner
  <1>4. Owned'
    BY DEF Inv, TypeOK, Owned, OwnerInv, CommandInv, OwnerStarts, KeepOwner
  <1>5. Commanded'
    BY DEF Inv, TypeOK, HostsHaveIntents, OwnerInv, Commanded, CommandInv,
           OwnerStarts, KeepOwner
  <1>6. HostsHaveIntents' /\ ToldIsDurable' /\ Written'
    BY HostsFrame, ToldFrame, WriteFrame DEF OwnerStarts, KeepOwner
  <1>. QED
    BY <1>1, <1>2, <1>3, <1>4, <1>5, <1>6, PartsThen

\* The identity of the child is recorded.
LEMMA OwnerBindsChildStep ==
  ASSUME Inv, NEW c \in Processes, OwnerBindsChild(c)
  PROVE  Inv'
  <1>1. TypeOK'
    BY DEF Inv, TypeOK, OwnerBindsChild, KeepOwner
  <1>2. RecInv'
    BY DEF Inv, TypeOK, Rec, NoRec, RecInv, OwnerInv, OwnerBindsChild,
           KeepOwner
  <1>3. Owned'
    BY DEF Inv, TypeOK, Owned, OwnerInv, CommandInv, OwnerBindsChild,
           KeepOwner
  <1>4. Commanded'
    BY DEF Inv, TypeOK, HostsHaveIntents, OwnerInv, Commanded, CommandInv,
           OwnerBindsChild, KeepOwner
  <1>5. HostsHaveIntents' /\ ToldIsDurable' /\ Externally' /\ Written'
    BY HostsFrame, ToldFrame, ExternalFrame, WriteFrame DEF OwnerBindsChild,
       KeepOwner
  <1>. QED
    BY <1>1, <1>2, <1>3, <1>4, <1>5, PartsThen

\* The command ends.
LEMMA ChildExitsStep ==
  ASSUME Inv, NEW c \in Processes, ChildExits(c)
  PROVE  Inv'
  <1>1. TypeOK'
    BY DEF Inv, TypeOK, ChildExits, KeepOwner
  <1>2. Owned'
    BY DEF Inv, TypeOK, Owned, OwnerInv, CommandInv, ChildExits, KeepOwner
  <1>3. /\ HostsHaveIntents' /\ ToldIsDurable' /\ RecInv'
        /\ Externally' /\ Commanded' /\ Written'
    BY HostsFrame, ToldFrame, RecSame, ExternalFrame, CommandFrame,
       WriteFrame DEF ChildExits, KeepOwner
  <1>. QED
    BY <1>1, <1>2, <1>3, PartsThen

\* The owner settles once the command has ended.
LEMMA OwnerSettlesStep ==
  ASSUME Inv, NEW c \in Processes, OwnerSettles(c)
  PROVE  Inv'
  <1>1. TypeOK'
    BY DEF Inv, TypeOK, OwnerSettles, KeepOwner, OwnerSettled
  <1>2. RecInv'
    BY DEF Inv, TypeOK, Rec, NoRec, RecInv, OwnerInv, OwnerSettles, KeepOwner,
           OwnerSettled
  <1>3. Owned'
    BY DEF Inv, TypeOK, Owned, OwnerInv, CommandInv, OwnerSettles, KeepOwner,
           OwnerSettled
  <1>4. Commanded'
    BY DEF Inv, TypeOK, HostsHaveIntents, OwnerInv, Commanded, CommandInv,
           OwnerSettles, KeepOwner, OwnerSettled
  <1>5. HostsHaveIntents' /\ ToldIsDurable' /\ Externally' /\ Written'
    BY HostsFrame, ToldFrame, ExternalFrame, WriteFrame DEF OwnerSettles,
       KeepOwner
  <1>. QED
    BY <1>1, <1>2, <1>3, <1>4, <1>5, PartsThen

\* An owner dies; it leaves its lifecycle as it is.
LEMMA OwnerDiesStep ==
  ASSUME Inv, NEW c \in Processes, OwnerDies(c)
  PROVE  Inv'
  <1>1. TypeOK'
    BY DEF Inv, TypeOK, OwnerDies
  <1>2. Owned'
    BY DEF Inv, TypeOK, Owned, OwnerInv, CommandInv, OwnerDies
  <1>3. Commanded'
    BY DEF Inv, TypeOK, HostsHaveIntents, OwnerInv, Commanded, CommandInv,
           OwnerDies
  <1>4. /\ HostsHaveIntents' /\ ToldIsDurable' /\ RecInv'
        /\ Externally' /\ Written'
    BY HostsFrame, ToldFrame, RecSame, ExternalFrame, WriteFrame DEF
       OwnerDies
  <1>. QED
    BY <1>1, <1>2, <1>3, <1>4, PartsThen

\* The unsettled calls are listed.
LEMMA BeginStep ==
  ASSUME Inv, Begin
  PROVE  Inv'
  <1>1. TypeOK'
    BY DEF Inv, TypeOK, Begin, KeepRec, Unsettled
  <1>2. /\ HostsHaveIntents' /\ ToldIsDurable' /\ RecInv' /\ Externally'
        /\ Owned' /\ Commanded' /\ Written'
    BY HostsFrame, ToldFrame, RecSame, ExternalFrame, OwnerFrame,
       CommandFrame, WriteFrame DEF Begin, KeepRec
  <1>. QED
    BY <1>1, <1>2, PartsThen

\* A call is paused, or its decision begins.
LEMMA RecPickStep ==
  ASSUME Inv, NEW c \in Calls, RecPick(c)
  PROVE  Inv'
  <1>1. /\ todo' \subseteq Calls /\ rec' \in Rec
        /\ \/ rec' = rec
           \/ /\ rec'.at = c /\ rec'.pos = 0
              /\ \/ rec'.pc = "replaying" /\ c \in Reads
                 \/ rec'.pc = "probing" /\ c \in Writes
                 \/ rec'.pc = "attached" /\ c \in Processes
           \/ /\ rec'.at = c /\ rec'.pc = "settling" /\ rec'.res = result[c]
              /\ c \in Processes /\ life[c] = "settled"
    <2>1. CASE todo' = todo \ {c} /\ UNCHANGED rec
      BY <2>1 DEF Inv, TypeOK
    <2>2. ASSUME NEW s \in RecPcs, rec' = [NoRec EXCEPT !.at = c, !.pc = s]
          PROVE  rec' \in Rec /\ rec'.at = c /\ rec'.pc = s /\ rec'.pos = 0
      BY <2>2, RecOpens
    <2>3. CASE /\ c \in (Reads \cup Writes) \ Opaque
               /\ rec' = [NoRec EXCEPT !.at = c, !.pc = IF c \in Reads
                                          THEN "replaying" ELSE "probing"]
               /\ UNCHANGED todo
      BY <2>2, <2>3 DEF Inv, TypeOK, RecPcs
    <2>4. CASE /\ c \in Processes /\ life[c] = "settled"
               /\ rec' = [NoRec EXCEPT !.at = c, !.pc = "settling",
                                       !.res = result[c]]
               /\ UNCHANGED todo
      <3>1. c \in Calls /\ result[c] \in Outcomes \cup {None}
        BY <2>4 DEF Inv, TypeOK
      <3>. QED
        <4>1. rec' = [NoRec EXCEPT !.at = c, !.pc = "settling", !.res = result[c]]
          BY <2>4
        <4>2. /\ rec' \in Rec /\ rec'.at = c /\ rec'.pc = "settling"
              /\ rec'.res = result[c]
          BY <3>1, <4>1, RecOpensSettling
        <4>. QED
          BY <2>4, <4>2 DEF Inv, TypeOK
    <2>5. CASE /\ c \in Processes /\ UNCHANGED todo
               /\ rec' = [NoRec EXCEPT !.at = c, !.pc = "attached"]
      BY <2>2, <2>5 DEF Inv, TypeOK, RecPcs
    <2>. QED
      BY <2>1, <2>3, <2>4, <2>5 DEF RecPick
  <1>2. UNCHANGED <<life, runs, applied, result>>
    BY DEF RecPick, KeepRec
  <1>3. TypeOK'
    BY <1>1 DEF Inv, TypeOK, RecPick, KeepRec
  <1>4. RecInv'
    <2>1. CASE rec' = rec
      BY <1>2, <2>1, RecSame
    <2>2. CASE rec'.pos = 0 /\ rec'.pc \in {"replaying", "probing", "attached"}
      <3>1. CASE rec'.pc = "replaying" /\ rec'.at \in Reads
        BY <3>1, ToolAssumption DEF RecInv, Calls
      <3>2. CASE rec'.pc = "probing" /\ rec'.at \in Writes
        BY <2>2, <3>2, ToolAssumption DEF RecInv, Calls
      <3>3. CASE rec'.pc = "attached" /\ rec'.at \in Processes
        BY <3>3, ToolAssumption DEF RecInv, Calls
      <3>. QED
        BY <1>1, <1>2, <2>1, <2>2, <3>1, <3>2, <3>3
    <2>3. CASE rec'.pc = "settling" /\ rec'.res = result[c]
      BY <1>1, <1>2, <2>3 DEF Inv, RecInv, OwnerInv
    <2>. QED
      BY <1>1, <2>1, <2>2, <2>3
  <1>5. /\ HostsHaveIntents' /\ ToldIsDurable' /\ Externally'
        /\ Owned' /\ Commanded' /\ Written'
    BY HostsFrame, ToldFrame, ExternalFrame, OwnerFrame, CommandFrame,
       WriteFrame DEF RecPick, KeepRec
  <1>. QED
    BY <1>3, <1>4, <1>5, PartsThen

\* A target seen with the content of the call was written by it.
LEMMA RecProbeStep ==
  ASSUME Inv, RecProbe
  PROVE  Inv'
  <1>. DEFINE x == rec.at
              k == rec.pos + 1
  <1>1. /\ rec.pc = "probing" /\ x \in Writes /\ k \in Files /\ rec \in Rec
        /\ file[x][k] \in {"before", "after", "other"}
    <2>1. rec.pc = "probing" /\ x \in Writes /\ rec \in Rec /\ rec.pos < Targets
      BY DEF Inv, TypeOK, RecInv, RecProbe, Deciding
    <2>2. rec.pos \in Nat
      BY <2>1 DEF Rec
    <2>. QED
      BY SMTT(30), <2>1, <2>2 DEF Inv, TypeOK
  <1>2. /\ rec' \in Rec /\ rec'.at = x /\ rec'.pc = "probing"
        /\ rec'.pos = k /\ rec'.seen = rec.seen \cup {file[x][k]}
    BY ZenonT(30), <1>1, RecLooks DEF RecProbe
  <1>3. UNCHANGED <<life, runs, applied>>
    BY DEF RecProbe, KeepRec
  <1>4. TypeOK'
    BY <1>2 DEF Inv, TypeOK, RecProbe, KeepRec
  <1>5. RecInv'
    <2>1. ASSUME rec'.seen \subseteq {"after"} PROVE 1..k \subseteq applied[x]
      <3>1. rec.seen \subseteq {"after"} /\ file[x][k] = "after"
        BY <1>2, <2>1
      <3>2. 1..rec.pos \subseteq applied[x] /\ k \in applied[x]
        BY <1>1, <3>1 DEF Inv, RecInv, WriteInv
      <3>3. rec.pos \in Nat
        BY <1>1 DEF Rec
      <3>. QED
        BY <3>2, <3>3
    <2>. QED
      BY <1>1, <1>2, <1>3, <2>1 DEF RecInv
  <1>6. /\ HostsHaveIntents' /\ ToldIsDurable' /\ Externally'
        /\ Owned' /\ Commanded' /\ Written'
    BY HostsFrame, ToldFrame, ExternalFrame, OwnerFrame, CommandFrame,
       WriteFrame DEF RecProbe, KeepRec
  <1>. QED
    BY <1>4, <1>5, <1>6, PartsThen

\* All targets were seen written, or none.
LEMMA RecDecideStep ==
  ASSUME Inv, RecDecide
  PROVE  Inv'
  <1>. DEFINE x == rec.at
  <1>1. rec.pc = "probing" /\ x \in Writes /\ rec \in Rec /\ rec.pos = Targets
    BY DEF Inv, TypeOK, RecInv, RecDecide, Deciding
  <1>2. /\ todo' \subseteq Calls /\ rec' \in Rec
        /\ \/ rec'.pc = None
           \/ /\ rec'.at = x /\ rec'.pc = "settling" /\ rec.seen = {"after"}
           \/ rec'.at = x /\ rec'.pc = "replaying"
    <2>1. CASE rec.seen = {"after"} /\ Settling("succeeded")
      BY <1>1, <2>1, RecSettles DEF Outcomes, Inv, TypeOK
    <2>2. CASE RecGoes("replaying")
      BY <1>1, <2>2, RecMoves DEF RecPcs, Inv, TypeOK
    <2>3. CASE Paused
      BY <2>3, NoRecType DEF Paused, Inv, TypeOK
    <2>. QED
      BY <2>1, <2>2, <2>3 DEF RecDecide
  <1>3. UNCHANGED <<life, runs, applied>>
    BY DEF RecDecide, KeepRec
  <1>4. TypeOK'
    BY <1>2 DEF Inv, TypeOK, RecDecide, KeepRec
  <1>5. RecInv'
    <2>1. rec.seen = {"after"} => applied[x] = Files
      BY ZenonT(30), <1>1 DEF Inv, TypeOK, RecInv
    <2>. QED
      BY <1>1, <1>2, <1>3, <2>1 DEF RecInv
  <1>6. /\ HostsHaveIntents' /\ ToldIsDurable' /\ Externally'
        /\ Owned' /\ Commanded' /\ Written'
    BY HostsFrame, ToldFrame, ExternalFrame, OwnerFrame, CommandFrame,
       WriteFrame DEF RecDecide, KeepRec
  <1>. QED
    BY <1>4, <1>5, <1>6, PartsThen

\* A replay succeeds at once only for a read.
LEMMA RecReplayStep ==
  ASSUME Inv, RecReplay
  PROVE  Inv'
  <1>. DEFINE x == rec.at
  <1>1. rec \in Rec /\ x \in Reads \cup Writes
    BY DEF Inv, TypeOK, RecInv, RecReplay, Deciding
  <1>2. /\ todo' \subseteq Calls /\ rec' \in Rec
        /\ \/ rec'.pc = None
           \/ /\ rec'.at = x /\ rec'.pc = "settling"
              /\ x \in Reads \/ rec'.res # "succeeded"
           \/ rec'.at = x /\ rec'.pc = "writing" /\ rec'.pos = 0 /\ x \in Writes
    <2>1. CASE Paused
      BY <2>1, NoRecType DEF Paused, Inv, TypeOK
    <2>2. ASSUME NEW r \in Outcomes, Settling(r)
          PROVE  /\ todo' \subseteq Calls /\ rec' \in Rec
                 /\ rec'.at = x /\ rec'.pc = "settling" /\ rec'.res = r
      BY <1>1, <2>2, RecSettles DEF Inv, TypeOK
    <2>3. CASE x \in Writes /\ RecGoes("writing")
      BY <1>1, <2>3, RecMoves DEF RecPcs, Inv, TypeOK
    <2>. QED
      BY <2>1, <2>2, <2>3 DEF RecReplay
  <1>3. UNCHANGED <<life, runs, applied>>
    BY DEF RecReplay, KeepRec
  <1>4. TypeOK'
    BY <1>2 DEF Inv, TypeOK, RecReplay, KeepRec
  <1>5. RecInv'
    BY <1>1, <1>2, <1>3 DEF RecInv
  <1>6. /\ HostsHaveIntents' /\ ToldIsDurable' /\ Externally'
        /\ Owned' /\ Commanded' /\ Written'
    BY HostsFrame, ToldFrame, ExternalFrame, OwnerFrame, CommandFrame,
       WriteFrame DEF RecReplay, KeepRec
  <1>. QED
    BY <1>4, <1>5, <1>6, PartsThen

\* The replay writes one target.
LEMMA RecWriteStep ==
  ASSUME Inv, RecWrite
  PROVE  Inv'
  <1>. DEFINE x == rec.at
              k == rec.pos + 1
  <1>1. rec.pc = "writing" /\ x \in Writes /\ k \in Files /\ rec \in Rec /\ TypeOK
    <2>1. rec.pc = "writing" /\ x \in Writes /\ rec \in Rec /\ rec.pos < Targets
      BY DEF Inv, TypeOK, RecInv, RecWrite, Deciding
    <2>2. rec.pos \in Nat
      BY <2>1 DEF Rec
    <2>. QED
      BY <2>1, <2>2 DEF Inv
  <1>2. /\ rec' \in Rec /\ rec'.at = x /\ rec'.pc = "writing" /\ rec'.pos = k
    BY <1>1, RecWrites DEF RecWrite
  <1>3. /\ file' = [file EXCEPT ![x][k] = "after"]
        /\ applied' = [applied EXCEPT ![x] = @ \cup {k}]
        /\ UNCHANGED <<life, runs, written, hostRes, settled>>
    BY DEF RecWrite, KeepRec
  <1>4. TypeOK'
    <2>1. /\ file' \in [Writes -> [Files -> {"before", "after", "other"}]]
          /\ applied' \in [Writes -> SUBSET Files]
      BY ZenonT(30), <1>1, <1>3, TargetWritten
    <2>. QED
      BY <1>1, <1>2, <1>3, <2>1 DEF TypeOK, RecWrite, KeepRec
  <1>5. RecInv'
    <2>1. 1..rec.pos \subseteq applied[x] /\ rec.pos \in Nat
      BY <1>1 DEF Inv, RecInv, Rec
    <2>2. applied'[x] = applied[x] \cup {k}
      BY ZenonT(30), <1>1, <1>3, TargetWritten
    <2>3. 1..k \subseteq applied'[x]
      BY <2>1, <2>2
    <2>. QED
      BY <1>1, <1>2, <2>3 DEF RecInv
  <1>6. Written'
    BY <1>1, <1>3, TargetsKept
  <1>7. /\ HostsHaveIntents' /\ ToldIsDurable' /\ Externally'
        /\ Owned' /\ Commanded'
    BY HostsFrame, ToldFrame, ExternalFrame, OwnerFrame, CommandFrame DEF
       RecWrite, KeepRec
  <1>. QED
    BY <1>4, <1>5, <1>6, <1>7, PartsThen

\* The replay succeeds with the last target.
LEMMA RecWriteEndsStep ==
  ASSUME Inv, RecWriteEnds
  PROVE  Inv'
  <1>. DEFINE x == rec.at
  <1>1. rec.pc = "writing" /\ x \in Writes /\ rec \in Rec
    BY DEF Inv, TypeOK, RecInv, RecWriteEnds, Deciding
  <1>2. /\ rec' \in Rec /\ rec'.at = x /\ rec'.pc = "settling"
        /\ rec'.res = "succeeded" => rec.pos = Targets
    BY <1>1, RecSettles DEF RecWriteEnds, Outcomes
  <1>3. UNCHANGED <<life, runs, applied, todo>>
    BY DEF RecWriteEnds, KeepRec, Settling
  <1>4. TypeOK'
    BY <1>2, <1>3 DEF Inv, TypeOK, RecWriteEnds, KeepRec
  <1>5. RecInv'
    <2>1. rec.pos = Targets => applied[x] = Files
      BY <1>1 DEF Inv, TypeOK, RecInv
    <2>. QED
      BY <1>1, <1>2, <1>3, <2>1 DEF RecInv
  <1>6. /\ HostsHaveIntents' /\ ToldIsDurable' /\ Externally'
        /\ Owned' /\ Commanded' /\ Written'
    BY HostsFrame, ToldFrame, ExternalFrame, OwnerFrame, CommandFrame,
       WriteFrame DEF RecWriteEnds, KeepRec
  <1>. QED
    BY <1>4, <1>5, <1>6, PartsThen

\* The outcome of a command whose lifecycle is settled.
LEMMA RecAttachedStep ==
  ASSUME Inv, RecAttached
  PROVE  Inv'
  <1>. DEFINE x == rec.at
  <1>1. rec.pc = "attached" /\ x \in Processes /\ rec \in Rec
    BY DEF Inv, TypeOK, RecInv, RecAttached, Deciding
  <1>2. /\ todo' \subseteq Calls /\ rec' \in Rec
        /\ work' \in {"idle", "reconciling", "working"}
        /\ \/ rec'.pc = None
           \/ /\ rec'.at = x /\ rec'.pc = "settling"
              /\ rec'.res = result[x] /\ life[x] = "settled"
    <2>1. CASE life[x] = "settled" /\ Settling(result[x]) /\ UNCHANGED work
      BY <1>1, <2>1, RecSettles DEF Inv, TypeOK
    <2>2. CASE RecThrows
      BY <2>2, NoRecType DEF RecThrows
    <2>. QED
      BY <2>1, <2>2 DEF RecAttached
  <1>3. UNCHANGED <<life, runs, applied, result>>
    BY DEF RecAttached, KeepRec
  <1>4. TypeOK'
    BY <1>2 DEF Inv, TypeOK, RecAttached, KeepRec
  <1>5. RecInv'
    BY <1>1, <1>2, <1>3 DEF Inv, RecInv, OwnerInv
  <1>6. /\ HostsHaveIntents' /\ ToldIsDurable' /\ Externally'
        /\ Owned' /\ Commanded' /\ Written'
    BY HostsFrame, ToldFrame, ExternalFrame, OwnerFrame, CommandFrame,
       WriteFrame DEF RecAttached, KeepRec
  <1>. QED
    BY <1>4, <1>5, <1>6, PartsThen

\* A decision is recorded unless a settlement came first.
LEMMA RecSettleStep ==
  ASSUME Inv, RecSettle
  PROVE  Inv'
  <1>1. /\ todo' \subseteq Calls /\ rec' \in Rec /\ rec'.pc = None
        /\ work' \in {"idle", "reconciling", "working"}
    BY NoRecType DEF RecSettle, Paused, RecThrows, Inv, TypeOK
  <1>2. settled' \in [Calls -> Outcomes \cup {None}]
    <2>1. settled \in [Calls -> Outcomes \cup {None}]
      BY DEF Inv, TypeOK
    <2>2. rec.res \in Outcomes \cup {None}
      BY DEF Inv, TypeOK, Rec
    <2>3. CASE settled' = [settled EXCEPT ![rec.at] = rec.res]
      BY <2>1, <2>2, <2>3
    <2>4. CASE UNCHANGED settled
      BY <2>1, <2>4
    <2>. QED
      BY <2>3, <2>4 DEF RecSettle
  <1>3. TypeOK'
    BY <1>1, <1>2 DEF Inv, TypeOK, RecSettle, KeepRec
  <1>4. ToldIsDurable'
    BY DEF Inv, TypeOK, ToldIsDurable, RecSettle, KeepRec, Deciding, Paused,
           RecThrows
  <1>5. RecInv'
    BY <1>1 DEF RecInv
  <1>6. Externally'
    BY DEF Inv, TypeOK, HostsHaveIntents, Externally, ExternalInv, RecInv,
           Rec, RecSettle, KeepRec, Deciding, Paused, RecThrows
  <1>7. Commanded'
    BY DEF Inv, TypeOK, HostsHaveIntents, OwnerInv, Commanded, CommandInv,
           RecInv, Rec, RecSettle, KeepRec, Deciding, Paused, RecThrows
  <1>8. Written'
    BY DEF Inv, TypeOK, Written, WriteInv, RecInv, Rec, RecSettle, KeepRec,
           Deciding, Paused, RecThrows
  <1>9. HostsHaveIntents' /\ Owned'
    BY HostsFrame, OwnerFrame DEF RecSettle, KeepRec
  <1>. QED
    BY <1>3, <1>4, <1>5, <1>6, <1>7, <1>8, <1>9, PartsThen

\* The task starts, or waits.
LEMMA RecEndsStep ==
  ASSUME Inv, RecEnds
  PROVE  Inv'
  <1>1. TypeOK'
    BY DEF Inv, TypeOK, RecEnds, KeepRec, Deciding, Unsettled
  <1>2. /\ HostsHaveIntents' /\ ToldIsDurable' /\ RecInv' /\ Externally'
        /\ Owned' /\ Commanded' /\ Written'
    BY HostsFrame, ToldFrame, RecSame, ExternalFrame, OwnerFrame,
       CommandFrame, WriteFrame DEF RecEnds, KeepRec
  <1>. QED
    BY <1>1, <1>2, PartsThen

\* The conversation ends.
LEMMA FinishStep ==
  ASSUME Inv, Finish
  PROVE  Inv'
  <1>1. TypeOK'
    BY DEF Inv, TypeOK, Finish, KeepTools, EndCall
  <1>2. ToldIsDurable'
    BY DEF Inv, TypeOK, ToldIsDurable, Finish, KeepTools, EndCall
  <1>3. /\ HostsHaveIntents' /\ RecInv' /\ Externally'
        /\ Owned' /\ Commanded' /\ Written'
    BY HostsFrame, RecSame, ExternalFrame, OwnerFrame, CommandFrame,
       WriteFrame DEF Finish, KeepTools
  <1>. QED
    BY <1>1, <1>2, <1>3, PartsThen

\* The conversation is cancelled; hosts go on.
LEMMA CancelStep ==
  ASSUME Inv, Cancel
  PROVE  Inv'
  <1>1. TypeOK'
    BY DEF Inv, TypeOK, Cancel, KeepTools, EndCall
  <1>2. ToldIsDurable'
    BY DEF Inv, TypeOK, ToldIsDurable, Cancel, KeepTools, EndCall
  <1>3. /\ HostsHaveIntents' /\ RecInv' /\ Externally'
        /\ Owned' /\ Commanded' /\ Written'
    BY HostsFrame, RecSame, ExternalFrame, OwnerFrame, CommandFrame,
       WriteFrame DEF Cancel, KeepTools
  <1>. QED
    BY <1>1, <1>2, <1>3, PartsThen

\* The next attempt has its own conversation.
LEMMA WatchdogRestartStep ==
  ASSUME Inv, WatchdogRestart
  PROVE  Inv'
  <1>1. TypeOK'
    BY DEF Inv, TypeOK, WatchdogRestart, KeepTools, EndCall
  <1>2. ToldIsDurable'
    BY DEF Inv, TypeOK, ToldIsDurable, WatchdogRestart, KeepTools, EndCall
  <1>3. /\ HostsHaveIntents' /\ RecInv' /\ Externally'
        /\ Owned' /\ Commanded' /\ Written'
    BY HostsFrame, RecSame, ExternalFrame, OwnerFrame, CommandFrame,
       WriteFrame DEF WatchdogRestart, KeepTools
  <1>. QED
    BY <1>1, <1>2, <1>3, PartsThen

\* The backend settles late.
LEMMA LateSettleStep ==
  ASSUME Inv, LateSettle
  PROVE  Inv'
  <1>1. TypeOK'
    BY DEF Inv, TypeOK, LateSettle, KeepTools
  <1>2. /\ HostsHaveIntents' /\ ToldIsDurable' /\ RecInv' /\ Externally'
        /\ Owned' /\ Commanded' /\ Written'
    BY HostsFrame, ToldFrame, RecSame, ExternalFrame, OwnerFrame,
       CommandFrame, WriteFrame DEF LateSettle, KeepTools
  <1>. QED
    BY <1>1, <1>2, PartsThen

\* The process ends with its hosts; owners go on.
LEMMA GoneStep ==
  ASSUME Inv, NEW dead \in BOOLEAN, Gone(dead)
  PROVE  Inv'
  <1>1. TypeOK'
    <2>1. host' \in [Calls -> {None, "requested", "started", "planned", "launching",
                              "waiting", "ended"}]
      BY DEF Gone
    <2>2. /\ hostRes' \in [Calls -> Outcomes \cup {None}]
          /\ told' \in [Calls -> Outcomes \cup {None, "unsettled"}]
      BY DEF Gone, EndCall
    <2>3. written' \in [Writes -> 0..Targets] /\ crashes' \in 0..MaxCrashes
      BY DEF Gone, Inv, TypeOK
    <2>4. rec' \in Rec /\ now' \subseteq Calls /\ todo' \subseteq Calls
      BY NoRecType DEF Gone, EndCall
    <2>. QED
      BY <2>1, <2>2, <2>3, <2>4 DEF Inv, TypeOK, Gone, KeepTools
  <1>2. HostsHaveIntents'
    BY DEF Inv, TypeOK, HostsHaveIntents, Gone, KeepTools, EndCall
  <1>3. ToldIsDurable'
    BY DEF Inv, TypeOK, ToldIsDurable, Gone, KeepTools, EndCall
  <1>4. RecInv'
    BY DEF Inv, TypeOK, Rec, NoRec, RecInv, OwnerInv, Gone, KeepTools, EndCall
  <1>5. Externally'
    BY DEF Inv, TypeOK, HostsHaveIntents, Externally, ExternalInv, Gone,
           KeepTools, EndCall
  <1>6. Commanded'
    BY DEF Inv, TypeOK, HostsHaveIntents, OwnerInv, Commanded, CommandInv,
           Gone, KeepTools, EndCall
  <1>7. Written'
    BY DEF Inv, TypeOK, Written, WriteInv, Gone, KeepTools, EndCall
  <1>8. Owned'
    BY OwnerFrame DEF Gone, KeepTools
  <1>. QED
    BY <1>1, <1>2, <1>3, <1>4, <1>5, <1>6, <1>7, <1>8, PartsThen

\* The next process begins with nothing in memory.
LEMMA RestartStep ==
  ASSUME Inv, Restart
  PROVE  Inv'
  <1>1. TypeOK'
    BY DEF Inv, TypeOK, Restart, KeepTools
  <1>2. /\ HostsHaveIntents' /\ ToldIsDurable' /\ RecInv' /\ Externally'
        /\ Owned' /\ Commanded' /\ Written'
    BY HostsFrame, ToldFrame, RecSame, ExternalFrame, OwnerFrame,
       CommandFrame, WriteFrame DEF Restart, KeepTools
  <1>. QED
    BY <1>1, <1>2, PartsThen

\* Somebody else changes a file.
LEMMA EditStep ==
  ASSUME Inv, NEW c \in Writes, NEW f \in Files, Edit(c, f)
  PROVE  Inv'
  <1>1. TypeOK'
    BY DEF Inv, TypeOK, Edit
  <1>2. Written'
    BY DEF Inv, TypeOK, Written, WriteInv, Edit
  <1>3. /\ HostsHaveIntents' /\ ToldIsDurable' /\ RecInv'
        /\ Externally' /\ Owned' /\ Commanded'
    BY HostsFrame, ToldFrame, RecSame, ExternalFrame, OwnerFrame,
       CommandFrame DEF Edit
  <1>. QED
    BY <1>1, <1>2, <1>3, PartsThen

\* A step that changes nothing.
LEMMA StutterStep == ASSUME Inv, UNCHANGED vars PROVE Inv'
  <1>1. TypeOK'
    BY DEF Inv, TypeOK, vars
  <1>. QED
    BY <1>1, HostsFrame, ToldFrame, RecSame, ExternalFrame, OwnerFrame,
       CommandFrame, WriteFrame, PartsThen DEF vars

\* Every step preserves the invariant.
LEMMA NextInv == ASSUME Inv, [Next]_vars PROVE Inv'
  <1>1. ASSUME NEW c \in Calls, Reserve(c) \/ Repeat(c) \/ Host(c) PROVE Inv'
    BY <1>1, ReserveStep, RepeatStep, AuthorizeStep, HostNoEffectStep,
       HostPlanStep, HostWriteStep, HostWriteEndsStep, HostExternalStep,
       HostLaunchStep, SpawnOwnerStep, HostStopStep, HostCollectStep,
       HostLostStep, HostSettleStep, HostThrowsStep DEF Host
  <1>2. ASSUME NEW c \in Processes, Owner(c) \/ ChildExits(c) \/ OwnerDies(c)
        PROVE  Inv'
    BY <1>2, OwnerLeaseStep, OwnerGivesUpStep, OwnerStartsStep,
       OwnerBindsChildStep, OwnerSettlesStep, ChildExitsStep, OwnerDiesStep
       DEF Owner
  <1>3. CASE Reconcile
    BY <1>3, RecPickStep, RecProbeStep, RecDecideStep, RecReplayStep,
       RecWriteStep, RecWriteEndsStep, RecAttachedStep, RecSettleStep,
       RecEndsStep DEF Reconcile
  <1>. QED
    BY <1>1, <1>2, <1>3, BeginStep, FinishStep, CancelStep, WatchdogRestartStep,
       LateSettleStep, GoneStep, RestartStep, EditStep, StutterStep DEF Next

----------------------------------------------------------------------------
(* The theorems. *)

\* Inv holds in every reachable state.
THEOREM Invariance == Spec => []Inv
  BY InitInv, NextInv, PTL DEF Spec

\* The journal, the lifecycles and the reconciliation keep their types.
THEOREM TypeCorrect == Spec => []TypeOK
  <1>1. Inv => TypeOK
    BY DEF Inv
  <1>. QED
    BY <1>1, Invariance, PTL

\* No crash, repetition or reconciliation starts a command or an external
\* effect a second time.
THEOREM EffectsStartOnce == Spec => []StartedAtMostOnce
  <1>1. Inv => StartedAtMostOnce
    BY DEF Inv, ExternalInv, OwnerInv, StartedAtMostOnce
  <1>. QED
    BY <1>1, Invariance, PTL

\* When a command is settled, by its host or by the reconciliation, neither
\* it nor its owner is left.
THEOREM SettledCommandsAreOver == Spec => []SettledIsOver
  <1>1. Inv => SettledIsOver
    BY DEF Inv, OwnerInv, CommandInv, SettledIsOver
  <1>. QED
    BY <1>1, Invariance, PTL

\* A settlement as succeeded is never a guess.
THEOREM SuccessHappened == Spec => []SuccessIsReal
  <1>1. Inv => SuccessIsReal
    BY DEF Inv, ExternalInv, CommandInv, WriteInv, SuccessIsReal
  <1>. QED
    BY <1>1, Invariance, PTL

\* The model never hears an outcome that a crash could take back.
THEOREM AnswersAreDurable == Spec => []ToldIsDurable
  <1>1. Inv => ToldIsDurable
    BY DEF Inv
  <1>. QED
    BY <1>1, Invariance, PTL

\* settleToolCall of a late host and of the reconciliation: the first one
\* decides.
THEOREM SettlementsAreFinal == Spec => SettlementFinal
  <1>. DEFINE Kept == \A c \in Calls : settled[c] # None => settled'[c] = settled[c]
  <1>1. ASSUME Inv, [Next]_vars PROVE [Kept]_vars
    <2>1. CASE UNCHANGED settled
      BY <2>1
    <2>2. ASSUME NEW c \in Calls, HostSettle(c) PROVE Kept
      BY <1>1, <2>2 DEF Inv, TypeOK, HostSettle
    <2>3. CASE RecSettle
      BY <1>1, <2>3 DEF Inv, TypeOK, RecSettle
    <2>4. \/ UNCHANGED settled \/ RecSettle
          \/ \E c \in Calls : HostSettle(c)
      <3>1. ASSUME NEW c \in Calls, Reserve(c) \/ Repeat(c) \/ Host(c)
            PROVE  UNCHANGED settled \/ HostSettle(c)
        BY <3>1 DEF Reserve, Repeat, Host, Authorize, HostNoEffect, HostPlan,
           HostWrite, HostWriteEnds, HostExternal, HostLaunch, SpawnOwner,
           HostStop, HostCollect, HostLost, HostThrows
      <3>2. ASSUME NEW c \in Processes, Owner(c) \/ ChildExits(c) \/ OwnerDies(c)
            PROVE  UNCHANGED settled
        BY <3>2 DEF Owner, OwnerLease, OwnerGivesUp, OwnerStarts,
           OwnerBindsChild, OwnerSettles, ChildExits, OwnerDies, KeepOwner
      <3>3. CASE Reconcile
        BY <3>3 DEF Reconcile, RecPick, RecProbe, RecDecide, RecReplay,
           RecWrite, RecWriteEnds, RecAttached, RecEnds
      <3>4. CASE \/ Begin \/ Finish \/ Cancel \/ WatchdogRestart \/ LateSettle
                 \/ Gone(TRUE) \/ Gone(FALSE) \/ Restart
                 \/ \E c \in Writes, f \in Files : Edit(c, f)
        BY <3>4 DEF Begin, Finish, Cancel, WatchdogRestart, LateSettle, Gone,
           Restart, Edit, KeepTools
      <3>. QED
        BY <1>1, <3>1, <3>2, <3>3, <3>4 DEF Next, vars
    <2>. QED
      BY <2>1, <2>2, <2>3, <2>4
  <1>. QED
    BY <1>1, Invariance, PTL DEF Spec, SettlementFinal
=============================================================================
