----------------------------- MODULE AgentExec -----------------------------
(***************************************************************************)
(* agent.exec (tools/agent_exec.rs): a list of ops run in order, with a    *)
(* journal of one checkpoint file per op, and the runs that resume it.     *)
(*                                                                         *)
(* One journal is followed through all the runs that are given its id.     *)
(* What an op does is reduced to whether it succeeds.  A parallel_group    *)
(* has Children, which run concurrently; any other op is one Unit.  The    *)
(* checkpoints of children are written and never read, and are left out;   *)
(* so is post_write_check, which runs a command and changes no result.     *)
(*                                                                         *)
(* Checkpoints are written best effort (`let _ = std::fs::write`): a write *)
(* may leave the file as it was, or cut short, and the run goes on.        *)
(***************************************************************************)
EXTENDS Naturals, FiniteSets

CONSTANTS
    NumOps,         \* length of the list
    Kinds,          \* kinds of op: a subset of OpKinds
    Children,       \* child ops of a parallel_group
    MaxRuns,        \* bound: calls with this journal
    MaxFaults       \* bound: crashes, failed reads and writes, days that pass

OpKinds == {"op", "read_file", "parallel_group"}
Pos     == 1..NumOps
Self    == "self"                   \* the one unit of an ordinary op
Units   == Children \cup {Self}

ASSUME NumOpsType == NumOps \in Nat
ASSUME KindsType == Kinds \subseteq OpKinds
ASSUME SelfIsNoChild == Self \notin Children
ASSUME BoundsType == MaxRuns \in Nat /\ MaxFaults \in Nat

VARIABLES
    kind,           \* the caller's list: kind of the op at each position
    dir,            \* the journal's directory: none, new, or old (24 h)
    ckpt,           \* <i>.json: none, torn, pending, failed or completed
    pc,             \* the run: idle, next, redo, run, ran or report
    pos,            \* loop index i
    resume,         \* resume_journal_id was given
    result,         \* results: none, ok or error of each op met by this run
    todo,           \* units of the op at pos still to run
    stopped,        \* the op at which the last run broke off, or 0
    runs,           \* calls so far
    faults,         \* faults so far
    oks,            \* history: 0, 1 or 2 (or more) successes of each unit
    excused,        \* history: positions a success of which was not recorded
    outdated,       \* history: positions whose checkpoint outlived its op
    reported        \* history: none, success or failure, of the last run

journal == <<dir, ckpt>>
local   == <<pos, resume, result, todo>>
history == <<oks, excused, outdated, reported>>
vars == <<kind, dir, ckpt, pc, pos, resume, result, todo, stopped, runs, faults,
          oks, excused, outdated, reported>>

UnitsOf(k) == IF k = "parallel_group" THEN Children ELSE {Self}

\* The op at i has had all of its effect.
Done(i) == \A u \in UnitsOf(kind[i]) : oks[i][u] > 0
\* It has had some.
Begun(i) == \E u \in Units : oks[i][u] > 0

\* The shape of the state.
TypeOK ==
    /\ kind \in [Pos -> Kinds]
    /\ dir \in {"none", "new", "old"}
    /\ ckpt \in [Pos -> {"none", "torn", "pending", "failed", "completed"}]
    /\ pc \in {"idle", "next", "redo", "run", "ran", "report"}
    /\ pos \in 1..(NumOps + 1)
    /\ resume \in BOOLEAN
    /\ result \in [Pos -> {"none", "ok", "error"}]
    /\ todo \in SUBSET Units
    /\ stopped \in 0..NumOps
    /\ runs \in 0..MaxRuns
    /\ faults \in 0..MaxFaults
    /\ oks \in [Pos -> [Units -> 0..2]]
    /\ excused \in SUBSET Pos
    /\ outdated \in SUBSET Pos
    /\ reported \in {"none", "success", "failure"}

Init ==
    /\ kind \in [Pos -> Kinds]
    /\ dir = "none"
    /\ ckpt = [i \in Pos |-> "none"]
    /\ pc = "idle"
    /\ pos = 1
    /\ resume = FALSE
    /\ result = [i \in Pos |-> "none"]
    /\ todo = {}
    /\ stopped = 0
    /\ runs = 0
    /\ faults = 0
    /\ oks = [i \in Pos |-> [u \in Units |-> 0]]
    /\ excused = {}
    /\ outdated = {}
    /\ reported = "none"

-----------------------------------------------------------------------------

\* remove_dir_all of a journal older than 24 h, with what it recorded.
Purged(i) == ckpt[i] = "completed" \/ i \in excused

\* Mutant: the directory is emptied at the start of every run.
BeginClearing(r) ==
    /\ pc = "idle" /\ runs < MaxRuns /\ (runs > 0 => r)
    /\ runs' = runs + 1
    /\ resume' = r
    /\ dir' = IF dir = "old" THEN "none" ELSE "new"
    /\ ckpt' = [i \in Pos |-> "none"]
    /\ excused' = IF dir = "old" THEN {i \in Pos : Purged(i)} ELSE excused
    /\ pc' = "next"
    /\ pos' = 1
    /\ result' = [i \in Pos |-> "none"]
    /\ stopped' = 0
    /\ reported' = "none"
    /\ UNCHANGED <<kind, todo, faults, oks, outdated>>

\* A call: create_dir_all, then purge_stale_journals, which may take the
\* directory the call has just made sure of (creating it again does not make it
\* younger).  A later call without the id starts another journal.
Begin(r) ==
    /\ pc = "idle" /\ runs < MaxRuns /\ (runs > 0 => r)
    /\ runs' = runs + 1
    /\ resume' = r
    /\ dir' = IF dir = "old" THEN "none" ELSE "new"
    /\ ckpt' = IF dir = "old" THEN [i \in Pos |-> "none"] ELSE ckpt
    /\ excused' = IF dir = "old" THEN {i \in Pos : Purged(i)} ELSE excused
    /\ pc' = "next"
    /\ pos' = 1
    /\ result' = [i \in Pos |-> "none"]
    /\ stopped' = 0
    /\ reported' = "none"
    /\ UNCHANGED <<kind, todo, faults, oks, outdated>>

\* The checkpoint parses and its status is completed.
MaySkip(i) == resume /\ ckpt[i] = "completed"

\* Resume: take the stored result and go on.
Skip ==
    /\ pc = "next" /\ pos \in Pos
    /\ MaySkip(pos)
    /\ result' = [result EXCEPT ![pos] = "ok"]
    /\ pos' = pos + 1
    /\ UNCHANGED <<kind, journal, pc, resume, todo, stopped, runs, faults, history>>

\* It is there and cannot be read: the op will be run again.
Unreadable ==
    /\ pc = "next" /\ pos \in Pos
    /\ MaySkip(pos) /\ faults < MaxFaults
    /\ faults' = faults + 1
    /\ excused' = excused \cup {pos}
    /\ pc' = "redo"
    /\ UNCHANGED <<kind, journal, local, stopped, runs, oks, outdated, reported>>

\* std::fs::write of a checkpoint, by outcome.  A new file makes its directory
\* young; without the directory nothing is written.
WriteCheckpoint(i, status, outcome) ==
    \/ /\ outcome = "written" /\ dir # "none"
       /\ ckpt' = [ckpt EXCEPT ![i] = status]
       /\ dir' = IF ckpt[i] = "none" THEN "new" ELSE dir
       /\ UNCHANGED faults
    \/ /\ outcome = "torn" /\ dir # "none" /\ faults < MaxFaults
       /\ ckpt' = [ckpt EXCEPT ![i] = "torn"]
       /\ dir' = IF ckpt[i] = "none" THEN "new" ELSE dir
       /\ faults' = faults + 1
    \/ /\ outcome = "lost" /\ dir = "none"
       /\ UNCHANGED <<dir, ckpt, faults>>
    \/ /\ outcome = "lost" /\ dir # "none" /\ faults < MaxFaults
       /\ faults' = faults + 1
       /\ UNCHANGED <<dir, ckpt>>

\* The pending checkpoint, before the op.
WritePending(outcome) ==
    /\ pos \in Pos
    /\ pc = "redo" \/ (pc = "next" /\ ~MaySkip(pos))
    /\ WriteCheckpoint(pos, "pending", outcome)
    /\ todo' = UnitsOf(kind[pos])
    /\ result' = [result EXCEPT ![pos] = "ok"]      \* until a unit fails
    /\ pc' = "run"
    /\ UNCHANGED <<kind, pos, resume, stopped, runs, history>>

\* execute_op of one unit.  The children of a group run in any order, and all of
\* them run whatever becomes of the others (join_all).
RunUnit(u, ok) ==
    /\ pc = "run" /\ u \in todo
    /\ todo' = todo \ {u}
    /\ IF ok THEN /\ oks' = [oks EXCEPT ![pos][u] = IF @ = 0 THEN 1 ELSE 2]
                  /\ UNCHANGED result
             ELSE /\ result' = [result EXCEPT ![pos] = "error"]
                  /\ UNCHANGED oks
    /\ UNCHANGED <<kind, journal, pc, pos, resume, stopped, runs, faults, excused, outdated,
                   reported>>

\* Every unit has ended.
OpEnds ==
    /\ pc = "run" /\ todo = {}
    /\ pc' = "ran"
    /\ UNCHANGED <<kind, journal, local, stopped, runs, faults, history>>

\* Mutant: the loop goes on after any failure.
NeverFatal(i) == FALSE

\* The loop stops at the first failure, unless the op is a read_file.
Fatal(i) == result[i] = "error" /\ kind[i] # "read_file"

Status(i) == IF result[i] = "error" THEN "failed" ELSE "completed"

\* The outcome is recorded, and the loop goes on or stops.  A success that is
\* not recorded (the write went wrong, or a sibling failed) will be repeated.
WriteOutcome(outcome) ==
    /\ pc = "ran"
    /\ WriteCheckpoint(pos, Status(pos), outcome)
    /\ excused' = IF Begun(pos) /\ ckpt'[pos] # "completed" THEN excused \cup {pos} ELSE excused
    /\ IF Fatal(pos) THEN /\ pc' = "report"
                          /\ stopped' = pos
                          /\ UNCHANGED pos
                     ELSE /\ pc' = "next"
                          /\ pos' = pos + 1
                          /\ UNCHANGED stopped
    /\ UNCHANGED <<kind, resume, result, todo, runs, oks, outdated, reported>>

\* The end of the list.
ListEnds ==
    /\ pc = "next" /\ pos = NumOps + 1
    /\ pc' = "report"
    /\ UNCHANGED <<kind, journal, local, stopped, runs, faults, history>>

\* Mutant: failures the loop goes on after do not count.
ReportTolerant ==
    /\ pc = "report"
    /\ reported' = IF \A i \in Pos : ~Fatal(i) THEN "success" ELSE "failure"
    /\ pc' = "idle"
    /\ UNCHANGED <<kind, journal, local, stopped, runs, faults, oks, excused, outdated>>

\* all_ok: no result is an error.
Report ==
    /\ pc = "report"
    /\ reported' = IF \A i \in Pos : result[i] # "error" THEN "success" ELSE "failure"
    /\ pc' = "idle"
    /\ UNCHANGED <<kind, journal, local, stopped, runs, faults, oks, excused, outdated>>

\* Between two runs the caller repairs the op at which the last one stopped.  Its
\* checkpoint says completed only if it could not be read when the op was run
\* again, nor written since; it then stands for an op no longer on the list.
Repair(k) ==
    /\ pc = "idle" /\ stopped > 0
    /\ kind' = [kind EXCEPT ![stopped] = k]
    /\ oks' = [oks EXCEPT ![stopped] = [u \in Units |-> 0]]
    /\ outdated' = IF ckpt[stopped] = "completed" THEN outdated \cup {stopped} ELSE outdated
    /\ stopped' = 0
    /\ UNCHANGED <<journal, pc, local, runs, faults, excused, reported>>

\* The server ends during a run; what the op at pos has done is not recorded.
Crash ==
    /\ pc # "idle" /\ faults < MaxFaults
    /\ faults' = faults + 1
    /\ pc' = "idle"
    /\ todo' = {}
    /\ excused' = IF pc \in {"run", "ran"} /\ Begun(pos) THEN excused \cup {pos} ELSE excused
    /\ UNCHANGED <<kind, journal, pos, resume, result, stopped, runs, oks, outdated,
                   reported>>

\* 24 h pass in which no file is added to the journal.
Age ==
    /\ dir = "new" /\ faults < MaxFaults
    /\ faults' = faults + 1
    /\ dir' = "old"
    /\ UNCHANGED <<kind, ckpt, pc, local, stopped, runs, history>>

\* A run of another journal purges this one.
PurgeByOther ==
    /\ dir = "old"
    /\ dir' = "none"
    /\ ckpt' = [i \in Pos |-> "none"]
    /\ excused' = {i \in Pos : Purged(i)}
    /\ UNCHANGED <<kind, pc, local, stopped, runs, faults, oks, outdated, reported>>

WriteOutcomes == {"written", "torn", "lost"}

Next ==
    \/ \E r \in BOOLEAN : Begin(r)
    \/ Skip \/ Unreadable
    \/ \E o \in WriteOutcomes : WritePending(o) \/ WriteOutcome(o)
    \/ \E u \in Units, ok \in BOOLEAN : RunUnit(u, ok)
    \/ OpEnds \/ ListEnds \/ Report
    \/ \E k \in Kinds : Repair(k)
    \/ Crash \/ Age \/ PurgeByOther

Spec == Init /\ [][Next]_vars

-----------------------------------------------------------------------------

\* A run that reports success stands for the whole list: every op of it, the
\* skipped ones included, has had its effect in this run or an earlier one.  Only
\* a checkpoint that could be neither read nor overwritten when its op was run
\* again, and failed, can make a later run skip what the caller put in its place.
SuccessMeansAllDone == reported = "success" => \A i \in Pos : Done(i) \/ i \in outdated

\* adr-019's "only failed/pending ops re-run": work is done twice only where
\* the journal lost the record of it (a crash or a failed write before the
\* outcome was stored, a purge), could not read it, or never had one (a sibling
\* in a parallel_group failed).
RecordedWorkIsNotRepeated ==
    \A i \in Pos, u \in Units : oks[i][u] = 2 => i \in excused

\* When an op takes effect, every op before it on the caller's list has, in this
\* run or an earlier one, a failed read_file and an op hidden by an outdated
\* checkpoint excepted: neither the skipping of a resume nor a fault lets an op
\* overtake one it may build on.
EffectsFollowOrder ==
    [][\A u \in Units : RunUnit(u, TRUE) =>
           \A j \in 1..(pos - 1) : kind[j] = "read_file" \/ Done(j) \/ j \in outdated]_vars
=============================================================================
