--------------------------------- MODULE Pulls ---------------------------------
(***************************************************************************)
(* The model downloads of the agent (agent/src/pulls.ts): jobs with an id, *)
(* one running at a time, the others in a line.                            *)
(*                                                                         *)
(* run() waits for the engine to be there and then for the engine's own    *)
(* download (Runtime.pull); everything else, the way from the end of one   *)
(* job to the start of the next included, is one callback.                 *)
(***************************************************************************)
EXTENDS Integers, Sequences, FiniteSets, SequencesExt

CONSTANTS
  Names,         \* models that can be asked for
  KeepFinished,  \* KEEP_FINISHED
  MaxStarts,     \* bound: jobs over the life of the agent
  MaxProgress    \* bound: progress reports of one download

ASSUME PullsAssumption == KeepFinished \in Nat /\ MaxStarts \in Nat /\ MaxProgress \in Nat

VARIABLES
  started,   \* number of jobs so far; a job's id is its number
  job,       \* the jobs map: id -> [name, status, aborted]
  line,      \* `waiting`: ids, next first
  current,   \* the id run() is at work on, 0 if `running` is false
  phase,     \* run()'s wait: "none", "engine" (ensureRunning) or "pull"
  stalled,   \* run()'s own `stalled`
  progress   \* progress reports of the current download

pullsVars == <<started, job, line, current, phase, stalled, progress>>

Ids == DOMAIN job
Unfinished == {i \in Ids : job[i].status \in {"queued", "running"}}
Finished == Ids \ Unfinished

(* `aborted`: its AbortController has fired.  A finished job has none. *)
Job(name, status) == [name |-> name, status |-> status, aborted |-> FALSE]

(* A likely mistake: the controller stays behind. *)
EndedStillAborted(j, status) == [j EXCEPT !.status = status]

(* finish() *)
Ended(j, status) == Job(j.name, status)

-----------------------------------------------------------------------------
(* The pump. *)

(* Place in the line of the job that runs next: those before it have been  *)
(* aborted and end as cancelled.  One past the end if there is none.       *)
NextPlace(jobs) ==
  CHOOSE k \in 1..(Len(line) + 1) :
    /\ k <= Len(line) => ~jobs[line[k]].aborted
    /\ \A l \in 1..(k - 1) : jobs[line[l]].aborted

(* The current job ends with `status`, and the line moves up. *)
Finish(status) ==
  LET k == NextPlace(job)
      next == IF k <= Len(line) THEN line[k] ELSE 0
      skipped == {i \in Ids : \E l \in 1..(k - 1) : l <= Len(line) /\ line[l] = i}
  IN  /\ job' = [i \in Ids |->
                   IF i = current THEN Ended(job[i], status)
                   ELSE IF i \in skipped THEN Ended(job[i], "cancelled")
                   ELSE IF i = next THEN Job(job[i].name, "running")
                   ELSE job[i]]
      /\ line' = SubSeq(line, k + 1, Len(line))
      /\ current' = next
      /\ phase' = IF next = 0 THEN "none" ELSE "engine"
      /\ stalled' = FALSE /\ progress' = 0
      /\ UNCHANGED started

-----------------------------------------------------------------------------
PullsInit ==
  /\ started = 0 /\ job = <<>> /\ line = <<>>
  /\ current = 0 /\ phase = "none" /\ stalled = FALSE /\ progress = 0

(* A likely mistake: the oldest jobs go, whatever they are doing. *)
OldestOfAll(jobs) ==
  {i \in DOMAIN jobs : Cardinality({k \in DOMAIN jobs : k >= i}) > KeepFinished}

(* prune(): the oldest finished jobs beyond the number to keep. *)
Pruned(jobs) ==
  LET finished == {i \in DOMAIN jobs : jobs[i].status \notin {"queued", "running"}}
  IN  {i \in finished : Cardinality({k \in finished : k >= i}) > KeepFinished}

(* A likely mistake: a new job goes before the others. *)
JoinedInFront(id) == <<id>> \o line

Joined(id) == Append(line, id)

(* start() of a model that is not on its way; asking for one that is       *)
(* changes nothing.  With nothing else to do the job runs at once.         *)
StartPull(name) ==
  /\ started < MaxStarts
  /\ \A i \in Unfinished : job[i].name # name
  /\ LET id == started + 1
         jobs == [i \in Ids \cup {id} |->
                    IF i # id THEN job[i]
                    ELSE Job(name, IF current = 0 THEN "running" ELSE "queued")]
     IN  /\ started' = id
         /\ job' = [i \in (Ids \cup {id}) \ Pruned(jobs) |-> jobs[i]]
         /\ IF current = 0
            THEN current' = id /\ phase' = "engine" /\ UNCHANGED line
            ELSE line' = Joined(id) /\ UNCHANGED <<current, phase>>
  /\ UNCHANGED <<stalled, progress>>

(* cancel(): out of the line, an abort for the running one, or off the     *)
(* list.                                                                   *)
Cancel(i) ==
  /\ i \in Ids
  /\ CASE job[i].status = "queued" ->
            /\ line' = RemoveAt(line, CHOOSE k \in DOMAIN line : line[k] = i)
            /\ job' = [job EXCEPT ![i] = Ended(@, "cancelled")]
       [] job[i].status = "running" ->
            /\ job' = [job EXCEPT ![i].aborted = TRUE]
            /\ UNCHANGED line
       [] OTHER ->
            /\ job' = [k \in Ids \ {i} |-> job[k]]
            /\ UNCHANGED line
  /\ UNCHANGED <<started, current, phase, stalled, progress>>

(* abortAll(), when the agent closes. *)
AbortAll ==
  /\ job' = [i \in Ids |-> [job[i] EXCEPT !.aborted = (i \in Unfinished)]]
  /\ UNCHANGED <<started, line, current, phase, stalled, progress>>

(* A likely mistake: the timer is remembered, and nothing is aborted. *)
StallUnnoticed ==
  /\ current # 0 /\ ~stalled
  /\ stalled' = TRUE
  /\ UNCHANGED <<started, job, line, current, phase, progress>>

(* The stall timer fires. *)
Stall ==
  /\ current # 0 /\ ~stalled
  /\ stalled' = TRUE
  /\ job' = [job EXCEPT ![current].aborted = TRUE]
  /\ UNCHANGED <<started, line, current, phase, progress>>

(* How run() reports an abort. *)
AbortedAs == IF stalled THEN "failed" ELSE "cancelled"

(* The engine is there.  A download aborted meanwhile is not begun. *)
EngineReady ==
  /\ phase = "engine"
  /\ IF job[current].aborted
     THEN Finish(AbortedAs)
     ELSE phase' = "pull" /\ UNCHANGED <<started, job, line, current, stalled, progress>>

EngineFails ==
  /\ phase = "engine"
  /\ Finish(IF job[current].aborted THEN AbortedAs ELSE "failed")

(* A line of progress; it restarts the stall timer. *)
Progress ==
  /\ phase = "pull" /\ ~job[current].aborted /\ progress < MaxProgress
  /\ progress' = progress + 1
  /\ UNCHANGED <<started, job, line, current, phase, stalled>>

(* The engine's download ends, confirmed or not. *)
PullEnds(status) ==
  /\ phase = "pull" /\ ~job[current].aborted
  /\ Finish(status)

(* The aborted connection has been given up. *)
PullAborted ==
  /\ phase = "pull" /\ job[current].aborted
  /\ Finish(AbortedAs)

EngineAnswers == EngineReady \/ EngineFails

PullStep == Progress \/ (\E status \in {"succeeded", "failed"} : PullEnds(status)) \/ PullAborted \/ Stall

PullsNext ==
  \/ \E name \in Names : StartPull(name)
  \/ \E i \in Ids : Cancel(i)
  \/ AbortAll
  \/ EngineAnswers
  \/ PullStep

PullsSpec == PullsInit /\ [][PullsNext]_pullsVars

-----------------------------------------------------------------------------
Statuses == {"queued", "running", "succeeded", "failed", "cancelled"}

PullsTypeOK ==
  /\ started \in 0..MaxStarts
  /\ Ids \subseteq 1..started
  /\ job \in [Ids -> [name : Names, status : Statuses, aborted : BOOLEAN]]
  /\ line \in Seq(Ids)
  /\ current \in {0} \cup Ids
  /\ phase \in {"none", "engine", "pull"} /\ stalled \in BOOLEAN
  /\ progress \in 0..MaxProgress

(* The line holds exactly the queued jobs, in the order they were asked    *)
(* for.                                                                    *)
LineIsTheQueue ==
  /\ \A i \in Ids : job[i].status = "queued" <=> \E k \in DOMAIN line : line[k] = i
  /\ \A k, l \in DOMAIN line : k < l => line[k] < line[l]

(* One job runs at a time, and the line does not wait for nothing. *)
OneRuns ==
  /\ \A i \in Ids : job[i].status = "running" <=> i = current
  /\ phase = "none" <=> current = 0
  /\ current = 0 => line = <<>> /\ ~stalled

(* No two unfinished jobs are for the same model, and only an unfinished   *)
(* one can be aborted; after the stall timer the current one is.           *)
JobsConsistent ==
  /\ \A i, k \in Unfinished : job[i].name = job[k].name => i = k
  /\ \A i \in Ids : job[i].aborted => i \in Unfinished
  /\ stalled => job[current].aborted

(* A job that runs is older than all that wait. *)
OldestRuns == current # 0 => \A k \in DOMAIN line : current < line[k]

PullsInv ==
  /\ PullsTypeOK
  /\ LineIsTheQueue
  /\ OneRuns
  /\ JobsConsistent
  /\ OldestRuns

(* Downloads begin in the order they were asked for, each when all before  *)
(* it have ended.                                                          *)
InOrder ==
  [][\A i \in DOMAIN job' :
       (job'[i].status = "running" /\ (i \in Ids => job[i].status # "running"))
         => \A k \in DOMAIN job' : k < i => job'[k].status \notin {"queued", "running"}]_pullsVars

(* A job leaves the list only when it has ended, and what ended as it did  *)
(* stays so; one that was aborted never ends as succeeded.                 *)
JobsAreSafe ==
  [][\A i \in Ids :
       /\ i \in Unfinished => i \in DOMAIN job'
       /\ i \in Finished /\ i \in DOMAIN job' => job'[i] = job[i]
       /\ job[i].aborted => job'[i].status # "succeeded"]_pullsVars
=============================================================================
