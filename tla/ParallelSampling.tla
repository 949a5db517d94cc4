-------------------------- MODULE ParallelSampling --------------------------
(***************************************************************************)
(* Sampling in parallel: the OpenMP loops of patExperimentBed,             *)
(* sampleChoiceSetWithOd and simulateObservations, and of                  *)
(* patSampleChoiceSetForObservations (src/src/RouteChoice). Each iteration *)
(* is a job: it clones the path generator, runs it, and a writer keeps     *)
(* some of the states of its chain: patObservationWritter a file per path  *)
(* at once, patChoiceSetWriter one file for all at the end.                *)
(*                                                                         *)
(* The clones share the generator's m_nip_calculator, in which run leaves  *)
(* its router, network and weights before it reads them again. A "stop"    *)
(* file ends the process from whichever chain sees it first, and so does   *)
(* an exception, which cannot leave a parallel region.                     *)
(*                                                                         *)
(* The paths themselves are MHPathSampler's; here a state of a chain is    *)
(* the number of states so far. A definition named after another with      *)
(* _Wrong is what a mistake would make of it: the properties are checked   *)
(* to notice.                                                              *)
(***************************************************************************)
EXTENDS Integers, FiniteSets

CONSTANTS Thread,
          Job,           \* the iterations of the parallel loop
          Query          \* the programs run

ASSUME JobAssumption == IsFiniteSet(Job) /\ Job # {} /\ Job = 0 .. Cardinality(Job) - 1

\* samples stands for SAMPLE_COUNT, or the block of it that a job gets; restarts
\* bounds how often the user runs the program again.
ASSUME QueryAssumption ==
  Query \subseteq [writer : {"observations", "choice set"}, samples : Nat \ {0},
                   interval : Nat \ {0}, warmup : Nat, overwrite : BOOLEAN,
                   restarts : Nat]

NoJob == -1

VARIABLES
  q,           \* the query
  jobs_left,   \* the iterations no thread has started
  at,          \* where each thread is; "idle" between jobs
  job,         \* the job whose clone each thread has
  params,      \* whose router, network and weights m_nip_calculator points at
  used,        \* whose each job read back
  path_count,  \* m_path_count of each job's writer
  recorded,    \* the counts at which each job kept the state
  files,       \* the observation files: number and the job that wrote it
  disk,        \* each job's choice set on disk: "absent", "partial", "complete"
  stop_file,   \* whether there is a file named stop in the folder
  process,     \* "running", "exiting" (in exit(0)), "exited", "crashed", "returned"
  restarts

vars == <<q, jobs_left, at, job, params, used, path_count, recorded, files, disk,
          stop_file, process, restarts>>

inChain == <<path_count, recorded, files>>
outside == <<q, stop_file, restarts>>

-----------------------------------------------------------------------------
Alive == process \in {"running", "exiting"}

\* The iterations run asks of its algorithm; one state more is processed.
Iterations_Wrong == q.warmup + q.samples * q.interval
Iterations ==
  q.warmup + q.samples * q.interval - IF q.writer = "observations" THEN 0 ELSE 1

\* Which states processState keeps.
Sampled_Wrong(count) == count > q.warmup /\ (count - q.warmup - 1) % q.interval = 0
Sampled(count) == count > q.warmup /\ (count - q.warmup) % q.interval = 0

\* The number of a job's next observation file, behind the blocks before it.
FileNumber_Wrong(j) == j + Cardinality(recorded[j]) + 1
FileNumber(j) == j * q.samples + Cardinality(recorded[j]) + 1

Init ==
  /\ q \in Query
  /\ jobs_left = Job
  /\ at = [t \in Thread |-> "idle"]
  /\ job = [t \in Thread |-> NoJob]
  /\ params = NoJob
  /\ used = [j \in Job |-> {}]
  /\ path_count = [j \in Job |-> 0]
  /\ recorded = [j \in Job |-> {}]
  /\ files = {}
  /\ disk = [j \in Job |-> "absent"]
  /\ stop_file = FALSE
  /\ process = "running"
  /\ restarts = 0

Take_WrongRedo(t) ==
  /\ Alive /\ at[t] = "idle"
  /\ \E j \in jobs_left :
       /\ jobs_left' = jobs_left \ {j}
       /\ at' = [at EXCEPT ![t] = "prepare"]
       /\ job' = [job EXCEPT ![t] = j]
  /\ UNCHANGED <<params, used, inChain, disk, process, outside>>

Take_WrongSkip(t) ==
  /\ Alive /\ at[t] = "idle"
  /\ \E j \in jobs_left :
       /\ jobs_left' = jobs_left \ {j}
       /\ IF disk[j] # "absent"
          THEN UNCHANGED <<at, job>>
          ELSE at' = [at EXCEPT ![t] = "prepare"] /\ job' = [job EXCEPT ![t] = j]
  /\ UNCHANGED <<params, used, inChain, disk, process, outside>>

\* A thread starts an iteration, with a clone. A choice set that has a file
\* is "SKIPPED" when files are not to be overwritten.
Take(t) ==
  /\ Alive /\ at[t] = "idle"
  /\ \E j \in jobs_left :
       /\ jobs_left' = jobs_left \ {j}
       /\ IF ~q.overwrite /\ disk[j] # "absent"
          THEN UNCHANGED <<at, job>>
          ELSE at' = [at EXCEPT ![t] = "prepare"] /\ job' = [job EXCEPT ![t] = j]
  /\ UNCHANGED <<params, used, inChain, disk, process, outside>>

\* run: what NetworkReduction models, then m_nip_calculator->setParams.
SetParams(t) ==
  /\ Alive /\ at[t] = "prepare"
  /\ params' = job[t]
  /\ at' = [at EXCEPT ![t] = "labels"]
  /\ UNCHANGED <<jobs_left, job, used, inChain, disk, process, outside>>

\* calculate: the trees are those of m_router.
ReadRouter(t) ==
  /\ Alive /\ at[t] = "labels"
  /\ used' = [used EXCEPT ![job[t]] = @ \cup {params}]
  /\ at' = [at EXCEPT ![t] = "weights"]
  /\ UNCHANGED <<jobs_left, job, params, inChain, disk, process, outside>>

\* calculate: the probabilities come from m_MHWeight; then the writer starts.
ReadWeight(t) ==
  /\ Alive /\ at[t] = "weights"
  /\ used' = [used EXCEPT ![job[t]] = @ \cup {params}]
  /\ path_count' = [path_count EXCEPT ![job[t]] = 0]
  /\ recorded' = [recorded EXCEPT ![job[t]] = {}]
  /\ at' = [at EXCEPT ![t] = "chain"]
  /\ UNCHANGED <<jobs_left, job, params, files, disk, process, outside>>

\* processState on the next state of the chain.
Process(t) ==
  /\ Alive /\ at[t] = "chain"
  /\ path_count[job[t]] <= Iterations
  /\ ~stop_file
  /\ LET j == job[t]
         count == path_count[j] + 1
     IN  /\ path_count' = [path_count EXCEPT ![j] = count]
         /\ recorded' = IF Sampled(count) THEN [recorded EXCEPT ![j] = @ \cup {count}] ELSE recorded
         /\ files' = IF Sampled(count) /\ q.writer = "observations"
                     THEN files \cup {<<FileNumber(j), j>>} ELSE files
  /\ UNCHANGED <<jobs_left, at, job, params, used, disk, process, outside>>

\* processState finds the stop file: end(), which writes to the path writer's
\* memory at most, and exit(0). The other threads run on until it is done.
Stop(t) ==
  /\ Alive /\ at[t] = "chain"
  /\ path_count[job[t]] <= Iterations
  /\ stop_file
  /\ path_count' = [path_count EXCEPT ![job[t]] = @ + 1]
  /\ at' = [at EXCEPT ![t] = "exit"]
  /\ process' = "exiting"
  /\ UNCHANGED <<jobs_left, job, params, used, recorded, files, disk, outside>>

Leave_Wrong(t) == at' = [at EXCEPT ![t] = "idle"] /\ UNCHANGED job

\* The clone is deleted.
Leave(t) == at' = [at EXCEPT ![t] = "idle"] /\ job' = [job EXCEPT ![t] = NoJob]

End_Wrong(t) ==
  /\ Alive /\ at[t] = "chain"
  /\ path_count[job[t]] = Iterations
  /\ IF q.writer = "observations" THEN Leave(t)
     ELSE at' = [at EXCEPT ![t] = "close"] /\ UNCHANGED job
  /\ UNCHANGED <<jobs_left, params, used, inChain, disk, process, outside>>

\* The chain ends, with end(); an observation is complete then.
End(t) ==
  /\ Alive /\ at[t] = "chain"
  /\ path_count[job[t]] = Iterations + 1
  /\ IF q.writer = "observations" THEN Leave(t)
     ELSE at' = [at EXCEPT ![t] = "close"] /\ UNCHANGED job
  /\ UNCHANGED <<jobs_left, params, used, inChain, disk, process, outside>>

\* patKMLPathWriter::close creates the file ...
Close(t) ==
  /\ Alive /\ at[t] = "close"
  /\ disk' = [disk EXCEPT ![job[t]] = "partial"]
  /\ at' = [at EXCEPT ![t] = "write"]
  /\ UNCHANGED <<jobs_left, job, params, used, inChain, process, outside>>

\* ... and writes it.
Write(t) ==
  /\ Alive /\ at[t] = "write"
  /\ disk' = [disk EXCEPT ![job[t]] = "complete"]
  /\ Leave(t)
  /\ UNCHANGED <<jobs_left, params, used, inChain, process, outside>>

\* An exception of run, or what reading the params of a run that is over does.
Crash(t) ==
  /\ Alive /\ at[t] \in {"prepare", "labels", "weights", "chain"}
  /\ process' = "crashed"
  /\ UNCHANGED <<jobs_left, at, job, params, used, inChain, disk, outside>>

Thread_(t) ==
  \/ Take(t) \/ SetParams(t) \/ ReadRouter(t) \/ ReadWeight(t)
  \/ Process(t) \/ Stop(t) \/ End(t) \/ Close(t) \/ Write(t)

\* The loop is left when every thread is through.
Return ==
  /\ process = "running"
  /\ jobs_left = {} /\ \A t \in Thread : at[t] = "idle"
  /\ process' = "returned"
  /\ UNCHANGED <<jobs_left, at, job, params, used, inChain, disk, outside>>

Exit ==
  /\ process = "exiting"
  /\ process' = "exited"
  /\ UNCHANGED <<jobs_left, at, job, params, used, inChain, disk, outside>>

\* The user asks the program to stop.
MakeStopFile ==
  /\ Alive /\ ~stop_file
  /\ stop_file' = TRUE
  /\ UNCHANGED <<q, jobs_left, at, job, params, used, inChain, disk, process, restarts>>

\* The user removes the stop file and runs the program again.
Restart ==
  /\ process \in {"exited", "crashed"} /\ restarts < q.restarts
  /\ restarts' = restarts + 1
  /\ stop_file' = FALSE
  /\ process' = "running"
  /\ jobs_left' = Job
  /\ at' = [t \in Thread |-> "idle"]
  /\ job' = [t \in Thread |-> NoJob]
  /\ params' = NoJob
  /\ used' = [j \in Job |-> {}]
  /\ path_count' = [j \in Job |-> 0]
  /\ recorded' = [j \in Job |-> {}]
  /\ UNCHANGED <<q, files, disk>>

Next ==
  \/ \E t \in Thread : Thread_(t) \/ Crash(t)
  \/ Return \/ Exit \/ MakeStopFile \/ Restart

\* The threads are run and exit returns; the user does what the user wants.
Fairness == (\A t \in Thread : WF_vars(Thread_(t))) /\ WF_vars(Return) /\ WF_vars(Exit)

Spec == Init /\ [][Next]_vars /\ Fairness

-----------------------------------------------------------------------------
TypeOK ==
  /\ q \in Query
  /\ jobs_left \subseteq Job
  /\ at \in [Thread -> {"idle", "prepare", "labels", "weights", "chain", "close", "write", "exit"}]
  /\ job \in [Thread -> Job \cup {NoJob}]
  /\ \A t \in Thread : (at[t] = "idle") = (job[t] = NoJob)
  /\ params \in Job \cup {NoJob}
  /\ used \in [Job -> SUBSET Job]
  /\ path_count \in [Job -> 0 .. Iterations + 1]
  /\ recorded \in [Job -> SUBSET Nat]
  /\ \A j \in Job : recorded[j] \subseteq 1 .. path_count[j]
  /\ files \subseteq (Nat \X Job)
  /\ disk \in [Job -> {"absent", "partial", "complete"}]
  /\ stop_file \in BOOLEAN
  /\ process \in {"running", "exiting", "exited", "crashed", "returned"}
  /\ restarts \in 0 .. q.restarts

(***************************************************************************)
(* No observation overwrites another's file, in whichever order the jobs   *)
(* run, and when the loop is done the files are numbered without a gap.    *)
(* With an interval of one a job keeps one state more than its block has   *)
(* numbers, since the initial state is one more than the iterations (run,  *)
(* MHPathGenerator.cc:318): it shares a file with the next job.            *)
(***************************************************************************)
OwnFiles ==
  LET extra == IF q.interval = 1 THEN 1 ELSE 0
  IN  q.writer = "observations" =>
        /\ \A f, g \in files : f[1] = g[1] /\ f[2] < g[2] =>
             extra = 1 /\ g[2] = f[2] + 1 /\ f[1] = g[2] * q.samples + 1
        /\ process = "returned" =>
             {f[1] : f \in files} = 1 .. q.samples * Cardinality(Job) + extra

(***************************************************************************)
(* A choice set goes to its file with exactly the samples asked for,       *)
(* behind the warm-up and an interval apart.                               *)
(***************************************************************************)
ExactChoiceSet ==
  \A t \in Thread :
    at[t] \in {"close", "write"} =>
      recorded[job[t]] = {q.warmup + k * q.interval : k \in 1 .. q.samples}

(***************************************************************************)
(* When the program returns, every choice set is on disk, also when an     *)
(* earlier run of it was stopped. Only if files are not overwritten may    *)
(* one be left that the stop cut off: its mere presence had it skipped.    *)
(***************************************************************************)
AllOnDisk ==
  (process = "returned" /\ q.writer = "choice set") =>
    \A j \in Job : \/ disk[j] = "complete"
                   \/ disk[j] = "partial" /\ ~q.overwrite /\ restarts > 0

(***************************************************************************)
(* Unless files are to be overwritten, a complete choice set stays: a      *)
(* program run again after a stop does not sample it once more.            *)
(***************************************************************************)
FinishedStays ==
  [][\A j \in Job : (~q.overwrite /\ disk[j] = "complete") => disk'[j] = "complete"]_vars

(***************************************************************************)
(* The program ends, by returning, by the stop file or by an exception:    *)
(* no thread waits for another.                                            *)
(***************************************************************************)
Termination == <>[](~Alive)

(***************************************************************************)
(* "path generators and networks cloned"                                   *)
(* (patSampleChoiceSetForObservations.cc, line 43): a job computes its     *)
(* node insertion probabilities with its own clone's router and weights.   *)
(***************************************************************************)
OwnParams == \A j \in Job : used[j] \subseteq {j}

=============================================================================
