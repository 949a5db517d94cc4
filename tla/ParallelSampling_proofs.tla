---------------------- MODULE ParallelSampling_proofs -----------------------
(***************************************************************************)
(* What holds of sampling in parallel, for any number of threads and jobs, *)
(* any parameters of the program and any number of times it is run: the    *)
(* samples of a choice set are those asked for, no observation overwrites  *)
(* another's files, and what a stopped run has finished is kept.           *)
(***************************************************************************)
EXTENDS ParallelSampling, FiniteSetTheorems, TLAPS

-----------------------------------------------------------------------------
(* Numbers.                                                                *)

\* Blocks of the same size follow each other.
LEMMA Blocks ==
  ASSUME NEW a \in Nat, NEW b \in Nat, NEW s \in Nat \ {0}
  PROVE  /\ a * s \in Nat /\ (a + 1) * s = a * s + s
         /\ a < b => a * s + s <= b * s
         /\ a * s < b * s => a < b
OBVIOUS

\* What is left of a division, and what is a multiple.
LEMMA Multiples ==
  ASSUME NEW n \in Nat, NEW i \in Nat \ {0}, NEW m \in Nat
  PROVE  /\ (m * i) % i = 0
         /\ n % i = 0 => \E k \in Nat : n = k * i
<1>1. n \div i \in Nat /\ n = (n \div i) * i + (n % i)
  OBVIOUS
<1>2. (m * i) % i = 0
  OBVIOUS
<1>3. ASSUME n % i = 0
      PROVE  \E k \in Nat : n = k * i
  <2>1. n = (n \div i) * i + 0 /\ (n \div i) * i \in Int
    BY <1>1, <1>3
  <2>2. n = (n \div i) * i
    BY <2>1
  <2> QED
    BY <1>1, <2>2
<1> QED
  BY <1>2, <1>3

\* Products of positive numbers are positive.
LEMMA Product ==
  ASSUME NEW a \in Nat \ {0}, NEW b \in Nat \ {0}
  PROVE  a * b \in Nat \ {0}
OBVIOUS

\* Adding zero.
LEMMA PlusZero ==
  ASSUME NEW a \in Nat, NEW b \in Nat
  PROVE  a + b + 0 = a + b
OBVIOUS

\* Jobs are counted from 0, as the loops do.
LEMMA JobsAreNumbers == Cardinality(Job) \in Nat \ {0} /\ Job = 0 .. Cardinality(Job) - 1 /\ Job \subseteq Nat
<1>1. Cardinality(Job) \in Nat /\ Job = 0 .. Cardinality(Job) - 1 /\ Job # {}
  BY JobAssumption, FS_CardinalityType
<1> QED
  BY <1>1

\* The mark of an idle thread is no job.
LEMMA NoJobIsNoJob == NoJob \notin Job
<1>1. \A n \in Nat : n # -1
  OBVIOUS
<1> QED
  BY <1>1, JobsAreNumbers DEF NoJob

\* The parts of a query, and how many states a chain has.
LEMMA QueryType ==
  ASSUME q \in Query
  PROVE  /\ q.writer \in {"observations", "choice set"} /\ q.samples \in Nat \ {0}
         /\ q.interval \in Nat \ {0} /\ q.warmup \in Nat /\ q.restarts \in Nat
         /\ q.samples * q.interval \in Nat \ {0}
         /\ Iterations \in Nat
         /\ Iterations + 1 = q.warmup + q.samples * q.interval + IF q.writer = "observations" THEN 1 ELSE 0
<1>1. q \in [writer : {"observations", "choice set"}, samples : Nat \ {0},
             interval : Nat \ {0}, warmup : Nat, overwrite : BOOLEAN, restarts : Nat]
  BY QueryAssumption
<1>2. /\ q.writer \in {"observations", "choice set"} /\ q.samples \in Nat \ {0}
      /\ q.interval \in Nat \ {0} /\ q.warmup \in Nat /\ q.restarts \in Nat
  BY <1>1
<1>3. q.samples * q.interval \in Nat \ {0}
  BY <1>2, Product
<1> DEFINE product == q.samples * q.interval
<1>4. Iterations = q.warmup + product - IF q.writer = "observations" THEN 0 ELSE 1
  BY DEF Iterations
<1>5. product \in Nat \ {0}
  BY <1>3
<1> HIDE DEF product
<1>6. /\ Iterations \in Nat
      /\ Iterations + 1 = q.warmup + product + IF q.writer = "observations" THEN 1 ELSE 0
  <2> DEFINE w == q.warmup
  <2>0. w \in Nat /\ product \in Nat /\ product >= 1
    <3>1. w \in Nat
      BY <1>2
    <3>2. product \in Nat /\ product >= 1
      BY <1>5
    <3> QED
      BY <3>1, <3>2
  <2> HIDE DEF w
  <2>1. CASE q.writer = "observations"
    <3>1. Iterations = w + product - 0
      BY <1>4, <2>1 DEF w
    <3>2. Iterations \in Nat /\ Iterations + 1 = w + product + 1
      BY <2>0, <3>1
    <3>3. (IF q.writer = "observations" THEN 1 ELSE 0) = 1
      BY <2>1
    <3> QED
      BY <3>2, <3>3 DEF w
  <2>2. CASE q.writer # "observations"
    <3>1. Iterations = w + product - 1
      BY <1>4, <2>2 DEF w
    <3>2. Iterations \in Nat /\ Iterations + 1 = w + product + 0
      BY <2>0, <3>1
    <3>3. (IF q.writer = "observations" THEN 1 ELSE 0) = 0
      BY <2>2
    <3> QED
      BY <3>2, <3>3 DEF w
  <2> QED
    BY <2>1, <2>2
<1> QED
  BY <1>2, <1>3, <1>6 DEF product

-----------------------------------------------------------------------------
(* Type correctness.                                                       *)

\* The calculator points at some job's parameters whenever it is read.
ParamsSet == \A t \in Thread : at[t] \in {"labels", "weights"} => params \in Job

TypeInv == TypeOK /\ ParamsSet

\* A thread that is not idle has a job.
LEMMA HasJob ==
  ASSUME TypeOK, NEW t \in Thread, at[t] # "idle"
  PROVE  job[t] \in Job /\ job[t] # NoJob
BY DEF TypeOK

\* What a job counts and keeps.
LEMMA CountType ==
  ASSUME TypeOK, NEW j \in Job
  PROVE  /\ path_count[j] \in Nat /\ path_count[j] <= Iterations + 1 /\ Iterations \in Nat
         /\ recorded[j] \subseteq 1 .. path_count[j]
<1>1. path_count \in [Job -> 0 .. Iterations + 1] /\ recorded[j] \subseteq 1 .. path_count[j]
  BY DEF TypeOK
<1>2. Iterations \in Nat
  BY QueryType DEF TypeOK
<1>3. path_count[j] \in 0 .. Iterations + 1
  BY <1>1
<1> QED
  BY <1>1, <1>2, <1>3

\* A job's next file has a number.
LEMMA FileNumberType ==
  ASSUME TypeOK, NEW j \in Job
  PROVE  /\ IsFiniteSet(recorded[j]) /\ Cardinality(recorded[j]) \in Nat
         /\ FileNumber(j) = j * q.samples + Cardinality(recorded[j]) + 1
         /\ FileNumber(j) \in Nat
<1>1. recorded[j] \subseteq 1 .. path_count[j] /\ path_count[j] \in Nat
  BY CountType
<1>2. IsFiniteSet(recorded[j]) /\ Cardinality(recorded[j]) \in Nat
  <2>1. IsFiniteSet(1 .. path_count[j])
    BY <1>1, FS_Interval
  <2> QED
    BY <1>1, <2>1, FS_Subset, FS_CardinalityType
<1>3. j \in Nat /\ q.samples \in Nat /\ j * q.samples \in Nat
  BY JobsAreNumbers, QueryType, Blocks DEF TypeOK
<1> QED
  BY <1>2, <1>3 DEF FileNumber

\* What a thread does keeps the types.
LEMMA TypeThread ==
  ASSUME TypeInv, NEW t \in Thread, Thread_(t)
  PROVE  TypeInv'
<1>1. /\ q' = q /\ stop_file' = stop_file /\ restarts' = restarts /\ Iterations' = Iterations
      /\ TypeOK /\ ParamsSet
  BY DEF Thread_, Take, SetParams, ReadRouter, ReadWeight, Process, Stop, End, Close, Write,
         outside, Iterations, TypeInv
<1>2. NoJob \notin Job
  BY NoJobIsNoJob
<1>3. CASE Take(t)
  <2>1. PICK j \in jobs_left :
          /\ jobs_left' = jobs_left \ {j}
          /\ \/ at' = at /\ job' = job
             \/ at' = [at EXCEPT ![t] = "prepare"] /\ job' = [job EXCEPT ![t] = j]
    BY <1>3 DEF Take
  <2>2. UNCHANGED <<params, used, path_count, recorded, files, disk, process>>
    BY <1>3 DEF Take, inChain
  <2> QED
    BY <1>1, <1>2, <2>1, <2>2 DEF TypeInv, TypeOK, ParamsSet
<1>4. CASE SetParams(t) \/ ReadRouter(t)
  <2>1. job[t] \in Job /\ job[t] # NoJob
    BY <1>1, <1>4, HasJob DEF SetParams, ReadRouter
  <2>2. UNCHANGED <<jobs_left, job, path_count, recorded, files, disk, process>>
    BY <1>4 DEF SetParams, ReadRouter, inChain
  <2>3. CASE SetParams(t)
    <3>1. params' = job[t] /\ at' = [at EXCEPT ![t] = "labels"] /\ used' = used
      BY <2>3 DEF SetParams
    <3> QED
      BY <1>1, <2>1, <2>2, <3>1 DEF TypeInv, TypeOK, ParamsSet
  <2>4. CASE ReadRouter(t)
    <3>1. /\ params' = params /\ at' = [at EXCEPT ![t] = "weights"] /\ at[t] = "labels"
          /\ used' = [used EXCEPT ![job[t]] = @ \cup {params}]
      BY <2>4 DEF ReadRouter
    <3>2. used' \in [Job -> SUBSET Job]
      BY <1>1, <2>1, <3>1 DEF TypeOK, ParamsSet
    <3> QED
      BY <1>1, <2>1, <2>2, <3>1, <3>2 DEF TypeInv, TypeOK, ParamsSet
  <2> QED
    BY <1>4, <2>3, <2>4
<1>5. CASE ReadWeight(t)
  <2>1. job[t] \in Job /\ job[t] # NoJob /\ 0 \in 0 .. Iterations + 1
    <3>1. Iterations \in Nat
      BY <1>1, QueryType DEF TypeOK
    <3> QED
      BY <1>1, <1>5, <3>1, HasJob DEF ReadWeight
  <2>2. /\ used' = [used EXCEPT ![job[t]] = @ \cup {params}] /\ at[t] = "weights"
        /\ path_count' = [path_count EXCEPT ![job[t]] = 0]
        /\ recorded' = [recorded EXCEPT ![job[t]] = {}]
        /\ at' = [at EXCEPT ![t] = "chain"]
        /\ UNCHANGED <<jobs_left, job, params, files, disk, process>>
    BY <1>5 DEF ReadWeight
  <2>3. used' \in [Job -> SUBSET Job]
    BY <1>1, <2>1, <2>2 DEF TypeOK, ParamsSet
  <2>4. path_count' \in [Job -> 0 .. Iterations + 1]
    BY <1>1, <2>1, <2>2 DEF TypeOK
  <2>5. \A j \in Job : recorded'[j] \subseteq 1 .. path_count'[j]
    <3> SUFFICES ASSUME NEW j \in Job
                 PROVE  recorded'[j] \subseteq 1 .. path_count'[j]
      OBVIOUS
    <3>1. CASE j = job[t]
      BY <1>1, <2>1, <2>2, <3>1 DEF TypeOK
    <3>2. CASE j # job[t]
      <4>1. recorded'[j] = recorded[j] /\ path_count'[j] = path_count[j]
        BY <1>1, <2>1, <2>2, <3>2 DEF TypeOK
      <4> QED
        BY <1>1, <4>1 DEF TypeOK
    <3> QED
      BY <3>1, <3>2
  <2>6. recorded' \in [Job -> SUBSET Nat]
    BY <1>1, <2>1, <2>2 DEF TypeOK
  <2> QED
    BY <1>1, <2>1, <2>2, <2>3, <2>4, <2>5, <2>6 DEF TypeInv, TypeOK, ParamsSet
<1>6. CASE Process(t)
  <2> DEFINE j == job[t]
             count == path_count[j] + 1
  <2>1. j \in Job
    BY <1>1, <1>6, HasJob DEF Process
  <2>2. path_count[j] \in Nat /\ path_count[j] <= Iterations /\ Iterations \in Nat
        /\ recorded[j] \subseteq 1 .. path_count[j]
    BY <1>1, <1>6, <2>1, CountType DEF Process
  <2>3. /\ path_count' = [path_count EXCEPT ![j] = count]
        /\ recorded' = [recorded EXCEPT ![j] = @ \cup {count}] \/ recorded' = recorded
        /\ files' = files \cup {<<FileNumber(j), j>>} \/ files' = files
        /\ UNCHANGED <<jobs_left, at, job, params, used, disk, process>>
    BY <1>6 DEF Process
  <2>4. FileNumber(j) \in Nat
    BY <1>1, <2>1, FileNumberType
  <2>5. count \in 0 .. Iterations + 1 /\ 1 .. path_count[j] \cup {count} \subseteq 1 .. count
    BY <2>2
  <2> HIDE DEF j, count
  <2>6. path_count' \in [Job -> 0 .. Iterations + 1]
    BY <1>1, <2>1, <2>3, <2>5 DEF TypeOK
  <2>7. \A i \in Job : recorded'[i] \subseteq 1 .. path_count'[i]
    <3> SUFFICES ASSUME NEW i \in Job
                 PROVE  recorded'[i] \subseteq 1 .. path_count'[i]
      OBVIOUS
    <3>1. CASE i # j
      <4>1. recorded'[i] = recorded[i] /\ path_count'[i] = path_count[i]
        BY <1>1, <2>1, <2>3, <3>1 DEF TypeOK
      <4> QED
        BY <1>1, <4>1 DEF TypeOK
    <3>2. CASE i = j
      <4>1. path_count'[j] = count /\ recorded'[j] \subseteq recorded[j] \cup {count}
        BY <1>1, <2>1, <2>3 DEF TypeOK
      <4> QED
        BY <2>2, <2>5, <3>2, <4>1
    <3> QED
      BY <3>1, <3>2
  <2>8. files' \subseteq (Nat \X Job)
    BY <1>1, <2>1, <2>3, <2>4 DEF TypeOK
  <2>9. recorded' \in [Job -> SUBSET Nat]
    BY <1>1, <2>1, <2>2, <2>3, <2>5 DEF TypeOK
  <2> QED
    BY <1>1, <2>3, <2>6, <2>7, <2>8, <2>9 DEF TypeInv, TypeOK, ParamsSet
<1>7. CASE Stop(t)
  <2>1. job[t] \in Job /\ job[t] # NoJob
    BY <1>1, <1>7, HasJob DEF Stop
  <2>2. path_count[job[t]] \in Nat /\ path_count[job[t]] <= Iterations /\ Iterations \in Nat
        /\ recorded[job[t]] \subseteq 1 .. path_count[job[t]]
    BY <1>1, <1>7, <2>1, CountType DEF Stop
  <2> DEFINE j == job[t]
             count == path_count[j] + 1
  <2>3. /\ path_count' = [path_count EXCEPT ![j] = count] /\ recorded' = recorded
        /\ at' = [at EXCEPT ![t] = "exit"] /\ process' = "exiting"
        /\ UNCHANGED <<jobs_left, job, params, used, files, disk>>
    BY <1>7 DEF Stop
  <2>4. count \in 0 .. Iterations + 1 /\ 1 .. path_count[j] \subseteq 1 .. count
    BY <2>2
  <2> HIDE DEF count
  <2>5. path_count' \in [Job -> 0 .. Iterations + 1]
    BY <1>1, <2>1, <2>3, <2>4 DEF TypeOK
  <2>6. \A i \in Job : recorded'[i] \subseteq 1 .. path_count'[i]
    <3> SUFFICES ASSUME NEW i \in Job
                 PROVE  recorded'[i] \subseteq 1 .. path_count'[i]
      OBVIOUS
    <3>1. path_count'[i] = IF i = j THEN count ELSE path_count[i]
      BY <1>1, <2>1, <2>3 DEF TypeOK
    <3>2. recorded[i] \subseteq 1 .. path_count[i]
      BY <1>1 DEF TypeOK
    <3> QED
      BY <2>3, <2>4, <3>1, <3>2
  <2> HIDE DEF j
  <2> QED
    BY <1>1, <2>1, <2>3, <2>5, <2>6 DEF TypeInv, TypeOK, ParamsSet
<1>8. CASE End(t) \/ Close(t) \/ Write(t)
  <2>1. job[t] \in Job /\ job[t] # NoJob
    BY <1>1, <1>8, HasJob DEF End, Close, Write
  <2>2. /\ \/ at' = [at EXCEPT ![t] = "idle"] /\ job' = [job EXCEPT ![t] = NoJob]
           \/ at' = [at EXCEPT ![t] = "close"] /\ job' = job
           \/ at' = [at EXCEPT ![t] = "write"] /\ job' = job
        /\ \/ disk' = disk
           \/ disk' = [disk EXCEPT ![job[t]] = "partial"]
           \/ disk' = [disk EXCEPT ![job[t]] = "complete"]
        /\ UNCHANGED <<jobs_left, params, used, path_count, recorded, files, process>>
    BY <1>8 DEF End, Close, Write, Leave, inChain
  <2>3. disk' \in [Job -> {"absent", "partial", "complete"}]
    BY <1>1, <2>2 DEF TypeOK
  <2>4. /\ at' \in [Thread -> {"idle", "prepare", "labels", "weights", "chain", "close", "write", "exit"}]
        /\ job' \in [Thread -> Job \cup {NoJob}]
        /\ \A r \in Thread : (at'[r] = "idle") = (job'[r] = NoJob)
        /\ \A r \in Thread : at'[r] \in {"labels", "weights"} => params \in Job
    BY <1>1, <2>1, <2>2 DEF TypeOK, ParamsSet
  <2> QED
    BY <1>1, <2>2, <2>3, <2>4 DEF TypeInv, TypeOK, ParamsSet
<1> QED
  BY <1>3, <1>4, <1>5, <1>6, <1>7, <1>8 DEF Thread_

\* The program starts, for the first time or a later one.
Started ==
  /\ q \in Query
  /\ jobs_left = Job
  /\ at = [t \in Thread |-> "idle"] /\ job = [t \in Thread |-> NoJob]
  /\ params = NoJob /\ used = [j \in Job |-> {}]
  /\ path_count = [j \in Job |-> 0] /\ recorded = [j \in Job |-> {}]
  /\ files \subseteq (Nat \X Job) /\ disk \in [Job -> {"absent", "partial", "complete"}]
  /\ stop_file = FALSE /\ process = "running" /\ restarts \in 0 .. q.restarts

\* And so does the program when it starts.
LEMMA TypeStart == Started => TypeInv
<1> SUFFICES ASSUME Started PROVE TypeInv
  OBVIOUS
<1> USE DEF Started
<1>1. 0 \in 0 .. Iterations + 1
  <2>1. Iterations \in Nat
    BY QueryType
  <2> QED
    BY <2>1
<1>2. path_count \in [Job -> 0 .. Iterations + 1] /\ recorded \in [Job -> SUBSET Nat]
  BY <1>1
<1>3. \A j \in Job : recorded[j] \subseteq 1 .. path_count[j]
  OBVIOUS
<1>4. /\ at \in [Thread -> {"idle", "prepare", "labels", "weights", "chain", "close", "write", "exit"}]
      /\ \A t \in Thread : at[t] \notin {"labels", "weights"}
  OBVIOUS
<1>5. /\ job \in [Thread -> Job \cup {NoJob}]
      /\ \A t \in Thread : (at[t] = "idle") = (job[t] = NoJob)
  OBVIOUS
<1>6. used \in [Job -> SUBSET Job] /\ params \in Job \cup {NoJob}
  OBVIOUS
<1> QED
  BY <1>2, <1>3, <1>4, <1>5, <1>6 DEF TypeInv, TypeOK, ParamsSet

\* The inductive form of type correctness.
LEMMA TypeAlways == Spec => []TypeInv
<1>1. Init => TypeInv
  <2> SUFFICES ASSUME Init PROVE TypeInv
    OBVIOUS
  <2>1. q.restarts \in Nat
    BY QueryType DEF Init
  <2>2. 0 \in 0 .. q.restarts
    BY <2>1
  <2> QED
    BY <2>2, TypeStart DEF Init, Started
<1>2. TypeInv /\ [Next]_vars => TypeInv'
  <2> SUFFICES ASSUME TypeInv, [Next]_vars PROVE TypeInv'
    OBVIOUS
  <2>1. CASE \E t \in Thread : Thread_(t)
    BY <2>1, TypeThread
  <2>2. CASE \/ \E t \in Thread : Crash(t)
             \/ Return \/ Exit \/ MakeStopFile \/ UNCHANGED vars
    <3>1. /\ process' \in {"running", "exiting", "exited", "crashed", "returned"}
          /\ stop_file' \in BOOLEAN /\ Iterations' = Iterations
          /\ UNCHANGED <<q, jobs_left, at, job, params, used, path_count, recorded, files, disk, restarts>>
      BY <2>2 DEF Crash, Return, Exit, MakeStopFile, vars, inChain, outside, TypeInv, TypeOK, Iterations
    <3> QED
      BY <3>1 DEF TypeInv, TypeOK, ParamsSet
  <2>3. CASE Restart
    <3>1. q \in Query /\ q' = q /\ Iterations' = Iterations /\ restarts \in 0 .. q.restarts
          /\ restarts < q.restarts /\ restarts' = restarts + 1
      BY <2>3 DEF Restart, TypeInv, TypeOK, Iterations
    <3>2. Iterations \in Nat /\ q.restarts \in Nat
      BY <3>1, QueryType
    <3>3. restarts' \in 0 .. q.restarts
      BY <3>1, <3>2
    <3>4. Started'
      BY <2>3, <3>1, <3>3 DEF Restart, Started, TypeInv, TypeOK
    <3>5. Started' => TypeInv'
      BY TypeStart, PTL
    <3> QED
      BY <3>4, <3>5
  <2> QED
    BY <2>1, <2>2, <2>3 DEF Next
<1> QED
  BY <1>1, <1>2, PTL DEF Spec

(***************************************************************************)
(* Every reachable state is well typed: only threads that have a job count *)
(* for it, no count runs past the chain's states, and what is kept is      *)
(* among the states counted.                                               *)
(***************************************************************************)
THEOREM TypeCorrect == Spec => []TypeOK
<1>1. TypeInv => TypeOK
  BY DEF TypeInv
<1> QED
  BY <1>1, TypeAlways, PTL

-----------------------------------------------------------------------------
(* Each job is taken once.                                                 *)

OwnJobs ==
  /\ \A t \in Thread : job[t] \notin jobs_left
  /\ \A t1, t2 \in Thread : t1 # t2 /\ job[t1] = job[t2] => job[t1] = NoJob

\* What a step does to the jobs.
LEMMA JobMoves ==
  ASSUME NEW t \in Thread, Thread_(t)
  PROVE  \/ /\ at[t] = "idle"
            /\ \E j \in jobs_left :
                 /\ jobs_left' = jobs_left \ {j}
                 /\ \/ ~q.overwrite /\ disk[j] # "absent" /\ at' = at /\ job' = job
                    \/ /\ q.overwrite \/ disk[j] = "absent"
                       /\ at' = [at EXCEPT ![t] = "prepare"] /\ job' = [job EXCEPT ![t] = j]
            /\ UNCHANGED <<path_count, recorded, files, disk>>
         \/ at[t] # "idle" /\ jobs_left' = jobs_left /\ job' = [job EXCEPT ![t] = NoJob]
         \/ at[t] # "idle" /\ jobs_left' = jobs_left /\ job' = job
<1>1. CASE Take(t)
  BY <1>1 DEF Take, inChain
<1>2. CASE ~Take(t)
  BY <1>2 DEF Thread_, SetParams, ReadRouter, ReadWeight, Process, Stop, End, Close, Write, Leave
<1> QED
  BY <1>1, <1>2

\* What the rest of the world does.
Elsewhere == \/ \E t \in Thread : Crash(t)
             \/ Return \/ Exit \/ MakeStopFile \/ UNCHANGED vars

\* It leaves jobs, counts and files alone.
LEMMA ElsewhereFrame ==
  ASSUME Elsewhere
  PROVE  UNCHANGED <<q, jobs_left, at, job, path_count, recorded, files, disk, restarts>>
BY DEF Elsewhere, Crash, Return, Exit, MakeStopFile, vars, inChain, outside

\* There is nothing else.
LEMMA Steps ==
  ASSUME [Next]_vars
  PROVE  (\E t \in Thread : Thread_(t)) \/ Elsewhere \/ Restart
BY DEF Next, Elsewhere

\* No thread changes the query, the stop file or the restarts.
LEMMA ThreadFrame ==
  ASSUME NEW t \in Thread, Thread_(t)
  PROVE  q' = q /\ stop_file' = stop_file /\ restarts' = restarts
BY DEF Thread_, Take, SetParams, ReadRouter, ReadWeight, Process, Stop, End, Close, Write, outside

\* No two threads ever have the same job.
LEMMA JobsAlways == Spec => []OwnJobs
<1>1. Init => OwnJobs
  BY NoJobIsNoJob DEF Init, OwnJobs
<1>2. TypeInv /\ OwnJobs /\ [Next]_vars => OwnJobs'
  <2> SUFFICES ASSUME TypeInv, OwnJobs, [Next]_vars PROVE OwnJobs'
    OBVIOUS
  <2>1. /\ job \in [Thread -> Job \cup {NoJob}] /\ jobs_left \subseteq Job /\ NoJob \notin Job
        /\ \A t \in Thread : (at[t] = "idle") = (job[t] = NoJob)
    BY NoJobIsNoJob DEF TypeInv, TypeOK
  <2>2. ASSUME NEW t \in Thread, Thread_(t)
        PROVE  OwnJobs'
    <3>1. CASE \E j \in jobs_left :
                 /\ jobs_left' = jobs_left \ {j}
                 /\ job' = job \/ job' = [job EXCEPT ![t] = j]
      <4>1. PICK j \in jobs_left :
                 /\ jobs_left' = jobs_left \ {j}
                 /\ job' = job \/ job' = [job EXCEPT ![t] = j]
        BY <3>1
      <4> QED
        BY <2>1, <4>1 DEF OwnJobs
    <3>2. CASE jobs_left' = jobs_left /\ job' = [job EXCEPT ![t] = NoJob]
      BY <2>1, <3>2 DEF OwnJobs
    <3>3. CASE jobs_left' = jobs_left /\ job' = job
      BY <3>3 DEF OwnJobs
    <3> QED
      BY <2>2, <3>1, <3>2, <3>3, JobMoves
  <2>3. CASE Elsewhere
    BY <2>3, ElsewhereFrame DEF OwnJobs
  <2>4. CASE Restart
    BY <2>1, <2>4 DEF Restart, OwnJobs
  <2> QED
    BY <2>2, <2>3, <2>4, Steps
<1> QED
  BY <1>1, <1>2, TypeAlways, PTL DEF Spec

-----------------------------------------------------------------------------
(* The choice sets on disk.                                                *)

\* What a step does to the disk: only the thread that has the job writes it.
LEMMA DiskMoves ==
  ASSUME TypeOK, NEW t \in Thread, Thread_(t)
  PROVE  \/ disk' = disk
         \/ at[t] # "idle" /\ disk' = [disk EXCEPT ![job[t]] = "partial"] /\ job' = job
         \/ /\ at[t] # "idle" /\ disk' = [disk EXCEPT ![job[t]] = "complete"]
            /\ job' = [job EXCEPT ![t] = NoJob]
<1>1. CASE Close(t)
  BY <1>1 DEF Close
<1>2. CASE Write(t)
  BY <1>2 DEF Write, Leave
<1>3. CASE ~Close(t) /\ ~Write(t)
  BY <1>3 DEF Thread_, Take, SetParams, ReadRouter, ReadWeight, Process, Stop, End
<1> QED
  BY <1>1, <1>2, <1>3

\* A job that is being done was not complete, unless it is to be overwritten;
\* and before the first restart nothing is on disk of a job that is not taken.
DiskInv ==
  /\ \A t \in Thread : job[t] # NoJob /\ ~q.overwrite => disk[job[t]] # "complete"
  /\ restarts = 0 => \A j \in jobs_left : disk[j] = "absent"

\* The invariant behind FinishedStays.
LEMMA DiskAlways == Spec => []DiskInv
<1>1. Init => DiskInv
  BY DEF Init, DiskInv
<1>2. TypeInv /\ OwnJobs /\ DiskInv /\ [Next]_vars => DiskInv'
  <2> SUFFICES ASSUME TypeInv, OwnJobs, DiskInv, [Next]_vars PROVE DiskInv'
    OBVIOUS
  <2>1. /\ job \in [Thread -> Job \cup {NoJob}] /\ jobs_left \subseteq Job /\ NoJob \notin Job
        /\ \A t \in Thread : (at[t] = "idle") = (job[t] = NoJob)
        /\ disk \in [Job -> {"absent", "partial", "complete"}] /\ TypeOK
    BY NoJobIsNoJob DEF TypeInv, TypeOK
  <2>2. ASSUME NEW t \in Thread, Thread_(t)
        PROVE  DiskInv'
    <3>1. q' = q /\ restarts' = restarts
      BY <2>2, ThreadFrame
    <3>2. CASE at[t] = "idle"
      <4>1. PICK j \in jobs_left :
              /\ jobs_left' = jobs_left \ {j} /\ disk' = disk
              /\ \/ job' = job
                 \/ (q.overwrite \/ disk[j] = "absent") /\ job' = [job EXCEPT ![t] = j]
        BY <2>2, <3>2, JobMoves
      <4> QED
        BY <2>1, <3>1, <4>1 DEF DiskInv
    <3>3. CASE at[t] # "idle"
      <4>1. jobs_left' = jobs_left /\ (job' = job \/ job' = [job EXCEPT ![t] = NoJob])
        BY <2>2, <3>3, JobMoves
      <4>2. job[t] \in Job /\ job[t] \notin jobs_left
            /\ \A r \in Thread : r # t => job[r] # job[t]
        BY <2>1, <3>3 DEF OwnJobs
      <4>3. CASE disk' = disk
        BY <2>1, <3>1, <4>1, <4>3 DEF DiskInv
      <4>4. CASE disk' = [disk EXCEPT ![job[t]] = "partial"] /\ job' = job
        BY <2>1, <3>1, <4>1, <4>2, <4>4 DEF DiskInv
      <4>5. CASE disk' = [disk EXCEPT ![job[t]] = "complete"] /\ job' = [job EXCEPT ![t] = NoJob]
        BY <2>1, <3>1, <4>1, <4>2, <4>5 DEF DiskInv
      <4> QED
        BY <2>1, <2>2, <4>3, <4>4, <4>5, DiskMoves
    <3> QED
      BY <3>2, <3>3
  <2>3. CASE Elsewhere
    BY <2>3, ElsewhereFrame DEF DiskInv
  <2>4. CASE Restart
    <3>1. restarts \in 0 .. q.restarts /\ q.restarts \in Nat
      <4>1. q \in Query /\ restarts \in 0 .. q.restarts
        BY DEF TypeInv, TypeOK
      <4> QED
        BY <4>1, QueryType
    <3>2. restarts' # 0
      BY <2>4, <3>1 DEF Restart
    <3>3. \A t \in Thread : job'[t] = NoJob
      BY <2>4 DEF Restart
    <3> QED
      BY <3>2, <3>3 DEF DiskInv
  <2> QED
    BY <2>2, <2>3, <2>4, Steps
<1> QED
  BY <1>1, <1>2, TypeAlways, JobsAlways, PTL DEF Spec

(***************************************************************************)
(* Unless files are to be overwritten, no step takes a complete choice set *)
(* away, however many threads and restarts there are: a job that has its   *)
(* file is skipped by Take, and only its own thread writes it.             *)
(***************************************************************************)
THEOREM FinishedStaysAlways == Spec => FinishedStays
<1> DEFINE Kept == \A j \in Job : (~q.overwrite /\ disk[j] = "complete") => disk'[j] = "complete"
<1>1. TypeInv /\ DiskInv /\ [Next]_vars => [Kept]_vars
  <2> SUFFICES ASSUME TypeInv, DiskInv, [Next]_vars PROVE Kept
    OBVIOUS
  <2>1. disk \in [Job -> {"absent", "partial", "complete"}] /\ TypeOK
    BY DEF TypeInv, TypeOK
  <2>2. ASSUME NEW t \in Thread, Thread_(t)
        PROVE  Kept
    BY <2>1, <2>2, DiskMoves, HasJob DEF DiskInv
  <2>3. CASE Elsewhere
    BY <2>3, ElsewhereFrame
  <2>4. CASE Restart
    BY <2>4 DEF Restart
  <2> QED
    BY <2>2, <2>3, <2>4, Steps
<1> QED
  BY <1>1, TypeAlways, DiskAlways, PTL DEF Spec, FinishedStays

\* Where the choice set of each job is: still to come, with a thread, or on
\* disk; cut off only where AllOnDisk admits it.
Accounted ==
  /\ q.writer = "choice set" =>
       \A j \in Job : \/ j \in jobs_left
                      \/ \E t \in Thread : job[t] = j
                      \/ disk[j] = "complete"
                      \/ disk[j] = "partial" /\ ~q.overwrite /\ restarts > 0
  /\ process = "returned" => jobs_left = {} /\ \A t \in Thread : at[t] = "idle"

\* The invariant behind AllOnDisk.
LEMMA AccountedAlways == Spec => []Accounted
<1>1. Init => Accounted
  BY DEF Init, Accounted
<1>2. TypeInv /\ OwnJobs /\ DiskInv /\ Accounted /\ [Next]_vars => Accounted'
  <2> SUFFICES ASSUME TypeInv, OwnJobs, DiskInv, Accounted, [Next]_vars PROVE Accounted'
    OBVIOUS
  <2>1. /\ job \in [Thread -> Job \cup {NoJob}] /\ jobs_left \subseteq Job /\ NoJob \notin Job
        /\ \A t \in Thread : (at[t] = "idle") = (job[t] = NoJob)
        /\ disk \in [Job -> {"absent", "partial", "complete"}] /\ TypeOK
    BY NoJobIsNoJob DEF TypeInv, TypeOK
  <2>2. restarts \in Nat
    <3>1. restarts \in 0 .. q.restarts /\ q \in Query
      BY <2>1 DEF TypeOK
    <3>2. q.restarts \in Nat
      BY <3>1, QueryType
    <3> QED
      BY <3>1, <3>2
  <2>3. ASSUME NEW t \in Thread, Thread_(t)
        PROVE  Accounted'
    <3>1. q' = q /\ restarts' = restarts
      BY <2>3, ThreadFrame
    <3>2. process' # "returned"
      BY <2>3 DEF Thread_, Take, SetParams, ReadRouter, ReadWeight, Process, Stop, End, Close, Write, Alive
    <3>3. ASSUME q.writer = "choice set", NEW j \in Job
          PROVE  \/ j \in jobs_left'
                 \/ \E r \in Thread : job'[r] = j
                 \/ disk'[j] = "complete"
                 \/ disk'[j] = "partial" /\ ~q.overwrite /\ restarts > 0
      <4>1. CASE at[t] = "idle"
        <5>1. PICK i \in jobs_left :
                /\ jobs_left' = jobs_left \ {i} /\ disk' = disk
                /\ \/ ~q.overwrite /\ disk[i] # "absent" /\ job' = job
                   \/ job' = [job EXCEPT ![t] = i]
          BY <2>3, <4>1, JobMoves
        <5>2. job[t] = NoJob /\ job[t] # j
          BY <2>1, <4>1
        <5>3. CASE i # j
          <6>1. \A r \in Thread : job[r] = j => job'[r] = j
            BY <2>1, <5>1, <5>2
          <6> QED
            BY <3>3, <5>1, <5>3, <6>1 DEF Accounted
        <5>4. CASE i = j
          <6>1. CASE job' = [job EXCEPT ![t] = i]
            BY <2>1, <5>4, <6>1
          <6>2. CASE ~q.overwrite /\ disk[i] # "absent" /\ job' = job
            <7>1. restarts # 0 /\ disk[j] \in {"partial", "complete"}
              BY <2>1, <5>1, <5>4, <6>2 DEF DiskInv
            <7>2. restarts > 0
              BY <2>2, <7>1
            <7> QED
              BY <5>1, <6>2, <7>1, <7>2
          <6> QED
            BY <5>1, <6>1, <6>2
        <5> QED
          BY <5>3, <5>4
      <4>2. CASE at[t] # "idle"
        <5>1. jobs_left' = jobs_left
          BY <2>3, <4>2, JobMoves
        <5>2. CASE job[t] = j
          <6>1. CASE job' = job
            BY <5>2, <6>1
          <6>2. CASE job' # job
            <7>1. Write(t)
              BY <2>3, <3>3, <4>2, <6>2
              DEF Thread_, Take, SetParams, ReadRouter, ReadWeight, Process, Stop, End, Close
            <7> QED
              BY <2>1, <5>2, <7>1 DEF Write
          <6> QED
            BY <6>1, <6>2
        <5>3. CASE job[t] # j
          <6>1. \A r \in Thread : job[r] = j => job'[r] = j
            BY <2>1, <2>3, <4>2, <5>3, JobMoves
          <6>2. disk'[j] = disk[j]
            BY <2>1, <2>3, <5>3, DiskMoves
          <6> QED
            BY <3>3, <5>1, <6>1, <6>2 DEF Accounted
        <5> QED
          BY <5>2, <5>3
      <4> QED
        BY <4>1, <4>2
    <3> QED
      BY <3>1, <3>2, <3>3 DEF Accounted
  <2>4. CASE Elsewhere
    <3>1. UNCHANGED <<q, jobs_left, at, job, disk, restarts>>
      BY <2>4, ElsewhereFrame
    <3>2. process' = "returned" => jobs_left = {} /\ \A t \in Thread : at[t] = "idle"
      BY <2>4 DEF Elsewhere, Crash, Return, Exit, MakeStopFile, vars, Accounted
    <3> QED
      BY <3>1, <3>2 DEF Accounted
  <2>5. CASE Restart
    BY <2>5 DEF Restart, Accounted
  <2> QED
    BY <2>3, <2>4, <2>5, Steps
<1> QED
  BY <1>1, <1>2, TypeAlways, JobsAlways, DiskAlways, PTL DEF Spec

(***************************************************************************)
(* When the program returns, every choice set is on disk, but for those    *)
(* that a stop cut off and a later run did not overwrite: for any number   *)
(* of threads, jobs and restarts, wherever exit(0) met the other threads.  *)
(***************************************************************************)
THEOREM AllOnDiskAlways == Spec => []AllOnDisk
<1>1. TypeInv /\ Accounted => AllOnDisk
  <2> SUFFICES ASSUME TypeInv, Accounted, process = "returned", q.writer = "choice set",
                      NEW j \in Job
               PROVE  disk[j] = "complete" \/ (disk[j] = "partial" /\ ~q.overwrite /\ restarts > 0)
    BY DEF AllOnDisk
  <2>1. \A t \in Thread : job[t] = NoJob
    BY DEF TypeInv, TypeOK, Accounted
  <2>2. NoJob \notin Job
    BY NoJobIsNoJob
  <2> QED
    BY <2>1, <2>2 DEF Accounted
<1> QED
  BY <1>1, TypeAlways, AccountedAlways, PTL

-----------------------------------------------------------------------------
(* What a job keeps.                                                       *)

\* While a job is in its chain or behind it, it has kept what is to be kept of
\* the states so far; when its file is written, the chain was run to its end.
CountInv ==
  \A t \in Thread :
    /\ at[t] \in {"chain", "close", "write"} =>
         recorded[job[t]] = {c \in 1 .. path_count[job[t]] : Sampled(c)}
    /\ at[t] \in {"close", "write"} =>
         path_count[job[t]] = Iterations + 1 /\ q.writer = "choice set"

\* Only the thread that has a job counts for it.
LEMMA CountMoves ==
  ASSUME TypeOK, OwnJobs, NEW t \in Thread, Thread_(t), NEW r \in Thread, r # t, at'[r] # "idle"
  PROVE  /\ at'[r] = at[r] /\ job'[r] = job[r] /\ job[r] \in Job
         /\ path_count'[job[r]] = path_count[job[r]] /\ recorded'[job[r]] = recorded[job[r]]
<1>1. /\ job \in [Thread -> Job \cup {NoJob}]
      /\ at \in [Thread -> {"idle", "prepare", "labels", "weights", "chain", "close", "write", "exit"}]
      /\ \A u \in Thread : (at[u] = "idle") = (job[u] = NoJob)
      /\ path_count \in [Job -> 0 .. Iterations + 1] /\ recorded \in [Job -> SUBSET Nat]
  BY DEF TypeOK
<1>2. at'[r] = at[r] /\ job'[r] = job[r]
  BY <1>1 DEF Thread_, Take, SetParams, ReadRouter, ReadWeight, Process, Stop, End, Close, Write, Leave
<1>3. job[r] \in Job /\ job[r] # NoJob
  BY <1>1, <1>2
<1>4. job[r] # job[t]
  BY <1>3 DEF OwnJobs
<1>5. \/ path_count' = path_count
      \/ \E n : path_count' = [path_count EXCEPT ![job[t]] = n]
  BY DEF Thread_, Take, SetParams, ReadRouter, ReadWeight, Process, Stop, End, Close, Write, inChain
<1>6. \/ recorded' = recorded
      \/ \E n : recorded' = [recorded EXCEPT ![job[t]] = n]
  <2>1. CASE ReadWeight(t)
    BY <2>1 DEF ReadWeight
  <2>2. CASE Process(t)
    BY <2>2 DEF Process
  <2>3. CASE ~ReadWeight(t) /\ ~Process(t)
    BY <2>3 DEF Thread_, Take, SetParams, ReadRouter, Stop, End, Close, Write, inChain
  <2> QED
    BY <2>1, <2>2, <2>3
<1> QED
  BY <1>1, <1>2, <1>3, <1>4, <1>5, <1>6

\* What a thread does keeps the counts right.
LEMMA CountThread ==
  ASSUME TypeInv, OwnJobs, CountInv, NEW t \in Thread, Thread_(t)
  PROVE  CountInv'
<1> SUFFICES ASSUME NEW r \in Thread
             PROVE  /\ at'[r] \in {"chain", "close", "write"} =>
                         recorded'[job'[r]] = {c \in 1 .. path_count'[job'[r]] : Sampled(c)}
                    /\ at'[r] \in {"close", "write"} =>
                         path_count'[job'[r]] = Iterations + 1 /\ q.writer = "choice set"
  <2>1. q' = q
    BY ThreadFrame
  <2>2. Iterations' = Iterations /\ \A c : Sampled(c)' = Sampled(c)
    BY <2>1 DEF Iterations, Sampled
  <2> QED
    BY <2>1, <2>2 DEF CountInv
<1>1. /\ TypeOK
      /\ job \in [Thread -> Job \cup {NoJob}]
      /\ at \in [Thread -> {"idle", "prepare", "labels", "weights", "chain", "close", "write", "exit"}]
      /\ path_count \in [Job -> 0 .. Iterations + 1] /\ recorded \in [Job -> SUBSET Nat]
  BY DEF TypeInv, TypeOK
<1>2. CASE r # t
  <2> SUFFICES ASSUME at'[r] # "idle"
               PROVE  /\ at'[r] \in {"chain", "close", "write"} =>
                           recorded'[job'[r]] = {c \in 1 .. path_count'[job'[r]] : Sampled(c)}
                      /\ at'[r] \in {"close", "write"} =>
                           path_count'[job'[r]] = Iterations + 1 /\ q.writer = "choice set"
    OBVIOUS
  <2>1. /\ at'[r] = at[r] /\ job'[r] = job[r]
        /\ path_count'[job[r]] = path_count[job[r]] /\ recorded'[job[r]] = recorded[job[r]]
    BY <1>1, <1>2, CountMoves
  <2> QED
    BY <2>1 DEF CountInv
<1>3. CASE r = t
  <2>1. CASE Take(t)
    BY <1>1, <1>3, <2>1 DEF Take
  <2>2. CASE SetParams(t) \/ ReadRouter(t) \/ Stop(t)
    BY <1>1, <1>3, <2>2 DEF SetParams, ReadRouter, Stop
  <2>3. CASE ReadWeight(t)
    <3>1. job[t] \in Job
      BY <1>1, <2>3, HasJob DEF ReadWeight
    <3>2. recorded'[job'[t]] = {} /\ path_count'[job'[t]] = 0 /\ at'[t] = "chain"
      BY <1>1, <2>3, <3>1 DEF ReadWeight
    <3>3. 1 .. 0 = {}
      OBVIOUS
    <3> QED
      BY <1>3, <3>2, <3>3
  <2>4. CASE Process(t)
    <3> DEFINE j == job[t]
               count == path_count[j] + 1
    <3>1. j \in Job
      BY <1>1, <2>4, HasJob DEF Process
    <3>2. path_count[j] \in Nat /\ recorded[j] = {c \in 1 .. path_count[j] : Sampled(c)}
      BY <1>1, <2>4, <3>1, CountType DEF Process, CountInv
    <3>3. /\ path_count'[j] = count /\ job' = job /\ at' = at /\ at[t] = "chain"
          /\ recorded'[j] = IF Sampled(count) THEN recorded[j] \cup {count} ELSE recorded[j]
      BY <1>1, <2>4, <3>1 DEF Process
    <3>4. 1 .. count = 1 .. path_count[j] \cup {count}
      BY <3>2
    <3> HIDE DEF count
    <3>5. recorded'[j] = {c \in 1 .. count : Sampled(c)}
      BY <3>2, <3>3, <3>4
    <3> QED
      BY <1>3, <3>3, <3>5
  <2>5. CASE End(t)
    <3>1. q.writer \in {"observations", "choice set"}
      BY <1>1, QueryType DEF TypeOK
    <3>2. /\ recorded[job[t]] = {c \in 1 .. path_count[job[t]] : Sampled(c)}
          /\ path_count[job[t]] = Iterations + 1
          /\ path_count' = path_count /\ recorded' = recorded
          /\ IF q.writer = "observations" THEN at' = [at EXCEPT ![t] = "idle"]
             ELSE at' = [at EXCEPT ![t] = "close"] /\ job' = job
      BY <2>5 DEF End, Leave, CountInv, inChain
    <3> QED
      BY <1>1, <1>3, <3>1, <3>2
  <2>6. CASE Close(t) \/ Write(t)
    BY <1>1, <1>3, <2>6 DEF Close, Write, Leave, CountInv, inChain
  <2> QED
    BY <2>1, <2>2, <2>3, <2>4, <2>5, <2>6 DEF Thread_
<1> QED
  BY <1>2, <1>3

\* The invariant behind ExactChoiceSet.
LEMMA CountAlways == Spec => []CountInv
<1>1. Init => CountInv
  BY DEF Init, CountInv
<1>2. TypeInv /\ OwnJobs /\ CountInv /\ [Next]_vars => CountInv'
  <2> SUFFICES ASSUME TypeInv, OwnJobs, CountInv, [Next]_vars PROVE CountInv'
    OBVIOUS
  <2>1. CASE Elsewhere
    <3>1. UNCHANGED <<q, at, job, path_count, recorded>>
      BY <2>1, ElsewhereFrame
    <3> QED
      BY <3>1 DEF CountInv, Sampled, Iterations
  <2>2. CASE Restart
    BY <2>2 DEF Restart, CountInv
  <2> QED
    BY <2>1, <2>2, CountThread, Steps
<1> QED
  BY <1>1, <1>2, TypeAlways, JobsAlways, PTL DEF Spec

\* The numbers up to the s-th multiple of i behind w.
LEMMA SampledNumbers ==
  ASSUME NEW w \in Nat, NEW s \in Nat \ {0}, NEW i \in Nat \ {0}
  PROVE  {c \in 1 .. w + s * i : c > w /\ (c - w) % i = 0} = {w + k * i : k \in 1 .. s}
<1>1. ASSUME NEW k \in 1 .. s
      PROVE  w + k * i \in 1 .. w + s * i /\ w + k * i > w /\ ((w + k * i) - w) % i = 0
  <2>1. k \in Nat \ {0} /\ k <= s
    OBVIOUS
  <2>2. k * i \in Nat \ {0} /\ (k * i) % i = 0
    BY <2>1, Product, Multiples
  <2>3. s * i \in Nat /\ k * i <= s * i
    <3>1. CASE k = s
      BY <2>2, <3>1
    <3>2. CASE k < s
      BY <2>1, <2>2, <3>2, Blocks
    <3> QED
      BY <2>1, <3>1, <3>2
  <2>4. (w + k * i) - w = k * i
    BY <2>2
  <2> QED
    BY <2>2, <2>3, <2>4
<1>2. ASSUME NEW c \in 1 .. w + s * i, c > w, (c - w) % i = 0
      PROVE  \E k \in 1 .. s : c = w + k * i
  <2>1. s * i \in Nat
    BY Product
  <2>2. c \in Nat /\ c - w \in Nat /\ c - w # 0 /\ c - w <= s * i
    BY <1>2, <2>1
  <2>3. PICK k \in Nat : c - w = k * i
    BY <1>2, <2>2, Multiples
  <2>4. k # 0
    BY <2>2, <2>3
  <2>5. k <= s
    <3>1. SUFFICES ASSUME s < k PROVE FALSE
      OBVIOUS
    <3>2. s * i + i <= k * i
      BY <3>1, Blocks
    <3> QED
      BY <2>1, <2>2, <2>3, <3>2
  <2>6. k * i \in Nat /\ c = w + k * i
    BY <2>2, <2>3
  <2> QED
    BY <2>4, <2>5, <2>6
<1> QED
  BY <1>1, <1>2

\* The states kept of a whole chain of a choice set.
LEMMA WholeChain ==
  ASSUME q \in Query, q.writer = "choice set"
  PROVE  {c \in 1 .. Iterations + 1 : Sampled(c)} = {q.warmup + k * q.interval : k \in 1 .. q.samples}
<1>1. q.warmup \in Nat /\ q.samples \in Nat \ {0} /\ q.interval \in Nat \ {0}
      /\ q.samples * q.interval \in Nat
  BY QueryType
<1>2. Iterations + 1 = q.warmup + q.samples * q.interval
  <2>1. (IF q.writer = "observations" THEN 1 ELSE 0) = 0
    OBVIOUS
  <2>2. Iterations + 1 = q.warmup + q.samples * q.interval + 0
    BY <2>1, QueryType
  <2> QED
    BY <1>1, <2>2, PlusZero
<1>3. {c \in 1 .. q.warmup + q.samples * q.interval : Sampled(c)}
        = {c \in 1 .. q.warmup + q.samples * q.interval : c > q.warmup /\ (c - q.warmup) % q.interval = 0}
  BY DEF Sampled
<1> QED
  BY <1>1, <1>2, <1>3, SampledNumbers

(***************************************************************************)
(* A choice set goes to its file with exactly the samples asked for, for   *)
(* every warm-up, interval and number of samples, and however the threads  *)
(* take turns: run's iterations and processState's tests fit together.     *)
(***************************************************************************)
THEOREM ExactChoiceSetAlways == Spec => []ExactChoiceSet
<1>1. TypeInv /\ CountInv => ExactChoiceSet
  <2> SUFFICES ASSUME TypeInv, CountInv, NEW t \in Thread, at[t] \in {"close", "write"}
               PROVE  recorded[job[t]] = {q.warmup + k * q.interval : k \in 1 .. q.samples}
    BY DEF ExactChoiceSet
  <2>1. /\ recorded[job[t]] = {c \in 1 .. path_count[job[t]] : Sampled(c)}
        /\ path_count[job[t]] = Iterations + 1 /\ q.writer = "choice set" /\ q \in Query
    BY DEF TypeInv, TypeOK, CountInv
  <2> QED
    BY <2>1, WholeChain
<1> QED
  BY <1>1, TypeAlways, CountAlways, PTL

-----------------------------------------------------------------------------
(* The observation files.                                                  *)

\* m is the number of multiples of i among the first n states behind w.
Multiples_(w, i, m, n) ==
  /\ n <= w => m = 0
  /\ n >= w => m * i <= n - w /\ n - w < (m + 1) * i

\* No states, and none kept.
LEMMA MultiplesStart ==
  ASSUME NEW w \in Nat, NEW i \in Nat \ {0}
  PROVE  Multiples_(w, i, 0, 0)
BY DEF Multiples_

\* The next state is kept exactly when it is the next multiple.
LEMMA MultiplesStep ==
  ASSUME NEW w \in Nat, NEW i \in Nat \ {0}, NEW m \in Nat, NEW n \in Nat, Multiples_(w, i, m, n)
  PROVE  /\ n + 1 > w /\ ((n + 1) - w) % i = 0 => Multiples_(w, i, m + 1, n + 1)
         /\ ~(n + 1 > w /\ ((n + 1) - w) % i = 0) => Multiples_(w, i, m, n + 1)
<1>1. /\ m * i \in Nat /\ (m + 1) * i \in Nat /\ (m + 2) * i \in Nat
      /\ (m + 1) * i = m * i + i /\ (m + 2) * i = (m + 1) * i + i
  BY Blocks
<1>2. CASE n + 1 <= w
  <2>1. m = 0 /\ ~(n + 1 > w)
    BY <1>2 DEF Multiples_
  <2>2. n + 1 >= w => m * i <= (n + 1) - w /\ (n + 1) - w < (m + 1) * i
    BY <1>2, <2>1
  <2> QED
    BY <2>1, <2>2 DEF Multiples_
<1>3. CASE n + 1 > w
  <2>1. /\ n >= w /\ n - w \in Nat /\ (n + 1) - w \in Nat /\ (n + 1) - w = (n - w) + 1
        /\ m * i <= n - w /\ n - w < (m + 1) * i
    BY <1>3 DEF Multiples_
  <2> DEFINE d == (n + 1) - w
             low == m * i
             mid == (m + 1) * i
             high == (m + 2) * i
  <2>2. d \in Nat /\ low \in Nat /\ mid \in Nat /\ high \in Nat /\ high = mid + i /\ low < d /\ d <= mid
    BY <1>1, <2>1
  <2>3. ASSUME d % i = 0
        PROVE  d = mid
    <3>1. PICK k \in Nat : d = k * i
      BY <2>2, <2>3, Multiples
    <3>2. m < k
      BY <2>2, <3>1, Blocks
    <3>3. k <= m + 1
      <4>1. SUFFICES ASSUME m + 1 < k PROVE FALSE
        BY <3>2
      <4>2. mid + i <= k * i
        BY <4>1, Blocks
      <4> QED
        BY <2>2, <3>1, <4>2
    <3>4. k = m + 1
      BY <3>2, <3>3
    <3> QED
      BY <3>1, <3>4
  <2>4. mid % i = 0
    BY Multiples
  <2> HIDE DEF d, low, mid, high
  <2>5. CASE d % i = 0
    <3>1. mid <= d /\ d < high
      BY <2>2, <2>3, <2>5
    <3>2. n + 1 >= w => (m + 1) * i <= (n + 1) - w /\ (n + 1) - w < (m + 1 + 1) * i
      <4>1. m + 1 + 1 = m + 2
        OBVIOUS
      <4> QED
        BY <3>1, <4>1 DEF d, mid, high
    <3>3. ~(n + 1 <= w)
      BY <1>3
    <3> QED
      BY <1>3, <2>5, <3>2, <3>3 DEF Multiples_, d
  <2>6. CASE d % i # 0
    <3>1. low <= d /\ d < mid
      BY <2>2, <2>4, <2>6
    <3>2. n + 1 >= w => m * i <= (n + 1) - w /\ (n + 1) - w < (m + 1) * i
      BY <3>1 DEF d, low, mid
    <3>3. ~(n + 1 <= w)
      BY <1>3
    <3> QED
      BY <1>3, <2>6, <3>2, <3>3 DEF Multiples_, d
  <2> QED
    BY <2>5, <2>6
<1> QED
  BY <1>2, <1>3

\* How many an observation keeps: of the states 1 .. w + s * i + 1, one for
\* each of its samples, and one more when each state is kept.
LEMMA MultiplesAll ==
  ASSUME NEW w \in Nat, NEW s \in Nat \ {0}, NEW i \in Nat \ {0}, NEW m \in Nat, NEW n \in Nat,
         Multiples_(w, i, m, n), n <= w + s * i + 1
  PROVE  /\ m <= s + (IF i = 1 THEN 1 ELSE 0)
         /\ n = w + s * i + 1 => m = s + (IF i = 1 THEN 1 ELSE 0)
<1>1. s * i \in Nat \ {0} /\ m * i \in Nat /\ (m + 1) * i = m * i + i /\ (s + 1) * i = s * i + i
  BY Product, Blocks
<1>2. m <= s + (IF i = 1 THEN 1 ELSE 0)
  <2>1. CASE n <= w
    BY <2>1 DEF Multiples_
  <2>2. CASE n > w
    <3>1. m * i <= s * i + 1
      BY <1>1, <2>2 DEF Multiples_
    <3>2. CASE i = 1
      BY <3>1, <3>2
    <3>3. CASE i # 1
      <4>1. SUFFICES ASSUME s < m PROVE FALSE
        BY <3>3
      <4>2. s * i + i <= m * i
        BY <4>1, Blocks
      <4> QED
        BY <1>1, <3>1, <3>3, <4>2
    <3> QED
      BY <3>2, <3>3
  <2> QED
    BY <2>1, <2>2
<1>3. ASSUME n = w + s * i + 1
      PROVE  m >= s + (IF i = 1 THEN 1 ELSE 0)
  <2>1. s * i + 1 < m * i + i
    BY <1>1, <1>3 DEF Multiples_
  <2>2. m >= s
    <3>1. SUFFICES ASSUME m < s PROVE FALSE
      OBVIOUS
    <3>2. m * i + i <= s * i
      BY <3>1, Blocks
    <3> QED
      BY <1>1, <2>1, <3>2
  <2>3. CASE i = 1
    BY <2>1, <2>3
  <2>4. CASE i # 1
    BY <2>2, <2>4
  <2> QED
    BY <2>3, <2>4
<1> QED
  BY <1>2, <1>3

\* The files an observation writes: those of its block, and one more when each
\* state is kept.
Extra == IF q.interval = 1 THEN 1 ELSE 0
Block == 1 .. q.samples + Extra

\* No choice sets; each file is of its job's block; a job has written a file for
\* each state it kept, and kept one an interval; a job that is through has
\* written its block.
FilesInv ==
  q.writer = "observations" =>
    /\ \A j \in Job : disk[j] = "absent"
    /\ \A f \in files : \E k \in Block : f[1] = f[2] * q.samples + k
    /\ \A j \in Job : \A k \in 1 .. Cardinality(recorded[j]) : <<j * q.samples + k, j>> \in files
    /\ \A t \in Thread : at[t] = "chain" =>
         Multiples_(q.warmup, q.interval, Cardinality(recorded[job[t]]), path_count[job[t]])
    /\ \A j \in Job : \/ j \in jobs_left
                      \/ \E t \in Thread : job[t] = j
                      \/ \A k \in Block : <<j * q.samples + k, j>> \in files

\* The state an observation processes next, and the file it may write.
LEMMA ProcessOne ==
  ASSUME TypeInv, FilesInv, q.writer = "observations", NEW t \in Thread, Process(t)
  PROVE  LET j == job[t] IN
         /\ j \in Job
         /\ Cardinality(recorded'[j]) \in Nat
         /\ Multiples_(q.warmup, q.interval, Cardinality(recorded'[j]), path_count'[j])
         /\ \/ recorded' = recorded /\ files' = files
            \/ /\ \A i \in Job : i # j => recorded'[i] = recorded[i]
               /\ Cardinality(recorded'[j]) = Cardinality(recorded[j]) + 1
               /\ Cardinality(recorded'[j]) \in Block
               /\ files' = files \cup {<<j * q.samples + Cardinality(recorded'[j]), j>>}
<1> DEFINE j == job[t]
           n == path_count[j]
           m == Cardinality(recorded[j])
           w == q.warmup
           s == q.samples
           i == q.interval
<1>1. j \in Job /\ TypeOK
  BY HasJob DEF Process, TypeInv
<1>2. /\ n \in Nat /\ n <= Iterations /\ recorded[j] \subseteq 1 .. n
      /\ IsFiniteSet(recorded[j]) /\ m \in Nat /\ FileNumber(j) = j * s + m + 1
      /\ recorded \in [Job -> SUBSET Nat] /\ path_count \in [Job -> 0 .. Iterations + 1]
  BY <1>1, CountType, FileNumberType DEF Process, TypeOK
<1>3. /\ w \in Nat /\ s \in Nat \ {0} /\ i \in Nat \ {0} /\ s * i \in Nat /\ Iterations \in Nat
  BY <1>1, QueryType DEF TypeOK
<1>4. Iterations + 1 = w + s * i + 1
  <2>1. (IF q.writer = "observations" THEN 1 ELSE 0) = 1
    OBVIOUS
  <2> QED
    BY <1>1, <2>1, QueryType DEF TypeOK
<1>5. Multiples_(w, i, m, n)
  BY DEF Process, FilesInv
<1>6. /\ path_count'[j] = n + 1
      /\ recorded' = IF Sampled(n + 1) THEN [recorded EXCEPT ![j] = @ \cup {n + 1}] ELSE recorded
      /\ files' = IF Sampled(n + 1) THEN files \cup {<<FileNumber(j), j>>} ELSE files
  BY <1>1, <1>2 DEF Process
<1>0. \A c : Sampled(c) <=> c > w /\ (c - w) % i = 0
  BY DEF Sampled
<1>7. CASE ~Sampled(n + 1)
  <2>1. ~(n + 1 > w /\ ((n + 1) - w) % i = 0)
    BY <1>0, <1>7
  <2>2. Multiples_(w, i, m, n + 1)
    BY <1>2, <1>3, <1>5, <2>1, MultiplesStep
  <2> QED
    BY <1>1, <1>2, <1>6, <1>7, <2>2
<1>8. CASE Sampled(n + 1)
  <2>1. n + 1 > w /\ ((n + 1) - w) % i = 0
    BY <1>0, <1>8
  <2>2. Multiples_(w, i, m + 1, n + 1)
    BY <1>2, <1>3, <1>5, <2>1, MultiplesStep
  <2>3. recorded'[j] = recorded[j] \cup {n + 1} /\ \A k \in Job : k # j => recorded'[k] = recorded[k]
    BY <1>1, <1>2, <1>6, <1>8
  <2>4. n + 1 \notin recorded[j]
    BY <1>2
  <2>5. Cardinality(recorded'[j]) = m + 1
    BY <1>2, <2>3, <2>4, FS_AddElement
  <2>6. m + 1 \in Block
    <3>1. n + 1 \in Nat /\ m + 1 \in Nat /\ n + 1 <= w + s * i + 1
      BY <1>2, <1>3, <1>4
    <3>2. m + 1 <= s + (IF i = 1 THEN 1 ELSE 0)
      BY <1>3, <2>2, <3>1, MultiplesAll
    <3>3. m + 1 <= s + Extra /\ Extra \in {0, 1}
      BY <3>2 DEF Extra
    <3> HIDE DEF m, s
    <3>4. m + 1 \in 1 .. s + Extra
      BY <1>2, <1>3, <3>3
    <3> QED
      BY <3>4 DEF Block, m, s
  <2>7. FileNumber(j) = j * s + (m + 1)
    <3>1. j * s \in Nat
      BY <1>1, <1>3, JobsAreNumbers, Blocks
    <3> QED
      BY <1>2, <3>1
  <2>8. files' = files \cup {<<j * s + (m + 1), j>>}
    BY <1>6, <1>8, <2>7
  <2>9. m + 1 \in Nat
    BY <1>2
  <2> QED
    BY <1>1, <1>6, <2>2, <2>3, <2>5, <2>6, <2>8, <2>9
<1> QED
  BY <1>7, <1>8

\* What a thread does keeps the files right.
LEMMA FilesThread ==
  ASSUME TypeInv, OwnJobs, CountInv, FilesInv, NEW t \in Thread, Thread_(t)
  PROVE  FilesInv'
<1> SUFFICES ASSUME q.writer = "observations"
             PROVE  FilesInv'
  <2>1. q' = q
    BY ThreadFrame
  <2> QED
    BY <2>1 DEF FilesInv
<1>1. /\ TypeOK /\ q' = q /\ Block' = Block
      /\ job \in [Thread -> Job \cup {NoJob}] /\ jobs_left \subseteq Job
      /\ at \in [Thread -> {"idle", "prepare", "labels", "weights", "chain", "close", "write", "exit"}]
      /\ \A u \in Thread : (at[u] = "idle") = (job[u] = NoJob)
      /\ path_count \in [Job -> 0 .. Iterations + 1] /\ recorded \in [Job -> SUBSET Nat]
  BY ThreadFrame DEF TypeInv, TypeOK, Block, Extra
<1>2. ~Close(t) /\ ~Write(t)
  BY DEF Close, Write, CountInv
<1>3. \A j \in Job : disk'[j] = "absent"
  BY <1>2 DEF Thread_, Take, SetParams, ReadRouter, ReadWeight, Process, Stop, End, FilesInv
<1>4. CASE Process(t)
  <2> DEFINE j == job[t]
             m == Cardinality(recorded'[j])
  <2>1. /\ j \in Job /\ m \in Nat /\ Multiples_(q.warmup, q.interval, m, path_count'[j])
        /\ \/ recorded' = recorded /\ files' = files
           \/ /\ \A i \in Job : i # j => recorded'[i] = recorded[i]
              /\ m = Cardinality(recorded[j]) + 1 /\ m \in Block
              /\ files' = files \cup {<<j * q.samples + m, j>>}
    BY <1>4, ProcessOne
  <2>2. at' = at /\ job' = job /\ jobs_left' = jobs_left
    BY <1>4 DEF Process
  <2>3. \A f \in files' : \E k \in Block : f[1] = f[2] * q.samples + k
    BY <2>1 DEF FilesInv
  <2>4. \A i \in Job : \A k \in 1 .. Cardinality(recorded'[i]) : <<i * q.samples + k, i>> \in files'
    <3>1. CASE recorded' = recorded /\ files' = files
      BY <3>1 DEF FilesInv
    <3>2. CASE /\ \A i \in Job : i # j => recorded'[i] = recorded[i]
               /\ m = Cardinality(recorded[j]) + 1
               /\ files' = files \cup {<<j * q.samples + m, j>>}
      <4>1. Cardinality(recorded[j]) \in Nat
        BY <1>1, <2>1, FileNumberType
      <4>2. \A k \in 1 .. m : k = m \/ k \in 1 .. Cardinality(recorded[j])
        BY <2>1, <3>2, <4>1
      <4> HIDE DEF m, j
      <4> SUFFICES ASSUME NEW i \in Job, NEW k \in 1 .. Cardinality(recorded'[i])
                   PROVE  <<i * q.samples + k, i>> \in files'
        OBVIOUS
      <4>3. CASE i # j
        BY <3>2, <4>3 DEF FilesInv
      <4>4. CASE i = j
        <5>1. k = m \/ k \in 1 .. Cardinality(recorded[j])
          BY <4>2, <4>4 DEF m
        <5> QED
          BY <2>1, <3>2, <4>4, <5>1 DEF FilesInv
      <4> QED
        BY <4>3, <4>4
    <3> QED
      BY <2>1, <3>1, <3>2
  <2>5. \A r \in Thread : at'[r] = "chain" =>
          Multiples_(q.warmup, q.interval, Cardinality(recorded'[job'[r]]), path_count'[job'[r]])
    <3> SUFFICES ASSUME NEW r \in Thread, at'[r] = "chain"
                 PROVE  Multiples_(q.warmup, q.interval, Cardinality(recorded'[job'[r]]), path_count'[job'[r]])
      OBVIOUS
    <3>1. CASE r = t
      BY <2>1, <2>2, <3>1
    <3>2. CASE r # t
      BY <1>1, <3>2, CountMoves DEF FilesInv
    <3> QED
      BY <3>1, <3>2
  <2>6. files \subseteq files'
    BY <2>1
  <2> QED
    BY <1>1, <1>3, <2>2, <2>3, <2>4, <2>5, <2>6 DEF FilesInv
<1>5. CASE ~Process(t)
  <2>1. files' = files
    BY <1>2, <1>5 DEF Thread_, Take, SetParams, ReadRouter, ReadWeight, Stop, End, inChain
  <2>2. \A i \in Job : \A k \in 1 .. Cardinality(recorded'[i]) : <<i * q.samples + k, i>> \in files'
    <3>1. CASE recorded' = recorded
      BY <2>1, <3>1 DEF FilesInv
    <3>2. CASE ReadWeight(t)
      <4> SUFFICES ASSUME NEW i \in Job, NEW k \in 1 .. Cardinality(recorded'[i])
                   PROVE  <<i * q.samples + k, i>> \in files'
        OBVIOUS
      <4>1. recorded'[i] = {} \/ recorded'[i] = recorded[i]
        BY <1>1, <3>2 DEF ReadWeight
      <4>2. CASE recorded'[i] = {}
        <5>1. Cardinality(recorded'[i]) = 0
          BY <4>2, FS_EmptySet
        <5> QED
          BY <5>1
      <4> QED
        BY <2>1, <4>1, <4>2 DEF FilesInv
    <3> QED
      BY <1>2, <1>5, <3>1, <3>2 DEF Thread_, Take, SetParams, ReadRouter, Stop, End, inChain
  <2>3. \A r \in Thread : at'[r] = "chain" =>
          Multiples_(q.warmup, q.interval, Cardinality(recorded'[job'[r]]), path_count'[job'[r]])
    <3> SUFFICES ASSUME NEW r \in Thread, at'[r] = "chain"
                 PROVE  Multiples_(q.warmup, q.interval, Cardinality(recorded'[job'[r]]), path_count'[job'[r]])
      OBVIOUS
    <3>1. CASE r # t
      BY <1>1, <3>1, CountMoves DEF FilesInv
    <3>2. CASE r = t /\ ReadWeight(t)
      <4>1. job[t] \in Job
        BY <1>1, <3>2, HasJob DEF ReadWeight
      <4>2. recorded'[job'[t]] = {} /\ path_count'[job'[t]] = 0
        BY <1>1, <3>2, <4>1 DEF ReadWeight
      <4>3. q.warmup \in Nat /\ q.interval \in Nat \ {0}
        BY <1>1, QueryType DEF TypeOK
      <4> QED
        BY <3>2, <4>2, <4>3, FS_EmptySet, MultiplesStart
    <3>3. CASE r = t /\ ~ReadWeight(t)
      BY <1>1, <1>2, <1>5, <3>3 DEF Thread_, Take, SetParams, ReadRouter, Stop, End, Leave
    <3> QED
      BY <3>1, <3>2, <3>3
  <2>4. \A j \in Job : \/ j \in jobs_left'
                       \/ \E r \in Thread : job'[r] = j
                       \/ \A k \in Block : <<j * q.samples + k, j>> \in files
    <3> SUFFICES ASSUME NEW j \in Job
                 PROVE  \/ j \in jobs_left'
                        \/ \E r \in Thread : job'[r] = j
                        \/ \A k \in Block : <<j * q.samples + k, j>> \in files
      OBVIOUS
    <3>1. CASE Take(t)
      <4>1. PICK i \in jobs_left : jobs_left' = jobs_left \ {i} /\ job' = [job EXCEPT ![t] = i]
        BY <1>1, <3>1 DEF Take, FilesInv
      <4>2. job[t] # j
        BY <1>1, <3>1, NoJobIsNoJob DEF Take
      <4>3. \A r \in Thread : job[r] = j => job'[r] = j
        BY <1>1, <4>1, <4>2
      <4>4. i = j => job'[t] = j
        BY <1>1, <4>1
      <4> QED
        BY <4>1, <4>3, <4>4 DEF FilesInv
    <3>2. CASE End(t)
      <4>1. /\ job' = [job EXCEPT ![t] = NoJob] /\ jobs_left' = jobs_left
            /\ at[t] = "chain" /\ path_count[job[t]] = Iterations + 1
        BY <3>2 DEF End, Leave
      <4>2. CASE job[t] # j
        <5>1. \A r \in Thread : job[r] = j => job'[r] = j
          BY <1>1, <4>1, <4>2
        <5> QED
          BY <4>1, <5>1 DEF FilesInv
      <4>3. CASE job[t] = j
        <5> DEFINE m == Cardinality(recorded[j])
        <5>1. m \in Nat
          BY <1>1, FileNumberType
        <5>2. /\ q.warmup \in Nat /\ q.samples \in Nat \ {0} /\ q.interval \in Nat \ {0}
              /\ Iterations \in Nat
          BY <1>1, QueryType DEF TypeOK
        <5>3. Iterations + 1 = q.warmup + q.samples * q.interval + 1
          <6>1. (IF q.writer = "observations" THEN 1 ELSE 0) = 1
            OBVIOUS
          <6> QED
            BY <1>1, <6>1, QueryType DEF TypeOK
        <5>4. Multiples_(q.warmup, q.interval, m, Iterations + 1)
          BY <4>1, <4>3 DEF FilesInv
        <5>5. Iterations + 1 \in Nat /\ Iterations + 1 <= q.warmup + q.samples * q.interval + 1
          BY <5>2, <5>3
        <5>6. m = q.samples + Extra
          <6> DEFINE last == Iterations + 1
                     w == q.warmup
                     s == q.samples
                     i == q.interval
          <6>1. last \in Nat /\ last = w + s * i + 1 /\ last <= w + s * i + 1
            BY <5>3, <5>5
          <6>2. Multiples_(w, i, m, last)
            BY <5>4
          <6>3. m \in Nat /\ w \in Nat /\ s \in Nat \ {0} /\ i \in Nat \ {0}
            BY <5>1, <5>2
          <6>4. Extra = IF i = 1 THEN 1 ELSE 0
            BY DEF Extra
          <6> HIDE DEF last, m, w, s, i
          <6>5. m = s + IF i = 1 THEN 1 ELSE 0
            BY <6>1, <6>2, <6>3, MultiplesAll
          <6> QED
            BY <6>4, <6>5 DEF s
        <5> QED
          BY <5>6 DEF FilesInv, Block
      <4> QED
        BY <4>2, <4>3
    <3>3. CASE ~Take(t) /\ ~End(t)
      <4>1. job' = job /\ jobs_left' = jobs_left
        BY <1>2, <1>5, <3>3 DEF Thread_, SetParams, ReadRouter, ReadWeight, Stop
      <4> QED
        BY <4>1 DEF FilesInv
    <3> QED
      BY <3>1, <3>2, <3>3
  <2>5. \A f \in files' : \E k \in Block : f[1] = f[2] * q.samples + k
    BY <2>1 DEF FilesInv
  <2> QED
    BY <1>1, <1>3, <2>1, <2>2, <2>3, <2>4, <2>5 DEF FilesInv
<1> QED
  BY <1>4, <1>5

\* The invariant behind OwnFiles.
LEMMA FilesAlways == Spec => []FilesInv
<1>1. Init => FilesInv
  <2> SUFFICES ASSUME Init PROVE FilesInv
    OBVIOUS
  <2>1. \A j \in Job : Cardinality(recorded[j]) = 0
    BY FS_EmptySet DEF Init
  <2>2. 1 .. 0 = {}
    OBVIOUS
  <2> QED
    BY <2>1, <2>2 DEF Init, FilesInv
<1>2. TypeInv /\ OwnJobs /\ CountInv /\ FilesInv /\ [Next]_vars => FilesInv'
  <2> SUFFICES ASSUME TypeInv, OwnJobs, CountInv, FilesInv, [Next]_vars PROVE FilesInv'
    OBVIOUS
  <2>1. CASE Elsewhere
    <3>1. UNCHANGED <<q, jobs_left, at, job, path_count, recorded, files, disk>>
      BY <2>1, ElsewhereFrame
    <3>2. Block' = Block
      BY <3>1 DEF Block, Extra
    <3> QED
      BY <3>1, <3>2 DEF FilesInv
  <2>2. CASE Restart
    <3>1. /\ q' = q /\ files' = files /\ disk' = disk /\ jobs_left' = Job
          /\ \A t \in Thread : at'[t] = "idle"
          /\ \A j \in Job : recorded'[j] = {}
      BY <2>2 DEF Restart
    <3>2. \A j \in Job : Cardinality(recorded'[j]) = 0
      BY <3>1, FS_EmptySet
    <3>3. Block' = Block
      BY <3>1 DEF Block, Extra
    <3>4. 1 .. 0 = {}
      OBVIOUS
    <3> QED
      BY <3>1, <3>2, <3>3, <3>4 DEF FilesInv
  <2> QED
    BY <2>1, <2>2, FilesThread, Steps
<1> QED
  BY <1>1, <1>2, TypeAlways, JobsAlways, CountAlways, PTL DEF Spec

-----------------------------------------------------------------------------
(* Blocks of numbers.                                                      *)

\* A number is in two blocks only where one more is taken than a block has.
LEMMA Overlap ==
  ASSUME NEW s \in Nat \ {0}, NEW x \in {0, 1}, NEW f \in Nat, NEW g \in Nat, f < g,
         NEW k \in 1 .. s + x, NEW l \in 1 .. s + x, f * s + k = g * s + l
  PROVE  x = 1 /\ g = f + 1 /\ f * s + k = g * s + 1
<1>1. f * s \in Nat /\ g * s \in Nat /\ f * s + s <= g * s
  BY Blocks
<1>2. x = 1 /\ k = s + 1 /\ l = 1 /\ g * s = f * s + s
  BY <1>1
<1>3. ~(f + 1 < g)
  <2>1. SUFFICES ASSUME f + 1 < g PROVE FALSE
    OBVIOUS
  <2>2. (f + 1) * s = f * s + s /\ (f + 1) * s + s <= g * s
    BY <2>1, Blocks
  <2> QED
    BY <1>1, <1>2, <2>2
<1> QED
  BY <1>2, <1>3

\* The blocks of N jobs are all the numbers, without a gap.
LEMMA Together ==
  ASSUME NEW s \in Nat \ {0}, NEW x \in {0, 1}, NEW N \in Nat \ {0}
  PROVE  /\ \A j \in 0 .. N - 1, k \in 1 .. s + x : j * s + k \in 1 .. s * N + x
         /\ \A n \in 1 .. s * N + x : \E j \in 0 .. N - 1, k \in 1 .. s + x : n = j * s + k
<1>1. N * s \in Nat /\ s * N = N * s
  OBVIOUS
<1>2. ASSUME NEW j \in 0 .. N - 1, NEW k \in 1 .. s + x
      PROVE  j * s + k \in 1 .. s * N + x
  <2>1. j \in Nat /\ j < N
    OBVIOUS
  <2>2. j * s \in Nat /\ j * s + s <= N * s
    BY <2>1, Blocks
  <2> QED
    BY <1>1, <2>2
<1>3. ASSUME NEW n \in 1 .. s * N + x
      PROVE  \E j \in 0 .. N - 1, k \in 1 .. s + x : n = j * s + k
  <2> DEFINE j == (n - 1) \div s
             k == (n - 1) % s
  <2>1. n \in Nat /\ n - 1 \in Nat /\ n - 1 <= N * s + x - 1
    BY <1>1
  <2>2. j \in Nat /\ k \in 0 .. s - 1 /\ n - 1 = j * s + k
    BY <2>1
  <2>3. CASE j < N
    <3> HIDE DEF j, k
    <3>1. n = j * s + (k + 1) /\ k + 1 \in 1 .. s + x /\ j \in 0 .. N - 1
      <4>1. j * s \in Nat
        BY <2>2, Blocks
      <4> QED
        BY <2>1, <2>2, <2>3, <4>1
    <3> QED
      BY <3>1
  <2>4. CASE ~(j < N)
    <3> HIDE DEF j, k
    <3>1. j * s \in Nat /\ N * s <= j * s
      <4>1. CASE j = N
        BY <1>1, <4>1
      <4>2. CASE N < j
        BY <1>1, <2>2, <4>2, Blocks
      <4> QED
        BY <2>2, <2>4, <4>1, <4>2
    <3>2. x = 1 /\ n = N * s + 1
      BY <1>1, <2>1, <2>2, <3>1
    <3>3. N - 1 \in 0 .. N - 1 /\ (N - 1) * s \in Nat /\ N * s = (N - 1) * s + s
      <4>1. N - 1 \in Nat /\ (N - 1) + 1 = N
        OBVIOUS
      <4> QED
        BY <4>1, Blocks
    <3>4. n = (N - 1) * s + (s + 1) /\ s + 1 \in 1 .. s + x
      BY <3>2, <3>3
    <3> QED
      BY <3>3, <3>4
  <2> QED
    BY <2>3, <2>4
<1> QED
  BY <1>2, <1>3

(***************************************************************************)
(* No observation overwrites another's file, and when the loop is done the *)
(* files are numbered without a gap, for any number of threads, jobs and   *)
(* samples: a block is as many numbers as its job keeps states, but for    *)
(* the one more of an interval of one.                                     *)
(***************************************************************************)
THEOREM OwnFilesAlways == Spec => []OwnFiles
<1>1. TypeInv /\ Accounted /\ FilesInv => OwnFiles
  <2> SUFFICES ASSUME TypeInv, Accounted, FilesInv, q.writer = "observations"
               PROVE  /\ \A f, g \in files : f[1] = g[1] /\ f[2] < g[2] =>
                           Extra = 1 /\ g[2] = f[2] + 1 /\ f[1] = g[2] * q.samples + 1
                      /\ process = "returned" =>
                           {f[1] : f \in files} = 1 .. q.samples * Cardinality(Job) + Extra
    BY DEF OwnFiles, Extra
  <2> DEFINE s == q.samples
             N == Cardinality(Job)
  <2>1. s \in Nat \ {0} /\ Extra \in {0, 1} /\ N \in Nat \ {0} /\ Job = 0 .. N - 1
    BY JobsAreNumbers, QueryType DEF TypeInv, TypeOK, Extra
  <2>2. files \subseteq (Nat \X Job) /\ Job \subseteq Nat
    BY JobsAreNumbers DEF TypeInv, TypeOK
  <2>3. \A f \in files : \E k \in 1 .. s + Extra : f[1] = f[2] * s + k
    BY DEF FilesInv, Block
  <2> HIDE DEF s, N
  <2>4. ASSUME NEW f \in files, NEW g \in files, f[1] = g[1], f[2] < g[2]
        PROVE  Extra = 1 /\ g[2] = f[2] + 1 /\ f[1] = g[2] * s + 1
    <3>1. PICK k \in 1 .. s + Extra : f[1] = f[2] * s + k
      BY <2>3
    <3>2. PICK l \in 1 .. s + Extra : g[1] = g[2] * s + l
      BY <2>3
    <3> DEFINE a == f[2]
               b == g[2]
               x == Extra
    <3>3. a \in Nat /\ b \in Nat /\ a < b /\ x \in {0, 1} /\ k \in 1 .. s + x /\ l \in 1 .. s + x
      BY <2>1, <2>2, <2>4
    <3>4. f[1] = a * s + k /\ a * s + k = b * s + l
      BY <2>4, <3>1, <3>2
    <3> HIDE DEF a, b, x
    <3>5. x = 1 /\ b = a + 1 /\ a * s + k = b * s + 1
      BY <2>1, <3>3, <3>4, Overlap
    <3> QED
      BY <3>4, <3>5 DEF a, b, x
  <2>5. ASSUME process = "returned"
        PROVE  {f[1] : f \in files} = 1 .. s * N + Extra
    <3>1. \A j \in Job : \A k \in 1 .. s + Extra : <<j * s + k, j>> \in files
      <4>1. jobs_left = {} /\ \A t \in Thread : job[t] = NoJob
        BY <2>5 DEF TypeInv, TypeOK, Accounted
      <4> QED
        BY <4>1, NoJobIsNoJob DEF FilesInv, Block, s
    <3>2. \A f \in files : f[1] \in 1 .. s * N + Extra
      BY <2>1, <2>2, <2>3, Together
    <3>3. \A n \in 1 .. s * N + Extra : \E f \in files : f[1] = n
      <4> SUFFICES ASSUME NEW n \in 1 .. s * N + Extra
                   PROVE  \E f \in files : f[1] = n
        OBVIOUS
      <4> DEFINE x == Extra
      <4>1. n \in 1 .. s * N + x /\ x \in {0, 1}
        BY <2>1
      <4> HIDE DEF x
      <4>2. \A i \in 1 .. s * N + x : \E j \in 0 .. N - 1, k \in 1 .. s + x : i = j * s + k
        BY <2>1, <4>1, Together
      <4>3. \E j \in 0 .. N - 1, k \in 1 .. s + x : n = j * s + k
        BY <4>1, <4>2
      <4>4. \E j \in 0 .. N - 1, k \in 1 .. s + Extra : n = j * s + k
        BY <4>3 DEF x
      <4>5. PICK j \in Job, k \in 1 .. s + Extra : n = j * s + k
        BY <2>1, <4>4
      <4>6. <<n, j>> \in files
        BY <3>1, <4>5
      <4> QED
        BY <4>6
    <3> QED
      BY <3>2, <3>3
  <2> QED
    BY <2>4, <2>5 DEF s, N
<1> QED
  BY <1>1, TypeAlways, AccountedAlways, FilesAlways, PTL

=============================================================================
