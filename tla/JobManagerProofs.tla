-------------------------- MODULE JobManagerProofs --------------------------
(***************************************************************************)
(* Proofs about JobManager.  The locks are not variables of the model but  *)
(* positions of the threads, so the first thing to know is that each of    *)
(* them has one holder.  The rest follows from who may touch a job at      *)
(* which of its positions: the one start in flight until the job is        *)
(* published, then its dispatcher and the controls under the lifecycle     *)
(* mutex; and from what the journal remembers of a start.                  *)
(***************************************************************************)
EXTENDS JobManager, FiniteSetTheorems, TLAPS

StarterPoint ==
    {"idle", "live", "gate", "recovered", "preflight", "admit", "begin", "unavailable",
     "accept", "commit", "rollback", "claim", "spawn", "publish", "observe", "finish",
     "finished", "dispatch", "ready", "abort", "fence", "done"}

ControllerPoint ==
    {"idle", "gate", "lock", "check", "accept", "commit", "effect", "record", "finish",
     "finished", "done"}

DispatcherPoint ==
    {"none", "run", "lock", "complete", "append", "commit", "remove", "drop", "gone"}

JobTypes ==
    /\ entry \in [Key -> Entry]
    /\ nextGen \in 0..GenerationMax
    /\ store \in {"open", "lost", "none"}
    /\ ops \in [Key -> [Operation -> OperationState]]
    /\ jobs \in [Key -> JobState]
    /\ disk \in [Key -> Seq(Record)]
    /\ pc \in [Thread -> StarterPoint \cup ControllerPoint]
    /\ \A s \in Starter : pc[s] \in StarterPoint
    /\ \A c \in Controller : pc[c] \in ControllerPoint
    /\ want \in [Thread -> Outcome \cup {None}]
    /\ seen \in [Starter -> {"Durable", "Unavailable", "MemoryOnly", None}]
    /\ permit \in [Starter -> BOOLEAN]
    /\ running \in SUBSET Key
    /\ gate \in [Key -> {"pending", "ready", "failed", "terminal", None}]
    /\ dispatcher \in [Key -> DispatcherPoint]
    /\ process \in [Key -> {"none", "live", "dying", "exited"}]
    /\ latched \in BOOLEAN
    /\ restarts \in Nat
    /\ spawned \in [Key -> Nat]
    /\ applied \in [Key -> [Operation -> Nat]]

(***************************************************************************)
(* The locks                                                               *)
(***************************************************************************)
AtRest == {"idle", "done"}

\* The start shard of a job has one holder.
OneStart(k) ==
    \A s, u \in StarterOf(k) : s # u => pc[s] \in AtRest \/ pc[u] \in AtRest

\* So has its lifecycle mutex, which controls hold past the lock, and the
\* dispatcher on its way to the terminal.
Controls == {"check", "accept", "commit", "effect", "record", "finish", "finished"}
Ending == {"complete", "append", "commit", "remove"}

OneLifecycle(k) ==
    \A c \in ControllerOf(k) : pc[c] \in Controls =>
        /\ dispatcher[k] \notin Ending
        /\ \A d \in ControllerOf(k) : d # c => pc[d] \notin Controls

(***************************************************************************)
(* What a start in flight may rely on                                      *)
(***************************************************************************)
Accepting == {"unavailable", "accept", "commit", "rollback", "claim"}

\* A start that only has to report and fence its failure.
Doomed(s) == pc[s] = "fence" \/ (pc[s] \in {"finish", "finished"} /\ want[s] # "started")

\* A start whose job is in the running map.
Published(s) == \/ pc[s] \in {"observe", "dispatch", "abort"}
                \/ pc[s] \in {"finish", "finished"} /\ want[s] = "started"

StartOwns(s) ==
    LET k == KeyOf[s]
        e == entry[k]
    IN
    /\ pc[s] = "begin" => permit[s] \/ Present(k)
    /\ pc[s] \in Accepting \cup {"spawn", "publish"} => permit[s] /\ dispatcher[k] = "none"
    /\ pc[s] \in Accepting => e.dispatch = "accepted" /\ ~e.uncertain
    /\ pc[s] \in {"spawn", "publish"} => e.dispatch = "claimed" /\ ~e.uncertain
    /\ Published(s) => /\ e.dispatch = "running" /\ k \in running
                       /\ dispatcher[k] = "none" /\ ~permit[s]
    /\ pc[s] = "ready" => dispatcher[k] # "none" /\ ~permit[s]
    /\ Doomed(s) => e.dispatch # "absent" /\ dispatcher[k] = "none"

\* The journal holds an accepted start of the job, or its end.
StartLogged(k) ==
    \E i \in DOMAIN disk[k] : disk[k][i].start \/ disk[k][i].record = "job.terminal"

\* A start goes on only with a job the journal did not know, and dispatches only
\* one that it does, for the first time.
StartIsNew(s) ==
    LET k == KeyOf[s] IN
    /\ pc[s] \in {"preflight", "admit", "begin", "unavailable", "accept", "commit", "rollback"}
          => ~jobs[k].known
    /\ pc[s] \in {"claim", "spawn", "publish", "ready"} \/ Published(s) \/ Doomed(s)
          => jobs[k].known
    /\ pc[s] = "commit" => Configured
    /\ pc[s] \in {"commit", "claim", "spawn"} /\ Configured => StartLogged(k)
    /\ pc[s] \in {"commit", "claim", "spawn"} =>
          spawned[k] <= IF Configured THEN 0 ELSE restarts
    /\ pc[s] \in {"admit", "begin"} /\ ~Allow => spawned[k] = 0

(***************************************************************************)
(* What is so of a job                                                     *)
(***************************************************************************)

\* Its entry at each position of its dispatcher.
JobOwns(k) ==
    LET e == entry[k] IN
    /\ k \in running => e.dispatch \in {"running", "terminal"}
    /\ dispatcher[k] \in {"run", "lock", "complete"} => e.dispatch = "running"
    /\ dispatcher[k] \in {"append", "commit", "remove"} => e.dispatch = "terminal"
    /\ dispatcher[k] = "drop" => e.dispatch = "running" /\ e.uncertain
    /\ dispatcher[k] = "gone" => e.dispatch = "terminal" \/ (e.dispatch = "running" /\ e.uncertain)
    /\ e.dispatch # "absent" => e.request # None

\* Whatever can still be claimed, or runs, has somebody who will end it.
EntryOwned(k) ==
    ~entry[k].uncertain =>
        /\ entry[k].dispatch = "accepted" =>
              \E s \in StarterOf(k) : pc[s] \in Accepting \/ Doomed(s)
        /\ entry[k].dispatch = "claimed" =>
              \E s \in StarterOf(k) : pc[s] \in {"spawn", "publish"} \/ Doomed(s)
        /\ entry[k].dispatch = "running" =>
              k \in running \/ \E s \in StarterOf(k) : Doomed(s)

\* Memory knows what the disk knows, but for an append that is not committed; a
\* job past its claim is known.
StartKnown(k) ==
    /\ store = "open" /\ StartLogged(k) =>
          jobs[k].known \/ \E s \in StarterOf(k) : pc[s] = "commit"
    /\ entry[k].dispatch \in {"claimed", "running", "terminal"} => jobs[k].known

\* The processes a job may have had: none that the journal does not tell of.
SpawnsCounted(k) ==
    /\ Configured => spawned[k] <= 1 /\ (spawned[k] = 1 => StartLogged(k))
    /\ ~Configured => spawned[k] <= restarts \/ (jobs[k].known /\ spawned[k] <= restarts + 1)
    /\ entry[k].dispatch = "accepted" /\ ~Allow => spawned[k] = 0

\* As long as signals are delivered, a live process is within reach.
Reached(k) ==
    /\ dispatcher[k] \in {"lock"} \cup Ending => process[k] = "exited"
    /\ ~SignalsFail =>
          /\ process[k] = "live" =>
                k \in running \/ \E s \in StarterOf(k) : pc[s] = "publish"
          /\ dispatcher[k] = "drop" => process[k] # "live"

JobOK(k) == JobOwns(k) /\ EntryOwned(k) /\ StartKnown(k) /\ SpawnsCounted(k) /\ Reached(k)

StartOK(s) == StartOwns(s) /\ StartIsNew(s)

\* A control past its check acts on a running job.
ControlOK(c) == pc[c] \in Controls \ {"check"} => entry[KeyOf[c]].dispatch = "running"

JobInv ==
    /\ JobTypes
    /\ \A k \in Key : OneStart(k) /\ OneLifecycle(k) /\ JobOK(k)
    /\ \A s \in Starter : StartOK(s)
    /\ \A c \in Controller : ControlOK(c)

(***************************************************************************)
(* Steps that leave a job alone                                            *)
(***************************************************************************)

\* Nothing of job j changes.
Same(j) ==
    /\ entry'[j] = entry[j] /\ jobs'[j] = jobs[j] /\ disk'[j] = disk[j]
    /\ dispatcher'[j] = dispatcher[j] /\ process'[j] = process[j] /\ spawned'[j] = spawned[j]
    /\ j \in running' <=> j \in running
    /\ \A t \in Thread : KeyOf[t] = j => pc'[t] = pc[t] /\ want'[t] = want[t]
    /\ \A s \in Starter : KeyOf[s] = j => permit'[s] = permit[s]

\* The store goes on as it is or is lost.
StoreStep ==
    /\ store' = store \/ (store # "none" /\ store' = "lost")
    /\ restarts' = restarts

LEMMA ThreadFacts ==
    /\ \A s \in Starter : s \in Thread /\ KeyOf[s] \in Key /\ s \notin Controller
    /\ \A c \in Controller : c \in Thread /\ KeyOf[c] \in Key /\ c \notin Starter
    /\ \A k : \A s \in StarterOf(k) : s \in Starter /\ KeyOf[s] = k
    /\ \A k : \A c \in ControllerOf(k) : c \in Controller /\ KeyOf[c] = k
  BY ManagerAssumption DEF Thread, StarterOf, ControllerOf

LEMMA SameLocks ==
    ASSUME NEW j \in Key, Same(j), OneStart(j), OneLifecycle(j)
    PROVE  OneStart(j)' /\ OneLifecycle(j)'
<1>1. OneStart(j)'
  BY ThreadFacts DEF Same, OneStart, StarterOf
<1>2. OneLifecycle(j)'
  BY ThreadFacts DEF Same, OneLifecycle, ControllerOf
<1> QED
  BY <1>1, <1>2

LEMMA SameJob ==
    ASSUME NEW j \in Key, Same(j), StoreStep, JobOK(j)
    PROVE  JobOK(j)'
<1>1. JobOwns(j)'
  BY DEF Same, JobOK, JobOwns
<1>2. \A s \in StarterOf(j) : s \in Starter /\ pc'[s] = pc[s] /\ (Doomed(s)' <=> Doomed(s))
  BY ThreadFacts DEF Same, Doomed
<1>3. EntryOwned(j)'
  BY <1>2 DEF Same, JobOK, EntryOwned, StarterOf
<1>4. StartLogged(j)' <=> StartLogged(j)
  BY DEF Same, StartLogged
<1>5. StartKnown(j)'
  BY <1>2, <1>4 DEF Same, StoreStep, JobOK, StartKnown, StarterOf
<1>6. SpawnsCounted(j)'
  BY <1>4 DEF Same, StoreStep, JobOK, SpawnsCounted, Configured
<1>7. Reached(j)'
  BY <1>2 DEF Same, JobOK, Reached, StarterOf
<1> QED
  BY <1>1, <1>3, <1>5, <1>6, <1>7 DEF JobOK

LEMMA SameStart ==
    ASSUME NEW s \in Starter, Same(KeyOf[s]), StoreStep, StartOK(s)
    PROVE  StartOK(s)'
<1>1. /\ pc'[s] = pc[s] /\ permit'[s] = permit[s]
      /\ (Doomed(s)' <=> Doomed(s)) /\ (Published(s)' <=> Published(s))
  BY ThreadFacts DEF Same, Doomed, Published
<1>2. StartOwns(s)'
  BY <1>1 DEF Same, StartOK, StartOwns, Present
<1>3. StartLogged(KeyOf[s])' <=> StartLogged(KeyOf[s])
  BY DEF Same, StartLogged
<1>4. Configured' <=> Configured
  BY DEF StoreStep, Configured
<1>5. StartIsNew(s)'
  BY <1>1, <1>3, <1>4 DEF Same, StoreStep, StartOK, StartIsNew
<1> QED
  BY <1>2, <1>5 DEF StartOK

\* A step that touches one job only has to be looked at there.
OnlyJob(k) == StoreStep /\ \A j \in Key \ {k} : Same(j)

LEMMA OneJobStep ==
    ASSUME JobInv, JobTypes', NEW k \in Key, OnlyJob(k), OneStart(k)', OneLifecycle(k)', JobOK(k)',
           \A s \in StarterOf(k) : StartOK(s)',
           \A c \in ControllerOf(k) : ControlOK(c)'
    PROVE  JobInv'
<1>1. \A j \in Key : OneStart(j)' /\ OneLifecycle(j)' /\ JobOK(j)'
  BY SameLocks, SameJob DEF JobInv, OnlyJob
<1>2. ASSUME NEW s \in Starter PROVE StartOK(s)'
  <2>1. CASE KeyOf[s] = k
    BY <2>1 DEF StarterOf
  <2>2. CASE KeyOf[s] # k
    BY <2>2, SameStart, ThreadFacts DEF JobInv, OnlyJob
  <2> QED
    BY <2>1, <2>2
<1>3. ASSUME NEW c \in Controller PROVE ControlOK(c)'
  <2>1. CASE KeyOf[c] = k
    BY <2>1 DEF ControllerOf
  <2>2. CASE KeyOf[c] # k
    BY <2>2, ThreadFacts DEF JobInv, OnlyJob, Same, ControlOK
  <2> QED
    BY <2>1, <2>2
<1> QED
  BY <1>1, <1>2, <1>3 DEF JobInv

(***************************************************************************)
(* A step of a start                                                       *)
(***************************************************************************)

\* Only thread t moves, and only job k is touched.
ThreadStep(t, k) ==
    /\ OnlyJob(k)
    /\ \A u \in Thread \ {t} : pc'[u] = pc[u] /\ want'[u] = want[u]
    /\ \A s \in Starter \ {t} : permit'[s] = permit[s]

LEMMA StartStepKeeps ==
    ASSUME JobInv, JobTypes', NEW s \in Starter, NEW k, k = KeyOf[s], ThreadStep(s, k),
           pc[s] \notin AtRest \/ StartShardFree(k),
           dispatcher'[k] = dispatcher[k] \/ dispatcher'[k] = "run",
           entry[k].dispatch = "running" => entry'[k].dispatch = "running",
           StartOK(s)', JobOK(k)'
    PROVE  JobInv'
<1>1. k \in Key /\ s \in StarterOf(k) /\ \A c \in ControllerOf(k) : c \in Thread \ {s}
  BY ThreadFacts DEF StarterOf
<1>2. \A u \in StarterOf(k) \ {s} : u \in Thread /\ pc'[u] = pc[u] /\ pc[u] \in AtRest
  <2>1. OneStart(k)
    BY <1>1 DEF JobInv
  <2> QED
    BY <1>1, <2>1, ThreadFacts DEF ThreadStep, OneStart, StartShardFree, AtRest
<1>3. OneStart(k)'
  BY <1>2 DEF OneStart, StarterOf
<1>4. \A u \in StarterOf(k) : StartOK(u)'
  <2>1. ASSUME NEW u \in StarterOf(k), u # s PROVE StartOK(u)'
    <3>1. pc'[u] \in AtRest
      BY <1>2, <2>1
    <3>2. ~Doomed(u)' /\ ~Published(u)'
      BY <3>1 DEF Doomed, Published, AtRest
    <3> QED
      BY <3>1, <3>2 DEF StartOK, StartOwns, StartIsNew, AtRest, Accepting
  <2> QED
    BY <2>1
<1>5. \A c \in ControllerOf(k) : pc'[c] = pc[c] /\ ControlOK(c) /\ c \in Controller /\ KeyOf[c] = k
  BY <1>1, ThreadFacts DEF ThreadStep, JobInv
<1>6. OneLifecycle(k)'
  <2>1. OneLifecycle(k)
    BY <1>1 DEF JobInv
  <2> QED
    BY <1>5, <2>1 DEF OneLifecycle, Ending, ControllerOf
<1>7. \A c \in ControllerOf(k) : ControlOK(c)'
  BY <1>5 DEF ControlOK
<1> QED
  BY <1>1, <1>3, <1>4, <1>6, <1>7, OneJobStep DEF ThreadStep

(***************************************************************************)
(* The registry's operations                                               *)
(***************************************************************************)

\* The entry of job k alone changes, to one with dispatch state d.
EntryGoes(k, d) ==
    /\ entry' \in [Key -> Entry] /\ nextGen' \in 0..GenerationMax
    /\ \A j \in Key \ {k} : entry'[j] = entry[j]
    /\ entry'[k].dispatch = d

\* It keeps its dispatch state and its request, and whether it is fenced.
EntryKept(k) ==
    /\ EntryGoes(k, entry[k].dispatch)
    /\ entry'[k].request = entry[k].request
    /\ entry'[k].uncertain <=> entry[k].uncertain

\* It keeps them and is fenced.
EntryFenced(k) ==
    /\ EntryGoes(k, entry[k].dispatch)
    /\ entry'[k].request = entry[k].request
    /\ entry[k].uncertain => entry'[k].uncertain
    /\ entry[k].dispatch \in {"accepted", "claimed", "running"} => entry'[k].uncertain

LEMMA EntryFacts ==
    ASSUME JobTypes, NEW k \in Key
    PROVE  /\ entry[k] \in Entry /\ entry[k].dispatch \in Dispatch /\ entry[k].uncertain \in BOOLEAN
           /\ \A e \in Entry : [e EXCEPT !.touched = TRUE] \in Entry
<1>1. entry[k] \in Entry
  BY DEF JobTypes
<1>2. entry[k].dispatch \in Dispatch /\ entry[k].uncertain \in BOOLEAN
  BY <1>1 DEF Entry
<1>3. ASSUME NEW e \in Entry PROVE [e EXCEPT !.touched = TRUE] \in Entry
  BY DEF Entry
<1> QED
  BY <1>1, <1>2, <1>3

LEMMA AbsentFacts ==
    /\ Absent \in Entry /\ Absent.dispatch = "absent" /\ ~Absent.uncertain
<1>1. 0 \in 0..GenerationMax
  BY RegistryAssumption
<1>2. {} \in SUBSET Attachment /\ "absent" \in Dispatch /\ None \in Request \cup {None}
  BY DEF Dispatch
<1> QED
  BY <1>1, <1>2 DEF Entry, Absent

LEMMA SameEntry ==
    ASSUME JobTypes, NEW k \in Key, UNCHANGED jobRegistryVars
    PROVE  EntryKept(k)
  BY DEF JobTypes, jobRegistryVars, EntryKept, EntryGoes

LEMMA MutateFacts ==
    ASSUME JobTypes, NEW k \in Key, NEW e \in Entry, Mutate(k, e), nextGen' \in 0..GenerationMax
    PROVE  /\ EntryGoes(k, e.dispatch)
           /\ entry'[k].uncertain = e.uncertain /\ entry'[k].request = e.request
<1>1. entry' = [entry EXCEPT ![k] = [e EXCEPT !.touched = TRUE]] /\ entry \in [Key -> Entry]
  BY DEF Mutate, JobTypes
<1>2. [e EXCEPT !.touched = TRUE] \in Entry
  BY EntryFacts
<1>3. entry'[k] = [e EXCEPT !.touched = TRUE]
  BY <1>1
<1>4. entry'[k].dispatch = e.dispatch /\ entry'[k].uncertain = e.uncertain /\ entry'[k].request = e.request
  BY <1>3 DEF Entry
<1> QED
  BY <1>1, <1>2, <1>4 DEF EntryGoes

LEMMA MarkFences ==
    ASSUME JobTypes, NEW k \in Key, MarkRestartUncertain(k)
    PROVE  EntryFenced(k)
<1>1. nextGen' \in 0..GenerationMax /\ entry[k] \in Entry
  BY DEF MarkRestartUncertain, JobTypes
<1>3. CASE Mutate(k, [entry[k] EXCEPT !.uncertain = TRUE])
  <2> DEFINE e == [entry[k] EXCEPT !.uncertain = TRUE]
  <2>1. e \in Entry /\ e.dispatch = entry[k].dispatch /\ e.request = entry[k].request /\ e.uncertain
    BY <1>1 DEF Entry
  <2> HIDE DEF e
  <2>2. Mutate(k, e)
    BY <1>3 DEF e
  <2> QED
    BY <1>1, <2>1, <2>2, MutateFacts DEF EntryFenced
<1>4. CASE /\ ~(entry[k].dispatch \in {"accepted", "claimed", "running"} /\ ~entry[k].uncertain)
           /\ UNCHANGED entry
  BY <1>1, <1>4 DEF EntryFenced, EntryGoes, JobTypes
<1> QED
  BY <1>3, <1>4 DEF MarkRestartUncertain

LEMMA LiveKeeps ==
    ASSUME JobTypes, NEW k \in Key,
           \/ RecordLive(k) \/ RecordInput(k) \/ CloseStdin(k) \/ RequestKill(k)
           \/ \E a \in Attachment : Attach(k, a) \/ Detach(k, a)
    PROVE  EntryKept(k)
<1>1. entry[k] \in Entry /\ nextGen' \in 0..GenerationMax
  BY DEF JobTypes, RecordLive, RecordInput, CloseStdin, RequestKill, Attach, Detach
<1>2. PICK e \in Entry : /\ Mutate(k, e) /\ e.dispatch = entry[k].dispatch
                         /\ e.request = entry[k].request /\ e.uncertain = entry[k].uncertain
  <2>1. CASE RecordLive(k) \/ RecordInput(k)
    BY <1>1, <2>1 DEF RecordLive, RecordInput
  <2>2. CASE CloseStdin(k)
    <3>1. [entry[k] EXCEPT !.stdinClosed = TRUE] \in Entry
      BY <1>1 DEF Entry
    <3> QED
      BY <1>1, <2>2, <3>1 DEF CloseStdin, Entry
  <2>3. CASE RequestKill(k)
    <3>1. [entry[k] EXCEPT !.killRequested = TRUE] \in Entry
      BY <1>1 DEF Entry
    <3> QED
      BY <1>1, <2>3, <3>1 DEF RequestKill, Entry
  <2>4. ASSUME NEW a \in Attachment, Attach(k, a) \/ Detach(k, a)
        PROVE  \E e \in Entry : /\ Mutate(k, e) /\ e.dispatch = entry[k].dispatch
                                /\ e.request = entry[k].request /\ e.uncertain = entry[k].uncertain
    <3>1. \A A \in SUBSET Attachment : [entry[k] EXCEPT !.attachments = A] \in Entry
      BY <1>1 DEF Entry
    <3>2. entry[k].attachments \cup {a} \in SUBSET Attachment /\ entry[k].attachments \ {a} \in SUBSET Attachment
      BY <1>1 DEF Entry
    <3>3. PICK A \in SUBSET Attachment : Mutate(k, [entry[k] EXCEPT !.attachments = A])
      BY <2>4, <3>2 DEF Attach, Detach
    <3> QED
      BY <1>1, <3>1, <3>3 DEF Entry
  <2> QED
    BY <2>1, <2>2, <2>3, <2>4
<1> QED
  BY <1>1, <1>2, MutateFacts DEF EntryKept

LEMMA AcceptFacts ==
    ASSUME JobTypes, NEW k \in Key, NEW r \in Request, Accept(k, r)
    PROVE  /\ EntryGoes(k, "accepted")
           /\ ~entry'[k].uncertain /\ entry'[k].request = r /\ r # None
           /\ entry[k].dispatch = "absent"
<1> DEFINE e == [Absent EXCEPT !.dispatch = "accepted", !.request = r]
<1>1. Absent \in Entry /\ "accepted" \in Dispatch
  BY AbsentFacts DEF Dispatch
<1>2. e \in Entry
  BY <1>1 DEF Entry
<1>3. entry' = [entry EXCEPT ![k] = e] /\ entry[k].dispatch = "absent" /\ nextGen' = nextGen
  BY DEF Accept, Present
<1>4. e.dispatch = "accepted" /\ e.request = r /\ ~e.uncertain
  BY <1>1, AbsentFacts DEF Entry
<1> HIDE DEF e
<1> QED
  BY <1>2, <1>3, <1>4, RegistryAssumption DEF EntryGoes, JobTypes

LEMMA RollbackFacts ==
    ASSUME JobTypes, NEW k \in Key, NEW r, RollbackAccept(k, r)
    PROVE  EntryGoes(k, "absent")
<1>1. entry' = [entry EXCEPT ![k] = Absent] /\ nextGen' = nextGen
  BY DEF RollbackAccept
<1> QED
  BY <1>1, AbsentFacts DEF EntryGoes, JobTypes

LEMMA ClaimFacts ==
    ASSUME JobTypes, NEW k \in Key, ClaimSpawn(k)
    PROVE  /\ EntryGoes(k, "claimed") /\ entry'[k].request = entry[k].request
           /\ ~entry'[k].uncertain
<1> DEFINE e == [entry[k] EXCEPT !.dispatch = "claimed", !.generation = nextGen]
<1>1. entry[k] \in Entry /\ nextGen' \in 0..GenerationMax /\ nextGen \in 0..GenerationMax
  BY RegistryAssumption DEF JobTypes, ClaimSpawn, GenerationsLeft
<1>2. e \in Entry /\ e.dispatch = "claimed" /\ e.request = entry[k].request /\ e.uncertain = entry[k].uncertain
  BY <1>1 DEF Entry, Dispatch
<1>3. Mutate(k, e) /\ ~entry[k].uncertain
  BY DEF ClaimSpawn, Claimable
<1> HIDE DEF e
<1> QED
  BY <1>1, <1>2, <1>3, MutateFacts

LEMMA StartedFacts ==
    ASSUME JobTypes, NEW k \in Key, RecordStarted(k)
    PROVE  /\ EntryGoes(k, "running") /\ entry'[k].request = entry[k].request
           /\ ~entry'[k].uncertain
<1> DEFINE e == [entry[k] EXCEPT !.dispatch = "running"]
<1>1. entry[k] \in Entry /\ nextGen' \in 0..GenerationMax
  BY DEF JobTypes, RecordStarted
<1>2. e \in Entry /\ e.dispatch = "running" /\ e.request = entry[k].request /\ e.uncertain = entry[k].uncertain
  BY <1>1 DEF Entry, Dispatch
<1>3. Mutate(k, e) /\ ~entry[k].uncertain
  BY DEF RecordStarted
<1> HIDE DEF e
<1> QED
  BY <1>1, <1>2, <1>3, MutateFacts

LEMMA CompleteFacts ==
    ASSUME JobTypes, NEW k \in Key, Complete(k)
    PROVE  EntryGoes(k, "terminal") /\ entry'[k].request = entry[k].request
<1> DEFINE e == [entry[k] EXCEPT !.dispatch = "terminal", !.uncertain = FALSE]
<1>1. entry[k] \in Entry /\ nextGen' \in 0..GenerationMax
  BY DEF JobTypes, Complete
<1>2. e \in Entry /\ e.dispatch = "terminal" /\ e.request = entry[k].request
  BY <1>1 DEF Entry, Dispatch
<1>3. Mutate(k, e)
  BY DEF Complete
<1> HIDE DEF e
<1> QED
  BY <1>1, <1>2, <1>3, MutateFacts

(***************************************************************************)
(* start, up to its acceptance                                             *)
(***************************************************************************)
LEMMA StarterMoves ==
    ASSUME JobTypes, NEW s \in Starter, NEW p \in StarterPoint, pc' = [pc EXCEPT ![s] = p]
    PROVE  /\ pc' \in [Thread -> StarterPoint \cup ControllerPoint]
           /\ \A u \in Starter : pc'[u] \in StarterPoint
           /\ \A c \in Controller : pc'[c] \in ControllerPoint
           /\ pc'[s] = p
           /\ \A u \in Thread \ {s} : pc'[u] = pc[u]
<1>1. pc \in [Thread -> StarterPoint \cup ControllerPoint] /\ s \in Thread
  BY ThreadFacts DEF JobTypes
<1>2. pc'[s] = p /\ \A u \in Thread \ {s} : pc'[u] = pc[u]
  BY <1>1
<1> QED
  BY <1>1, <1>2, ThreadFacts DEF JobTypes

Early == {"live", "gate", "recovered", "preflight", "admit", "begin"}

\* As long as a start owns nothing, its steps disturb nobody.
LEMMA EarlyStep ==
    ASSUME JobInv, NEW s \in Starter, NEW k, k = KeyOf[s],
           pc[s] \in Early \/ (pc[s] = "idle" /\ StartShardFree(k)),
           NEW p \in Early \cup {"done"}, pc' = [pc EXCEPT ![s] = p],
           EntryKept(k) \/ EntryFenced(k),
           permit' \in [Starter -> BOOLEAN], \A u \in Starter \ {s} : permit'[u] = permit[u],
           seen' \in [Starter -> {"Durable", "Unavailable", "MemoryOnly", None}],
           UNCHANGED <<jobJournalVars, want, jobVars, latched, restarts, historyVars>>,
           StartOK(s)'
    PROVE  JobInv'
<1>1. JobTypes /\ s \in Thread /\ k \in Key
  BY ThreadFacts DEF JobInv
<1>2. /\ pc' \in [Thread -> StarterPoint \cup ControllerPoint]
      /\ \A u \in Starter : pc'[u] \in StarterPoint
      /\ \A c \in Controller : pc'[c] \in ControllerPoint
      /\ pc'[s] = p
      /\ \A u \in Thread \ {s} : pc'[u] = pc[u]
  <2>1. p \in StarterPoint
    BY DEF StarterPoint, Early
  <2> QED
    BY <1>1, <2>1, StarterMoves
<1>3. /\ EntryGoes(k, entry[k].dispatch) /\ entry'[k].request = entry[k].request
      /\ entry[k].uncertain => entry'[k].uncertain
  BY DEF EntryKept, EntryFenced
<1>4. /\ UNCHANGED <<store, ops, jobs, disk, want, running, gate, dispatcher, process, latched, restarts,
                     spawned, applied>>
      /\ Configured' <=> Configured
  BY DEF jobJournalVars, jobVars, historyVars, Configured
<1>5. JobTypes'
  BY <1>1, <1>2, <1>3, <1>4 DEF JobTypes, EntryGoes
<1>6. ThreadStep(s, k)
  BY <1>2, <1>3, <1>4, ThreadFacts DEF ThreadStep, OnlyJob, Same, StoreStep, EntryGoes
<1>7. pc[s] \notin Accepting \cup {"spawn", "publish", "commit"} /\ ~Doomed(s)
  BY DEF Early, Accepting, Doomed
<1>8. \A u \in StarterOf(k) \ {s} : pc'[u] = pc[u] /\ (Doomed(u)' <=> Doomed(u))
  BY <1>2, <1>4, ThreadFacts DEF Doomed
<1>9. JobOK(k)'
  <2>0. JobOK(k)
    BY <1>1 DEF JobInv
  <2>1. JobOwns(k)'
    BY <1>3, <1>4, <2>0 DEF JobOK, JobOwns, EntryGoes
  <2>2. EntryOwned(k)'
    BY <1>3, <1>4, <1>7, <1>8, <2>0 DEF JobOK, EntryOwned, EntryGoes, StarterOf
  <2>3. StartKnown(k)'
    BY <1>3, <1>4, <1>7, <1>8, <2>0 DEF JobOK, StartKnown, StartLogged, EntryGoes, StarterOf
  <2>4. SpawnsCounted(k)'
    BY <1>3, <1>4, <2>0 DEF JobOK, SpawnsCounted, StartLogged, EntryGoes
  <2>5. Reached(k)'
    BY <1>3, <1>4, <1>7, <1>8, <2>0 DEF JobOK, Reached, StarterOf
  <2> QED
    BY <2>1, <2>2, <2>3, <2>4, <2>5 DEF JobOK
<1>10. pc[s] \notin AtRest \/ StartShardFree(k)
  BY DEF Early, AtRest
<1> QED
  BY <1>1, <1>3, <1>4, <1>5, <1>6, <1>9, <1>10, StartStepKeeps DEF EntryGoes

\* A start at its end, or that has not looked at the journal, owes nothing.
LEMMA RestOK ==
    ASSUME NEW s \in Starter, pc[s] \in {"idle", "live", "gate", "recovered", "done"}
    PROVE  StartOK(s)
<1>1. ~Doomed(s) /\ ~Published(s) /\ pc[s] \notin Accepting
  BY DEF Doomed, Published, Accepting
<1> QED
  BY <1>1 DEF StartOK, StartOwns, StartIsNew

LEMMA RestOKNext ==
    ASSUME NEW s \in Starter, pc'[s] \in {"idle", "live", "gate", "recovered", "done"}
    PROVE  StartOK(s)'
<1>1. ~Doomed(s)' /\ ~Published(s)' /\ pc'[s] \notin Accepting
  BY DEF Doomed, Published, Accepting
<1> QED
  BY <1>1 DEF StartOK, StartOwns, StartIsNew

LEMMA EnterKeeps ==
    ASSUME JobInv, NEW s \in Starter,
           EnterStart(s) \/ CheckLive(s) \/ JoinLive(s)
    PROVE  JobInv'
<1> DEFINE k == KeyOf[s]
<1>1. JobTypes /\ k \in Key /\ s \in Thread
  BY ThreadFacts DEF JobInv
<1>2. /\ UNCHANGED <<jobRegistryVars, jobJournalVars, want, seen, permit, jobVars, latched, restarts,
                     historyVars>>
      /\ pc[s] \in Early \/ (pc[s] = "idle" /\ StartShardFree(k))
  BY DEF EnterStart, CheckLive, JoinLive, Goto, Return, Early
<1>3. PICK p \in {"live", "gate", "recovered", "done"} : pc' = [pc EXCEPT ![s] = p]
  BY DEF EnterStart, CheckLive, JoinLive, Goto, Return
<1>4. EntryKept(k)
  BY <1>1, <1>2, SameEntry
<1>5. StartOK(s)'
  <2>1. pc'[s] = p
    BY <1>1, <1>3 DEF JobTypes
  <2> QED
    BY <2>1, RestOKNext
<1>6. p \in Early \cup {"done"}
  BY DEF Early
<1>7. permit' \in [Starter -> BOOLEAN] /\ seen' \in [Starter -> {"Durable", "Unavailable", "MemoryOnly", None}]
  BY <1>1, <1>2 DEF JobTypes
<1> HIDE DEF k
<1> QED
  BY <1>2, <1>3, <1>4, <1>5, <1>6, <1>7, EarlyStep DEF k

LEMMA CheckRecoveredKeeps ==
    ASSUME JobInv, NEW s \in Starter, CheckRecovered(s)
    PROVE  JobInv'
<1> DEFINE k == KeyOf[s]
<1>1. JobTypes /\ k \in Key /\ s \in Thread
  BY ThreadFacts DEF JobInv
<1>2. /\ UNCHANGED <<jobJournalVars, want, seen, permit, jobVars, latched, restarts, historyVars>>
      /\ pc[s] \in Early
  BY DEF CheckRecovered, Goto, Return, Early
<1>3. PICK p \in {"preflight", "done"} : /\ pc' = [pc EXCEPT ![s] = p]
                                         /\ p = "preflight" => ~jobs[k].known
                                         /\ UNCHANGED jobRegistryVars \/ MarkRestartUncertain(k)
  BY DEF CheckRecovered, Goto, Return
<1>4. EntryKept(k) \/ EntryFenced(k)
  BY <1>1, <1>3, SameEntry, MarkFences
<1>5. StartOK(s)'
  <2>1. pc'[s] = p /\ jobs' = jobs
    BY <1>1, <1>2, <1>3 DEF JobTypes, jobJournalVars
  <2>2. CASE p = "done"
    BY <2>1, <2>2, RestOKNext
  <2>3. CASE p = "preflight"
    <3>1. ~Doomed(s)' /\ ~Published(s)' /\ pc'[s] \notin Accepting
      BY <2>1, <2>3 DEF Doomed, Published, Accepting
    <3> QED
      BY <1>3, <2>1, <2>3, <3>1 DEF StartOK, StartOwns, StartIsNew
  <2> QED
    BY <2>2, <2>3
<1>6. p \in Early \cup {"done"}
  BY DEF Early
<1>7. permit' \in [Starter -> BOOLEAN] /\ seen' \in [Starter -> {"Durable", "Unavailable", "MemoryOnly", None}]
  BY <1>1, <1>2 DEF JobTypes
<1> HIDE DEF k
<1> QED
  BY <1>2, <1>3, <1>4, <1>5, <1>6, <1>7, EarlyStep DEF k

\* A start that holds the shard and finds the store open knows whether the job
\* was ever started.
LEMMA UnknownNeverRan ==
    ASSUME JobInv, NEW s \in Starter, pc[s] \in {"preflight", "accept"}, store = "open"
    PROVE  spawned[KeyOf[s]] = 0 /\ ~StartLogged(KeyOf[s])
<1> DEFINE k == KeyOf[s]
<1>1. k \in Key /\ s \in StarterOf(k) /\ JobOK(k) /\ OneStart(k) /\ StartOK(s) /\ spawned[k] \in Nat
  BY ThreadFacts DEF JobInv, StarterOf, JobTypes
<1>2. ~jobs[k].known
  BY <1>1 DEF StartOK, StartIsNew
<1>3. \A u \in StarterOf(k) : pc[u] # "commit"
  BY <1>1 DEF OneStart, AtRest
<1>4. ~StartLogged(k)
  BY <1>1, <1>2, <1>3 DEF JobOK, StartKnown
<1>5. Configured
  BY DEF Configured
<1> QED
  BY <1>1, <1>4, <1>5 DEF JobOK, SpawnsCounted

LEMMA PreflightKeeps ==
    ASSUME JobInv, NEW s \in Starter, Preflight(s)
    PROVE  JobInv'
<1> DEFINE k == KeyOf[s]
<1>1. JobTypes /\ k \in Key /\ s \in Thread /\ StartOK(s)
  BY ThreadFacts DEF JobInv
<1>2. /\ UNCHANGED <<jobJournalVars, want, permit, jobVars, latched, restarts, historyVars>>
      /\ pc[s] = "preflight" /\ pc[s] \in Early
  BY DEF Preflight, Goto, Return, Early
<1>3. PICK p \in {"admit", "done"} : /\ pc' = [pc EXCEPT ![s] = p]
                                     /\ p = "admit" => Allow \/ Status = "Durable"
                                     /\ UNCHANGED jobRegistryVars \/ MarkRestartUncertain(k)
  BY DEF Preflight, Goto, Return
<1>4. EntryKept(k) \/ EntryFenced(k)
  BY <1>1, <1>3, SameEntry, MarkFences
<1>5. StartOK(s)'
  <2>1. pc'[s] = p /\ jobs' = jobs /\ spawned' = spawned
    BY <1>1, <1>2, <1>3 DEF JobTypes, jobJournalVars, historyVars
  <2>2. CASE p = "done"
    BY <2>1, <2>2, RestOKNext
  <2>3. CASE p = "admit"
    <3>1. ~Doomed(s)' /\ ~Published(s)' /\ pc'[s] \notin Accepting
      BY <2>1, <2>3 DEF Doomed, Published, Accepting
    <3>2. ~Allow => spawned[k] = 0
      BY <1>2, <1>3, <2>3, UnknownNeverRan DEF Status
    <3>3. ~jobs[k].known
      BY <1>1, <1>2 DEF StartOK, StartIsNew
    <3> QED
      BY <2>1, <2>3, <3>1, <3>2, <3>3 DEF StartOK, StartOwns, StartIsNew
  <2> QED
    BY <2>2, <2>3
<1>6. p \in Early \cup {"done"}
  BY DEF Early
<1>7. permit' \in [Starter -> BOOLEAN] /\ \A u \in Starter \ {s} : permit'[u] = permit[u]
  BY <1>1, <1>2 DEF JobTypes
<1>8. seen' \in [Starter -> {"Durable", "Unavailable", "MemoryOnly", None}]
  BY <1>1 DEF JobTypes, Preflight, Status
<1> HIDE DEF k
<1> QED
  BY <1>2, <1>3, <1>4, <1>5, <1>6, <1>7, <1>8, EarlyStep DEF k

LEMMA AdmitKeeps ==
    ASSUME JobInv, NEW s \in Starter, Admit(s)
    PROVE  JobInv'
<1> DEFINE k == KeyOf[s]
<1>1. JobTypes /\ k \in Key /\ s \in Thread /\ StartOK(s)
  BY ThreadFacts DEF JobInv
<1>2. /\ UNCHANGED <<jobRegistryVars, jobJournalVars, want, seen, jobVars, latched, restarts, historyVars>>
      /\ pc[s] = "admit" /\ pc[s] \in Early
      /\ permit' = permit \/ permit' = [permit EXCEPT ![s] = TRUE]
  BY DEF Admit, Goto, Return, Early
<1>3. PICK p \in {"begin", "done"} :
        /\ pc' = [pc EXCEPT ![s] = p]
        /\ p = "begin" => Present(k) \/ permit' = [permit EXCEPT ![s] = TRUE]
  BY DEF Admit, Goto, Return
<1>4. EntryKept(k)
  BY <1>1, <1>2, SameEntry
<1>5. StartOK(s)'
  <2>1. pc'[s] = p /\ jobs' = jobs /\ spawned' = spawned /\ entry' = entry
    BY <1>1, <1>2, <1>3 DEF JobTypes, jobJournalVars, historyVars, jobRegistryVars
  <2>2. CASE p = "done"
    BY <2>1, <2>2, RestOKNext
  <2>3. CASE p = "begin"
    <3>1. ~Doomed(s)' /\ ~Published(s)' /\ pc'[s] \notin Accepting
      BY <2>1, <2>3 DEF Doomed, Published, Accepting
    <3>2. ~jobs[k].known /\ (~Allow => spawned[k] = 0)
      BY <1>1, <1>2 DEF StartOK, StartIsNew
    <3>3. permit'[s] \/ Present(k)
      BY <1>1, <1>3, <2>3 DEF JobTypes
    <3> QED
      BY <2>1, <2>3, <3>1, <3>2, <3>3 DEF StartOK, StartOwns, StartIsNew, Present
  <2> QED
    BY <2>2, <2>3
<1>6. p \in Early \cup {"done"}
  BY DEF Early
<1>7. permit' \in [Starter -> BOOLEAN] /\ \A u \in Starter \ {s} : permit'[u] = permit[u]
  BY <1>1, <1>2 DEF JobTypes
<1>8. seen' \in [Starter -> {"Durable", "Unavailable", "MemoryOnly", None}]
  BY <1>1, <1>2 DEF JobTypes
<1> HIDE DEF k
<1> QED
  BY <1>2, <1>3, <1>4, <1>5, <1>6, <1>7, <1>8, EarlyStep DEF k

(***************************************************************************)
(* start, once it owns an entry                                            *)
(***************************************************************************)

\* What a step may do to the journal, the running map and the counters when
\* it is about job k.
JournalGoes(k) ==
    /\ store' = store \/ (store # "none" /\ store' = "lost")
    /\ ops' \in [Key -> [Operation -> OperationState]]
    /\ jobs' \in [Key -> JobState]
    /\ disk' \in [Key -> Seq(Record)]
    /\ \A j \in Key \ {k} : ops'[j] = ops[j] /\ jobs'[j] = jobs[j] /\ disk'[j] = disk[j]

LiveGoes(k) ==
    /\ running' \in SUBSET Key
    /\ gate' \in [Key -> {"pending", "ready", "failed", "terminal", None}]
    /\ dispatcher' \in [Key -> DispatcherPoint]
    /\ process' \in [Key -> {"none", "live", "dying", "exited"}]
    /\ \A j \in Key \ {k} : /\ dispatcher'[j] = dispatcher[j] /\ process'[j] = process[j]
                            /\ j \in running' <=> j \in running

CountsGo(k) ==
    /\ spawned' \in [Key -> Nat]
    /\ applied' \in [Key -> [Operation -> Nat]]
    /\ \A j \in Key \ {k} : spawned'[j] = spawned[j] /\ applied'[j] = applied[j]
    /\ restarts' = restarts

LEMMA SameGoes ==
    ASSUME JobTypes, NEW k
    PROVE  /\ UNCHANGED jobJournalVars => JournalGoes(k)
           /\ UNCHANGED jobVars => LiveGoes(k)
           /\ UNCHANGED <<restarts, historyVars>> => CountsGo(k)
<1>1. UNCHANGED jobJournalVars => JournalGoes(k)
  BY DEF JobTypes, jobJournalVars, JournalGoes
<1>2. UNCHANGED jobVars => LiveGoes(k)
  BY DEF JobTypes, jobVars, LiveGoes
<1>3. UNCHANGED <<restarts, historyVars>> => CountsGo(k)
  BY DEF JobTypes, historyVars, CountsGo
<1> QED
  BY <1>1, <1>2, <1>3

\* A step of the start s about its job.
StartGoes(s) ==
    /\ \E p \in StarterPoint : pc' = [pc EXCEPT ![s] = p]
    /\ \E d \in Dispatch : EntryGoes(KeyOf[s], d)
    /\ JournalGoes(KeyOf[s])
    /\ LiveGoes(KeyOf[s])
    /\ CountsGo(KeyOf[s])
    /\ want' \in [Thread -> Outcome \cup {None}] /\ \A u \in Thread \ {s} : want'[u] = want[u]
    /\ permit' \in [Starter -> BOOLEAN] /\ \A u \in Starter \ {s} : permit'[u] = permit[u]
    /\ seen' = seen /\ latched' \in BOOLEAN

LEMMA StartFrame ==
    ASSUME JobTypes, NEW s \in Starter, StartGoes(s)
    PROVE  /\ JobTypes' /\ ThreadStep(s, KeyOf[s])
           /\ s \in StarterOf(KeyOf[s]) /\ KeyOf[s] \in Key
           /\ \A u \in Thread \ {s} : pc'[u] = pc[u]
<1> DEFINE k == KeyOf[s]
<1>0. k \in Key /\ s \in Thread /\ s \in StarterOf(k)
  BY ThreadFacts DEF StarterOf
<1>1. /\ pc' \in [Thread -> StarterPoint \cup ControllerPoint]
      /\ \A u \in Starter : pc'[u] \in StarterPoint
      /\ \A c \in Controller : pc'[c] \in ControllerPoint
      /\ \A u \in Thread \ {s} : pc'[u] = pc[u]
  BY StarterMoves DEF StartGoes
<1>2. EntryGoes(k, entry'[k].dispatch) /\ JournalGoes(k) /\ LiveGoes(k) /\ CountsGo(k)
  BY DEF StartGoes, EntryGoes
<1> HIDE DEF k
<1>3. JobTypes'
  BY <1>1, <1>2 DEF JobTypes, EntryGoes, JournalGoes, LiveGoes, CountsGo, StartGoes
<1>4. StoreStep
  BY <1>2 DEF StoreStep, JournalGoes, CountsGo
<1>5. ASSUME NEW j \in Key \ {k} PROVE Same(j)
  <2>1. \A t \in Thread : KeyOf[t] = j => pc'[t] = pc[t] /\ want'[t] = want[t]
    BY <1>1 DEF StartGoes, k
  <2>2. \A u \in Starter : KeyOf[u] = j => permit'[u] = permit[u]
    BY DEF StartGoes, k
  <2> QED
    BY <1>2, <2>1, <2>2 DEF Same, EntryGoes, JournalGoes, LiveGoes, CountsGo
<1>6. ThreadStep(s, k)
  BY <1>1, <1>4, <1>5 DEF ThreadStep, OnlyJob, StartGoes
<1> QED
  BY <1>0, <1>1, <1>3, <1>6 DEF k

LEMMA PermitDropped ==
    ASSUME JobTypes, NEW s \in Starter, permit' = permit \/ permit' = [permit EXCEPT ![s] = FALSE]
    PROVE  permit' \in [Starter -> BOOLEAN] /\ \A u \in Starter \ {s} : permit'[u] = permit[u]
  BY DEF JobTypes

LEMMA WantSet ==
    ASSUME JobTypes, NEW t \in Thread,
           want' = want \/ \E w \in Outcome \cup {None} : want' = [want EXCEPT ![t] = w]
    PROVE  want' \in [Thread -> Outcome \cup {None}] /\ \A u \in Thread \ {t} : want'[u] = want[u]
  BY DEF JobTypes

\* A start that gives up and leaves a fenced, an absent or a foreign entry.
LEMMA GivesUp ==
    ASSUME JobInv, NEW s \in Starter, NEW k, k = KeyOf[s], pc[s] \notin AtRest,
           pc' = [pc EXCEPT ![s] = "done"],
           EntryFenced(k) \/ (EntryGoes(k, "absent") /\ entry[k].dispatch = "accepted"),
           permit' = permit \/ permit' = [permit EXCEPT ![s] = FALSE],
           JournalGoes(k), latched' \in BOOLEAN,
           store' = "open" /\ StartLogged(k)' => jobs'[k].known,
           jobs[k].known => jobs'[k].known, StartLogged(k) => StartLogged(k)',
           pc[s] = "publish" => process[k] # "live",
           UNCHANGED <<want, seen, jobVars, restarts, historyVars>>
    PROVE  JobInv'
<1>1. JobTypes /\ k \in Key /\ s \in Thread /\ JobOK(k) /\ OneStart(k) /\ s \in StarterOf(k)
  BY ThreadFacts DEF JobInv, StarterOf
<1>2. PICK d \in Dispatch : /\ EntryGoes(k, d)
                            /\ \/ d = "absent" /\ entry[k].dispatch = "accepted"
                               \/ d = entry[k].dispatch /\ EntryFenced(k)
  BY <1>1, EntryFacts DEF EntryFenced, Dispatch
<1>3. /\ JobTypes' /\ ThreadStep(s, k) /\ pc'[s] = "done" /\ entry'[k].dispatch = d
      /\ \A u \in Thread \ {s} : pc'[u] = pc[u]
  <2>1. LiveGoes(k) /\ CountsGo(k)
    BY <1>1, SameGoes
  <2>2. /\ want' \in [Thread -> Outcome \cup {None}] /\ \A u \in Thread \ {s} : want'[u] = want[u]
        /\ permit' \in [Starter -> BOOLEAN] /\ \A u \in Starter \ {s} : permit'[u] = permit[u]
    BY <1>1, PermitDropped, WantSet
  <2>3. "done" \in StarterPoint
    BY DEF StarterPoint
  <2>4. StartGoes(s)
    BY <1>2, <2>1, <2>2, <2>3 DEF StartGoes
  <2>5. pc'[s] = "done" /\ entry'[k].dispatch = d
    BY <1>1, <1>2 DEF JobTypes, EntryGoes
  <2> QED
    BY <1>1, <2>4, <2>5, StartFrame
<1>4. StartOK(s)'
  BY <1>3, RestOKNext
<1>5. UNCHANGED <<running, gate, dispatcher, process, spawned, applied, restarts>> /\ (Configured' <=> Configured)
  BY DEF jobVars, historyVars, JournalGoes, Configured
<1>6. \A u \in StarterOf(k) \ {s} : pc[u] \in AtRest
  BY <1>1 DEF OneStart
<1>7. JobOK(k)'
  <2>1. JobOwns(k)'
    BY <1>1, <1>2, <1>3, <1>5 DEF JobOK, JobOwns, EntryFenced
  <2>2. EntryOwned(k)'
    BY <1>1, <1>2, <1>3, <1>5 DEF JobOK, EntryOwned, EntryFenced, Dispatch
  <2>3. StartKnown(k)'
    BY <1>1, <1>2, <1>3, <1>5 DEF JobOK, StartKnown
  <2>4. SpawnsCounted(k)'
    BY <1>1, <1>2, <1>3, <1>5 DEF JobOK, SpawnsCounted
  <2>5. Reached(k)'
    BY <1>1, <1>5, <1>6 DEF JobOK, Reached, AtRest
  <2> QED
    BY <2>1, <2>2, <2>3, <2>4, <2>5 DEF JobOK
<1>8. entry[k].dispatch = "running" => d = "running"
  BY <1>1, <1>2
<1> QED
  BY <1>1, <1>3, <1>4, <1>5, <1>7, <1>8, StartStepKeeps

(***************************************************************************)
(* The journal's operations                                                *)
(***************************************************************************)
LEMMA LogGrows ==
    ASSUME JobTypes, NEW k \in Key, NEW rec \in Record, disk' = [disk EXCEPT ![k] = Append(@, rec)]
    PROVE  /\ disk' \in [Key -> Seq(Record)]
           /\ \A j \in Key \ {k} : disk'[j] = disk[j]
           /\ StartLogged(k)' <=> StartLogged(k) \/ rec.start \/ rec.record = "job.terminal"
<1>1. disk \in [Key -> Seq(Record)] /\ disk[k] \in Seq(Record)
  BY DEF JobTypes
<1>2. disk'[k] = Append(disk[k], rec) /\ \A j \in Key \ {k} : disk'[j] = disk[j]
  BY <1>1
<1>3. Append(disk[k], rec) \in Seq(Record)
  BY <1>1
<1>4. disk' \in [Key -> Seq(Record)]
  BY <1>1, <1>3
<1> DEFINE d == disk[k]
           n == Len(d)
<1>5. /\ n \in Nat /\ DOMAIN d = 1..n /\ DOMAIN (disk'[k]) = 1..(n + 1)
      /\ disk'[k][n + 1] = rec /\ \A i \in 1..n : disk'[k][i] = d[i]
  BY <1>1, <1>2
<1>6. \A i : i \in 1..(n + 1) <=> i \in 1..n \/ i = n + 1
  BY <1>5
<1> HIDE DEF n, d
<1>7. StartLogged(k) <=> \E i \in 1..n : d[i].start \/ d[i].record = "job.terminal"
  BY <1>5 DEF StartLogged, d
<1>8. StartLogged(k)' <=> \E i \in 1..(n + 1) : disk'[k][i].start \/ disk'[k][i].record = "job.terminal"
  BY <1>5 DEF StartLogged
<1>9. StartLogged(k)' <=> StartLogged(k) \/ rec.start \/ rec.record = "job.terminal"
  BY <1>5, <1>6, <1>7, <1>8
<1> QED
  BY <1>2, <1>4, <1>9

LEMMA RecordFacts ==
    ASSUME NEW r \in Request, NEW o \in Operation, NEW c \in Content, NEW start \in BOOLEAN
    PROVE  /\ AcceptedRecord(r, o, c, start) \in Record
           /\ AcceptedRecord(r, o, c, start).start = start
           /\ AcceptedRecord(r, o, c, start).record = "operation.accepted"
           /\ \A w \in Outcome \cup {None} :
                 /\ TerminalRecord(r, o, c, start, w) \in Record
                 /\ TerminalRecord(r, o, c, start, w).start = start
                 /\ TerminalRecord(r, o, c, start, w).record = "operation.terminal"
           /\ JobTerminalRecord(r) \in Record
           /\ JobTerminalRecord(r).record = "job.terminal"
<1>1. AcceptedRecord(r, o, c, start) \in Record
  BY DEF AcceptedRecord, Record
<1>2. \A w \in Outcome \cup {None} : TerminalRecord(r, o, c, start, w) \in Record
  BY DEF TerminalRecord, Record
<1>3. JobTerminalRecord(r) \in Record
  BY DEF JobTerminalRecord, Record
<1> QED
  BY <1>1, <1>2, <1>3 DEF AcceptedRecord, TerminalRecord, JobTerminalRecord

LEMMA AppendGoes ==
    ASSUME JobTypes, NEW k \in Key, NEW rec \in Record,
           \/ AppendSucceeds(k, rec)
           \/ AppendFails(k, rec) /\ UNCHANGED <<ops, jobs>> /\ store = "open"
    PROVE  /\ JournalGoes(k) /\ jobs' = jobs /\ ops' = ops
           /\ StartLogged(k) => StartLogged(k)'
           /\ StartLogged(k)' => StartLogged(k) \/ rec.start \/ rec.record = "job.terminal"
<1>1. CASE disk' = [disk EXCEPT ![k] = Append(@, rec)]
  BY <1>1, LogGrows DEF JournalGoes, AppendSucceeds, AppendFails, JobTypes
<1>2. CASE disk' = disk
  BY <1>2 DEF JournalGoes, AppendSucceeds, AppendFails, JobTypes, StartLogged
<1> QED
  BY <1>1, <1>2 DEF AppendSucceeds, AppendFails

LEMMA AppendedIsLogged ==
    ASSUME JobTypes, NEW k \in Key, NEW rec \in Record, AppendSucceeds(k, rec), rec.start
    PROVE  StartLogged(k)' /\ store' = store
  BY LogGrows DEF AppendSucceeds

LEMMA RememberGoes ==
    ASSUME JobTypes, NEW k \in Key, NEW r \in Request, NEW o \in Operation, NEW c \in Content,
           NEW start \in BOOLEAN, NEW pre \in BOOLEAN,
           Remember(k, r, o, c, start, pre), UNCHANGED <<store, disk>>
    PROVE  /\ JournalGoes(k) /\ store' = store /\ disk' = disk
           /\ jobs[k].known => jobs'[k].known
           /\ start => jobs'[k].known
           /\ ~start => jobs' = jobs
<1> DEFINE op == [known |-> TRUE, request |-> r, content |-> c, terminal |-> None, preexisting |-> pre]
           jb == [known |-> TRUE, request |-> r, startResult |-> None, terminal |-> FALSE]
<1>1. op \in OperationState /\ jb \in JobState /\ jb.known
  BY DEF OperationState, JobState
<1> HIDE DEF op, jb
<1>2. ops' = [ops EXCEPT ![k][o] = op] /\ jobs' = IF start THEN [jobs EXCEPT ![k] = jb] ELSE jobs
  BY DEF Remember, op, jb
<1>3. ops' \in [Key -> [Operation -> OperationState]] /\ \A j \in Key \ {k} : ops'[j] = ops[j]
  BY <1>1, <1>2 DEF JobTypes
<1>4. jobs' \in [Key -> JobState] /\ \A j \in Key \ {k} : jobs'[j] = jobs[j]
  BY <1>1, <1>2 DEF JobTypes
<1>5. start => jobs'[k] = jb
  BY <1>2 DEF JobTypes
<1> QED
  BY <1>1, <1>2, <1>3, <1>4, <1>5 DEF JournalGoes, JobTypes

LEMMA CommitGoes ==
    ASSUME JobTypes, NEW k \in Key, NEW o \in Operation, NEW start \in BOOLEAN, NEW w \in Outcome \cup {None},
           CommitTerminal(k, o, start, w)
    PROVE  JournalGoes(k) /\ store' = store /\ disk' = disk /\ (jobs[k].known <=> jobs'[k].known)
<1>1. ops' = [ops EXCEPT ![k][o].terminal = w]
  BY DEF CommitTerminal
<1>2. ops' \in [Key -> [Operation -> OperationState]] /\ \A j \in Key \ {k} : ops'[j] = ops[j]
  <2>1. ops[k][o] \in OperationState
    BY DEF JobTypes
  <2>2. [ops[k][o] EXCEPT !.terminal = w] \in OperationState
    BY <2>1 DEF OperationState
  <2>3. ops' = [ops EXCEPT ![k] = [ops[k] EXCEPT ![o] = [ops[k][o] EXCEPT !.terminal = w]]]
    BY <1>1
  <2> QED
    BY <2>2, <2>3 DEF JobTypes
<1>3. jobs[k] \in JobState /\ jobs \in [Key -> JobState]
  BY DEF JobTypes
<1>4. [jobs[k] EXCEPT !.startResult = w] \in JobState /\ [jobs[k] EXCEPT !.startResult = w].known = jobs[k].known
  BY <1>3 DEF JobState
<1>5. jobs' = jobs \/ jobs' = [jobs EXCEPT ![k] = [jobs[k] EXCEPT !.startResult = w]]
  BY DEF CommitTerminal
<1>6. /\ jobs' \in [Key -> JobState] /\ (\A j \in Key \ {k} : jobs'[j] = jobs[j])
      /\ jobs[k].known <=> jobs'[k].known
  BY <1>3, <1>4, <1>5
<1> QED
  BY <1>2, <1>6 DEF CommitTerminal, JournalGoes, JobTypes

LEMMA UncertainGoes ==
    ASSUME JobTypes, NEW k \in Key, NEW o \in Operation, MarkOperationUncertain(k, o)
    PROVE  ops' \in [Key -> [Operation -> OperationState]] /\ \A j \in Key \ {k} : ops'[j] = ops[j]
<1>1. ops[k][o] \in OperationState
  BY DEF JobTypes
<1>2. [ops[k][o] EXCEPT !.preexisting = TRUE] \in OperationState
  BY <1>1 DEF OperationState
<1>3. ops' = [ops EXCEPT ![k] = [ops[k] EXCEPT ![o] = [ops[k][o] EXCEPT !.preexisting = TRUE]]]
  BY DEF MarkOperationUncertain
<1> QED
  BY <1>2, <1>3 DEF JobTypes

(***************************************************************************)
(* start, its acceptance                                                   *)
(***************************************************************************)

\* The one start in flight: what it knows of its job.
LEMMA InFlight ==
    ASSUME JobInv, NEW s \in Starter
    PROVE  /\ JobTypes /\ KeyOf[s] \in Key /\ s \in Thread /\ s \in StarterOf(KeyOf[s])
           /\ RequestOf[s] \in Request /\ OperationOf[s] \in Operation /\ ContentOf[s] \in Content
           /\ StartOK(s) /\ JobOK(KeyOf[s]) /\ OneStart(KeyOf[s])
           /\ spawned[KeyOf[s]] \in Nat /\ restarts \in Nat
           /\ pc[s] \notin AtRest \cup {"commit"} =>
                 (store = "open" /\ StartLogged(KeyOf[s]) => jobs[KeyOf[s]].known)
           /\ pc[s] \notin AtRest => \A u \in StarterOf(KeyOf[s]) \ {s} : pc[u] \in AtRest
<1> DEFINE k == KeyOf[s]
<1>1. /\ JobTypes /\ k \in Key /\ s \in Thread /\ s \in StarterOf(k)
      /\ RequestOf[s] \in Request /\ OperationOf[s] \in Operation /\ ContentOf[s] \in Content
      /\ StartOK(s) /\ JobOK(k) /\ OneStart(k)
  BY ThreadFacts, ManagerAssumption DEF JobInv, StarterOf
<1>2. spawned[k] \in Nat /\ restarts \in Nat
  BY <1>1 DEF JobTypes
<1>3. pc[s] \notin AtRest => \A u \in StarterOf(k) \ {s} : pc[u] \in AtRest
  BY <1>1 DEF OneStart
<1>4. pc[s] \notin AtRest \cup {"commit"} => (store = "open" /\ StartLogged(k) => jobs[k].known)
  BY <1>1, <1>3 DEF JobOK, StartKnown, AtRest
<1> QED
  BY <1>1, <1>2, <1>3, <1>4

LEMMA BeginEntryKeeps ==
    ASSUME JobInv, NEW s \in Starter, BeginEntry(s)
    PROVE  JobInv'
<1> DEFINE k == KeyOf[s]
<1>1. /\ JobTypes /\ k \in Key /\ s \in Thread /\ s \in StarterOf(k) /\ RequestOf[s] \in Request
      /\ StartOK(s) /\ JobOK(k)
  BY InFlight
<1>2. /\ UNCHANGED <<jobJournalVars, want, seen, jobVars, latched, restarts, historyVars>>
      /\ pc[s] = "begin"
  BY DEF BeginEntry, Goto, Return, ReturnPermit
<1>3. CASE /\ pc' = [pc EXCEPT ![s] = "done"] /\ permit' = [permit EXCEPT ![s] = FALSE]
           /\ UNCHANGED jobRegistryVars \/ MarkRestartUncertain(k)
  <2>1. EntryKept(k) \/ EntryFenced(k)
    BY <1>1, <1>3, SameEntry, MarkFences
  <2>2. StartOK(s)'
    <3>1. pc'[s] = "done"
      BY <1>1, <1>3 DEF JobTypes
    <3> QED
      BY <3>1, RestOKNext
  <2>3. /\ permit' \in [Starter -> BOOLEAN] /\ \A u \in Starter \ {s} : permit'[u] = permit[u]
        /\ seen' \in [Starter -> {"Durable", "Unavailable", "MemoryOnly", None}]
    BY <1>1, <1>2, <1>3 DEF JobTypes
  <2>4. "begin" \in Early /\ "done" \in Early \cup {"done"}
    BY DEF Early
  <2> HIDE DEF k
  <2> QED
    BY <1>2, <1>3, <2>1, <2>2, <2>3, <2>4, EarlyStep DEF k
<1>4. CASE /\ ~Present(k) /\ Accept(k, RequestOf[s]) /\ UNCHANGED <<permit, result>>
           /\ \E p \in {"unavailable", "accept"} : pc' = [pc EXCEPT ![s] = p]
  <2>1. PICK p \in {"unavailable", "accept"} : pc' = [pc EXCEPT ![s] = p]
    BY <1>4
  <2>2. /\ EntryGoes(k, "accepted") /\ ~entry'[k].uncertain /\ entry'[k].request # None
        /\ entry[k].dispatch = "absent" /\ entry'[k].dispatch = "accepted"
    BY <1>1, <1>4, AcceptFacts DEF EntryGoes
  <2>3. StartGoes(s)
    <3>1. JournalGoes(k) /\ LiveGoes(k) /\ CountsGo(k)
      BY <1>1, <1>2, SameGoes
    <3>2. p \in StarterPoint /\ "accepted" \in Dispatch
      BY DEF StarterPoint, Dispatch
    <3> QED
      BY <1>1, <1>2, <1>4, <2>1, <2>2, <3>1, <3>2 DEF StartGoes, JobTypes
  <2>4. /\ JobTypes' /\ ThreadStep(s, k)
    BY <1>1, <2>3, StartFrame
  <2>5. /\ pc'[s] = p /\ (Configured' <=> Configured)
        /\ UNCHANGED <<store, jobs, disk, running, dispatcher, process, spawned, restarts, permit>>
    BY <1>1, <1>2, <1>4, <2>1 DEF JobTypes, jobJournalVars, jobVars, historyVars, Configured
  <2>6. permit[s] /\ ~jobs[k].known /\ (~Allow => spawned[k] = 0)
    BY <1>1, <1>2, <1>4 DEF StartOK, StartOwns, StartIsNew
  <2>7. dispatcher[k] = "none" /\ k \notin running
    BY <1>1, <2>2, <2>4 DEF JobOK, JobOwns, JobTypes, DispatcherPoint
  <2>8. ~Doomed(s)' /\ ~Published(s)' /\ pc'[s] \in Accepting
    BY <2>1, <2>5 DEF Doomed, Published, Accepting
  <2>9. StartOK(s)'
    BY <2>1, <2>2, <2>5, <2>6, <2>7, <2>8 DEF StartOK, StartOwns, StartIsNew
  <2>10. JobOK(k)'
    <3>1. JobOwns(k)'
      BY <2>2, <2>5, <2>7 DEF JobOwns
    <3>2. EntryOwned(k)'
      BY <1>1, <2>2, <2>8 DEF EntryOwned, StarterOf
    <3>3. StartKnown(k)'
      <4>1. store = "open" => ~StartLogged(k)
        BY <1>2, <2>6, InFlight DEF AtRest
      <4>2. StartLogged(k)' <=> StartLogged(k)
        BY <2>5 DEF StartLogged
      <4> QED
        BY <2>2, <2>5, <4>1, <4>2 DEF StartKnown
    <3>4. SpawnsCounted(k)'
      BY <1>1, <2>2, <2>5, <2>6 DEF JobOK, SpawnsCounted, StartLogged
    <3>5. Reached(k)'
      <4>1. \A u \in StarterOf(k) : pc[u] # "publish"
        BY <1>2, InFlight DEF AtRest
      <4> QED
        BY <1>1, <2>5, <2>7, <4>1 DEF JobOK, Reached, Ending
    <3> QED
      BY <3>1, <3>2, <3>3, <3>4, <3>5 DEF JobOK
  <2>11. pc[s] \notin AtRest
    BY <1>2 DEF AtRest
  <2> HIDE DEF k
  <2> QED
    BY <2>2, <2>4, <2>5, <2>9, <2>10, <2>11, StartStepKeeps DEF k
<1> QED
  BY <1>3, <1>4 DEF BeginEntry, Goto, Return, ReturnPermit

LEMMA FenceKeeps ==
    ASSUME JobInv, NEW s \in Starter, FenceUnavailable(s) \/ FenceStart(s) \/ RollbackStart(s)
    PROVE  JobInv'
<1> DEFINE k == KeyOf[s]
<1>1. JobTypes /\ k \in Key /\ s \in Thread /\ StartOK(s)
  BY InFlight
<1>2. /\ pc[s] \in {"unavailable", "fence", "rollback"}
      /\ pc' = [pc EXCEPT ![s] = "done"] /\ permit' = [permit EXCEPT ![s] = FALSE]
      /\ UNCHANGED <<jobJournalVars, want, seen, jobVars, latched, restarts, historyVars>>
      /\ \/ MarkRestartUncertain(k)
         \/ pc[s] = "rollback" /\ RollbackAccept(k, RequestOf[s])
  BY DEF FenceUnavailable, FenceStart, RollbackStart, ReturnPermit, Return, Goto
<1>3. EntryFenced(k) \/ (EntryGoes(k, "absent") /\ entry[k].dispatch = "accepted")
  <2>1. pc[s] = "rollback" => entry[k].dispatch = "accepted"
    BY <1>1 DEF StartOK, StartOwns, Accepting
  <2> QED
    BY <1>1, <1>2, <2>1, MarkFences, RollbackFacts
<1>4. JournalGoes(k) /\ latched' \in BOOLEAN
  BY <1>1, <1>2, SameGoes DEF JobTypes
<1>5. /\ store' = "open" /\ StartLogged(k)' => jobs'[k].known
      /\ jobs[k].known => jobs'[k].known
      /\ StartLogged(k) => StartLogged(k)'
  <2>1. UNCHANGED <<store, jobs, disk>>
    BY <1>2 DEF jobJournalVars
  <2>2. StartLogged(k)' <=> StartLogged(k)
    BY <2>1 DEF StartLogged
  <2>3. store = "open" /\ StartLogged(k) => jobs[k].known
    BY <1>2, InFlight DEF AtRest
  <2> QED
    BY <2>1, <2>2, <2>3
<1>6. pc[s] \notin AtRest /\ pc[s] # "publish"
  BY <1>2 DEF AtRest
<1> HIDE DEF k
<1> QED
  BY <1>2, <1>3, <1>4, <1>5, <1>6, GivesUp DEF k


\* A start in flight moves on.
LEMMA StartGoesKeeps ==
    ASSUME JobInv, NEW s \in Starter, pc[s] \notin AtRest, StartGoes(s),
           dispatcher'[KeyOf[s]] \in {dispatcher[KeyOf[s]], "run"},
           entry[KeyOf[s]].dispatch = "running" => entry'[KeyOf[s]].dispatch = "running",
           StartOK(s)', JobOK(KeyOf[s])'
    PROVE  JobInv'
<1> DEFINE k == KeyOf[s]
<1>1. JobTypes' /\ ThreadStep(s, k)
  BY InFlight, StartFrame
<1> HIDE DEF k
<1> QED
  BY <1>1, StartStepKeeps DEF k

\* It moves on and changes nothing but what the journal knows.
JournalOnly(s) ==
    LET k == KeyOf[s] IN
    /\ StartGoes(s)
    /\ UNCHANGED <<entry, running, dispatcher, process, spawned>>
    /\ pc'[s] # "publish"
    /\ jobs[k].known => jobs'[k].known
    /\ StartLogged(k) => StartLogged(k)'
    /\ store' = "open" /\ StartLogged(k)' => jobs'[k].known \/ pc'[s] = "commit"
    /\ pc[s] \in Accepting => pc'[s] \in Accepting \/ Doomed(s)'
    /\ pc[s] \in {"spawn"} \/ Doomed(s) => Doomed(s)'

LEMMA JournalOnlyKeeps ==
    ASSUME JobInv, NEW s \in Starter, pc[s] \notin AtRest \cup {"publish"}, JournalOnly(s), StartOK(s)'
    PROVE  JobInv'
<1> DEFINE k == KeyOf[s]
<1>1. /\ JobTypes /\ k \in Key /\ s \in Thread /\ s \in StarterOf(k) /\ StartOK(s) /\ JobOK(k)
      /\ \A u \in StarterOf(k) \ {s} : pc[u] \in AtRest
  BY InFlight
<1>2. StartGoes(s) /\ UNCHANGED <<entry, running, dispatcher, process, spawned>>
  BY DEF JournalOnly
<1>3. (Configured' <=> Configured) /\ restarts' = restarts
  BY <1>2 DEF StartGoes, JournalGoes, CountsGo, Configured
<1>4. \A u \in StarterOf(k) \ {s} : u \in Thread /\ pc'[u] = pc[u] /\ ~Doomed(u)
  BY <1>1, <1>2, StartFrame, ThreadFacts DEF Doomed, AtRest
<1> HIDE DEF k
<1>5. JobOwns(k)'
  BY <1>1, <1>2 DEF JobOK, JobOwns
<1>6. EntryOwned(k)'
  <2>1. /\ entry[k].dispatch = "accepted" /\ ~entry[k].uncertain => pc[s] \in Accepting \/ Doomed(s)
        /\ entry[k].dispatch = "claimed" /\ ~entry[k].uncertain => pc[s] = "spawn" \/ Doomed(s)
        /\ entry[k].dispatch = "running" /\ ~entry[k].uncertain => k \in running \/ Doomed(s)
    BY <1>1, <1>4 DEF JobOK, EntryOwned, AtRest, Accepting
  <2>2. /\ pc[s] \in Accepting => pc'[s] \in Accepting \/ Doomed(s)'
        /\ pc[s] \in {"spawn"} \/ Doomed(s) => Doomed(s)'
    BY DEF JournalOnly
  <2> QED
    BY <1>1, <1>2, <2>1, <2>2 DEF EntryOwned, StarterOf
<1>7. StartKnown(k)'
  <2>1. /\ jobs[k].known => jobs'[k].known
        /\ store' = "open" /\ StartLogged(k)' => jobs'[k].known \/ pc'[s] = "commit"
    BY DEF JournalOnly, k
  <2> QED
    BY <1>1, <1>2, <2>1 DEF JobOK, StartKnown, StarterOf
<1>8. SpawnsCounted(k)'
  <2>1. (jobs[k].known => jobs'[k].known) /\ (StartLogged(k) => StartLogged(k)')
    BY DEF JournalOnly, k
  <2> QED
    BY <1>1, <1>2, <1>3, <2>1 DEF JobOK, SpawnsCounted
<1>9. Reached(k)'
  BY <1>1, <1>2, <1>4 DEF JobOK, Reached, AtRest, JournalOnly
<1>10. JobOK(k)'
  BY <1>5, <1>6, <1>7, <1>8, <1>9 DEF JobOK
<1> QED
  BY <1>2, <1>10, StartGoesKeeps DEF k

LEMMA AcceptStartKeeps ==
    ASSUME JobInv, NEW s \in Starter, AcceptStart(s)
    PROVE  JobInv'
<1> DEFINE k == KeyOf[s]
           r == RequestOf[s]
           rec == StartRecord(s)
<1>1. /\ JobTypes /\ k \in Key /\ s \in Thread /\ s \in StarterOf(k) /\ StartOK(s) /\ JobOK(k)
      /\ r \in Request /\ OperationOf[s] \in Operation /\ ContentOf[s] \in Content
      /\ spawned[k] \in Nat /\ restarts \in Nat
  BY InFlight
<1>2. /\ pc[s] = "accept" /\ pc[s] \notin AtRest \cup {"publish"} /\ pc[s] \in Accepting
      /\ UNCHANGED <<want, seen, jobVars, restarts, historyVars>>
  BY DEF AcceptStart, ReturnPermit, Return, Goto, AtRest, Accepting
<1>3. /\ UNCHANGED <<running, dispatcher, process, spawned, restarts>> /\ LiveGoes(k) /\ CountsGo(k)
      /\ want' \in [Thread -> Outcome \cup {None}] /\ \A u \in Thread \ {s} : want'[u] = want[u]
  BY <1>1, <1>2, SameGoes, WantSet DEF jobVars, historyVars
<1>4. /\ permit[s] /\ dispatcher[k] = "none" /\ entry[k].dispatch = "accepted" /\ ~entry[k].uncertain
      /\ ~jobs[k].known
  BY <1>1, <1>2 DEF StartOK, StartOwns, StartIsNew
<1>5. rec \in Record /\ rec.start
  BY <1>1, RecordFacts DEF StartRecord
<1>6. ~Doomed(s)
  BY <1>2 DEF Doomed
<1> HIDE DEF k, r, rec
<1>7. CASE /\ StartAnswer(s) = "Append" /\ AppendSucceeds(k, rec) /\ pc' = [pc EXCEPT ![s] = "commit"]
           /\ UNCHANGED <<jobRegistryVars, permit, result, latched>>
  <2>1. store = "open" /\ Configured
    BY <1>7 DEF StartAnswer, BeginAnswer, Configured
  <2>2. spawned[k] = 0
    BY <1>2, <2>1, UnknownNeverRan DEF k
  <2>3. JournalGoes(k) /\ jobs' = jobs /\ StartLogged(k)' /\ store' = store
    BY <1>1, <1>5, <1>7, AppendGoes, AppendedIsLogged
  <2>4. /\ pc'[s] = "commit" /\ UNCHANGED <<entry, permit>> /\ EntryGoes(k, "accepted")
        /\ permit' \in [Starter -> BOOLEAN] /\ latched' \in BOOLEAN
    BY <1>1, <1>4, <1>7 DEF JobTypes, jobRegistryVars, EntryGoes
  <2>5. "commit" \in StarterPoint /\ "accepted" \in Dispatch /\ "commit" \in Accepting
    BY DEF StarterPoint, Dispatch, Accepting
  <2>6. StartGoes(s)
    BY <1>2, <1>3, <1>7, <2>3, <2>4, <2>5 DEF StartGoes, k
  <2>7. ~Doomed(s)' /\ ~Published(s)'
    BY <2>4 DEF Doomed, Published
  <2>8. JournalOnly(s)
    BY <1>2, <1>3, <1>6, <2>3, <2>4, <2>5, <2>6 DEF JournalOnly, k
  <2>9. StartOK(s)'
    <3>1. StartOwns(s)'
      BY <1>3, <1>4, <2>4, <2>7 DEF StartOwns, k
    <3>2. StartIsNew(s)'
      BY <1>3, <1>4, <2>1, <2>2, <2>3, <2>4, <2>7 DEF StartIsNew, k, Configured
    <3> QED
      BY <3>1, <3>2 DEF StartOK
  <2> QED
    BY <1>2, <2>8, <2>9, JournalOnlyKeeps
<1>8. CASE /\ StartAnswer(s) = "Append" /\ AppendFails(k, rec) /\ pc' = [pc EXCEPT ![s] = "rollback"]
           /\ latched' = TRUE /\ UNCHANGED <<jobRegistryVars, permit, result, ops, jobs>>
  <2>1. store = "open" /\ store' = "lost"
    BY <1>8 DEF StartAnswer, BeginAnswer, AppendFails
  <2>3. JournalGoes(k) /\ jobs' = jobs /\ (StartLogged(k) => StartLogged(k)')
    BY <1>1, <1>5, <1>8, <2>1, AppendGoes
  <2>4. /\ pc'[s] = "rollback" /\ UNCHANGED <<entry, permit>> /\ EntryGoes(k, "accepted")
        /\ permit' \in [Starter -> BOOLEAN] /\ latched' \in BOOLEAN
    BY <1>1, <1>4, <1>8 DEF JobTypes, jobRegistryVars, EntryGoes
  <2>5. "rollback" \in StarterPoint /\ "accepted" \in Dispatch /\ "rollback" \in Accepting
    BY DEF StarterPoint, Dispatch, Accepting
  <2>6. StartGoes(s)
    BY <1>2, <1>3, <1>8, <2>3, <2>4, <2>5 DEF StartGoes, k
  <2>7. ~Doomed(s)' /\ ~Published(s)'
    BY <2>4 DEF Doomed, Published
  <2>8. JournalOnly(s)
    BY <1>2, <1>3, <1>6, <2>1, <2>3, <2>4, <2>5, <2>6 DEF JournalOnly, k
  <2>9. StartOK(s)'
    <3>1. StartOwns(s)'
      BY <1>3, <1>4, <2>4, <2>7 DEF StartOwns, k
    <3>2. StartIsNew(s)'
      BY <1>3, <1>4, <2>3, <2>4, <2>7 DEF StartIsNew, k
    <3> QED
      BY <3>1, <3>2 DEF StartOK
  <2> QED
    BY <1>2, <2>8, <2>9, JournalOnlyKeeps
<1>9. CASE /\ StartAnswer(s) = "Unjournaled"
           /\ AcceptUnjournaled(k, r, OperationOf[s], ContentOf[s], TRUE) /\ UNCHANGED latched
           /\ \/ /\ Status = "Unavailable" /\ MarkRestartUncertain(k)
                 /\ pc' = [pc EXCEPT ![s] = "done"] /\ permit' = [permit EXCEPT ![s] = FALSE]
              \/ /\ Status # "Unavailable" /\ pc' = [pc EXCEPT ![s] = "claim"]
                 /\ UNCHANGED <<jobRegistryVars, permit, result>>
  <2>1. store # "open"
    BY <1>9 DEF StartAnswer, BeginAnswer
  <2>2. /\ JournalGoes(k) /\ store' = store /\ disk' = disk /\ jobs'[k].known /\ latched' \in BOOLEAN
        /\ StartLogged(k)' <=> StartLogged(k)
    <3>1. Remember(k, r, OperationOf[s], ContentOf[s], TRUE, FALSE) /\ UNCHANGED <<store, disk>>
      BY <1>9 DEF AcceptUnjournaled
    <3>2. JournalGoes(k) /\ store' = store /\ disk' = disk /\ jobs'[k].known
      BY <1>1, <3>1, RememberGoes
    <3> QED
      BY <1>1, <1>9, <3>2 DEF JobTypes, StartLogged
  <2>3. CASE /\ Status = "Unavailable" /\ MarkRestartUncertain(k)
             /\ pc' = [pc EXCEPT ![s] = "done"] /\ permit' = [permit EXCEPT ![s] = FALSE]
    <3>1. EntryFenced(k)
      BY <1>1, <2>3, MarkFences
    <3> QED
      BY <1>2, <2>1, <2>2, <2>3, <3>1, GivesUp DEF k
  <2>4. CASE /\ Status # "Unavailable" /\ pc' = [pc EXCEPT ![s] = "claim"]
             /\ UNCHANGED <<jobRegistryVars, permit, result>>
    <3>1. ~Configured /\ ~Configured'
      BY <2>1, <2>2, <2>4 DEF Status, Configured
    <3>2. spawned[k] <= restarts
      BY <1>1, <1>4, <3>1 DEF JobOK, SpawnsCounted
    <3>4. /\ pc'[s] = "claim" /\ UNCHANGED <<entry, permit>> /\ EntryGoes(k, "accepted")
          /\ permit' \in [Starter -> BOOLEAN]
      BY <1>1, <1>4, <2>4 DEF JobTypes, jobRegistryVars, EntryGoes
    <3>5. "claim" \in StarterPoint /\ "accepted" \in Dispatch /\ "claim" \in Accepting
      BY DEF StarterPoint, Dispatch, Accepting
    <3>6. StartGoes(s)
      BY <1>2, <1>3, <2>2, <2>4, <3>4, <3>5 DEF StartGoes, k
    <3>7. ~Doomed(s)' /\ ~Published(s)'
      BY <3>4 DEF Doomed, Published
    <3>8. JournalOnly(s)
      BY <1>2, <1>3, <1>6, <2>1, <2>2, <3>4, <3>5, <3>6 DEF JournalOnly, k
    <3>9. StartOK(s)'
      <4>1. StartOwns(s)'
        BY <1>3, <1>4, <3>4, <3>7 DEF StartOwns, k
      <4>2. StartIsNew(s)'
        BY <1>3, <1>4, <2>2, <3>1, <3>2, <3>4, <3>7 DEF StartIsNew, k
      <4> QED
        BY <4>1, <4>2 DEF StartOK
    <3> QED
      BY <1>2, <3>8, <3>9, JournalOnlyKeeps
  <2> QED
    BY <1>9, <2>3, <2>4
<1> QED
  BY <1>7, <1>8, <1>9 DEF AcceptStart, ReturnPermit, Return, Goto, k, r, rec

LEMMA CommitStartKeeps ==
    ASSUME JobInv, NEW s \in Starter, CommitStart(s)
    PROVE  JobInv'
<1> DEFINE k == KeyOf[s]
           r == RequestOf[s]
<1>1. /\ JobTypes /\ k \in Key /\ s \in Thread /\ s \in StarterOf(k) /\ StartOK(s) /\ JobOK(k)
      /\ r \in Request /\ OperationOf[s] \in Operation /\ ContentOf[s] \in Content
      /\ spawned[k] \in Nat /\ restarts \in Nat
  BY InFlight
<1>2. /\ pc[s] = "commit" /\ pc[s] \notin AtRest \cup {"publish"} /\ pc[s] \in Accepting
      /\ UNCHANGED <<want, seen, jobVars, latched, restarts, historyVars>>
      /\ CommitAccepted(k, r, OperationOf[s], ContentOf[s], TRUE)
  BY DEF CommitStart, ReturnPermit, Return, Goto, AtRest, Accepting
<1>3. /\ UNCHANGED <<running, dispatcher, process, spawned, restarts>> /\ LiveGoes(k) /\ CountsGo(k)
      /\ want' \in [Thread -> Outcome \cup {None}] /\ \A u \in Thread \ {s} : want'[u] = want[u]
      /\ latched' \in BOOLEAN
  BY <1>1, <1>2, SameGoes, WantSet DEF jobVars, historyVars, JobTypes
<1>4. /\ permit[s] /\ dispatcher[k] = "none" /\ entry[k].dispatch = "accepted" /\ ~entry[k].uncertain
      /\ Configured /\ StartLogged(k) /\ spawned[k] <= 0
  BY <1>1, <1>2 DEF StartOK, StartOwns, StartIsNew
<1>6. ~Doomed(s)
  BY <1>2 DEF Doomed
<1> HIDE DEF k, r
<1>7. /\ JournalGoes(k) /\ store' = store /\ disk' = disk /\ jobs'[k].known
      /\ StartLogged(k)' /\ Configured'
  <2>1. PICK pre \in BOOLEAN : Remember(k, r, OperationOf[s], ContentOf[s], TRUE, pre)
    BY <1>2 DEF CommitAccepted
  <2>2. UNCHANGED <<store, disk>>
    BY <1>2 DEF CommitAccepted
  <2>3. JournalGoes(k) /\ store' = store /\ disk' = disk /\ jobs'[k].known
    BY <1>1, <2>1, <2>2, RememberGoes
  <2> QED
    BY <1>4, <2>3 DEF StartLogged, Configured
<1>8. CASE /\ store = "open" /\ pc' = [pc EXCEPT ![s] = "claim"]
           /\ UNCHANGED <<jobRegistryVars, permit, result>>
  <2>4. /\ pc'[s] = "claim" /\ UNCHANGED <<entry, permit>> /\ EntryGoes(k, "accepted")
        /\ permit' \in [Starter -> BOOLEAN]
    BY <1>1, <1>4, <1>8 DEF JobTypes, jobRegistryVars, EntryGoes
  <2>5. "claim" \in StarterPoint /\ "accepted" \in Dispatch /\ "claim" \in Accepting
    BY DEF StarterPoint, Dispatch, Accepting
  <2>6. StartGoes(s)
    BY <1>2, <1>3, <1>7, <1>8, <2>4, <2>5 DEF StartGoes, k
  <2>7. ~Doomed(s)' /\ ~Published(s)'
    BY <2>4 DEF Doomed, Published
  <2>8. JournalOnly(s)
    BY <1>2, <1>3, <1>6, <1>7, <2>4, <2>5, <2>6 DEF JournalOnly, k
  <2>9. StartOK(s)'
    <3>1. StartOwns(s)'
      BY <1>3, <1>4, <2>4, <2>7 DEF StartOwns, k
    <3>2. StartIsNew(s)'
      BY <1>3, <1>4, <1>7, <2>4, <2>7 DEF StartIsNew, k
    <3> QED
      BY <3>1, <3>2 DEF StartOK
  <2> QED
    BY <1>2, <2>8, <2>9, JournalOnlyKeeps
<1>9. CASE /\ MarkRestartUncertain(k)
           /\ pc' = [pc EXCEPT ![s] = "done"] /\ permit' = [permit EXCEPT ![s] = FALSE]
  <2>1. EntryFenced(k)
    BY <1>1, <1>9, MarkFences
  <2> QED
    BY <1>2, <1>3, <1>7, <1>9, <2>1, GivesUp DEF k
<1> QED
  BY <1>8, <1>9 DEF CommitStart, ReturnPermit, Return, Goto, k

(***************************************************************************)
(* start, from the claim on                                                *)
(***************************************************************************)

\* A start whose spawn is given up goes on to report it.
LEMMA ClaimKeeps ==
    ASSUME JobInv, NEW s \in Starter, Claim(s)
    PROVE  JobInv'
<1> DEFINE k == KeyOf[s]
<1>1. /\ JobTypes /\ k \in Key /\ s \in Thread /\ s \in StarterOf(k) /\ StartOK(s) /\ JobOK(k)
      /\ spawned[k] \in Nat /\ restarts \in Nat
      /\ store = "open" /\ StartLogged(k) => jobs[k].known
  <2>1. pc[s] = "claim"
    BY DEF Claim, Goto
  <2> QED
    BY <2>1, InFlight DEF AtRest
<1>2. /\ pc[s] = "claim" /\ pc[s] \notin AtRest \cup {"publish"}
      /\ UNCHANGED <<jobJournalVars, seen, permit, result, jobVars, latched, restarts, historyVars>>
  BY DEF Claim, Goto, AtRest
<1>3. /\ UNCHANGED <<store, jobs, disk, running, dispatcher, process, spawned, restarts, permit>>
      /\ JournalGoes(k) /\ LiveGoes(k) /\ CountsGo(k)
      /\ latched' \in BOOLEAN /\ permit' \in [Starter -> BOOLEAN] /\ (Configured' <=> Configured)
      /\ StartLogged(k)' <=> StartLogged(k)
  BY <1>1, <1>2, SameGoes DEF jobVars, historyVars, jobJournalVars, JobTypes, Configured, StartLogged
<1>4. /\ permit[s] /\ dispatcher[k] = "none" /\ entry[k].dispatch = "accepted" /\ ~entry[k].uncertain
      /\ jobs[k].known /\ (Configured => StartLogged(k))
      /\ spawned[k] <= IF Configured THEN 0 ELSE restarts
  BY <1>1, <1>2 DEF StartOK, StartOwns, StartIsNew, Accepting
<1> HIDE DEF k
<1>5. CASE ClaimSpawn(k) /\ pc' = [pc EXCEPT ![s] = "spawn"] /\ UNCHANGED want
  <2>1. /\ EntryGoes(k, "claimed") /\ entry'[k].request = entry[k].request /\ ~entry'[k].uncertain
        /\ entry'[k].dispatch = "claimed"
    BY <1>1, <1>5, ClaimFacts DEF EntryGoes
  <2>2. "spawn" \in StarterPoint /\ "claimed" \in Dispatch /\ pc'[s] = "spawn"
    BY <1>1, <1>5 DEF StarterPoint, Dispatch, JobTypes
  <2>3. want' \in [Thread -> Outcome \cup {None}] /\ \A u \in Thread \ {s} : want'[u] = want[u]
    BY <1>1, <1>5, WantSet
  <2>4. StartGoes(s)
    BY <1>2, <1>3, <1>5, <2>1, <2>2, <2>3 DEF StartGoes, k
  <2>5. ~Doomed(s)' /\ ~Published(s)'
    BY <2>2 DEF Doomed, Published
  <2>6. StartOK(s)'
    <3>1. StartOwns(s)'
      BY <1>3, <1>4, <2>1, <2>2, <2>5 DEF StartOwns, k, Accepting
    <3>2. StartIsNew(s)'
      BY <1>3, <1>4, <2>2, <2>5 DEF StartIsNew, k
    <3> QED
      BY <3>1, <3>2 DEF StartOK
  <2>7. JobOK(k)'
    <3>0. k \notin running
      BY <1>1, <1>4 DEF JobOK, JobOwns
    <3>1. JobOwns(k)'
      BY <1>1, <1>3, <1>4, <2>1, <3>0 DEF JobOK, JobOwns
    <3>2. EntryOwned(k)'
      BY <1>1, <2>1, <2>2 DEF EntryOwned, StarterOf
    <3>3. StartKnown(k)'
      BY <1>3, <1>4 DEF StartKnown
    <3>4. SpawnsCounted(k)'
      BY <1>1, <1>3, <1>4, <2>1 DEF JobOK, SpawnsCounted
    <3>5. Reached(k)'
      <4>1. \A u \in StarterOf(k) : pc[u] # "publish"
        BY <1>2, InFlight DEF AtRest, k
      <4> QED
        BY <1>1, <1>3, <1>4, <3>0, <4>1 DEF JobOK, Reached, Ending
    <3> QED
      BY <3>1, <3>2, <3>3, <3>4, <3>5 DEF JobOK
  <2> QED
    BY <1>2, <1>3, <1>4, <2>4, <2>6, <2>7, StartGoesKeeps DEF k
<1>6. CASE /\ pc' = [pc EXCEPT ![s] = "finish"] /\ want' = [want EXCEPT ![s] = "spawn_failed"]
           /\ UNCHANGED jobRegistryVars
  <2>1. /\ pc'[s] = "finish" /\ want'[s] = "spawn_failed" /\ UNCHANGED entry /\ EntryGoes(k, "accepted")
    BY <1>1, <1>4, <1>6 DEF JobTypes, jobRegistryVars, EntryGoes
  <2>2. "finish" \in StarterPoint /\ "accepted" \in Dispatch /\ "spawn_failed" \in Outcome \cup {None}
    BY DEF StarterPoint, Dispatch, Outcome
  <2>3. want' \in [Thread -> Outcome \cup {None}] /\ \A u \in Thread \ {s} : want'[u] = want[u]
    BY <1>1, <1>6, <2>2, WantSet
  <2>4. StartGoes(s)
    BY <1>2, <1>3, <1>6, <2>1, <2>2, <2>3 DEF StartGoes, k
  <2>5. Doomed(s)' /\ ~Published(s)'
    BY <2>1 DEF Doomed, Published
  <2>6. StartOK(s)'
    <3>1. StartOwns(s)'
      BY <1>3, <1>4, <2>1, <2>5 DEF StartOwns, k, Accepting
    <3>2. StartIsNew(s)'
      BY <1>3, <1>4, <2>1, <2>5 DEF StartIsNew, k
    <3> QED
      BY <3>1, <3>2 DEF StartOK
  <2>7. JournalOnly(s)
    BY <1>1, <1>3, <2>1, <2>4, <2>5 DEF JournalOnly, k
  <2> QED
    BY <1>2, <2>6, <2>7, JournalOnlyKeeps
<1> QED
  BY <1>5, <1>6 DEF Claim, Goto, k

LEMMA SpawnKeeps ==
    ASSUME JobInv, NEW s \in Starter, Spawn(s)
    PROVE  JobInv'
<1> DEFINE k == KeyOf[s]
<1>1. /\ JobTypes /\ k \in Key /\ s \in Thread /\ s \in StarterOf(k) /\ StartOK(s) /\ JobOK(k)
      /\ spawned[k] \in Nat /\ restarts \in Nat
      /\ store = "open" /\ StartLogged(k) => jobs[k].known
      /\ pc[s] = "spawn" /\ pc[s] \notin AtRest \cup {"publish"} 
      /\ UNCHANGED <<jobRegistryVars, jobJournalVars, seen, permit, result, running, gate, dispatcher,
                     latched, restarts, applied>>
  <2>1. pc[s] = "spawn" /\ pc[s] \notin AtRest \cup {"publish", "commit"}
    BY DEF Spawn, Goto, AtRest
  <2> QED
    BY <2>1, InFlight DEF Spawn
<1>2. /\ UNCHANGED <<entry, store, jobs, disk, running, dispatcher, restarts, permit>>
      /\ JournalGoes(k) /\ latched' \in BOOLEAN /\ permit' \in [Starter -> BOOLEAN]
      /\ Configured' <=> Configured
      /\ StartLogged(k)' <=> StartLogged(k)
  BY <1>1, SameGoes DEF jobRegistryVars, jobJournalVars, JobTypes, Configured, StartLogged
<1>3. /\ permit[s] /\ dispatcher[k] = "none" /\ entry[k].dispatch = "claimed" /\ ~entry[k].uncertain
      /\ jobs[k].known /\ (Configured => StartLogged(k))
      /\ spawned[k] <= IF Configured THEN 0 ELSE restarts
  BY <1>1 DEF StartOK, StartOwns, StartIsNew, Accepting
<1>4. EntryGoes(k, "claimed") /\ "claimed" \in Dispatch
  BY <1>1, <1>3 DEF JobTypes, jobRegistryVars, EntryGoes, Dispatch
<1>5. k \notin running
  BY <1>1, <1>3 DEF JobOK, JobOwns
<1> HIDE DEF k
<1>6. ASSUME NEW x \in {"live", "dying"}, process' = [process EXCEPT ![k] = x],
             spawned' = [spawned EXCEPT ![k] = @ + 1],
             NEW p \in StarterPoint, pc' = [pc EXCEPT ![s] = p],
             \/ x = "live" /\ p = "publish" /\ UNCHANGED want
             \/ x = "dying" /\ p = "finish" /\ want' = [want EXCEPT ![s] = "internal_failure"]
      PROVE  JobInv'
  <2>1. /\ process'[k] = x /\ process' \in [Key -> {"none", "live", "dying", "exited"}]
        /\ \A j \in Key \ {k} : process'[j] = process[j]
    BY <1>1, <1>6 DEF JobTypes
  <2>2. /\ spawned'[k] = spawned[k] + 1 /\ spawned' \in [Key -> Nat]
        /\ \A j \in Key \ {k} : spawned'[j] = spawned[j]
    BY <1>1, <1>6 DEF JobTypes
  <2>3. LiveGoes(k) /\ CountsGo(k)
    BY <1>1, <2>1, <2>2 DEF LiveGoes, CountsGo, JobTypes
  <2>4. want' \in [Thread -> Outcome \cup {None}] /\ \A u \in Thread \ {s} : want'[u] = want[u]
    <3>1. "internal_failure" \in Outcome \cup {None}
      BY DEF Outcome
    <3> QED
      BY <1>1, <1>6, <3>1, WantSet
  <2>5. pc'[s] = p
    BY <1>1, <1>6 DEF JobTypes
  <2>6. StartGoes(s)
    BY <1>1, <1>2, <1>4, <1>6, <2>3, <2>4 DEF StartGoes, k
  <2>7. ~Published(s)' /\ (p = "publish" => ~Doomed(s)') /\ (p = "finish" => Doomed(s)')
    BY <1>1, <1>6, <2>5 DEF Doomed, Published, JobTypes
  <2>8. StartOK(s)'
    <3>1. StartOwns(s)'
      BY <1>2, <1>3, <1>6, <2>5, <2>7 DEF StartOwns, k, Accepting
    <3>2. StartIsNew(s)'
      BY <1>2, <1>3, <1>6, <2>5, <2>7 DEF StartIsNew, k
    <3> QED
      BY <3>1, <3>2 DEF StartOK
  <2>9. JobOK(k)'
    <3>1. JobOwns(k)'
      BY <1>1, <1>2, <1>3, <1>5 DEF JobOK, JobOwns
    <3>2. EntryOwned(k)'
      BY <1>1, <1>2, <1>3, <1>6, <2>5, <2>7 DEF EntryOwned, StarterOf
    <3>3. StartKnown(k)'
      BY <1>2, <1>3 DEF StartKnown
    <3>4. SpawnsCounted(k)'
      <4>1. Configured => spawned'[k] <= 1
        BY <1>1, <1>3, <2>2
      <4>2. ~Configured => spawned'[k] <= restarts + 1
        BY <1>1, <1>3, <2>2
      <4> QED
        BY <1>2, <1>3, <4>1, <4>2 DEF SpawnsCounted
    <3>5. Reached(k)'
      BY <1>1, <1>2, <1>3, <1>6, <2>1, <2>5 DEF Reached, Ending, StarterOf
    <3> QED
      BY <3>1, <3>2, <3>3, <3>4, <3>5 DEF JobOK
  <2> QED
    BY <1>1, <1>2, <2>6, <2>8, <2>9, StartGoesKeeps DEF k
<1>7. CASE /\ pc' = [pc EXCEPT ![s] = "finish"] /\ want' = [want EXCEPT ![s] = "spawn_failed"]
           /\ UNCHANGED <<process, spawned>>
  <2>1. /\ pc'[s] = "finish" /\ want'[s] = "spawn_failed"
    BY <1>1, <1>7 DEF JobTypes
  <2>2. "finish" \in StarterPoint /\ "spawn_failed" \in Outcome \cup {None}
    BY DEF StarterPoint, Outcome
  <2>3. want' \in [Thread -> Outcome \cup {None}] /\ \A u \in Thread \ {s} : want'[u] = want[u]
    BY <1>1, <1>7, <2>2, WantSet
  <2>4. LiveGoes(k) /\ CountsGo(k)
    BY <1>1, <1>7 DEF LiveGoes, CountsGo, JobTypes
  <2>5. StartGoes(s)
    BY <1>1, <1>2, <1>4, <1>7, <2>2, <2>3, <2>4 DEF StartGoes, k
  <2>6. Doomed(s)' /\ ~Published(s)'
    BY <2>1 DEF Doomed, Published
  <2>7. StartOK(s)'
    <3>1. StartOwns(s)'
      BY <1>2, <1>3, <2>1, <2>6 DEF StartOwns, k, Accepting
    <3>2. StartIsNew(s)'
      BY <1>2, <1>3, <2>1, <2>6 DEF StartIsNew, k
    <3> QED
      BY <3>1, <3>2 DEF StartOK
  <2>8. JournalOnly(s)
    BY <1>1, <1>2, <1>7, <2>1, <2>5, <2>6 DEF JournalOnly, k
  <2> QED
    BY <1>1, <2>7, <2>8, JournalOnlyKeeps
<1>8. "publish" \in StarterPoint /\ "finish" \in StarterPoint
  BY DEF StarterPoint
<1> QED
  BY <1>6, <1>7, <1>8 DEF Spawn, Goto, k

LEMMA PublishKeeps ==
    ASSUME JobInv, NEW s \in Starter, Publish(s)
    PROVE  JobInv'
<1> DEFINE k == KeyOf[s]
<1>1. /\ JobTypes /\ k \in Key /\ s \in Thread /\ s \in StarterOf(k) /\ StartOK(s) /\ JobOK(k)
      /\ store = "open" /\ StartLogged(k) => jobs[k].known
      /\ pc[s] = "publish" /\ pc[s] \notin AtRest /\ pc' = [pc EXCEPT ![s] = "observe"]
      /\ UNCHANGED <<jobJournalVars, want, seen, result, dispatcher, process, latched, restarts, historyVars>>
      /\ RecordStarted(k) /\ running' = running \cup {k} /\ gate' = [gate EXCEPT ![k] = "pending"]
      /\ permit' = [permit EXCEPT ![s] = FALSE]
  <2>1. pc[s] = "publish" /\ pc[s] \notin AtRest \cup {"commit"}
    BY DEF Publish, Goto, AtRest
  <2> QED
    BY <2>1, InFlight DEF Publish, Goto
<1>2. /\ UNCHANGED <<store, jobs, disk, dispatcher, process, spawned, restarts>>
      /\ JournalGoes(k) /\ CountsGo(k) /\ latched' \in BOOLEAN
      /\ Configured' <=> Configured
      /\ StartLogged(k)' <=> StartLogged(k)
  BY <1>1, SameGoes DEF historyVars, jobJournalVars, JobTypes, Configured, StartLogged
<1>3. dispatcher[k] = "none" /\ entry[k].dispatch = "claimed" /\ jobs[k].known
  BY <1>1 DEF StartOK, StartOwns, StartIsNew
<1>4. /\ EntryGoes(k, "running") /\ entry'[k].dispatch = "running"
      /\ entry'[k].request = entry[k].request /\ ~entry'[k].uncertain
      /\ "running" \in Dispatch
  BY <1>1, StartedFacts DEF EntryGoes, Dispatch
<1> HIDE DEF k
<1>5. LiveGoes(k)
  BY <1>1, <1>2 DEF LiveGoes, JobTypes
<1>6. /\ want' \in [Thread -> Outcome \cup {None}] /\ \A u \in Thread \ {s} : want'[u] = want[u]
      /\ permit' \in [Starter -> BOOLEAN] /\ \A u \in Starter \ {s} : permit'[u] = permit[u]
  BY <1>1, PermitDropped, WantSet
<1>7. pc'[s] = "observe" /\ "observe" \in StarterPoint /\ ~permit'[s] /\ k \in running'
  BY <1>1 DEF JobTypes, StarterPoint
<1>8. StartGoes(s)
  BY <1>1, <1>2, <1>4, <1>5, <1>6, <1>7 DEF StartGoes, k
<1>9. ~Doomed(s)' /\ Published(s)'
  BY <1>7 DEF Doomed, Published
<1>10. StartOK(s)'
  <2>1. StartOwns(s)'
    BY <1>2, <1>3, <1>4, <1>7, <1>9 DEF StartOwns, k, Accepting
  <2>2. StartIsNew(s)'
    BY <1>2, <1>3, <1>7, <1>9 DEF StartIsNew, k
  <2> QED
    BY <2>1, <2>2 DEF StartOK
<1>11. JobOK(k)'
  <2>1. JobOwns(k)'
    BY <1>1, <1>2, <1>3, <1>4 DEF JobOK, JobOwns
  <2>2. EntryOwned(k)'
    BY <1>4, <1>7 DEF EntryOwned
  <2>3. StartKnown(k)'
    BY <1>2, <1>3 DEF StartKnown
  <2>4. SpawnsCounted(k)'
    BY <1>1, <1>2, <1>3, <1>4 DEF JobOK, SpawnsCounted
  <2>5. Reached(k)'
    BY <1>2, <1>3, <1>7 DEF Reached, Ending
  <2> QED
    BY <2>1, <2>2, <2>3, <2>4, <2>5 DEF JobOK
<1> QED
  BY <1>1, <1>2, <1>3, <1>8, <1>10, <1>11, StartGoesKeeps DEF k

LEMMA ObservationGoes ==
    ASSUME JobTypes, NEW k, ObservationKept \/ ObservationLost, UNCHANGED <<ops, jobs, disk>>
    PROVE  /\ JournalGoes(k) /\ latched' \in BOOLEAN
           /\ store' = "open" => store = "open"
  BY DEF JobTypes, JournalGoes, ObservationKept, ObservationLost, Configured, StoreStep

LEMMA ObserveStartKeeps ==
    ASSUME JobInv, NEW s \in Starter, ObserveStart(s)
    PROVE  JobInv'
<1> DEFINE k == KeyOf[s]
<1>1. /\ JobTypes /\ k \in Key /\ s \in Thread /\ s \in StarterOf(k) /\ StartOK(s)
      /\ store = "open" /\ StartLogged(k) => jobs[k].known
      /\ pc[s] = "observe" /\ pc[s] \notin AtRest \cup {"publish", "spawn"} \cup Accepting
      /\ UNCHANGED <<jobRegistryVars, ops, jobs, disk, seen, permit, result, jobVars, restarts, historyVars>>
      /\ ObservationKept \/ ObservationLost
      /\ want' = [want EXCEPT ![s] = "started"]
  <2>1. pc[s] = "observe" /\ pc[s] \notin AtRest \cup {"publish", "spawn", "commit"} \cup Accepting
    BY DEF ObserveStart, Goto, AtRest, Accepting
  <2> QED
    BY <2>1, InFlight DEF ObserveStart
<1>2. PICK p \in {"finish", "abort"} : pc' = [pc EXCEPT ![s] = p]
  BY DEF ObserveStart, Goto
<1>3. /\ UNCHANGED <<entry, jobs, disk, running, dispatcher, process, spawned, restarts, permit>>
      /\ LiveGoes(k) /\ CountsGo(k) /\ permit' \in [Starter -> BOOLEAN]
      /\ StartLogged(k)' <=> StartLogged(k)
  BY <1>1, SameGoes DEF jobRegistryVars, historyVars, jobVars, JobTypes, StartLogged
<1>4. JournalGoes(k) /\ latched' \in BOOLEAN /\ (store' = "open" => store = "open")
  BY <1>1, ObservationGoes
<1>5. /\ entry[k].dispatch = "running" /\ k \in running /\ dispatcher[k] = "none" /\ ~permit[s]
      /\ jobs[k].known /\ ~Doomed(s)
  BY <1>1 DEF StartOK, StartOwns, StartIsNew, Published, Doomed
<1>6. EntryGoes(k, "running") /\ "running" \in Dispatch
  BY <1>1, <1>5 DEF JobTypes, jobRegistryVars, EntryGoes, Dispatch
<1> HIDE DEF k
<1>7. want' \in [Thread -> Outcome \cup {None}] /\ \A u \in Thread \ {s} : want'[u] = want[u]
  <2>1. "started" \in Outcome \cup {None}
    BY DEF Outcome
  <2> QED
    BY <1>1, <2>1, WantSet
<1>8. pc'[s] = p /\ p \in StarterPoint /\ want'[s] = "started"
  BY <1>1, <1>2 DEF JobTypes, StarterPoint
<1>9. StartGoes(s)
  BY <1>1, <1>2, <1>3, <1>4, <1>6, <1>7, <1>8 DEF StartGoes, k
<1>10. ~Doomed(s)' /\ Published(s)'
  BY <1>8 DEF Doomed, Published
<1>11. StartOK(s)'
  <2>1. StartOwns(s)'
    BY <1>3, <1>5, <1>8, <1>10 DEF StartOwns, k, Accepting
  <2>2. StartIsNew(s)'
    BY <1>3, <1>5, <1>8, <1>10 DEF StartIsNew, k
  <2> QED
    BY <2>1, <2>2 DEF StartOK
<1>12. JournalOnly(s)
  BY <1>1, <1>3, <1>4, <1>5, <1>8, <1>9 DEF JournalOnly, k
<1> QED
  BY <1>1, <1>11, <1>12, JournalOnlyKeeps

\* complete_operation and what it returned, for any caller.
FinishGoes(t) ==
    LET k == KeyOf[t] IN
    /\ pc[t] \in {"finish", "finished"}
    /\ JournalGoes(k) /\ latched' \in BOOLEAN
    /\ UNCHANGED <<want, seen, permit, jobVars, restarts, historyVars>>
    /\ jobs[k].known <=> jobs'[k].known
    /\ StartLogged(k) => StartLogged(k)'
    /\ StartLogged(k)' => StartLogged(k) \/ t \in Starter
    /\ store' = "open" => store = "open"
    /\ \/ pc' = [pc EXCEPT ![t] = "finished"] /\ UNCHANGED jobRegistryVars
       \/ Resolved(t, pc[t])
       \/ Unresolved(t, pc[t])

LEMMA FinishFacts ==
    ASSUME JobTypes, NEW t \in Thread, KeyOf[t] \in Key, RequestFor(t) \in Request, Finish(t) \/ CommitFinish(t)
    PROVE  FinishGoes(t)
<1> DEFINE k == KeyOf[t]
           o == OperationOf[t]
           w == want[t]
           rec == FinishRecord(t)
<1>1. /\ k \in Key /\ o \in Operation /\ ContentOf[t] \in Content /\ w \in Outcome \cup {None}
      /\ (t \in Starter) \in BOOLEAN
  BY ManagerAssumption DEF JobTypes
<1>2. rec \in Record /\ (rec.start <=> t \in Starter) /\ rec.record # "job.terminal"
  <2>1. PICK b \in BOOLEAN : /\ b <=> t \in Starter
                             /\ rec = TerminalRecord(RequestFor(t), o, ContentOf[t], b, w)
    <3>1. CASE t \in Starter
      <4>1. (t \in Starter) = TRUE
        BY <3>1
      <4> QED
        BY <4>1, Zenon DEF FinishRecord
    <3>2. CASE t \notin Starter
      <4>1. (t \in Starter) = FALSE
        BY <3>2
      <4> QED
        BY <4>1, Zenon DEF FinishRecord
    <3> QED
      BY <3>1, <3>2
  <2>3. /\ TerminalRecord(RequestFor(t), o, ContentOf[t], b, w) \in Record
        /\ TerminalRecord(RequestFor(t), o, ContentOf[t], b, w).start = b
        /\ TerminalRecord(RequestFor(t), o, ContentOf[t], b, w).record = "operation.terminal"
    BY <1>1, RecordFacts
  <2> QED
    BY <2>1, <2>3
<1>3. UNCHANGED <<want, seen, permit, jobVars, restarts, historyVars>>
  BY DEF Finish, CommitFinish
<1> HIDE DEF k, o, w, rec
<1>4. CASE /\ FinishAnswer(t) = "Append" /\ AppendSucceeds(k, rec) /\ pc[t] = "finish"
           /\ pc' = [pc EXCEPT ![t] = "finished"] /\ UNCHANGED <<jobRegistryVars, result, latched>>
  <2>1. /\ JournalGoes(k) /\ jobs' = jobs /\ (StartLogged(k) => StartLogged(k)')
        /\ StartLogged(k)' => StartLogged(k) \/ t \in Starter
    BY <1>1, <1>2, <1>4, AppendGoes
  <2>2. store' = store /\ latched' \in BOOLEAN
    BY <1>4 DEF AppendSucceeds, JobTypes
  <2> QED
    BY <1>3, <1>4, <2>1, <2>2 DEF FinishGoes, k
<1>5. CASE /\ FinishAnswer(t) = "Append" /\ AppendFails(k, rec) /\ MarkOperationUncertain(k, o)
           /\ UNCHANGED jobs /\ pc[t] = "finish" /\ Unresolved(t, "finish")
  <2>1. store = "open" /\ store' = "lost" /\ latched' = TRUE
    BY <1>5 DEF FinishAnswer, CompleteAnswer, AppendFails, Unresolved
  <2>2. ops' \in [Key -> [Operation -> OperationState]] /\ \A j \in Key \ {k} : ops'[j] = ops[j]
    BY <1>1, <1>5, UncertainGoes
  <2>3. /\ disk' \in [Key -> Seq(Record)] /\ (\A j \in Key \ {k} : disk'[j] = disk[j])
        /\ (StartLogged(k) => StartLogged(k)')
        /\ StartLogged(k)' => StartLogged(k) \/ t \in Starter
    <3>1. CASE disk' = disk
      BY <3>1 DEF JobTypes, StartLogged
    <3>2. CASE disk' = [disk EXCEPT ![k] = Append(@, rec)]
      BY <1>1, <1>2, <3>2, LogGrows
    <3> QED
      BY <1>5, <3>1, <3>2 DEF AppendFails
  <2>4. JournalGoes(k)
    BY <1>5, <2>1, <2>2, <2>3 DEF JournalGoes, JobTypes
  <2> QED
    BY <1>3, <1>5, <2>1, <2>3, <2>4 DEF FinishGoes, k
<1>6. CASE /\ MarkOperationUncertain(k, o) /\ UNCHANGED <<store, jobs, disk>>
           /\ pc[t] \in {"finish", "finished"} /\ Unresolved(t, pc[t])
  <2>1. ops' \in [Key -> [Operation -> OperationState]] /\ \A j \in Key \ {k} : ops'[j] = ops[j]
    BY <1>1, <1>6, UncertainGoes
  <2>2. JournalGoes(k) /\ latched' = TRUE /\ (StartLogged(k)' <=> StartLogged(k))
    BY <1>6, <2>1 DEF JournalGoes, JobTypes, StartLogged, Unresolved
  <2> QED
    BY <1>3, <1>6, <2>2 DEF FinishGoes, k
<1>7. CASE /\ UNCHANGED jobJournalVars /\ pc[t] = "finish" /\ Unresolved(t, "finish")
  <2>1. UNCHANGED <<store, jobs, disk>> /\ latched' = TRUE
    BY <1>7 DEF jobJournalVars, Unresolved
  <2>2. JournalGoes(k) /\ (StartLogged(k)' <=> StartLogged(k))
    BY <1>7, <2>1, SameGoes DEF StartLogged
  <2> QED
    BY <1>3, <1>7, <2>1, <2>2 DEF FinishGoes, k
<1>8. CASE /\ CommitTerminal(k, o, t \in Starter, w)
           /\ pc[t] \in {"finish", "finished"} /\ Resolved(t, pc[t])
  <2>1. JournalGoes(k) /\ store' = store /\ disk' = disk /\ (jobs[k].known <=> jobs'[k].known)
    BY <1>1, <1>8, CommitGoes
  <2>2. (StartLogged(k)' <=> StartLogged(k)) /\ latched' \in BOOLEAN
    BY <1>8, <2>1 DEF StartLogged, Resolved, JobTypes
  <2> QED
    BY <1>3, <1>8, <2>1, <2>2 DEF FinishGoes, k
<1>9. CASE Finish(t)
  <2>1. pc[t] = "finish"
    BY <1>9 DEF Finish, Resolved, Unresolved, Return, Goto
  <2> QED
    BY <1>4, <1>5, <1>6, <1>7, <1>8, <1>9, <2>1 DEF Finish, Goto, k, o, w, rec
<1>10. CASE CommitFinish(t)
  <2>1. pc[t] = "finished"
    BY <1>10 DEF CommitFinish, Resolved, Unresolved, Return, Goto
  <2> QED
    BY <1>6, <1>8, <1>10, <2>1 DEF CommitFinish, k, o, w
<1> QED
  BY <1>9, <1>10

LEMMA FinishStartKeeps ==
    ASSUME JobInv, NEW s \in Starter, Finish(s) \/ CommitFinish(s)
    PROVE  JobInv'
<1> DEFINE k == KeyOf[s]
<1>1. /\ JobTypes /\ k \in Key /\ s \in Thread /\ s \in StarterOf(k) /\ StartOK(s) /\ RequestFor(s) \in Request
  BY InFlight DEF RequestFor
<1>2. FinishGoes(s)
  BY <1>1, FinishFacts
<1>3. /\ pc[s] \in {"finish", "finished"} /\ pc[s] \notin AtRest \cup {"publish", "spawn", "commit"} \cup Accepting
      /\ JournalGoes(k) /\ latched' \in BOOLEAN
      /\ UNCHANGED <<want, seen, permit, jobVars, restarts, historyVars>>
      /\ jobs[k].known <=> jobs'[k].known
      /\ StartLogged(k) => StartLogged(k)'
      /\ store' = "open" => store = "open"
  BY <1>2 DEF FinishGoes, AtRest, Accepting
<1>4. /\ UNCHANGED jobRegistryVars
      /\ \E p \in StarterPoint : /\ pc' = [pc EXCEPT ![s] = p]
                                 /\ want[s] = "started" => p \in {"finished", "dispatch", "abort"}
                                 /\ want[s] # "started" => p \in {"finished", "fence"}
  BY <1>2 DEF FinishGoes, Resolved, Unresolved, Goto, StarterPoint
<1>5. PICK p \in StarterPoint : /\ pc' = [pc EXCEPT ![s] = p]
                                /\ want[s] = "started" => p \in {"finished", "dispatch", "abort"}
                                /\ want[s] # "started" => p \in {"finished", "fence"}
  BY <1>4
<1>6. /\ UNCHANGED <<entry, running, dispatcher, process, spawned, restarts, permit>>
      /\ LiveGoes(k) /\ CountsGo(k) /\ permit' \in [Starter -> BOOLEAN]
  BY <1>1, <1>3, <1>4, SameGoes DEF jobRegistryVars, historyVars, jobVars, JobTypes
<1>7. EntryGoes(k, entry[k].dispatch) /\ entry[k].dispatch \in Dispatch
  BY <1>1, <1>4, EntryFacts DEF JobTypes, jobRegistryVars, EntryGoes
<1> HIDE DEF k
<1>8. want' \in [Thread -> Outcome \cup {None}] /\ \A u \in Thread \ {s} : want'[u] = want[u]
  BY <1>1, <1>3, WantSet
<1>9. pc'[s] = p /\ want'[s] = want[s]
  BY <1>1, <1>3, <1>5 DEF JobTypes
<1>10. StartGoes(s)
  BY <1>1, <1>3, <1>5, <1>6, <1>7, <1>8 DEF StartGoes, k
<1>11. (Doomed(s)' <=> Doomed(s)) /\ (Published(s)' <=> Published(s)) /\ (Doomed(s) \/ Published(s))
  BY <1>3, <1>5, <1>9 DEF Doomed, Published
<1>12. StartOK(s)'
  <2>1. StartOwns(s)'
    BY <1>1, <1>5, <1>6, <1>9, <1>11 DEF StartOK, StartOwns, k, Accepting
  <2>2. StartIsNew(s)'
    BY <1>1, <1>3, <1>5, <1>9, <1>11 DEF StartOK, StartIsNew, k
  <2> QED
    BY <2>1, <2>2 DEF StartOK
<1>13. JournalOnly(s)
  <2>1. jobs[k].known
    BY <1>1, <1>11 DEF StartOK, StartIsNew, k
  <2> QED
    BY <1>3, <1>5, <1>6, <1>9, <1>10, <1>11, <2>1 DEF JournalOnly, k
<1> QED
  BY <1>3, <1>12, <1>13, JournalOnlyKeeps

LEMMA StartDispatcherKeeps ==
    ASSUME JobInv, NEW s \in Starter, StartDispatcher(s)
    PROVE  JobInv'
<1> DEFINE k == KeyOf[s]
<1>1. /\ JobTypes /\ k \in Key /\ s \in Thread /\ s \in StarterOf(k) /\ StartOK(s) /\ JobOK(k)
      /\ pc[s] = "dispatch" /\ pc[s] \notin AtRest \cup {"publish", "spawn", "commit"} \cup Accepting
      /\ UNCHANGED <<jobRegistryVars, jobJournalVars, want, seen, permit, result, running, gate, process,
                     latched, restarts, historyVars>>
  BY InFlight DEF StartDispatcher, Goto, AtRest, Accepting
<1>2. PICK p \in {"ready", "abort"}, d \in {"run", "none"} :
        /\ pc' = [pc EXCEPT ![s] = p]
        /\ \/ p = "ready" /\ d = "run" /\ dispatcher' = [dispatcher EXCEPT ![k] = "run"]
           \/ p = "abort" /\ d = "none" /\ dispatcher' = dispatcher
  <2>1. CASE dispatcher' = [dispatcher EXCEPT ![k] = "run"] /\ Goto(s, "dispatch", "ready")
    BY <2>1 DEF Goto
  <2>2. CASE Goto(s, "dispatch", "abort") /\ UNCHANGED dispatcher
    BY <2>2 DEF Goto
  <2> QED
    BY <2>1, <2>2 DEF StartDispatcher
<1>3. /\ entry[k].dispatch = "running" /\ k \in running /\ dispatcher[k] = "none" /\ ~permit[s] /\ jobs[k].known
      /\ ~Doomed(s)
  BY <1>1 DEF StartOK, StartOwns, StartIsNew, Published, Doomed
<1>4. /\ UNCHANGED <<entry, store, jobs, disk, running, process, spawned, restarts, permit>>
      /\ JournalGoes(k) /\ CountsGo(k) /\ permit' \in [Starter -> BOOLEAN] /\ latched' \in BOOLEAN
      /\ StartLogged(k)' <=> StartLogged(k)
      /\ Configured' <=> Configured
  BY <1>1, SameGoes DEF jobRegistryVars, historyVars, jobJournalVars, JobTypes, StartLogged, Configured
<1>5. EntryGoes(k, "running") /\ "running" \in Dispatch
  BY <1>1, <1>3 DEF JobTypes, jobRegistryVars, EntryGoes, Dispatch
<1> HIDE DEF k
<1>6. LiveGoes(k) /\ dispatcher'[k] = d
  BY <1>1, <1>2, <1>3 DEF JobTypes, LiveGoes, DispatcherPoint
<1>7. want' \in [Thread -> Outcome \cup {None}] /\ \A u \in Thread \ {s} : want'[u] = want[u]
  BY <1>1, WantSet
<1>8. pc'[s] = p /\ p \in StarterPoint /\ ~Doomed(s)' /\ (p = "abort" <=> Published(s)')
  BY <1>1, <1>2 DEF JobTypes, StarterPoint, Doomed, Published
<1>9. StartGoes(s)
  BY <1>1, <1>2, <1>4, <1>5, <1>6, <1>7, <1>8 DEF StartGoes, k
<1>10. StartOK(s)'
  <2>1. StartOwns(s)'
    BY <1>2, <1>3, <1>4, <1>6, <1>8 DEF StartOwns, k, Accepting
  <2>2. StartIsNew(s)'
    BY <1>2, <1>3, <1>4, <1>8 DEF StartIsNew, k
  <2> QED
    BY <2>1, <2>2 DEF StartOK
<1>11. JobOK(k)'
  <2>1. JobOwns(k)'
    BY <1>1, <1>2, <1>3, <1>4, <1>6 DEF JobOK, JobOwns
  <2>2. EntryOwned(k)'
    BY <1>3, <1>4 DEF EntryOwned
  <2>3. StartKnown(k)'
    BY <1>3, <1>4 DEF StartKnown
  <2>4. SpawnsCounted(k)'
    BY <1>1, <1>3, <1>4 DEF JobOK, SpawnsCounted
  <2>5. Reached(k)'
    BY <1>2, <1>3, <1>4, <1>6 DEF Reached, Ending
  <2> QED
    BY <2>1, <2>2, <2>3, <2>4, <2>5 DEF JobOK
<1> QED
  BY <1>1, <1>2, <1>3, <1>4, <1>6, <1>9, <1>10, <1>11, StartGoesKeeps DEF k

LEMMA GateMoves ==
    ASSUME JobTypes, NEW k \in Key, NEW x \in {"ready", "failed", "terminal"},
           gate' = [gate EXCEPT ![k] = IF @ = "pending" THEN x ELSE @]
    PROVE  gate' \in [Key -> {"pending", "ready", "failed", "terminal", None}]
  BY DEF JobTypes

LEMMA KillFacts ==
    ASSUME JobTypes, NEW k \in Key, Kill(k) \/ UNCHANGED process
    PROVE  /\ process' \in [Key -> {"none", "live", "dying", "exited"}]
           /\ \A j \in Key \ {k} : process'[j] = process[j]
           /\ process'[k] = process[k] \/ (process[k] = "live" /\ process'[k] = "dying")
           /\ ~SignalsFail /\ Kill(k) => process'[k] # "live"
<1>1. process \in [Key -> {"none", "live", "dying", "exited"}]
  BY DEF JobTypes
<1>2. process' = process \/ process' = [process EXCEPT ![k] = IF @ = "live" THEN "dying" ELSE @]
  BY DEF Kill
<1>3. ~SignalsFail /\ Kill(k) => process' = [process EXCEPT ![k] = IF @ = "live" THEN "dying" ELSE @]
  BY DEF Kill
<1>4. /\ process' \in [Key -> {"none", "live", "dying", "exited"}]
      /\ \A j \in Key \ {k} : process'[j] = process[j]
  BY <1>1, <1>2
<1>5. process'[k] = process[k] \/ (process[k] = "live" /\ process'[k] = "dying")
  BY <1>1, <1>2
<1>6. ~SignalsFail /\ Kill(k) => process'[k] # "live"
  BY <1>1, <1>3
<1> QED
  BY <1>4, <1>5, <1>6

LEMMA OpenGateKeeps ==
    ASSUME JobInv, NEW s \in Starter, OpenGate(s)
    PROVE  JobInv'
<1> DEFINE k == KeyOf[s]
<1>1. /\ JobTypes /\ k \in Key /\ s \in Thread /\ s \in StarterOf(k) /\ StartOK(s)
      /\ pc[s] = "ready" /\ pc[s] \notin AtRest \cup {"publish", "spawn", "commit"} \cup Accepting
      /\ UNCHANGED <<jobRegistryVars, jobJournalVars, want, seen, permit, running, dispatcher, process,
                     latched, restarts, historyVars>>
      /\ gate' = [gate EXCEPT ![k] = IF @ = "pending" THEN "ready" ELSE @]
      /\ pc' = [pc EXCEPT ![s] = "done"]
  BY InFlight DEF OpenGate, Return, Goto, AtRest, Accepting
<1>2. jobs[k].known /\ ~Doomed(s)
  BY <1>1 DEF StartOK, StartIsNew, Doomed
<1>3. /\ UNCHANGED <<entry, store, jobs, disk, running, dispatcher, process, spawned, restarts, permit>>
      /\ JournalGoes(k) /\ CountsGo(k) /\ permit' \in [Starter -> BOOLEAN] /\ latched' \in BOOLEAN
      /\ StartLogged(k)' <=> StartLogged(k)
  BY <1>1, SameGoes DEF jobRegistryVars, historyVars, jobJournalVars, JobTypes, StartLogged
<1>4. EntryGoes(k, entry[k].dispatch) /\ entry[k].dispatch \in Dispatch
  BY <1>1, EntryFacts DEF JobTypes, jobRegistryVars, EntryGoes
<1>5. LiveGoes(k)
  <2>1. gate' \in [Key -> {"pending", "ready", "failed", "terminal", None}]
    BY <1>1, GateMoves
  <2> QED
    BY <1>1, <2>1 DEF LiveGoes, JobTypes
<1>6. want' \in [Thread -> Outcome \cup {None}] /\ \A u \in Thread \ {s} : want'[u] = want[u]
  BY <1>1, WantSet
<1>7. pc'[s] = "done" /\ "done" \in StarterPoint
  BY <1>1 DEF JobTypes, StarterPoint
<1> HIDE DEF k
<1>8. StartGoes(s)
  BY <1>1, <1>3, <1>4, <1>5, <1>6, <1>7 DEF StartGoes, k
<1>9. JournalOnly(s)
  BY <1>1, <1>2, <1>3, <1>7, <1>8 DEF JournalOnly, k
<1>10. StartOK(s)'
  BY <1>7, RestOKNext
<1> QED
  BY <1>1, <1>9, <1>10, JournalOnlyKeeps

LEMMA AbortKeeps ==
    ASSUME JobInv, NEW s \in Starter, Abort(s)
    PROVE  JobInv'
<1> DEFINE k == KeyOf[s]
<1>1. /\ JobTypes /\ k \in Key /\ s \in Thread /\ s \in StarterOf(k) /\ StartOK(s) /\ JobOK(k)
      /\ pc[s] = "abort" /\ pc[s] \notin AtRest \cup {"publish", "spawn", "commit"} \cup Accepting
      /\ UNCHANGED <<jobRegistryVars, jobJournalVars, seen, permit, result, dispatcher,
                     latched, restarts, historyVars>>
      /\ FailGate(k) /\ Kill(k) /\ running' = running \ {k}
      /\ want' = [want EXCEPT ![s] = "internal_failure"] /\ pc' = [pc EXCEPT ![s] = "finish"]
  BY InFlight DEF Abort, Goto, AtRest, Accepting
<1>2. /\ entry[k].dispatch = "running" /\ dispatcher[k] = "none" /\ ~permit[s] /\ jobs[k].known
  BY <1>1 DEF StartOK, StartOwns, StartIsNew, Published
<1>3. /\ UNCHANGED <<entry, store, jobs, disk, dispatcher, spawned, restarts, permit>>
      /\ JournalGoes(k) /\ CountsGo(k) /\ permit' \in [Starter -> BOOLEAN] /\ latched' \in BOOLEAN
      /\ StartLogged(k)' <=> StartLogged(k)
      /\ Configured' <=> Configured
  BY <1>1, SameGoes DEF jobRegistryVars, historyVars, jobJournalVars, JobTypes, StartLogged, Configured
<1>4. EntryGoes(k, "running") /\ "running" \in Dispatch
  BY <1>1, <1>2 DEF JobTypes, jobRegistryVars, EntryGoes, Dispatch
<1>5. LiveGoes(k) /\ k \notin running' /\ (~SignalsFail => process'[k] # "live")
  <2>1. gate' \in [Key -> {"pending", "ready", "failed", "terminal", None}]
    BY <1>1, GateMoves DEF FailGate
  <2>2. /\ process' \in [Key -> {"none", "live", "dying", "exited"}]
        /\ \A j \in Key \ {k} : process'[j] = process[j]
        /\ ~SignalsFail => process'[k] # "live"
    BY <1>1, KillFacts
  <2> QED
    BY <1>1, <2>1, <2>2 DEF LiveGoes, JobTypes
<1>6. want' \in [Thread -> Outcome \cup {None}] /\ \A u \in Thread \ {s} : want'[u] = want[u]
  <2>1. "internal_failure" \in Outcome \cup {None}
    BY DEF Outcome
  <2> QED
    BY <1>1, <2>1, WantSet
<1>7. pc'[s] = "finish" /\ "finish" \in StarterPoint /\ want'[s] = "internal_failure"
  BY <1>1 DEF JobTypes, StarterPoint
<1> HIDE DEF k
<1>8. StartGoes(s)
  BY <1>1, <1>3, <1>4, <1>5, <1>6, <1>7 DEF StartGoes, k
<1>9. Doomed(s)' /\ ~Published(s)'
  BY <1>7 DEF Doomed, Published
<1>10. StartOK(s)'
  <2>1. StartOwns(s)'
    BY <1>2, <1>3, <1>7, <1>9 DEF StartOwns, k, Accepting
  <2>2. StartIsNew(s)'
    BY <1>2, <1>3, <1>7, <1>9 DEF StartIsNew, k
  <2> QED
    BY <2>1, <2>2 DEF StartOK
<1>11. JobOK(k)'
  <2>1. JobOwns(k)'
    BY <1>1, <1>2, <1>3, <1>5 DEF JobOK, JobOwns
  <2>2. EntryOwned(k)'
    BY <1>1, <1>2, <1>3, <1>9 DEF EntryOwned, StarterOf
  <2>3. StartKnown(k)'
    BY <1>2, <1>3 DEF StartKnown
  <2>4. SpawnsCounted(k)'
    BY <1>1, <1>2, <1>3 DEF JobOK, SpawnsCounted
  <2>5. Reached(k)'
    BY <1>2, <1>3, <1>5 DEF Reached, Ending
  <2> QED
    BY <2>1, <2>2, <2>3, <2>4, <2>5 DEF JobOK
<1> QED
  BY <1>1, <1>2, <1>3, <1>8, <1>10, <1>11, StartGoesKeeps DEF k

LEMMA StarterKeeps ==
    ASSUME JobInv, NEW s \in Starter, StarterStep(s)
    PROVE  JobInv'
  BY EnterKeeps, CheckRecoveredKeeps, PreflightKeeps, AdmitKeeps, BeginEntryKeeps, FenceKeeps,
     AcceptStartKeeps, CommitStartKeeps, ClaimKeeps, SpawnKeeps, PublishKeeps, ObserveStartKeeps,
     FinishStartKeeps, StartDispatcherKeeps, OpenGateKeeps, AbortKeeps DEF StarterStep

(***************************************************************************)
(* The controls, the dispatchers and the environment                       *)
(***************************************************************************)

\* A step about job k that no start takes.
OthersGo(k) ==
    /\ pc' \in [Thread -> StarterPoint \cup ControllerPoint]
    /\ \A s \in Starter : pc'[s] = pc[s]
    /\ \A c \in Controller : pc'[c] \in ControllerPoint
    /\ want' \in [Thread -> Outcome \cup {None}]
    /\ \A s \in Starter : want'[s] = want[s]
    /\ \A c \in Controller : KeyOf[c] # k => pc'[c] = pc[c] /\ want'[c] = want[c]
    /\ UNCHANGED <<permit, seen, spawned>> /\ latched' \in BOOLEAN
    /\ \E d \in Dispatch : EntryGoes(k, d)
    /\ JournalGoes(k) /\ LiveGoes(k) /\ CountsGo(k)
    /\ jobs'[k].known <=> jobs[k].known
    /\ StartLogged(k) => StartLogged(k)'
    /\ StartLogged(k)' => StartLogged(k) \/ jobs[k].known

\* What such a step may do to the entry and the running map: until its
\* dispatcher runs, a job that somebody starts is left alone, except that it
\* may be fenced while it runs.
Respects(k) ==
    /\ \/ EntryKept(k)
       \/ EntryFenced(k) /\ entry[k].dispatch = "running"
       \/ /\ dispatcher[k] # "none" /\ entry[k].dispatch = "running"
          /\ entry'[k].dispatch = "terminal" /\ entry'[k].request = entry[k].request
    /\ \/ dispatcher'[k] = dispatcher[k] /\ (k \in running' <=> k \in running)
       \/ dispatcher[k] # "none" /\ dispatcher'[k] # "none"

LEMMA OthersFrame ==
    ASSUME JobTypes, NEW k \in Key, OthersGo(k)
    PROVE  JobTypes' /\ OnlyJob(k)
<1>2. EntryGoes(k, entry'[k].dispatch) /\ JournalGoes(k) /\ LiveGoes(k) /\ CountsGo(k)
  BY DEF OthersGo, EntryGoes
<1>3. JobTypes'
  BY <1>2 DEF JobTypes, EntryGoes, JournalGoes, LiveGoes, CountsGo, OthersGo
<1>4. StoreStep
  BY <1>2 DEF StoreStep, JournalGoes, CountsGo
<1>5. ASSUME NEW j \in Key \ {k} PROVE Same(j)
  <2>1. \A t \in Thread : KeyOf[t] = j => pc'[t] = pc[t] /\ want'[t] = want[t]
    BY DEF OthersGo, Thread
  <2>2. \A u \in Starter : KeyOf[u] = j => permit'[u] = permit[u]
    BY DEF OthersGo
  <2> QED
    BY <1>2, <2>1, <2>2 DEF Same, EntryGoes, JournalGoes, LiveGoes, CountsGo
<1> QED
  BY <1>3, <1>4, <1>5 DEF OnlyJob

LEMMA StartsKept ==
    ASSUME JobInv, NEW k \in Key, OthersGo(k), Respects(k), NEW s \in StarterOf(k)
    PROVE  StartOK(s)' /\ pc'[s] = pc[s] /\ (Doomed(s)' <=> Doomed(s))
<1>1. /\ JobTypes /\ s \in Starter /\ KeyOf[s] = k /\ StartOK(s) /\ JobOK(k)
      /\ spawned[k] \in Nat /\ restarts \in Nat
  BY ThreadFacts DEF JobInv, JobTypes
<1>2. /\ pc'[s] = pc[s] /\ (Doomed(s)' <=> Doomed(s)) /\ (Published(s)' <=> Published(s)) /\ permit'[s] = permit[s]
      /\ spawned' = spawned /\ restarts' = restarts /\ (Configured' <=> Configured)
      /\ jobs'[k].known <=> jobs[k].known
      /\ StartLogged(k) => StartLogged(k)'
  BY <1>1 DEF OthersGo, Doomed, Published, Configured, JournalGoes, CountsGo
<1>3. /\ dispatcher[k] = "none" => dispatcher'[k] = "none" /\ (k \in running' <=> k \in running)
      /\ dispatcher[k] # "none" => dispatcher'[k] # "none"
  BY DEF Respects
<1>4. /\ entry[k].dispatch # "absent" => entry'[k].dispatch # "absent"
      /\ entry[k].dispatch \in {"accepted", "claimed"} =>
            entry'[k].dispatch = entry[k].dispatch /\ (entry'[k].uncertain <=> entry[k].uncertain)
      /\ dispatcher[k] = "none" => entry'[k].dispatch = entry[k].dispatch
  BY DEF Respects, EntryKept, EntryFenced, EntryGoes
<1>5. StartOwns(s)'
  <2>0. StartOwns(s)
    BY <1>1 DEF StartOK
  <2>1. (pc[s] = "begin" => permit[s] \/ Present(k))'
    BY <1>1, <1>2, <1>4, <2>0 DEF StartOwns, Present
  <2>2. /\ (pc[s] \in Accepting \cup {"spawn", "publish"} => permit[s] /\ dispatcher[k] = "none")'
        /\ (pc[s] \in Accepting => entry[k].dispatch = "accepted" /\ ~entry[k].uncertain)'
        /\ (pc[s] \in {"spawn", "publish"} => entry[k].dispatch = "claimed" /\ ~entry[k].uncertain)'
    BY <1>1, <1>2, <1>3, <1>4, <2>0 DEF StartOwns
  <2>3. /\ (Published(s) => /\ entry[k].dispatch = "running" /\ k \in running
                            /\ dispatcher[k] = "none" /\ ~permit[s])'
        /\ (pc[s] = "ready" => dispatcher[k] # "none" /\ ~permit[s])'
        /\ (Doomed(s) => entry[k].dispatch # "absent" /\ dispatcher[k] = "none")'
    BY <1>1, <1>2, <1>3, <1>4, <2>0 DEF StartOwns
  <2> QED
    BY <1>1, <2>1, <2>2, <2>3 DEF StartOwns
<1>6. StartIsNew(s)'
  BY <1>1, <1>2 DEF StartOK, StartIsNew
<1> QED
  BY <1>2, <1>5, <1>6 DEF StartOK

LEMMA OthersStepKeeps ==
    ASSUME JobInv, NEW k \in Key, OthersGo(k), Respects(k),
           OneLifecycle(k)', \A c \in ControllerOf(k) : ControlOK(c)',
           JobOwns(k)', EntryOwned(k)', Reached(k)'
    PROVE  JobInv'
<1>1. JobTypes /\ JobOK(k) /\ OneStart(k) /\ JobTypes' /\ OnlyJob(k)
  BY OthersFrame DEF JobInv
<1>2. \A s \in StarterOf(k) : StartOK(s)' /\ pc'[s] = pc[s]
  BY StartsKept
<1>3. OneStart(k)'
  BY <1>1, <1>2 DEF OneStart, StarterOf
<1>4. entry'[k].dispatch \in {"claimed", "running", "terminal"} =>
         entry[k].dispatch \in {"claimed", "running", "terminal"}
  BY DEF Respects, EntryKept, EntryFenced, EntryGoes
<1>5. entry'[k].dispatch = "accepted" => entry[k].dispatch = "accepted"
  BY DEF Respects, EntryKept, EntryFenced, EntryGoes
<1>6. /\ (jobs'[k].known <=> jobs[k].known) /\ (StartLogged(k) => StartLogged(k)')
      /\ StartLogged(k)' => StartLogged(k) \/ jobs[k].known
      /\ store' = "open" => store = "open"
      /\ (Configured' <=> Configured) /\ spawned' = spawned /\ restarts' = restarts
  BY DEF OthersGo, JournalGoes, CountsGo, Configured
<1>7. StartKnown(k)'
  BY <1>1, <1>2, <1>4, <1>6 DEF JobOK, StartKnown, StarterOf
<1>8. SpawnsCounted(k)'
  BY <1>1, <1>5, <1>6 DEF JobOK, SpawnsCounted
<1>9. JobOK(k)'
  BY <1>7, <1>8 DEF JobOK
<1> QED
  BY <1>1, <1>2, <1>3, <1>9, OneJobStep

\* An entry that is kept, or fenced while it runs, has its owner still.
LEMMA OwnedStill ==
    ASSUME JobInv, NEW k \in Key, OthersGo(k), Respects(k), k \in running' <=> k \in running,
           EntryKept(k) \/ (EntryFenced(k) /\ entry[k].dispatch = "running")
    PROVE  EntryOwned(k)'
<1>1. EntryOwned(k)
  BY DEF JobInv, JobOK
<1>2. \A s \in StarterOf(k) : pc'[s] = pc[s] /\ (Doomed(s)' <=> Doomed(s))
  BY StartsKept
<1>3. CASE EntryKept(k)
  BY <1>1, <1>2, <1>3 DEF EntryOwned, EntryKept, EntryGoes, StarterOf
<1>4. CASE EntryFenced(k) /\ entry[k].dispatch = "running"
  BY <1>4 DEF EntryOwned, EntryFenced, EntryGoes
<1> QED
  BY <1>3, <1>4

\* A step that touches no job at all.
LEMMA NoJobStep ==
    ASSUME JobInv, JobTypes', StoreStep, \A j \in Key : Same(j)
    PROVE  JobInv'
<1>1. \A j \in Key : OneStart(j)' /\ OneLifecycle(j)' /\ JobOK(j)'
  BY SameLocks, SameJob DEF JobInv
<1>2. \A s \in Starter : StartOK(s)'
  BY SameStart, ThreadFacts DEF JobInv
<1>3. \A c \in Controller : ControlOK(c)'
  BY ThreadFacts DEF JobInv, Same, ControlOK
<1> QED
  BY <1>1, <1>2, <1>3 DEF JobInv

\* A step of the control c.
ControlGoes(c) ==
    LET k == KeyOf[c] IN
    /\ \E p \in ControllerPoint :
          /\ pc' = [pc EXCEPT ![c] = p]
          /\ p \in Controls => pc[c] \in Controls \/ LifecycleFree(k)
          /\ p \in Controls \ {"check"} => entry[k].dispatch = "running"
    /\ want' \in [Thread -> Outcome \cup {None}] /\ \A u \in Thread \ {c} : want'[u] = want[u]
    /\ UNCHANGED <<permit, seen, spawned, restarts, running, gate, dispatcher>>
    /\ latched' \in BOOLEAN
    /\ EntryKept(k) \/ (EntryFenced(k) /\ entry[k].dispatch = "running")
    /\ JournalGoes(k)
    /\ jobs'[k].known <=> jobs[k].known
    /\ StartLogged(k)' <=> StartLogged(k)
    /\ Kill(k) \/ UNCHANGED process
    /\ applied' \in [Key -> [Operation -> Nat]] /\ \A j \in Key \ {k} : applied'[j] = applied[j]

LEMMA ControlGoesKeeps ==
    ASSUME JobInv, NEW c \in Controller, ControlGoes(c)
    PROVE  JobInv'
<1> DEFINE k == KeyOf[c]
<1>1. /\ JobTypes /\ c \in Thread /\ c \notin Starter /\ k \in Key /\ c \in ControllerOf(k)
      /\ JobOK(k) /\ OneLifecycle(k) /\ ControlOK(c)
  BY ThreadFacts DEF JobInv, ControllerOf
<1>2. PICK p \in ControllerPoint :
          /\ pc' = [pc EXCEPT ![c] = p]
          /\ p \in Controls => pc[c] \in Controls \/ LifecycleFree(k)
          /\ p \in Controls \ {"check"} => entry[k].dispatch = "running"
  BY DEF ControlGoes
<1>3. /\ pc' \in [Thread -> StarterPoint \cup ControllerPoint]
      /\ pc'[c] = p /\ \A u \in Thread \ {c} : pc'[u] = pc[u]
  BY <1>1, <1>2 DEF JobTypes
<1>4. EntryKept(k) \/ (EntryFenced(k) /\ entry[k].dispatch = "running")
  BY DEF ControlGoes
<1>5. EntryGoes(k, entry[k].dispatch) /\ entry[k].dispatch \in Dispatch /\ entry'[k].dispatch = entry[k].dispatch
      /\ entry'[k].request = entry[k].request /\ (entry[k].uncertain => entry'[k].uncertain)
  BY <1>1, <1>4, EntryFacts DEF EntryKept, EntryFenced, EntryGoes
<1>6. /\ UNCHANGED <<running, dispatcher>>
      /\ process' \in [Key -> {"none", "live", "dying", "exited"}]
      /\ \A j \in Key \ {k} : process'[j] = process[j]
      /\ process'[k] = process[k] \/ (process[k] = "live" /\ process'[k] = "dying")
  BY <1>1, KillFacts DEF ControlGoes
<1>7. LiveGoes(k) /\ CountsGo(k)
  BY <1>1, <1>6 DEF LiveGoes, CountsGo, ControlGoes, JobTypes
<1>8. /\ \A u \in Starter : u \in Thread /\ u # c
      /\ \A d \in Controller : d \in Thread /\ (KeyOf[d] # k => d # c)
  BY <1>1, ThreadFacts
<1>9. OthersGo(k)
  <2>1. \A d \in Controller : pc'[d] \in ControllerPoint
    BY <1>1, <1>3, <1>8 DEF JobTypes
  <2> QED
    BY <1>3, <1>5, <1>7, <1>8, <2>1 DEF OthersGo, ControlGoes
<1>10. Respects(k)
  BY <1>4, <1>6 DEF Respects
<1> HIDE DEF k
<1>11. OneLifecycle(k)'
  <2>1. \A d \in ControllerOf(k) \ {c} : pc'[d] = pc[d] /\ (p \in Controls => pc[d] \notin Controls)
    <3>1. \A d \in ControllerOf(k) \ {c} : pc'[d] = pc[d]
      BY <1>3, ThreadFacts
    <3>2. ASSUME NEW d \in ControllerOf(k) \ {c}, p \in Controls PROVE pc[d] \notin Controls
      <4>1. CASE pc[c] \in Controls
        BY <1>1, <4>1 DEF OneLifecycle
      <4>2. CASE LifecycleFree(k)
        BY <4>2 DEF LifecycleFree, Controls
      <4> QED
        BY <1>2, <3>2, <4>1, <4>2
    <3> QED
      BY <3>1, <3>2
  <2>2. p \in Controls => dispatcher[k] \notin Ending
    BY <1>1, <1>2 DEF OneLifecycle, LifecycleFree, Ending
  <2> QED
    BY <1>1, <1>3, <1>6, <2>1, <2>2 DEF OneLifecycle, ControllerOf
<1>12. ASSUME NEW d \in ControllerOf(k) PROVE ControlOK(d)'
  <2>1. d \in Controller /\ d \in Thread /\ KeyOf[d] = k
    BY ThreadFacts
  <2>2. CASE d = c
    BY <1>2, <1>3, <1>5, <2>1, <2>2 DEF ControlOK
  <2>3. CASE d # c
    <3>1. ControlOK(d)
      BY <2>1 DEF JobInv
    <3> QED
      BY <1>3, <1>5, <2>1, <2>3, <3>1 DEF ControlOK
  <2> QED
    BY <2>2, <2>3
<1>13. JobOwns(k)'
  BY <1>1, <1>5, <1>6 DEF JobOK, JobOwns
<1>14. EntryOwned(k)'
  BY <1>1, <1>4, <1>6, <1>9, <1>10, OwnedStill
<1>15. Reached(k)'
  <2>1. \A s \in StarterOf(k) : s \in Starter /\ pc'[s] = pc[s]
    BY <1>3, <1>8, ThreadFacts
  <2> QED
    BY <1>1, <1>6, <2>1 DEF JobOK, Reached, StarterOf
<1> QED
  BY <1>1, <1>9, <1>10, <1>11, <1>12, <1>13, <1>14, <1>15, OthersStepKeeps

\* The frame of the controls that only look.
LEMMA ControlFrame ==
    ASSUME JobTypes, NEW c \in Controller
    PROVE  /\ UNCHANGED want => want' \in [Thread -> Outcome \cup {None}] /\ \A u \in Thread \ {c} : want'[u] = want[u]
           /\ UNCHANGED applied => applied' \in [Key -> [Operation -> Nat]] /\ \A j \in Key \ {KeyOf[c]} : applied'[j] = applied[j]
           /\ UNCHANGED latched => latched' \in BOOLEAN
           /\ UNCHANGED jobRegistryVars => EntryKept(KeyOf[c])
           /\ UNCHANGED jobJournalVars => /\ JournalGoes(KeyOf[c])
                                          /\ jobs'[KeyOf[c]].known <=> jobs[KeyOf[c]].known
                                          /\ StartLogged(KeyOf[c])' <=> StartLogged(KeyOf[c])
<1>1. UNCHANGED want => want' \in [Thread -> Outcome \cup {None}] /\ \A u \in Thread \ {c} : want'[u] = want[u]
  BY DEF JobTypes
<1>2. UNCHANGED applied => applied' \in [Key -> [Operation -> Nat]] /\ \A j \in Key \ {KeyOf[c]} : applied'[j] = applied[j]
  BY DEF JobTypes
<1>3. UNCHANGED latched => latched' \in BOOLEAN
  BY DEF JobTypes
<1>4. UNCHANGED jobRegistryVars => EntryKept(KeyOf[c])
  BY SameEntry, ThreadFacts
<1>5. UNCHANGED jobJournalVars => /\ JournalGoes(KeyOf[c])
                                  /\ jobs'[KeyOf[c]].known <=> jobs[KeyOf[c]].known
                                  /\ StartLogged(KeyOf[c])' <=> StartLogged(KeyOf[c])
  BY SameGoes DEF jobJournalVars, StartLogged
<1> QED
  BY <1>1, <1>2, <1>3, <1>4, <1>5

LEMMA ControlLooks ==
    ASSUME JobInv, NEW c \in Controller,
           Lookup(c) \/ WaitGate(c) \/ LockLifecycle(c) \/ CheckRunning(c)
    PROVE  JobInv'
<1>1. JobTypes
  BY DEF JobInv
<1>2. UNCHANGED <<jobRegistryVars, jobJournalVars, want, seen, permit, jobVars, latched, restarts, historyVars>>
  BY DEF Lookup, WaitGate, LockLifecycle, CheckRunning
<1>3. \E p \in ControllerPoint :
          /\ pc' = [pc EXCEPT ![c] = p]
          /\ p \in Controls => pc[c] \in Controls \/ LifecycleFree(KeyOf[c])
          /\ p \in Controls \ {"check"} => entry[KeyOf[c]].dispatch = "running"
  <2>1. CASE Lookup(c) \/ WaitGate(c)
    BY <2>1 DEF Lookup, WaitGate, Return, Goto, ControllerPoint, Controls
  <2>2. CASE LockLifecycle(c)
    BY <2>2 DEF LockLifecycle, Goto, ControllerPoint, Controls
  <2>3. CASE CheckRunning(c)
    BY <2>3 DEF CheckRunning, Return, Goto, ControllerPoint, Controls, Live
  <2> QED
    BY <2>1, <2>2, <2>3
<1>4. ControlGoes(c)
  BY <1>1, <1>2, <1>3, ControlFrame DEF ControlGoes, jobVars, historyVars
<1> QED
  BY <1>4, ControlGoesKeeps

\* Past its check, a control names a job that runs.
LEMMA InControl ==
    ASSUME JobInv, NEW c \in Controller, pc[c] \in Controls \ {"check"}
    PROVE  /\ JobTypes /\ KeyOf[c] \in Key /\ c \in Thread /\ c \notin Starter
           /\ OperationOf[c] \in Operation /\ ContentOf[c] \in Content
           /\ entry[KeyOf[c]].dispatch = "running" /\ RequestFor(c) \in Request
<1>1. /\ JobTypes /\ KeyOf[c] \in Key /\ c \in Thread /\ c \notin Starter
      /\ OperationOf[c] \in Operation /\ ContentOf[c] \in Content
      /\ ControlOK(c) /\ JobOwns(KeyOf[c])
  BY ThreadFacts, ManagerAssumption DEF JobInv, JobOK
<1>2. entry[KeyOf[c]].dispatch = "running" /\ entry[KeyOf[c]].request # None
  BY <1>1 DEF ControlOK, JobOwns
<1>3. entry[KeyOf[c]].request \in Request \cup {None}
  BY <1>1, EntryFacts DEF Entry
<1> QED
  BY <1>1, <1>2, <1>3 DEF RequestFor

LEMMA AcceptControlKeeps ==
    ASSUME JobInv, NEW c \in Controller, AcceptControl(c)
    PROVE  JobInv'
<1> DEFINE k == KeyOf[c]
           rec == ControlRecord(c)
<1>1. /\ pc[c] = "accept" /\ pc[c] \in Controls \ {"check"}
      /\ UNCHANGED <<jobRegistryVars, seen, permit, jobVars, restarts, historyVars>>
  BY DEF AcceptControl, Return, Goto, Controls
<1>2. /\ JobTypes /\ k \in Key /\ c \in Thread
      /\ OperationOf[c] \in Operation /\ ContentOf[c] \in Content
      /\ entry[k].dispatch = "running" /\ RequestFor(c) \in Request
  BY <1>1, InControl
<1>3. rec \in Record /\ ~rec.start /\ rec.record # "job.terminal"
  BY <1>2, RecordFacts DEF ControlRecord
<1>4. \E p \in ControllerPoint : pc' = [pc EXCEPT ![c] = p]
  BY DEF AcceptControl, Return, Goto, ControllerPoint, FirstStep
<1>5. want' \in [Thread -> Outcome \cup {None}] /\ \A u \in Thread \ {c} : want'[u] = want[u]
  <2>1. want' = want \/ want' = [want EXCEPT ![c] = IF Allow THEN @ ELSE "control_failed"]
    BY DEF AcceptControl
  <2>2. "control_failed" \in Outcome
    BY DEF Outcome
  <2> QED
    BY <1>2, <2>1, <2>2 DEF JobTypes
<1>6. latched' \in BOOLEAN
  BY <1>2 DEF AcceptControl, JobTypes
<1> HIDE DEF k, rec
<1>7. JournalGoes(k) /\ jobs' = jobs /\ (StartLogged(k)' <=> StartLogged(k))
  <2>1. CASE ControlAnswer(c) = "Append" /\ AppendSucceeds(k, rec)
    BY <1>2, <1>3, <2>1, AppendGoes
  <2>2. CASE ControlAnswer(c) = "Append" /\ AppendFails(k, rec) /\ UNCHANGED <<ops, jobs>>
    <3>1. store = "open"
      BY <2>2 DEF ControlAnswer, BeginAnswer
    <3> QED
      BY <1>2, <1>3, <2>2, <3>1, AppendGoes
  <2>3. CASE AcceptUnjournaled(k, RequestFor(c), OperationOf[c], ContentOf[c], FALSE)
    <3>1. /\ Remember(k, RequestFor(c), OperationOf[c], ContentOf[c], FALSE, FALSE)
          /\ UNCHANGED <<store, disk>>
      BY <2>3 DEF AcceptUnjournaled
    <3>2. JournalGoes(k) /\ disk' = disk /\ jobs' = jobs
      BY <1>2, <3>1, RememberGoes
    <3> QED
      BY <3>2 DEF StartLogged
  <2>4. CASE UNCHANGED jobJournalVars
    BY <1>2, <2>4, SameGoes DEF jobJournalVars, StartLogged
  <2> QED
    BY <2>1, <2>2, <2>3, <2>4 DEF AcceptControl, k, rec
<1>8. ControlGoes(c)
  BY <1>1, <1>2, <1>4, <1>5, <1>6, <1>7, ControlFrame DEF ControlGoes, jobVars, historyVars, k
<1> QED
  BY <1>8, ControlGoesKeeps

LEMMA CommitControlKeeps ==
    ASSUME JobInv, NEW c \in Controller, CommitControl(c)
    PROVE  JobInv'
<1> DEFINE k == KeyOf[c]
<1>1. /\ pc[c] = "commit" /\ pc[c] \in Controls \ {"check"}
      /\ UNCHANGED <<jobRegistryVars, want, seen, permit, jobVars, latched, restarts, historyVars>>
      /\ CommitAccepted(k, RequestFor(c), OperationOf[c], ContentOf[c], FALSE)
  BY DEF CommitControl, Return, Goto, Controls
<1>2. /\ JobTypes /\ k \in Key /\ c \in Thread
      /\ OperationOf[c] \in Operation /\ ContentOf[c] \in Content
      /\ entry[k].dispatch = "running" /\ RequestFor(c) \in Request
  BY <1>1, InControl
<1>3. \E p \in ControllerPoint : pc' = [pc EXCEPT ![c] = p]
  BY DEF CommitControl, Return, Goto, ControllerPoint, FirstStep
<1> HIDE DEF k
<1>4. JournalGoes(k) /\ jobs' = jobs /\ (StartLogged(k)' <=> StartLogged(k))
  <2>1. PICK pre \in BOOLEAN : Remember(k, RequestFor(c), OperationOf[c], ContentOf[c], FALSE, pre)
    BY <1>1 DEF CommitAccepted
  <2>2. UNCHANGED <<store, disk>>
    BY <1>1 DEF CommitAccepted
  <2>3. JournalGoes(k) /\ disk' = disk /\ jobs' = jobs
    BY <1>2, <2>1, <2>2, RememberGoes
  <2> QED
    BY <2>3 DEF StartLogged
<1>5. ControlGoes(c)
  BY <1>1, <1>2, <1>3, <1>4, ControlFrame DEF ControlGoes, jobVars, historyVars, k
<1> QED
  BY <1>5, ControlGoesKeeps

LEMMA EffectKeeps ==
    ASSUME JobInv, NEW c \in Controller, Effect(c)
    PROVE  JobInv'
<1> DEFINE k == KeyOf[c]
<1>1. /\ pc[c] = "effect" /\ pc[c] \in Controls \ {"check"}
      /\ UNCHANGED <<jobRegistryVars, jobJournalVars, seen, permit, result, running, gate, dispatcher,
                     latched, restarts, spawned>>
      /\ Kill(k) \/ UNCHANGED process
      /\ applied' = [applied EXCEPT ![k][OperationOf[c]] = @ + 1]
  BY DEF Effect, Goto, Controls
<1>2. JobTypes /\ k \in Key /\ c \in Thread /\ OperationOf[c] \in Operation /\ entry[k].dispatch = "running"
  BY <1>1, InControl
<1>3. \E p \in ControllerPoint : pc' = [pc EXCEPT ![c] = p]
  BY DEF Effect, Goto, ControllerPoint
<1>4. want' \in [Thread -> Outcome \cup {None}] /\ \A u \in Thread \ {c} : want'[u] = want[u]
  <2>1. \/ want' = want
        \/ \E w \in Outcome \cup {None} : want' = [want EXCEPT ![c] = w]
    BY DEF Effect, Outcome
  <2> QED
    BY <1>2, <2>1, WantSet
<1> HIDE DEF k
<1>5. applied' \in [Key -> [Operation -> Nat]] /\ \A j \in Key \ {k} : applied'[j] = applied[j]
  <2> DEFINE f == [applied[k] EXCEPT ![OperationOf[c]] = applied[k][OperationOf[c]] + 1]
  <2>1. applied' = [applied EXCEPT ![k] = f] /\ applied \in [Key -> [Operation -> Nat]]
    BY <1>1, <1>2 DEF JobTypes
  <2>2. applied[k] \in [Operation -> Nat] /\ applied[k][OperationOf[c]] + 1 \in Nat
    BY <1>2 DEF JobTypes
  <2>3. f \in [Operation -> Nat]
    BY <2>2
  <2> HIDE DEF f
  <2> QED
    BY <2>1, <2>3
<1>6. ControlGoes(c)
  BY <1>1, <1>2, <1>3, <1>4, <1>5, ControlFrame DEF ControlGoes, k
<1> QED
  BY <1>6, ControlGoesKeeps

LEMMA RecordControlKeeps ==
    ASSUME JobInv, NEW c \in Controller, RecordControl(c)
    PROVE  JobInv'
<1> DEFINE k == KeyOf[c]
<1>1. /\ pc[c] = "record" /\ pc[c] \in Controls \ {"check"}
      /\ UNCHANGED <<jobJournalVars, seen, permit, result, jobVars, latched, restarts, historyVars>>
  BY DEF RecordControl, Goto, Controls
<1>2. JobTypes /\ k \in Key /\ c \in Thread /\ entry[k].dispatch = "running"
  BY <1>1, InControl
<1>3. \E p \in ControllerPoint : pc' = [pc EXCEPT ![c] = p]
  BY DEF RecordControl, Goto, ControllerPoint
<1>4. want' \in [Thread -> Outcome \cup {None}] /\ \A u \in Thread \ {c} : want'[u] = want[u]
  <2>1. \E w \in Outcome \cup {None} : want' = [want EXCEPT ![c] = w]
    BY DEF RecordControl, Outcome
  <2> QED
    BY <1>2, <2>1, WantSet
<1>5. EntryKept(k)
  <2>1. KindOf[c] \in {"write", "resize", "close_stdin", "kill"}
    BY ManagerAssumption
  <2>2. \/ RecordLive(k) \/ RecordInput(k) \/ CloseStdin(k) \/ RequestKill(k)
        \/ UNCHANGED jobRegistryVars
    BY <2>1 DEF RecordControl
  <2> QED
    BY <1>2, <2>2, LiveKeeps, SameEntry
<1> HIDE DEF k
<1>6. ControlGoes(c)
  BY <1>1, <1>2, <1>3, <1>4, <1>5, ControlFrame DEF ControlGoes, jobVars, historyVars, k
<1> QED
  BY <1>6, ControlGoesKeeps

LEMMA FinishControlKeeps ==
    ASSUME JobInv, NEW c \in Controller, Finish(c) \/ CommitFinish(c)
    PROVE  JobInv'
<1> DEFINE k == KeyOf[c]
<1>1. pc[c] \in {"finish", "finished"} /\ pc[c] \in Controls \ {"check"}
  BY DEF Finish, CommitFinish, Resolved, Unresolved, Return, Goto, Controls
<1>2. JobTypes /\ k \in Key /\ c \in Thread /\ c \notin Starter /\ entry[k].dispatch = "running" /\ RequestFor(c) \in Request
  BY <1>1, InControl
<1>3. FinishGoes(c)
  BY <1>2, FinishFacts
<1>4. \E p \in ControllerPoint : pc' = [pc EXCEPT ![c] = p]
  BY <1>2, <1>3 DEF FinishGoes, Resolved, Unresolved, Return, Goto, ControllerPoint
<1>5. UNCHANGED jobRegistryVars \/ MarkRestartUncertain(k)
  BY <1>2, <1>3 DEF FinishGoes, Resolved, Unresolved
<1>6. EntryKept(k) \/ EntryFenced(k)
  BY <1>2, <1>5, SameEntry, MarkFences
<1>7. /\ JournalGoes(k) /\ latched' \in BOOLEAN
      /\ UNCHANGED <<want, seen, permit, jobVars, restarts, historyVars>>
      /\ jobs[k].known <=> jobs'[k].known
      /\ StartLogged(k)' <=> StartLogged(k)
  BY <1>2, <1>3 DEF FinishGoes
<1> HIDE DEF k
<1>8. ControlGoes(c)
  BY <1>1, <1>2, <1>4, <1>6, <1>7, ControlFrame DEF ControlGoes, jobVars, historyVars, k
<1> QED
  BY <1>8, ControlGoesKeeps

LEMMA ControllerKeeps ==
    ASSUME JobInv, NEW c \in Controller, ControllerStep(c)
    PROVE  JobInv'
  BY ControlLooks, AcceptControlKeeps, CommitControlKeeps, EffectKeeps, RecordControlKeeps,
     FinishControlKeeps DEF ControllerStep

\* A step of the dispatcher of job k, or of its process.
DispatcherGoes(k) ==
    /\ UNCHANGED <<pc, want, seen, permit, spawned, applied, restarts>> /\ latched' \in BOOLEAN
    /\ \E d \in Dispatch : EntryGoes(k, d)
    /\ JournalGoes(k) /\ LiveGoes(k)
    /\ jobs'[k].known <=> jobs[k].known
    /\ StartLogged(k) => StartLogged(k)'
    /\ StartLogged(k)' => StartLogged(k) \/ jobs[k].known

LEMMA DispatcherGoesKeeps ==
    ASSUME JobInv, NEW k \in Key, DispatcherGoes(k), Respects(k),
           dispatcher'[k] \in Ending => dispatcher[k] \in Ending \/ LifecycleFree(k),
           entry'[k].dispatch = entry[k].dispatch \/ dispatcher[k] \in Ending,
           JobOwns(k)', Reached(k)',
           EntryOwned(k)' \/ (/\ k \in running' <=> k \in running
                              /\ EntryKept(k) \/ (EntryFenced(k) /\ entry[k].dispatch = "running"))
    PROVE  JobInv'
<1>1. JobTypes /\ OneLifecycle(k)
  BY DEF JobInv
<1>2. OthersGo(k)
  <2>1. CountsGo(k)
    BY <1>1 DEF DispatcherGoes, CountsGo, JobTypes
  <2> QED
    BY <1>1, <2>1 DEF DispatcherGoes, OthersGo, JobTypes
<1>3. \A c \in ControllerOf(k) : pc'[c] = pc[c] /\ c \in Controller /\ KeyOf[c] = k /\ ControlOK(c)
  BY ThreadFacts DEF DispatcherGoes, JobInv
<1>4. OneLifecycle(k)'
  <2>1. \A c \in ControllerOf(k) : pc[c] \in Controls => dispatcher'[k] \notin Ending
    <3>1. LifecycleFree(k) => \A c \in ControllerOf(k) : pc[c] \notin Controls
      BY DEF LifecycleFree, Controls
    <3> QED
      BY <1>1, <3>1 DEF OneLifecycle
  <2> QED
    BY <1>1, <1>3, <2>1 DEF OneLifecycle, ControllerOf
<1>5. \A c \in ControllerOf(k) : ControlOK(c)'
  BY <1>1, <1>3 DEF ControlOK, OneLifecycle, Controls
<1>6. EntryOwned(k)'
  BY <1>2, OwnedStill
<1> QED
  BY <1>2, <1>4, <1>5, <1>6, OthersStepKeeps

LEMMA DispatcherFrame ==
    ASSUME JobInv, NEW k \in Key
    PROVE  /\ UNCHANGED jobRegistryVars => EntryKept(k)
           /\ UNCHANGED <<ops, jobs, disk>> /\ (ObservationKept \/ ObservationLost \/ UNCHANGED <<store, latched>>) =>
                 /\ JournalGoes(k) /\ latched' \in BOOLEAN
                 /\ jobs'[k].known <=> jobs[k].known
                 /\ StartLogged(k)' <=> StartLogged(k)
           /\ EntryKept(k) \/ EntryFenced(k) =>
                 /\ \E d \in Dispatch : EntryGoes(k, d)
                 /\ entry'[k].dispatch = entry[k].dispatch /\ entry'[k].request = entry[k].request
                 /\ entry[k].uncertain => entry'[k].uncertain
           /\ JobTypes /\ JobOK(k)
<1>1. JobTypes /\ JobOK(k)
  BY DEF JobInv
<1>2. UNCHANGED jobRegistryVars => EntryKept(k)
  BY <1>1, SameEntry
<1>3. ASSUME UNCHANGED <<ops, jobs, disk>>, ObservationKept \/ ObservationLost \/ UNCHANGED <<store, latched>>
      PROVE  /\ JournalGoes(k) /\ latched' \in BOOLEAN
             /\ jobs'[k].known <=> jobs[k].known
             /\ StartLogged(k)' <=> StartLogged(k)
  <2>1. (ObservationKept \/ ObservationLost) => JournalGoes(k) /\ latched' \in BOOLEAN
    BY <1>1, <1>3, ObservationGoes
  <2>2. UNCHANGED <<store, latched>> => JournalGoes(k) /\ latched' \in BOOLEAN
    BY <1>1, <1>3 DEF JournalGoes, JobTypes
  <2> QED
    BY <1>3, <2>1, <2>2 DEF StartLogged
<1>4. EntryKept(k) \/ EntryFenced(k) =>
                 /\ \E d \in Dispatch : EntryGoes(k, d)
                 /\ entry'[k].dispatch = entry[k].dispatch /\ entry'[k].request = entry[k].request
                 /\ entry[k].uncertain => entry'[k].uncertain
  BY <1>1, EntryFacts DEF EntryKept, EntryFenced, EntryGoes
<1> QED
  BY <1>1, <1>2, <1>3, <1>4

\* Output, InputFailed and ReaderFailed, the exit of the process, an attachment.
LEMMA EventKeeps ==
    ASSUME JobInv, NEW k \in Key,
           \/ Output(k) \/ ProcessFault(k) \/ ProcessExits(k)
           \/ \E a \in Attachment : AttachJob(k, a)
    PROVE  JobInv'
<1>1. JobTypes /\ JobOK(k)
  BY DispatcherFrame
<1>2. /\ UNCHANGED <<ops, jobs, disk, callVars, running, gate, dispatcher, restarts, historyVars>>
      /\ ObservationKept \/ ObservationLost \/ UNCHANGED <<store, latched>>
  BY DEF Output, ProcessFault, ProcessExits, AttachJob, jobJournalVars, jobVars
<1>3. EntryKept(k) \/ (EntryFenced(k) /\ entry[k].dispatch = "running")
  <2>1. dispatcher[k] = "run" => entry[k].dispatch = "running"
    BY <1>1 DEF JobOK, JobOwns
  <2>2. CASE Output(k)
    BY <1>1, <2>1, <2>2, LiveKeeps, MarkFences DEF Output
  <2>3. CASE ProcessFault(k) \/ ProcessExits(k)
    BY <1>1, <2>3, SameEntry DEF ProcessFault, ProcessExits
  <2>4. CASE \E a \in Attachment : AttachJob(k, a)
    BY <1>1, <2>4, LiveKeeps DEF AttachJob
  <2> QED
    BY <2>2, <2>3, <2>4
<1>4. /\ process' \in [Key -> {"none", "live", "dying", "exited"}]
      /\ \A j \in Key \ {k} : process'[j] = process[j]
      /\ process'[k] = "live" => process[k] = "live"
      /\ process[k] = "exited" => process'[k] = "exited"
  <2>1. CASE process' = [process EXCEPT ![k] = "exited"]
    BY <1>1, <2>1 DEF JobTypes
  <2>2. CASE Kill(k) \/ UNCHANGED process
    BY <1>1, <2>2, KillFacts
  <2> QED
    BY <2>1, <2>2 DEF Output, ProcessFault, ProcessExits, AttachJob, jobVars
<1>5. /\ \E d \in Dispatch : EntryGoes(k, d)
      /\ entry'[k].dispatch = entry[k].dispatch /\ entry'[k].request = entry[k].request
      /\ entry[k].uncertain => entry'[k].uncertain
  BY <1>3, DispatcherFrame
<1>6. LiveGoes(k)
  BY <1>1, <1>2, <1>4 DEF LiveGoes, JobTypes
<1>7. DispatcherGoes(k)
  <2>1. /\ JournalGoes(k) /\ latched' \in BOOLEAN
        /\ jobs'[k].known <=> jobs[k].known
        /\ StartLogged(k)' <=> StartLogged(k)
    BY <1>2, DispatcherFrame
  <2> QED
    BY <1>2, <1>5, <1>6, <2>1 DEF DispatcherGoes, callVars, historyVars
<1>8. Respects(k)
  BY <1>2, <1>3 DEF Respects
<1>9. JobOwns(k)'
  BY <1>1, <1>2, <1>5 DEF JobOK, JobOwns
<1>10. Reached(k)'
  BY <1>1, <1>2, <1>4 DEF JobOK, Reached, callVars
<1> QED
  BY <1>2, <1>3, <1>5, <1>7, <1>8, <1>9, <1>10, DispatcherGoesKeeps

LEMMA DispatcherMoves ==
    ASSUME JobTypes, NEW k \in Key, NEW from, NEW to \in DispatcherPoint, DispatcherAt(k, from, to)
    PROVE  /\ dispatcher' \in [Key -> DispatcherPoint]
           /\ \A j \in Key \ {k} : dispatcher'[j] = dispatcher[j]
           /\ dispatcher[k] = from /\ dispatcher'[k] = to
  BY DEF DispatcherAt, JobTypes

LEMMA PointFacts ==
    /\ {"lock", "complete", "append", "commit", "remove", "drop", "gone"} \subseteq DispatcherPoint
    /\ Ending = {"complete", "append", "commit", "remove"}
  BY DEF DispatcherPoint, Ending

\* The exit is observed, and the lifecycle mutex taken.
LEMMA ExitKeeps ==
    ASSUME JobInv, NEW k \in Key, ObserveExit(k) \/ LockTerminal(k)
    PROVE  JobInv'
<1>1. JobTypes /\ JobOK(k)
  BY DispatcherFrame
<1>2. /\ UNCHANGED <<jobRegistryVars, ops, jobs, disk, callVars, running, process, restarts, historyVars>>
      /\ UNCHANGED <<store, latched>>
  BY DEF ObserveExit, LockTerminal, jobJournalVars
<1>3. /\ dispatcher' \in [Key -> DispatcherPoint] /\ (\A j \in Key \ {k} : dispatcher'[j] = dispatcher[j])
      /\ \/ dispatcher[k] = "run" /\ dispatcher'[k] = "lock" /\ process[k] = "exited"
         \/ dispatcher[k] = "lock" /\ dispatcher'[k] = "complete" /\ LifecycleFree(k)
  BY <1>1, DispatcherMoves, PointFacts DEF ObserveExit, LockTerminal
<1>4. gate' \in [Key -> {"pending", "ready", "failed", "terminal", None}]
  <2>1. \/ gate' = [gate EXCEPT ![k] = IF @ = "pending" THEN "terminal" ELSE @]
        \/ gate' = gate
    BY DEF ObserveExit, LockTerminal
  <2> QED
    BY <1>1, <2>1, GateMoves DEF JobTypes
<1>5. LiveGoes(k)
  BY <1>1, <1>2, <1>3, <1>4 DEF LiveGoes, JobTypes
<1>6. /\ EntryKept(k) /\ entry' = entry /\ \E d \in Dispatch : EntryGoes(k, d)
  BY <1>2, DispatcherFrame DEF jobRegistryVars
<1>7. DispatcherGoes(k)
  <2>1. /\ JournalGoes(k) /\ latched' \in BOOLEAN
        /\ jobs'[k].known <=> jobs[k].known
        /\ StartLogged(k)' <=> StartLogged(k)
    BY <1>2, DispatcherFrame
  <2> QED
    BY <1>2, <1>5, <1>6, <2>1 DEF DispatcherGoes, callVars, historyVars
<1>8. Respects(k)
  BY <1>3, <1>6 DEF Respects
<1>9. JobOwns(k)'
  BY <1>1, <1>2, <1>3, <1>6 DEF JobOK, JobOwns
<1>10. Reached(k)'
  BY <1>1, <1>2, <1>3, PointFacts DEF JobOK, Reached, callVars
<1> QED
  BY <1>2, <1>3, <1>6, <1>7, <1>8, <1>9, <1>10, PointFacts, DispatcherGoesKeeps

LEMMA CompleteJobKeeps ==
    ASSUME JobInv, NEW k \in Key, CompleteJob(k)
    PROVE  JobInv'
<1>1. JobTypes /\ JobOK(k)
  BY DispatcherFrame
<1>2. /\ UNCHANGED <<ops, jobs, disk, callVars, running, gate, process, restarts, historyVars>>
      /\ ObservationLost \/ UNCHANGED <<store, latched>>
      /\ Complete(k) /\ entry[k].dispatch = "running"
  BY DEF CompleteJob, Complete, Completable
<1>3. /\ dispatcher' \in [Key -> DispatcherPoint] /\ (\A j \in Key \ {k} : dispatcher'[j] = dispatcher[j])
      /\ dispatcher[k] = "complete" /\ dispatcher'[k] = "append"
  BY <1>1, DispatcherMoves, PointFacts DEF CompleteJob
<1>4. /\ EntryGoes(k, "terminal") /\ entry'[k].dispatch = "terminal" /\ entry'[k].request = entry[k].request
      /\ "terminal" \in Dispatch
  BY <1>1, <1>2, CompleteFacts DEF EntryGoes, Dispatch
<1>5. LiveGoes(k)
  BY <1>1, <1>2, <1>3 DEF LiveGoes, JobTypes
<1>6. DispatcherGoes(k)
  <2>1. /\ JournalGoes(k) /\ latched' \in BOOLEAN
        /\ jobs'[k].known <=> jobs[k].known
        /\ StartLogged(k)' <=> StartLogged(k)
    BY <1>2, DispatcherFrame
  <2> QED
    BY <1>2, <1>4, <1>5, <2>1 DEF DispatcherGoes, callVars, historyVars
<1>7. Respects(k)
  BY <1>2, <1>3, <1>4 DEF Respects
<1>8. JobOwns(k)'
  BY <1>1, <1>2, <1>3, <1>4 DEF JobOK, JobOwns
<1>9. Reached(k)'
  BY <1>1, <1>2, <1>3, PointFacts DEF JobOK, Reached, callVars
<1>10. EntryOwned(k)'
  BY <1>4 DEF EntryOwned
<1> QED
  BY <1>3, <1>6, <1>7, <1>8, <1>9, <1>10, PointFacts, DispatcherGoesKeeps

\* The job's terminal reaches the journal, or the latch.
LEMMA TerminalGoes ==
    ASSUME JobTypes, NEW k \in Key, jobs' = [jobs EXCEPT ![k].terminal = TRUE]
    PROVE  /\ jobs' \in [Key -> JobState] /\ (\A j \in Key \ {k} : jobs'[j] = jobs[j])
           /\ jobs'[k].known <=> jobs[k].known
<1> DEFINE f == [jobs[k] EXCEPT !.terminal = TRUE]
<1>1. jobs \in [Key -> JobState] /\ jobs[k] \in JobState /\ jobs' = [jobs EXCEPT ![k] = f]
  BY DEF JobTypes
<1>2. f \in JobState /\ f.known = jobs[k].known
  BY <1>1 DEF JobState
<1> HIDE DEF f
<1> QED
  BY <1>1, <1>2

LEMMA TerminalKeeps ==
    ASSUME JobInv, NEW k \in Key, AppendTerminal(k) \/ CommitJobTerminal(k)
    PROVE  JobInv'
<1>1. JobTypes /\ JobOK(k) /\ latched' \in BOOLEAN
  BY DispatcherFrame DEF AppendTerminal, CommitJobTerminal, JobTypes
<1>2. UNCHANGED <<jobRegistryVars, callVars, running, gate, process, restarts, historyVars>>
  BY DEF AppendTerminal, CommitJobTerminal
<1>3. /\ dispatcher' \in [Key -> DispatcherPoint] /\ (\A j \in Key \ {k} : dispatcher'[j] = dispatcher[j])
      /\ dispatcher[k] \in {"append", "commit"} /\ dispatcher'[k] \in {"commit", "remove"}
  BY <1>1, DispatcherMoves, PointFacts DEF AppendTerminal, CommitJobTerminal
<1>4. /\ EntryKept(k) /\ entry' = entry /\ \E d \in Dispatch : EntryGoes(k, d)
  BY <1>2, DispatcherFrame DEF jobRegistryVars
<1>5. entry[k].dispatch = "terminal" /\ entry[k].request # None /\ jobs[k].known
  BY <1>1, <1>3 DEF JobOK, JobOwns, StartKnown
<1>6. JobTerminalRecord(entry[k].request) \in Record
  <2>1. entry[k].request \in Request
    BY <1>1, <1>5, EntryFacts DEF Entry
  <2> QED
    BY <2>1 DEF JobTerminalRecord, Record
<1>7. /\ JournalGoes(k) /\ (jobs'[k].known <=> jobs[k].known)
      /\ StartLogged(k) => StartLogged(k)'
  <2>1. CASE AppendSucceeds(k, JobTerminalRecord(entry[k].request))
    BY <1>1, <1>6, <2>1, AppendGoes
  <2>2. CASE /\ store = "open" /\ AppendFails(k, JobTerminalRecord(entry[k].request))
             /\ UNCHANGED <<ops, jobs>>
    BY <1>1, <1>6, <2>2, AppendGoes
  <2>3. CASE UNCHANGED jobJournalVars
    BY <1>1, <2>3, SameGoes DEF jobJournalVars, StartLogged
  <2>4. CASE jobs' = [jobs EXCEPT ![k].terminal = TRUE] /\ UNCHANGED <<store, ops, disk>>
    BY <1>1, <2>4, TerminalGoes DEF JournalGoes, JobTypes, StartLogged
  <2> QED
    BY <2>1, <2>2, <2>3, <2>4 DEF AppendTerminal, CommitJobTerminal, jobJournalVars
<1>8. LiveGoes(k)
  BY <1>1, <1>2, <1>3 DEF LiveGoes, JobTypes
<1>9. DispatcherGoes(k)
  BY <1>1, <1>2, <1>4, <1>5, <1>7, <1>8 DEF DispatcherGoes, callVars, historyVars
<1>10. Respects(k)
  BY <1>3, <1>4 DEF Respects
<1>11. JobOwns(k)'
  BY <1>1, <1>2, <1>3, <1>4 DEF JobOK, JobOwns
<1>12. Reached(k)'
  BY <1>1, <1>2, <1>3, PointFacts DEF JobOK, Reached, callVars
<1> QED
  BY <1>2, <1>3, <1>4, <1>9, <1>10, <1>11, <1>12, PointFacts, DispatcherGoesKeeps

\* The dispatcher lets the job go.
LEMMA LetGoKeeps ==
    ASSUME JobInv, NEW k \in Key, RemoveJob(k) \/ DropJob(k)
    PROVE  JobInv'
<1>1. JobTypes /\ JobOK(k)
  BY DispatcherFrame
<1>2. /\ UNCHANGED <<jobRegistryVars, ops, jobs, disk, callVars, gate, process, restarts, historyVars>>
      /\ UNCHANGED <<store, latched>> /\ running' = running \ {k}
  BY DEF RemoveJob, DropJob, jobJournalVars
<1>3. /\ dispatcher' \in [Key -> DispatcherPoint] /\ (\A j \in Key \ {k} : dispatcher'[j] = dispatcher[j])
      /\ dispatcher[k] \in {"remove", "drop"} /\ dispatcher'[k] = "gone"
  BY <1>1, DispatcherMoves, PointFacts DEF RemoveJob, DropJob
<1>4. LiveGoes(k)
  BY <1>1, <1>2, <1>3 DEF LiveGoes, JobTypes
<1>5. /\ EntryKept(k) /\ entry' = entry /\ \E d \in Dispatch : EntryGoes(k, d)
  BY <1>2, DispatcherFrame DEF jobRegistryVars
<1>6. DispatcherGoes(k)
  <2>1. /\ JournalGoes(k) /\ latched' \in BOOLEAN
        /\ jobs'[k].known <=> jobs[k].known
        /\ StartLogged(k)' <=> StartLogged(k)
    BY <1>2, DispatcherFrame
  <2> QED
    BY <1>2, <1>4, <1>5, <2>1 DEF DispatcherGoes, callVars, historyVars
<1>7. Respects(k)
  BY <1>3, <1>5 DEF Respects
<1>8. JobOwns(k)'
  BY <1>1, <1>2, <1>3, <1>5 DEF JobOK, JobOwns
<1>9. EntryOwned(k)'
  BY <1>1, <1>3, <1>5 DEF JobOK, JobOwns, EntryOwned
<1>10. Reached(k)'
  BY <1>1, <1>2, <1>3, PointFacts DEF JobOK, Reached, callVars
<1> QED
  BY <1>3, <1>5, <1>6, <1>7, <1>8, <1>9, <1>10, PointFacts, DispatcherGoesKeeps

LEMMA ChannelClosesKeeps ==
    ASSUME JobInv, NEW k \in Key, ChannelCloses(k)
    PROVE  JobInv'
<1>1. JobTypes /\ JobOK(k)
  BY DispatcherFrame
<1>2. /\ UNCHANGED <<ops, jobs, disk, callVars, running, restarts, historyVars>>
      /\ ObservationKept \/ ObservationLost
      /\ FailGate(k) /\ Kill(k) /\ MarkRestartUncertain(k)
  BY DEF ChannelCloses
<1>3. /\ dispatcher' \in [Key -> DispatcherPoint] /\ (\A j \in Key \ {k} : dispatcher'[j] = dispatcher[j])
      /\ dispatcher[k] = "run" /\ dispatcher'[k] = "drop"
  BY <1>1, DispatcherMoves, PointFacts DEF ChannelCloses
<1>4. /\ process' \in [Key -> {"none", "live", "dying", "exited"}]
      /\ \A j \in Key \ {k} : process'[j] = process[j]
      /\ ~SignalsFail => process'[k] # "live"
  BY <1>1, <1>2, KillFacts
<1>5. gate' \in [Key -> {"pending", "ready", "failed", "terminal", None}]
  BY <1>1, <1>2, GateMoves DEF FailGate
<1>6. LiveGoes(k)
  BY <1>1, <1>2, <1>3, <1>4, <1>5 DEF LiveGoes, JobTypes
<1>7. entry[k].dispatch = "running" /\ EntryFenced(k)
  BY <1>1, <1>2, <1>3, MarkFences DEF JobOK, JobOwns
<1>8. /\ \E d \in Dispatch : EntryGoes(k, d)
      /\ entry'[k].dispatch = "running" /\ entry'[k].request = entry[k].request /\ entry'[k].uncertain
  BY <1>7, DispatcherFrame DEF EntryFenced
<1>9. DispatcherGoes(k)
  <2>1. /\ JournalGoes(k) /\ latched' \in BOOLEAN
        /\ jobs'[k].known <=> jobs[k].known
        /\ StartLogged(k)' <=> StartLogged(k)
    BY <1>2, DispatcherFrame
  <2> QED
    BY <1>2, <1>6, <1>8, <2>1 DEF DispatcherGoes, callVars, historyVars
<1>10. Respects(k)
  BY <1>3, <1>7 DEF Respects
<1>11. JobOwns(k)'
  BY <1>1, <1>2, <1>3, <1>7, <1>8 DEF JobOK, JobOwns
<1>12. Reached(k)'
  BY <1>3, <1>4, PointFacts DEF Reached
<1> QED
  BY <1>2, <1>3, <1>7, <1>8, <1>9, <1>10, <1>11, <1>12, PointFacts, DispatcherGoesKeeps

(***************************************************************************)
(* Restart, and the whole                                                  *)
(***************************************************************************)
LEMMA RecoveredTypes ==
    ASSUME NEW log \in Seq(Record)
    PROVE  /\ RecoveredJob(log) \in JobState
           /\ RecoveredJob(log).known <=>
                 \E i \in DOMAIN log : log[i].start \/ log[i].record = "job.terminal"
           /\ \A o \in Operation : RecoveredOperation(log, o) \in OperationState
<1>1. \A i \in DOMAIN log : /\ log[i] \in Record /\ log[i].request \in Request
                            /\ log[i].content \in Content \cup {None}
                            /\ log[i].result \in Outcome \cup {None}
  <2>1. \A i \in DOMAIN log : log[i] \in Record
    OBVIOUS
  <2> QED
    BY <2>1 DEF Record
<1>2. /\ RecoveredJob(log) \in JobState
      /\ RecoveredJob(log).known <=>
            \E i \in DOMAIN log : log[i].start \/ log[i].record = "job.terminal"
  <2> DEFINE mine == {i \in DOMAIN log : log[i].start \/ log[i].record = "job.terminal"}
             ends == {i \in mine : log[i].record = "operation.terminal"}
             res == IF ends = {} THEN None ELSE log[CHOOSE i \in ends : TRUE].result
             req == log[CHOOSE i \in mine : TRUE].request
             term == Logged(log, "job.terminal", None)
             job == [known |-> TRUE, request |-> req, startResult |-> res, terminal |-> term]
  <2>1. RecoveredJob(log) = IF mine = {} THEN NoJob ELSE job
    BY DEF RecoveredJob
  <2>2. CASE mine = {}
    <3>1. RecoveredJob(log) = NoJob /\ NoJob \in JobState /\ ~NoJob.known
      BY <2>1, <2>2 DEF NoJob, JobState
    <3> QED
      BY <2>2, <3>1
  <2>3. CASE mine # {}
    <3>1. (CHOOSE i \in mine : TRUE) \in mine /\ req \in Request
      <4>1. (CHOOSE i \in mine : TRUE) \in mine
        BY <2>3
      <4> QED
        BY <1>1, <4>1
    <3>2. res \in Outcome \cup {None}
      <4>1. CASE ends = {}
        BY <4>1
      <4>2. CASE ends # {}
        <5>1. (CHOOSE i \in ends : TRUE) \in ends
          BY <4>2
        <5> QED
          BY <1>1, <4>2, <5>1
      <4> QED
        BY <4>1, <4>2
    <3>3. term \in BOOLEAN
      BY DEF Logged
    <3> HIDE DEF req, res, term
    <3>4. job \in JobState /\ job.known
      BY <3>1, <3>2, <3>3 DEF JobState
    <3>5. RecoveredJob(log) = job
      BY <2>1, <2>3
    <3> QED
      BY <2>3, <3>4, <3>5
  <2> QED
    BY <2>2, <2>3
<1>3. ASSUME NEW o \in Operation PROVE RecoveredOperation(log, o) \in OperationState
  <2>1. \A rec : Logged(log, rec, o) => RecordOf(log, rec, o) \in Record
    <3>1. ASSUME NEW rec, Logged(log, rec, o) PROVE RecordOf(log, rec, o) \in Record
      <4> DEFINE i == CHOOSE i \in DOMAIN log : log[i].record = rec /\ log[i].op = o
      <4>1. i \in DOMAIN log
        BY <3>1 DEF Logged
      <4> QED
        BY <1>1, <4>1 DEF RecordOf
    <3> QED
      BY <3>1
  <2>2. CASE Logged(log, "operation.accepted", o)
    <3> DEFINE a == RecordOf(log, "operation.accepted", o)
               w == IF Logged(log, "operation.terminal", o)
                    THEN RecordOf(log, "operation.terminal", o).result ELSE None
               op == [known |-> TRUE, request |-> a.request, content |-> a.content,
                      terminal |-> w, preexisting |-> TRUE]
    <3>1. a.request \in Request \cup {None} /\ a.content \in Content \cup {None}
      BY <2>1, <2>2 DEF Record
    <3>2. w \in Outcome \cup {None}
      BY <2>1 DEF Record
    <3>3. RecoveredOperation(log, o) = op
      BY <2>2 DEF RecoveredOperation
    <3> HIDE DEF a, w
    <3> QED
      BY <3>1, <3>2, <3>3 DEF OperationState
  <2>3. CASE ~Logged(log, "operation.accepted", o)
    BY <2>3 DEF RecoveredOperation, NoOperation, OperationState
  <2> QED
    BY <2>2, <2>3
<1> QED
  BY <1>2, <1>3

LEMMA EmptyTypes ==
    /\ NoOperation \in OperationState /\ NoJob \in JobState /\ ~NoJob.known
  BY DEF NoOperation, NoJob, OperationState, JobState

LEMMA ReopenGoes ==
    ASSUME JobTypes, NEW opened \in BOOLEAN, Reopen(opened)
    PROVE  /\ store' \in {"open", "lost", "none"} /\ disk' = disk /\ (Configured' <=> Configured)
           /\ ops' \in [Key -> [Operation -> OperationState]] /\ jobs' \in [Key -> JobState]
           /\ \A k \in Key : store' = "open" /\ StartLogged(k) => jobs'[k].known
<1>1. store' \in {"open", "lost", "none"} /\ disk' = disk /\ (Configured' <=> Configured)
  BY DEF Reopen, Configured
<1>2. CASE Configured /\ opened
  <2>1. /\ ops' = [k \in Key |-> [o \in Operation |-> RecoveredOperation(disk[k], o)]]
        /\ jobs' = [k \in Key |-> RecoveredJob(disk[k])]
    BY <1>2 DEF Reopen
  <2>2. \A k \in Key : /\ RecoveredJob(disk[k]) \in JobState
                       /\ RecoveredJob(disk[k]).known <=> StartLogged(k)
                       /\ \A o \in Operation : RecoveredOperation(disk[k], o) \in OperationState
    BY RecoveredTypes DEF JobTypes, StartLogged
  <2>3. ops' \in [Key -> [Operation -> OperationState]]
    BY <2>1, <2>2
  <2>4. jobs' \in [Key -> JobState] /\ \A k \in Key : StartLogged(k) => jobs'[k].known
    BY <2>1, <2>2
  <2> QED
    BY <1>1, <2>3, <2>4
<1>3. CASE ~(Configured /\ opened)
  <2>1. /\ ops' = [k \in Key |-> [o \in Operation |-> NoOperation]]
        /\ jobs' = [k \in Key |-> NoJob] /\ store' # "open"
    BY <1>3 DEF Reopen
  <2> QED
    BY <1>1, <2>1, EmptyTypes
<1> QED
  BY <1>2, <1>3

LEMMA RestartKeeps ==
    ASSUME JobInv, NEW opened \in BOOLEAN, Restart(opened)
    PROVE  JobInv'
<1>1. JobTypes /\ restarts \in Nat /\ restarts' = restarts + 1 /\ UNCHANGED <<spawned, applied>>
  BY DEF JobInv, JobTypes, Restart, historyVars
<1>2. /\ store' \in {"open", "lost", "none"} /\ disk' = disk /\ (Configured' <=> Configured)
      /\ ops' \in [Key -> [Operation -> OperationState]] /\ jobs' \in [Key -> JobState]
      /\ \A k \in Key : store' = "open" /\ StartLogged(k) => jobs'[k].known
  BY <1>1, ReopenGoes DEF Restart
<1>3. /\ entry' = [k \in Key |-> Absent] /\ nextGen' = 1
      /\ pc' = [t \in Thread |-> "idle"] /\ want' = [t \in Thread |-> None]
      /\ seen' = [s \in Starter |-> None] /\ permit' = [s \in Starter |-> FALSE]
      /\ running' = {} /\ gate' = [k \in Key |-> None] /\ dispatcher' = [k \in Key |-> "none"]
      /\ process' = [k \in Key |-> IF process[k] = "none" THEN "none" ELSE "exited"]
      /\ latched' = FALSE
  BY DEF Restart
<1>4. /\ \A t \in Thread : pc'[t] = "idle"
      /\ \A k \in Key : /\ entry'[k] = Absent /\ dispatcher'[k] = "none" /\ k \notin running'
                        /\ process'[k] # "live"
  BY <1>3
<1>5. JobTypes'
  <2>1. entry' \in [Key -> Entry] /\ nextGen' \in 0..GenerationMax
    BY <1>3, AbsentFacts, RegistryAssumption
  <2>2. /\ pc' \in [Thread -> StarterPoint \cup ControllerPoint]
        /\ (\A s \in Starter : pc'[s] \in StarterPoint) /\ (\A c \in Controller : pc'[c] \in ControllerPoint)
    BY <1>3, ThreadFacts DEF StarterPoint, ControllerPoint
  <2>3. /\ want' \in [Thread -> Outcome \cup {None}] /\ permit' \in [Starter -> BOOLEAN]
        /\ seen' \in [Starter -> {"Durable", "Unavailable", "MemoryOnly", None}]
        /\ running' \in SUBSET Key /\ gate' \in [Key -> {"pending", "ready", "failed", "terminal", None}]
        /\ dispatcher' \in [Key -> DispatcherPoint]
        /\ process' \in [Key -> {"none", "live", "dying", "exited"}]
        /\ latched' \in BOOLEAN
    BY <1>3 DEF DispatcherPoint
  <2>4. /\ disk' \in [Key -> Seq(Record)] /\ restarts' \in Nat
        /\ spawned' \in [Key -> Nat] /\ applied' \in [Key -> [Operation -> Nat]]
    BY <1>1, <1>2 DEF JobTypes
  <2> QED
    BY <1>2, <2>1, <2>2, <2>3, <2>4 DEF JobTypes
<1>6. ASSUME NEW k \in Key PROVE OneStart(k)' /\ OneLifecycle(k)'
  BY <1>4, ThreadFacts DEF OneStart, OneLifecycle, AtRest, Controls, StarterOf, ControllerOf
<1>7. ASSUME NEW k \in Key PROVE JobOK(k)'
  <2>0. /\ JobOK(k) /\ spawned[k] \in Nat
        /\ entry'[k].dispatch = "absent" /\ ~entry'[k].uncertain
        /\ StartLogged(k)' <=> StartLogged(k)
    BY <1>1, <1>2, <1>4, AbsentFacts DEF JobInv, JobTypes, StartLogged
  <2>1. JobOwns(k)'
    BY <1>4, <2>0 DEF JobOwns
  <2>2. EntryOwned(k)'
    BY <2>0 DEF EntryOwned
  <2>3. StartKnown(k)'
    BY <1>2, <2>0 DEF StartKnown
  <2>4. SpawnsCounted(k)'
    <3>1. ~Configured => spawned[k] <= restarts + 1
      BY <1>1, <2>0 DEF JobOK, SpawnsCounted
    <3>2. Configured => spawned[k] <= 1 /\ (spawned[k] = 1 => StartLogged(k))
      BY <2>0 DEF JobOK, SpawnsCounted
    <3> QED
      BY <1>1, <1>2, <2>0, <3>1, <3>2 DEF SpawnsCounted
  <2>5. Reached(k)'
    BY <1>4 DEF Reached, Ending
  <2> QED
    BY <2>1, <2>2, <2>3, <2>4, <2>5 DEF JobOK
<1>8. \A s \in Starter : StartOK(s)'
  BY <1>4, ThreadFacts, RestOKNext
<1>9. \A c \in Controller : ControlOK(c)'
  BY <1>4, ThreadFacts DEF ControlOK, Controls
<1> QED
  BY <1>5, <1>6, <1>7, <1>8, <1>9 DEF JobInv

LEMMA InitInv == ManagerInit => JobInv
<1> SUFFICES ASSUME ManagerInit PROVE JobInv
  OBVIOUS
<1>1. /\ entry = [k \in Key |-> Absent] /\ nextGen \in {1, GenerationMax} /\ store \in Journals
      /\ ops = [k \in Key |-> [o \in Operation |-> NoOperation]] /\ jobs = [k \in Key |-> NoJob]
      /\ disk = [k \in Key |-> <<>>]
      /\ pc = [t \in Thread |-> "idle"] /\ want = [t \in Thread |-> None]
      /\ seen = [s \in Starter |-> None] /\ permit = [s \in Starter |-> FALSE]
      /\ running = {} /\ gate = [k \in Key |-> None] /\ dispatcher = [k \in Key |-> "none"]
      /\ process = [k \in Key |-> "none"] /\ latched = FALSE /\ restarts = 0
      /\ spawned = [k \in Key |-> 0] /\ applied = [k \in Key |-> [o \in Operation |-> 0]]
  BY DEF ManagerInit, JobRegistryInit, JobJournalInit
<1>2. /\ \A t \in Thread : pc[t] = "idle"
      /\ \A k \in Key : /\ entry[k] = Absent /\ dispatcher[k] = "none" /\ k \notin running
                        /\ process[k] # "live" /\ spawned[k] = 0 /\ jobs[k] = NoJob /\ disk[k] = <<>>
  BY <1>1
<1>3. JobTypes
  <2>1. entry \in [Key -> Entry] /\ nextGen \in 0..GenerationMax
    BY <1>1, AbsentFacts, RegistryAssumption
  <2>2. /\ pc \in [Thread -> StarterPoint \cup ControllerPoint]
        /\ (\A s \in Starter : pc[s] \in StarterPoint) /\ (\A c \in Controller : pc[c] \in ControllerPoint)
    BY <1>1, ThreadFacts DEF StarterPoint, ControllerPoint
  <2>3. /\ want \in [Thread -> Outcome \cup {None}] /\ permit \in [Starter -> BOOLEAN]
        /\ seen \in [Starter -> {"Durable", "Unavailable", "MemoryOnly", None}]
        /\ running \in SUBSET Key /\ gate \in [Key -> {"pending", "ready", "failed", "terminal", None}]
        /\ dispatcher \in [Key -> DispatcherPoint]
        /\ process \in [Key -> {"none", "live", "dying", "exited"}]
        /\ latched \in BOOLEAN
    BY <1>1 DEF DispatcherPoint
  <2>4. /\ ops \in [Key -> [Operation -> OperationState]] /\ jobs \in [Key -> JobState]
        /\ disk \in [Key -> Seq(Record)] /\ restarts \in Nat
        /\ spawned \in [Key -> Nat] /\ applied \in [Key -> [Operation -> Nat]]
    BY <1>1, EmptyTypes
  <2>5. store \in {"open", "lost", "none"}
    BY <1>1, JournalAssumption
  <2> QED
    BY <2>1, <2>2, <2>3, <2>4, <2>5 DEF JobTypes
<1>4. ASSUME NEW k \in Key PROVE OneStart(k) /\ OneLifecycle(k)
  BY <1>2, ThreadFacts DEF OneStart, OneLifecycle, AtRest, Controls, StarterOf, ControllerOf
<1>5. ASSUME NEW k \in Key PROVE JobOK(k)
  <2>0. entry[k].dispatch = "absent" /\ ~entry[k].uncertain /\ ~jobs[k].known /\ ~StartLogged(k)
    BY <1>2, AbsentFacts, EmptyTypes DEF StartLogged
  <2>1. JobOwns(k)
    BY <1>2, <2>0 DEF JobOwns
  <2>2. EntryOwned(k)
    BY <2>0 DEF EntryOwned
  <2>3. StartKnown(k)
    BY <2>0 DEF StartKnown
  <2>4. SpawnsCounted(k)
    BY <1>1, <1>2, <2>0 DEF SpawnsCounted
  <2>5. Reached(k)
    BY <1>2 DEF Reached, Ending
  <2> QED
    BY <2>1, <2>2, <2>3, <2>4, <2>5 DEF JobOK
<1>6. \A s \in Starter : StartOK(s)
  BY <1>2, ThreadFacts, RestOK
<1>7. \A c \in Controller : ControlOK(c)
  BY <1>2, ThreadFacts DEF ControlOK, Controls
<1> QED
  BY <1>3, <1>4, <1>5, <1>6, <1>7 DEF JobInv

LEMMA StepInv == JobInv /\ [ManagerNext]_vars => JobInv'
<1> SUFFICES ASSUME JobInv, [ManagerNext]_vars PROVE JobInv'
  OBVIOUS
<1>1. CASE \E s \in Starter : StarterStep(s)
  BY <1>1, StarterKeeps
<1>2. CASE \E c \in Controller : ControllerStep(c)
  BY <1>2, ControllerKeeps
<1>3. ASSUME NEW k \in Key, DispatcherStep(k) \/ DispatcherEvent(k) PROVE JobInv'
  BY <1>3, ExitKeeps, CompleteJobKeeps, TerminalKeeps, LetGoKeeps, ChannelClosesKeeps, EventKeeps
     DEF DispatcherStep, DispatcherEvent
<1>4. CASE SiblingFails
  <2>1. JobTypes
    BY DEF JobInv
  <2>2. /\ UNCHANGED <<entry, nextGen, ops, jobs, disk, pc, want, seen, permit, running, gate, dispatcher,
                       process, restarts, spawned, applied>>
        /\ store = "open" /\ store' = "lost" /\ latched' = TRUE
    BY <1>4 DEF SiblingFails, jobRegistryVars, callVars, jobVars, historyVars
  <2>3. JobTypes'
    BY <2>1, <2>2 DEF JobTypes
  <2>4. StoreStep /\ \A j \in Key : Same(j)
    BY <2>2 DEF StoreStep, Same
  <2> QED
    BY <2>3, <2>4, NoJobStep
<1>5. CASE \E k \in Key : ProcessExits(k) \/ \E a \in Attachment : AttachJob(k, a)
  BY <1>5, EventKeeps
<1>6. CASE \E opened \in BOOLEAN : Restart(opened)
  BY <1>6, RestartKeeps
<1>7. CASE UNCHANGED vars
  <2>1. JobTypes
    BY DEF JobInv
  <2>2. UNCHANGED <<entry, nextGen, store, ops, jobs, disk, pc, want, seen, permit, running, gate, dispatcher,
                    process, latched, restarts, spawned, applied>>
    BY <1>7 DEF vars, jobRegistryVars, jobJournalVars, callVars, jobVars, historyVars
  <2>3. JobTypes'
    BY <2>1, <2>2 DEF JobTypes
  <2>4. StoreStep /\ \A j \in Key : Same(j)
    BY <2>2 DEF StoreStep, Same
  <2> QED
    BY <2>3, <2>4, NoJobStep
<1> QED
  BY <1>1, <1>2, <1>3, <1>4, <1>5, <1>6, <1>7 DEF ManagerNext, Environment

\* JobInv is an invariant of the manager, through every interleaving, lost
\* append, failed signal and restart.
THEOREM JobInvariance == ManagerSpec => []JobInv
  BY InitInv, StepInv, PTL DEF ManagerSpec

(***************************************************************************)
(* What follows                                                            *)
(***************************************************************************)

\* At most one process is ever started for a job: over all restarts when a
\* journal is configured, and once per life of the manager without.
THEOREM JobsSpawnOnce == ManagerSpec => []SpawnedOnce
<1>1. JobInv => SpawnedOnce
  <2> SUFFICES ASSUME JobInv, NEW k \in Key
               PROVE  spawned[k] <= IF Configured THEN 1 ELSE 1 + restarts
    BY DEF SpawnedOnce
  <2>1. SpawnsCounted(k) /\ spawned[k] \in Nat /\ restarts \in Nat
    BY DEF JobInv, JobOK, JobTypes
  <2> QED
    BY <2>1 DEF SpawnsCounted
<1> QED
  BY <1>1, JobInvariance, PTL

\* However a start ended, its entry can never be claimed by a later one unless
\* somebody still owns it.
THEOREM NothingStaysClaimable == ManagerSpec => []NothingLeftClaimable
<1>1. JobInv => NothingLeftClaimable
  <2> SUFFICES ASSUME JobInv, NEW k \in Key, StartShardFree(k), k \notin running
               PROVE  entry[k].dispatch \in {"absent", "terminal"} \/ entry[k].uncertain
    BY DEF NothingLeftClaimable
  <2>1. EntryOwned(k) /\ entry[k].dispatch \in Dispatch
    BY EntryFacts DEF JobInv, JobOK
  <2>2. \A s \in StarterOf(k) : ~Doomed(s) /\ pc[s] \notin Accepting \cup {"spawn", "publish"}
    BY DEF StartShardFree, Doomed, Accepting
  <2> QED
    BY <2>1, <2>2 DEF EntryOwned, Dispatch
<1> QED
  BY <1>1, JobInvariance, PTL

\* With unjournaled effects off, ProvenNotStartedAfterRestart is only ever said
\* of a job for which no process was started.
THEOREM NoStartIsTrue ==
    ASSUME ~Allow
    PROVE  ManagerSpec => []NoFalseNoStart
<1>1. JobInv => NoFalseNoStart
  <2> SUFFICES ASSUME JobInv, NEW k \in Key, ProvenNotStarted(k) PROVE spawned[k] = 0
    BY DEF NoFalseNoStart
  <2>1. SpawnsCounted(k)
    BY DEF JobInv, JobOK
  <2> QED
    BY <2>1 DEF SpawnsCounted, ProvenNotStarted
<1> QED
  BY <1>1, JobInvariance, PTL

\* No control reaches a process whose job the registry has ended: the check and
\* the effect are under the lifecycle mutex that the dispatcher takes to end it.
THEOREM EffectsPrecedeTerminal == ManagerSpec => NoEffectAfterTerminal
<1>1. ASSUME JobInv, [ManagerNext]_vars, NEW k \in Key, applied'[k] # applied[k]
      PROVE  entry[k].dispatch = "running"
  <2>1. CASE \E c \in Controller : Effect(c)
    <3>1. PICK c \in Controller : Effect(c)
      BY <2>1
    <3>2. pc[c] = "effect" /\ pc[c] \in Controls \ {"check"}
      BY <3>1 DEF Effect, Goto, Controls
    <3>3. entry[KeyOf[c]].dispatch = "running" /\ JobTypes
      BY <1>1, <3>2, InControl
    <3>4. applied' = [applied EXCEPT ![KeyOf[c]][OperationOf[c]] = @ + 1]
      BY <3>1 DEF Effect
    <3>5. k = KeyOf[c]
      BY <1>1, <3>3, <3>4 DEF JobTypes
    <3> QED
      BY <3>3, <3>5
  <2>2. CASE ~\E c \in Controller : Effect(c)
    <3>1. CASE \E s \in Starter : StarterStep(s)
      <4>1. PICK s \in Starter : StarterStep(s)
        BY <3>1
      <4>2. CASE EnterStart(s) \/ CheckLive(s) \/ JoinLive(s) \/ CheckRecovered(s) \/ Preflight(s) \/ Admit(s)
        BY <1>1, <4>2 DEF EnterStart, CheckLive, JoinLive, CheckRecovered, Preflight, Admit, historyVars
      <4>3. CASE \/ BeginEntry(s) \/ FenceUnavailable(s) \/ AcceptStart(s) \/ CommitStart(s)
                 \/ RollbackStart(s) \/ FenceStart(s)
        BY <1>1, <4>3 DEF BeginEntry, FenceUnavailable, AcceptStart, CommitStart, RollbackStart,
          FenceStart, historyVars
      <4>4. CASE Claim(s) \/ Spawn(s) \/ Publish(s) \/ ObserveStart(s)
        BY <1>1, <4>4 DEF Claim, Spawn, Publish, ObserveStart, historyVars
      <4>5. CASE Finish(s) \/ CommitFinish(s) \/ StartDispatcher(s) \/ OpenGate(s) \/ Abort(s)
        BY <1>1, <4>5 DEF Finish, CommitFinish, StartDispatcher, OpenGate, Abort, historyVars
      <4> QED
        BY <4>1, <4>2, <4>3, <4>4, <4>5 DEF StarterStep
    <3>2. CASE \E c \in Controller : ControllerStep(c)
      BY <1>1, <2>2, <3>2 DEF ControllerStep, Lookup, WaitGate, LockLifecycle, CheckRunning, AcceptControl,
        CommitControl, RecordControl, Finish, CommitFinish, historyVars
    <3>3. CASE \E j \in Key : DispatcherStep(j) \/ DispatcherEvent(j)
      BY <1>1, <3>3 DEF DispatcherStep, DispatcherEvent, ObserveExit, LockTerminal, CompleteJob,
        AppendTerminal, CommitJobTerminal, RemoveJob, DropJob, Output, ProcessFault, ChannelCloses, historyVars
    <3>4. CASE Environment
      BY <1>1, <3>4 DEF Environment, ProcessExits, SiblingFails, AttachJob, Restart, historyVars
    <3>5. CASE UNCHANGED vars
      BY <1>1, <3>5 DEF vars, historyVars
    <3> QED
      BY <1>1, <3>1, <3>2, <3>3, <3>4, <3>5 DEF ManagerNext
  <2> QED
    BY <2>1, <2>2
<1>2. JobInv /\ [ManagerNext]_vars => [\A k \in Key : applied'[k] # applied[k] => entry[k].dispatch = "running"]_vars
  BY <1>1
<1> QED
  BY <1>2, JobInvariance, PTL DEF ManagerSpec, NoEffectAfterTerminal

(***************************************************************************)
(* Admission                                                               *)
(***************************************************************************)
Permits == {s \in Starter : permit[s]}
Alive == {k \in Key : RunningJobAlive(k)}

\* admission.active, as the code counts it, is within max_jobs.
Admission ==
    /\ IsFiniteSet(Permits) /\ IsFiniteSet(Alive)
    /\ Cardinality(Permits) + Cardinality(Alive) <= MaxJobs

Holding == {"observe", "finish", "finished", "dispatch", "ready", "abort", "fence"}

\* Nothing comes to life that was not counted.
Shrinks ==
    /\ running' \subseteq running
    /\ \A k \in Key : dispatcher'[k] \notin {"none", "gone"} =>
                         dispatcher[k] \notin {"none", "gone"} \/ k \in running
    /\ \A s \in Starter : pc'[s] \in Holding /\ ~permit'[s] => pc[s] \in Holding /\ ~permit[s]
    /\ \A c \in Controller : pc'[c] \notin AtRest => pc[c] \notin AtRest \/ KeyOf[c] \in running

LEMMA AliveParts ==
    ASSUME NEW k
    PROVE  RunningJobAlive(k) <=> \/ k \in running
                                  \/ dispatcher[k] \notin {"none", "gone"}
                                  \/ \E s \in Starter : KeyOf[s] = k /\ pc[s] \in Holding /\ ~permit[s]
                                  \/ \E c \in Controller : KeyOf[c] = k /\ pc[c] \notin AtRest
  BY DEF RunningJobAlive, Holding, AtRest, StarterOf, ControllerOf

LEMMA AlivePartsNext ==
    ASSUME NEW k
    PROVE  RunningJobAlive(k)' <=> \/ k \in running'
                                   \/ dispatcher'[k] \notin {"none", "gone"}
                                   \/ \E s \in Starter : KeyOf[s] = k /\ pc'[s] \in Holding /\ ~permit'[s]
                                   \/ \E c \in Controller : KeyOf[c] = k /\ pc'[c] \notin AtRest
  BY DEF RunningJobAlive, Holding, AtRest, StarterOf, ControllerOf

LEMMA ShrinksAlive ==
    ASSUME Shrinks
    PROVE  Alive' \subseteq Alive
<1> SUFFICES ASSUME NEW k \in Key, RunningJobAlive(k)' PROVE RunningJobAlive(k)
  BY DEF Alive
<1> QED
  BY AliveParts, AlivePartsNext DEF Shrinks

LEMMA SmallerFits ==
    ASSUME Admission, Permits' \subseteq Permits, Alive' \subseteq Alive
    PROVE  Admission'
<1>1. /\ IsFiniteSet(Permits) /\ IsFiniteSet(Alive)
      /\ Cardinality(Permits) + Cardinality(Alive) <= MaxJobs /\ MaxJobs \in Nat
  BY ManagerAssumption DEF Admission
<1>2. /\ IsFiniteSet(Permits') /\ Cardinality(Permits') <= Cardinality(Permits)
      /\ Cardinality(Permits') \in Nat /\ Cardinality(Permits) \in Nat
  BY <1>1, FS_Subset, FS_CardinalityType
<1>3. /\ IsFiniteSet(Alive') /\ Cardinality(Alive') <= Cardinality(Alive)
      /\ Cardinality(Alive') \in Nat /\ Cardinality(Alive) \in Nat
  BY <1>1, FS_Subset, FS_CardinalityType
<1>4. Cardinality(Permits') + Cardinality(Alive') <= MaxJobs
  BY <1>1, <1>2, <1>3
<1> QED
  BY <1>2, <1>3, <1>4 DEF Admission

\* admission.try_acquire takes the last permit there is, and no other.
LEMMA AdmitFits ==
    ASSUME JobInv, Admission, NEW s \in Starter, Admit(s)
    PROVE  Admission'
<1>1. JobTypes /\ s \in Thread
  BY ThreadFacts DEF JobInv
<1>2. /\ UNCHANGED <<running, dispatcher>>
      /\ pc[s] = "admit" /\ \E p \in {"begin", "done"} : pc' = [pc EXCEPT ![s] = p]
  BY DEF Admit, Goto, Return, jobVars
<1>3. permit' = permit \/ permit' = [permit EXCEPT ![s] = TRUE]
  BY DEF Admit
<1>4. /\ \A t \in Thread \ {s} : pc'[t] = pc[t]
      /\ pc'[s] \notin Holding
      /\ \A u \in Starter \ {s} : permit'[u] = permit[u]
  BY <1>1, <1>2, <1>3 DEF JobTypes, Holding
<1>5. Shrinks
  BY <1>2, <1>4, ThreadFacts DEF Shrinks
<1>6. Alive' \subseteq Alive
  BY <1>5, ShrinksAlive
<1>7. CASE permit' = permit
  <2>1. Permits' \subseteq Permits
    BY <1>7 DEF Permits
  <2> QED
    BY <1>6, <2>1, SmallerFits
<1>8. CASE permit' # permit
  <2>1. AdmissionActive < MaxJobs
    <3>1. ~(AdmissionActive >= MaxJobs)
      BY <1>8 DEF Admit
    <3>2. AdmissionActive \in Nat /\ MaxJobs \in Nat
      BY ManagerAssumption, FS_CardinalityType DEF AdmissionActive, Admission, Permits, Alive
    <3> QED
      BY <3>1, <3>2
  <2>2. AdmissionActive = Cardinality(Permits) + Cardinality(Alive)
    BY DEF AdmissionActive, Permits, Alive
  <2>3. Permits' \subseteq Permits \cup {s}
    BY <1>4 DEF Permits
  <2>4. /\ IsFiniteSet(Permits) /\ IsFiniteSet(Alive) /\ MaxJobs \in Nat
        /\ Cardinality(Permits) \in Nat /\ Cardinality(Alive) \in Nat
    BY ManagerAssumption, FS_CardinalityType DEF Admission
  <2>5. IsFiniteSet(Permits \cup {s}) /\ Cardinality(Permits \cup {s}) <= Cardinality(Permits) + 1
        /\ Cardinality(Permits \cup {s}) \in Nat
    <3>1. IsFiniteSet(Permits \cup {s}) /\
          Cardinality(Permits \cup {s}) = IF s \in Permits THEN Cardinality(Permits) ELSE Cardinality(Permits) + 1
      BY <2>4, FS_AddElement
    <3> QED
      BY <2>4, <3>1
  <2>6. /\ IsFiniteSet(Permits') /\ Cardinality(Permits') <= Cardinality(Permits) + 1
        /\ Cardinality(Permits') \in Nat
    BY <2>3, <2>4, <2>5, FS_Subset, FS_CardinalityType
  <2>7. /\ IsFiniteSet(Alive') /\ Cardinality(Alive') <= Cardinality(Alive) /\ Cardinality(Alive') \in Nat
    BY <1>6, <2>4, FS_Subset, FS_CardinalityType
  <2>8. Cardinality(Permits') + Cardinality(Alive') <= MaxJobs
    BY <2>1, <2>2, <2>4, <2>6, <2>7
  <2> QED
    BY <2>6, <2>7, <2>8 DEF Admission
<1> QED
  BY <1>7, <1>8

\* The permit moves into the RunningJob.
LEMMA PublishFits ==
    ASSUME JobInv, Admission, NEW s \in Starter, Publish(s)
    PROVE  Admission'
<1> DEFINE k == KeyOf[s]
<1>1. JobTypes /\ s \in Thread /\ StartOK(s) /\ pc[s] = "publish"
  BY ThreadFacts DEF JobInv, Publish, Goto
<1>2. permit[s]
  BY <1>1 DEF StartOK, StartOwns
<1>3. /\ running' = running \cup {k} /\ dispatcher' = dispatcher
      /\ pc' = [pc EXCEPT ![s] = "observe"] /\ permit' = [permit EXCEPT ![s] = FALSE]
  BY DEF Publish, Goto
<1>4. /\ \A t \in Thread \ {s} : pc'[t] = pc[t]
      /\ \A u \in Starter \ {s} : permit'[u] = permit[u]
      /\ ~permit'[s]
  BY <1>1, <1>3 DEF JobTypes
<1>5. Alive' \subseteq Alive \cup {k}
  <2> SUFFICES ASSUME NEW j \in Key, RunningJobAlive(j)', j # k PROVE RunningJobAlive(j)
    BY DEF Alive
  <2> QED
    BY <1>3, <1>4, AliveParts, AlivePartsNext, ThreadFacts
<1>6. Permits' = Permits \ {s} /\ s \in Permits
  BY <1>2, <1>4 DEF Permits
<1>7. /\ IsFiniteSet(Permits) /\ IsFiniteSet(Alive) /\ MaxJobs \in Nat
      /\ Cardinality(Permits) \in Nat /\ Cardinality(Alive) \in Nat
      /\ Cardinality(Permits) + Cardinality(Alive) <= MaxJobs
  BY ManagerAssumption, FS_CardinalityType DEF Admission
<1>8. IsFiniteSet(Alive \cup {k}) /\ Cardinality(Alive \cup {k}) <= Cardinality(Alive) + 1
      /\ Cardinality(Alive \cup {k}) \in Nat
  <2>1. IsFiniteSet(Alive \cup {k}) /\
        Cardinality(Alive \cup {k}) = IF k \in Alive THEN Cardinality(Alive) ELSE Cardinality(Alive) + 1
    BY <1>7, FS_AddElement
  <2> QED
    BY <1>7, <2>1
<1>9. /\ IsFiniteSet(Alive') /\ Cardinality(Alive') <= Cardinality(Alive) + 1 /\ Cardinality(Alive') \in Nat
  BY <1>5, <1>7, <1>8, FS_Subset, FS_CardinalityType
<1>10. IsFiniteSet(Permits') /\ Cardinality(Permits') = Cardinality(Permits) - 1 /\ Cardinality(Permits') \in Nat
  BY <1>6, <1>7, FS_RemoveElement, FS_CardinalityType
<1>11. Cardinality(Permits') + Cardinality(Alive') <= MaxJobs
  BY <1>7, <1>9, <1>10
<1> QED
  BY <1>9, <1>10, <1>11 DEF Admission

\* The other steps of a start release what they hold, or hold on to it.
LEMMA StarterShrinks ==
    ASSUME JobInv, NEW s \in Starter, StarterStep(s), ~Admit(s), ~Publish(s)
    PROVE  Shrinks /\ Permits' \subseteq Permits
<1>0. JobTypes /\ s \in Thread /\ StartOK(s) /\ KeyOf[s] \in Key
  BY ThreadFacts DEF JobInv
<1> DEFINE Quiet == /\ running' \subseteq running
                    /\ permit' = permit \/ permit' = [permit EXCEPT ![s] = FALSE]
                    /\ \/ dispatcher' = dispatcher
                       \/ dispatcher' = [dispatcher EXCEPT ![KeyOf[s]] = "run"] /\ pc[s] = "dispatch"
                    /\ \E p \in StarterPoint :
                          /\ pc' = [pc EXCEPT ![s] = p]
                          /\ p \in Holding => pc[s] \in Holding \cup {"claim", "spawn"} /\ permit' = permit
<1>1. Quiet
  <2>1. CASE \/ EnterStart(s) \/ CheckLive(s) \/ JoinLive(s) \/ CheckRecovered(s) \/ Preflight(s)
    BY <2>1 DEF EnterStart, CheckLive, JoinLive, CheckRecovered, Preflight, Goto, Return, jobVars,
      StarterPoint, Holding
  <2>2. CASE \/ BeginEntry(s) \/ FenceUnavailable(s) \/ RollbackStart(s) \/ FenceStart(s)
    BY <2>2 DEF BeginEntry, FenceUnavailable, RollbackStart, FenceStart, Goto, Return, ReturnPermit, jobVars,
      StarterPoint, Holding
  <2>3. CASE AcceptStart(s) \/ CommitStart(s)
    BY <2>3 DEF AcceptStart, CommitStart, Goto, Return, ReturnPermit, jobVars, StarterPoint, Holding
  <2>4. CASE Claim(s) \/ Spawn(s)
    BY <2>4 DEF Claim, Spawn, Goto, jobVars, StarterPoint, Holding
  <2>5. CASE ObserveStart(s) \/ Finish(s) \/ CommitFinish(s)
    BY <2>5 DEF ObserveStart, Finish, CommitFinish, Resolved, Unresolved, Goto, jobVars, StarterPoint, Holding
  <2>6. CASE StartDispatcher(s) \/ OpenGate(s) \/ Abort(s)
    BY <2>6 DEF StartDispatcher, OpenGate, Abort, Goto, Return, StarterPoint, Holding
  <2> QED
    BY <2>1, <2>2, <2>3, <2>4, <2>5, <2>6 DEF StarterStep
<1>2. PICK p \in StarterPoint :
        /\ pc' = [pc EXCEPT ![s] = p]
        /\ p \in Holding => pc[s] \in Holding \cup {"claim", "spawn"} /\ permit' = permit
  BY <1>1
<1>3. /\ \A t \in Thread \ {s} : pc'[t] = pc[t]
      /\ pc'[s] = p
      /\ \A u \in Starter : permit'[u] => permit[u]
      /\ \A u \in Starter \ {s} : permit'[u] = permit[u]
  BY <1>0, <1>1, <1>2 DEF JobTypes
<1>4. Permits' \subseteq Permits
  BY <1>3 DEF Permits
<1>5. pc[s] \in {"claim", "spawn"} => permit[s]
  BY <1>0 DEF StartOK, StartOwns, Accepting
<1>6. \A u \in Starter : pc'[u] \in Holding /\ ~permit'[u] => pc[u] \in Holding /\ ~permit[u]
  BY <1>2, <1>3, <1>5, ThreadFacts
<1>7. \A c \in Controller : pc'[c] = pc[c]
  BY <1>3, ThreadFacts
<1>8. \A k \in Key : dispatcher'[k] \notin {"none", "gone"} =>
                         dispatcher[k] \notin {"none", "gone"} \/ k \in running
  <2>1. CASE dispatcher' = dispatcher
    BY <2>1
  <2>2. CASE dispatcher' = [dispatcher EXCEPT ![KeyOf[s]] = "run"] /\ pc[s] = "dispatch"
    <3>1. KeyOf[s] \in running
      BY <1>0, <2>2 DEF StartOK, StartOwns, Published
    <3> QED
      BY <1>0, <2>2, <3>1 DEF JobTypes
  <2> QED
    BY <1>1, <2>1, <2>2
<1>9. running' \subseteq running
  BY <1>1
<1> HIDE DEF Quiet
<1> QED
  BY <1>4, <1>6, <1>7, <1>8, <1>9 DEF Shrinks

\* A control comes to life only on a job in the running map.
LEMMA ControllerShrinks ==
    ASSUME JobInv, NEW c \in Controller, ControllerStep(c)
    PROVE  Shrinks /\ Permits' \subseteq Permits
<1>0. JobTypes /\ c \in Thread /\ c \notin Starter
  BY ThreadFacts DEF JobInv
<1>1. /\ UNCHANGED <<running, dispatcher, permit>>
      /\ \E p \in ControllerPoint : /\ pc' = [pc EXCEPT ![c] = p]
                                    /\ p \in AtRest \/ pc[c] \notin AtRest \/ KeyOf[c] \in running
  <2>1. CASE Lookup(c) \/ WaitGate(c) \/ LockLifecycle(c) \/ CheckRunning(c)
    BY <2>1 DEF Lookup, WaitGate, LockLifecycle, CheckRunning, Goto, Return, jobVars, ControllerPoint, AtRest
  <2>2. CASE AcceptControl(c) \/ CommitControl(c)
    BY <2>2 DEF AcceptControl, CommitControl, FirstStep, Goto, Return, jobVars, ControllerPoint, AtRest
  <2>3. CASE Effect(c) \/ RecordControl(c)
    BY <2>3 DEF Effect, RecordControl, Goto, jobVars, ControllerPoint, AtRest
  <2>4. CASE Finish(c) \/ CommitFinish(c)
    BY <1>0, <2>4 DEF Finish, CommitFinish, Resolved, Unresolved, Goto, Return, jobVars, ControllerPoint, AtRest
  <2> QED
    BY <2>1, <2>2, <2>3, <2>4 DEF ControllerStep
<1>2. PICK p \in ControllerPoint : /\ pc' = [pc EXCEPT ![c] = p]
                                   /\ p \in AtRest \/ pc[c] \notin AtRest \/ KeyOf[c] \in running
  BY <1>1
<1>3. pc'[c] = p /\ \A t \in Thread \ {c} : pc'[t] = pc[t]
  BY <1>0, <1>2 DEF JobTypes
<1>4. \A u \in Starter : pc'[u] = pc[u]
  BY <1>0, <1>3, ThreadFacts
<1>5. \A d \in Controller : pc'[d] \notin AtRest => pc[d] \notin AtRest \/ KeyOf[d] \in running
  BY <1>2, <1>3, ThreadFacts
<1> QED
  BY <1>1, <1>4, <1>5 DEF Shrinks, Permits

LEMMA OthersShrink ==
    ASSUME JobInv,
           \/ \E k \in Key : DispatcherStep(k) \/ DispatcherEvent(k)
           \/ Environment /\ ~\E opened \in BOOLEAN : Restart(opened)
           \/ UNCHANGED vars
    PROVE  Shrinks /\ Permits' \subseteq Permits
<1>0. JobTypes
  BY DEF JobInv
<1>1. /\ UNCHANGED <<pc, permit>> /\ running' \subseteq running
      /\ \/ dispatcher' = dispatcher
         \/ \E k \in Key, from \in DispatcherPoint \ {"none", "gone"}, to \in DispatcherPoint : DispatcherAt(k, from, to)
  <2>1. ASSUME NEW k \in Key, DispatcherStep(k)
        PROVE  /\ UNCHANGED <<pc, permit>> /\ running' \subseteq running
               /\ \E from \in DispatcherPoint \ {"none", "gone"}, to \in DispatcherPoint : DispatcherAt(k, from, to)
    <3>1. CASE ObserveExit(k) \/ LockTerminal(k) \/ CompleteJob(k)
      BY <3>1 DEF ObserveExit, LockTerminal, CompleteJob, callVars, DispatcherPoint
    <3>2. CASE AppendTerminal(k) \/ CommitJobTerminal(k)
      BY <3>2 DEF AppendTerminal, CommitJobTerminal, callVars, DispatcherPoint
    <3>3. CASE RemoveJob(k) \/ DropJob(k)
      BY <3>3 DEF RemoveJob, DropJob, callVars, DispatcherPoint
    <3> QED
      BY <2>1, <3>1, <3>2, <3>3 DEF DispatcherStep
  <2>2. ASSUME NEW k \in Key, DispatcherEvent(k)
        PROVE  /\ UNCHANGED <<pc, permit>> /\ running' \subseteq running
               /\ \/ dispatcher' = dispatcher
                  \/ \E from \in DispatcherPoint \ {"none", "gone"}, to \in DispatcherPoint : DispatcherAt(k, from, to)
    BY <2>2 DEF DispatcherEvent, Output, ProcessFault, ChannelCloses, callVars, DispatcherPoint
  <2>3. CASE Environment /\ ~\E opened \in BOOLEAN : Restart(opened)
    BY <2>3 DEF Environment, ProcessExits, SiblingFails, AttachJob, callVars, jobVars
  <2>4. CASE UNCHANGED vars
    BY <2>4 DEF vars, callVars, jobVars
  <2> QED
    BY <2>1, <2>2, <2>3, <2>4
<1>2. \A k \in Key : dispatcher'[k] \notin {"none", "gone"} => dispatcher[k] \notin {"none", "gone"}
  BY <1>0, <1>1 DEF DispatcherAt, JobTypes
<1> QED
  BY <1>1, <1>2 DEF Shrinks, Permits

LEMMA EmptyFits ==
    ASSUME Permits = {}, Alive = {} PROVE Admission
<1>1. IsFiniteSet({}) /\ Cardinality({}) = 0 /\ MaxJobs \in Nat
  BY FS_EmptySet, ManagerAssumption
<1> QED
  BY <1>1 DEF Admission

LEMMA EmptyFitsNext ==
    ASSUME Permits' = {}, Alive' = {} PROVE Admission'
<1>1. IsFiniteSet({}) /\ Cardinality({}) = 0 /\ MaxJobs \in Nat
  BY FS_EmptySet, ManagerAssumption
<1> QED
  BY <1>1 DEF Admission

\* max_jobs bounds the permits of starts under way and the RunningJobs together,
\* with live and dead processes, waiting controls and dropped dispatchers.
THEOREM AdmissionBound == ManagerSpec => []Admission
<1>1. ManagerInit => Admission
  <2> SUFFICES ASSUME ManagerInit PROVE Admission
    OBVIOUS
  <2>1. Permits = {}
    BY DEF ManagerInit, Permits
  <2>2. \A k \in Key : ~RunningJobAlive(k)
    BY ThreadFacts, AliveParts DEF ManagerInit, AtRest, Holding
  <2> QED
    BY <2>1, <2>2, EmptyFits DEF Alive
<1>2. JobInv /\ Admission /\ [ManagerNext]_vars => Admission'
  <2> SUFFICES ASSUME JobInv, Admission, [ManagerNext]_vars PROVE Admission'
    OBVIOUS
  <2>1. CASE Shrinks /\ Permits' \subseteq Permits
    BY <2>1, ShrinksAlive, SmallerFits
  <2>2. CASE \E s \in Starter : StarterStep(s)
    BY <2>1, <2>2, AdmitFits, PublishFits, StarterShrinks
  <2>3. CASE \E c \in Controller : ControllerStep(c)
    BY <2>1, <2>3, ControllerShrinks
  <2>4. CASE \E opened \in BOOLEAN : Restart(opened)
    <3>1. /\ pc' = [t \in Thread |-> "idle"] /\ permit' = [s \in Starter |-> FALSE]
          /\ running' = {} /\ dispatcher' = [k \in Key |-> "none"]
      BY <2>4 DEF Restart
    <3>2. Permits' = {}
      BY <3>1 DEF Permits
    <3>3. \A k \in Key : ~RunningJobAlive(k)'
      BY <3>1, ThreadFacts, AlivePartsNext DEF AtRest, Holding
    <3>4. Alive' = {}
      BY <3>3 DEF Alive
    <3> QED
      BY <3>2, <3>4, EmptyFitsNext
  <2> QED
    BY <2>1, <2>2, <2>3, <2>4, OthersShrink DEF ManagerNext
<1> QED
  BY <1>1, <1>2, JobInvariance, PTL DEF ManagerSpec

\* As long as signals are delivered, no live process is beyond the manager's
\* reach: max_jobs bounds them, and a job that nobody is starting and that is
\* not in the running map has no live process.
THEOREM NoProcessIsOrphaned ==
    ASSUME ~SignalsFail
    PROVE  ManagerSpec => []NoLiveOrphan
<1>1. JobInv /\ Admission => NoLiveOrphan
  <2> SUFFICES ASSUME JobInv, Admission PROVE NoLiveOrphan
    OBVIOUS
  <2>1. \A k \in Key : process[k] = "live" => k \in running \/ \E s \in StarterOf(k) : pc[s] = "publish"
    BY DEF JobInv, JobOK, Reached
  <2>2. \A k \in Key : StartShardFree(k) /\ k \notin running => process[k] # "live"
    BY <2>1 DEF StartShardFree
  <2> DEFINE live == {k \in Key : process[k] = "live"}
             starting == {KeyOf[s] : s \in Permits}
  <2>3. live \subseteq Alive \cup starting
    <3> SUFFICES ASSUME NEW k \in Key, process[k] = "live", k \notin running PROVE k \in starting
      BY AliveParts DEF Alive
    <3>1. PICK s \in StarterOf(k) : pc[s] = "publish"
      BY <2>1
    <3>2. s \in Starter /\ KeyOf[s] = k /\ StartOK(s)
      BY ThreadFacts DEF JobInv
    <3>3. permit[s]
      BY <3>1, <3>2 DEF StartOK, StartOwns
    <3> QED
      BY <3>2, <3>3 DEF Permits
  <2>4. /\ IsFiniteSet(Permits) /\ IsFiniteSet(Alive) /\ MaxJobs \in Nat
        /\ Cardinality(Permits) \in Nat /\ Cardinality(Alive) \in Nat
        /\ Cardinality(Permits) + Cardinality(Alive) <= MaxJobs
    BY ManagerAssumption, FS_CardinalityType DEF Admission
  <2>5. IsFiniteSet(starting) /\ Cardinality(starting) <= Cardinality(Permits) /\ Cardinality(starting) \in Nat
    <3> DEFINE f == [s \in Permits |-> KeyOf[s]]
    <3>1. f \in Surjection(Permits, starting)
      BY DEF Surjection
    <3>2. IsFiniteSet(starting) /\ Cardinality(starting) <= Cardinality(Permits)
      <4> HIDE DEF f, starting
      <4> QED
        BY <2>4, <3>1, FS_Surjection
    <3> QED
      BY <3>2, FS_CardinalityType
  <2> HIDE DEF live, starting
  <2>6. IsFiniteSet(Alive \cup starting) /\ Cardinality(Alive \cup starting) <= Cardinality(Alive) + Cardinality(starting)
    <3>1. /\ IsFiniteSet(Alive \cup starting) /\ IsFiniteSet(Alive \cap starting)
          /\ Cardinality(Alive \cup starting) = Cardinality(Alive) + Cardinality(starting) - Cardinality(Alive \cap starting)
      BY <2>4, <2>5, FS_Union, FS_Intersection
    <3>2. Cardinality(Alive \cap starting) \in Nat
      BY <3>1, FS_CardinalityType
    <3> QED
      BY <2>4, <2>5, <3>1, <3>2
  <2>7. Cardinality(live) <= Cardinality(Alive \cup starting) /\ IsFiniteSet(live)
    BY <2>3, <2>6, FS_Subset
  <2>8. Cardinality(live) \in Nat /\ Cardinality(Alive \cup starting) \in Nat
    BY <2>6, <2>7, FS_CardinalityType
  <2>9. Cardinality(live) <= MaxJobs
    BY <2>4, <2>5, <2>6, <2>7, <2>8
  <2> QED
    BY <2>2, <2>9 DEF NoLiveOrphan, live
<1> QED
  BY <1>1, JobInvariance, AdmissionBound, PTL

(***************************************************************************)
(* What the journal remembers                                              *)
(***************************************************************************)

\* The operation o of a log, said without choosing records.
OpIs(log, o, p) ==
    /\ p.known <=> Logged(log, "operation.accepted", o)
    /\ \A i \in DOMAIN log : log[i].record = "operation.accepted" /\ log[i].op = o =>
          p.request = log[i].request /\ p.content = log[i].content
    /\ \A i \in DOMAIN log : log[i].record = "operation.terminal" /\ log[i].op = o =>
          p.terminal = log[i].result
    /\ ~Logged(log, "operation.terminal", o) => p.terminal = None
    /\ ~p.known => p.request = None /\ p.content = None /\ p.terminal = None

\* The record i is about the job itself, or ends its start.
OfJob(log, i) == log[i].start \/ log[i].record = "job.terminal"
EndsStart(log, i) == log[i].start /\ log[i].record = "operation.terminal"

JobIs(log, p) ==
    /\ p.known <=> \E i \in DOMAIN log : OfJob(log, i)
    /\ \A i \in DOMAIN log : OfJob(log, i) => p.request = log[i].request
    /\ \A i \in DOMAIN log : EndsStart(log, i) => p.startResult = log[i].result
    /\ (\A i \in DOMAIN log : ~EndsStart(log, i)) => p.startResult = None
    /\ p.terminal <=> Logged(log, "job.terminal", None)
    /\ ~p.known => p.request = None

\* A job is started by one operation.
StartsAgree(log) ==
    \A i, j \in DOMAIN log : log[i].start /\ log[j].start => log[i].op = log[j].op

\* An operation that has ended says how.
EndsAreTold(log) ==
    \A i \in DOMAIN log : log[i].record = "operation.terminal" => log[i].result # None

\* Every record but the last one of a job names an operation.
OpsAreNamed(log) ==
    \A i \in DOMAIN log : log[i].record # "job.terminal" => log[i].op \in Operation

WellFormed(log) ==
    Recoverable(log) /\ StartsAgree(log) /\ EndsAreTold(log) /\ OpsAreNamed(log)

ThreadOf(k) == StarterOf(k) \cup ControllerOf(k)
Held == {"commit", "finished"}

\* The journal shard of a job has one holder.
OneJournal(k) ==
    /\ \A t, u \in ThreadOf(k) : pc[t] \in Held /\ pc[u] \in Held => t = u
    /\ \A t \in ThreadOf(k) : pc[t] \in Held => dispatcher[k] # "commit"

\* The record its holder has appended and not committed.
BeginRecord(t) == AcceptedRecord(RequestFor(t), OperationOf[t], ContentOf[t], t \in Starter)

InHand(k, rec) ==
    \/ \E t \in ThreadOf(k) : pc[t] = "commit" /\ rec = BeginRecord(t)
    \/ \E t \in ThreadOf(k) : pc[t] = "finished" /\ rec = FinishRecord(t)
    \/ dispatcher[k] = "commit" /\ rec = JobTerminalRecord(entry[k].request)

Mirrors(k, log) ==
    /\ JobIs(log, jobs[k])
    /\ \A o \in Operation : OpIs(log, o, ops[k][o])

\* Memory is what the disk says, but for that record.
Follows(k) ==
    IF JournalShardFree(k) THEN Mirrors(k, disk[k])
    ELSE \E log \in Seq(Record), rec \in Record :
            disk[k] = Append(log, rec) /\ InHand(k, rec) /\ Mirrors(k, log)

\* A job that was claimed has its start logged, and until it has ended no end.
ClaimLogged(k) ==
    /\ store = "open" /\ entry[k].dispatch \in {"claimed", "running", "terminal"} =>
          \E i \in DOMAIN disk[k] : disk[k][i].start /\ disk[k][i].request = entry[k].request
    /\ Configured /\ (entry[k].dispatch \in {"claimed", "running"} \/ dispatcher[k] = "append") =>
          ~Logged(disk[k], "job.terminal", None)

LogOK(k) ==
    /\ WellFormed(disk[k])
    /\ OneJournal(k)
    /\ store = "open" => Follows(k)
    /\ ClaimLogged(k)

\* A thread past its acceptance has it logged, under its own name.
Begun == {"claim", "spawn", "publish", "observe", "dispatch", "abort",
          "effect", "record", "finish", "finished"}

OwnRecord(t, rec) ==
    /\ rec.record = "operation.accepted"
    /\ rec.op = OperationOf[t] /\ rec.content = ContentOf[t] /\ rec.start = (t \in Starter)
    /\ t \in Starter => rec.request = RequestOf[t]

ThreadLogged(t) ==
    LET k == KeyOf[t] IN
    /\ pc[t] \in {"finish", "finished"} => want[t] \in Outcome
    /\ store = "open" /\ pc[t] \in Begun =>
          \E i \in DOMAIN disk[k] : OwnRecord(t, disk[k][i])
    /\ t \in Starter /\ pc[t] \in {"accept", "commit", "claim"} => entry[k].request = RequestOf[t]
    /\ t \in Starter /\ pc[t] \in {"commit", "claim", "spawn"} /\ Configured =>
          \A i \in DOMAIN disk[k] : ~EndsStart(disk[k], i) /\ disk[k][i].record # "job.terminal"

LogInv ==
    /\ \A k \in Key : LogOK(k)
    /\ \A t \in Thread : ThreadLogged(t)

(***************************************************************************)
(* Logs                                                                    *)
(***************************************************************************)

\* A log and one more record.
LEMMA OneMore ==
    ASSUME NEW log \in Seq(Record), NEW rec \in Record, NEW more, more = Append(log, rec)
    PROVE  /\ more \in Seq(Record) /\ Len(more) = Len(log) + 1
           /\ DOMAIN more = DOMAIN log \cup {Len(more)} /\ Len(more) \notin DOMAIN log
           /\ \A i \in DOMAIN log : more[i] = log[i] /\ i < Len(more)
           /\ more[Len(more)] = rec
<1>1. DOMAIN log = 1..Len(log) /\ DOMAIN more = 1..Len(more) /\ Len(log) \in Nat
      /\ Len(more) = Len(log) + 1 /\ more \in Seq(Record)
  OBVIOUS
<1> QED
  BY <1>1

LEMMA LoggedMore ==
    ASSUME NEW log \in Seq(Record), NEW rec \in Record, NEW more, more = Append(log, rec),
           NEW kind, NEW o
    PROVE  Logged(more, kind, o) <=> Logged(log, kind, o) \/ (rec.record = kind /\ rec.op = o)
  BY OneMore DEF Logged

\* What may be appended to a log that recovers: a record of the same job whose
\* kind and operation are new, an end only behind the acceptance it ends.
Extends(log, rec) ==
    /\ \A i \in DOMAIN log : log[i].request = rec.request
    /\ ~Logged(log, rec.record, rec.op)
    /\ rec.record # "job.terminal" => rec.op \in Operation
    /\ rec.record = "operation.terminal" =>
          /\ rec.result # None
          /\ \E i \in DOMAIN log : log[i].record = "operation.accepted" /\ SameOperation(rec, log[i])
    /\ rec.record # "operation.terminal" /\ rec.start => \A i \in DOMAIN log : ~log[i].start

LEMMA ExtendsRecovers ==
    ASSUME NEW log \in Seq(Record), NEW rec \in Record, NEW more, more = Append(log, rec),
           WellFormed(log), Extends(log, rec)
    PROVE  WellFormed(more)
<1>1. Recoverable(more)
  <2> SUFFICES ASSUME NEW i \in DOMAIN more
               PROVE  /\ \A j \in DOMAIN more : more[j].request = more[i].request
                      /\ \A j \in DOMAIN more : j < i /\ more[j].record = more[i].record
                                                   => more[j].op # more[i].op
                      /\ more[i].record = "operation.terminal" =>
                            \E j \in DOMAIN more :
                                /\ j < i
                                /\ more[j].record = "operation.accepted"
                                /\ SameOperation(more[i], more[j])
    BY DEF Recoverable
  <2>1. CASE i = Len(more)
    BY <2>1, OneMore DEF Extends, Logged
  <2>2. CASE i \in DOMAIN log
    <3>1. \A j \in DOMAIN more : j < i => j \in DOMAIN log
      BY <2>2, OneMore
    <3>2. more[i] = log[i]
      BY <2>2, OneMore
    <3>3. \A j \in DOMAIN more : more[j].request = more[i].request
      BY <2>2, OneMore DEF Extends, WellFormed, Recoverable
    <3>4. \A j \in DOMAIN more : j < i /\ more[j].record = more[i].record => more[j].op # more[i].op
      BY <2>2, <3>1, OneMore DEF WellFormed, Recoverable
    <3>5. ASSUME log[i].record = "operation.terminal"
          PROVE  \E j \in DOMAIN more : /\ j < i
                                        /\ more[j].record = "operation.accepted"
                                        /\ SameOperation(more[i], more[j])
      BY <2>2, <3>5, OneMore DEF WellFormed, Recoverable
    <3> QED
      BY <3>2, <3>3, <3>4, <3>5
  <2> QED
    BY <2>1, <2>2, OneMore
<1>2. StartsAgree(more)
  <2>1. ASSUME rec.start, NEW i \in DOMAIN log, log[i].start PROVE log[i].op = rec.op
    BY <2>1 DEF Extends, SameOperation, WellFormed, StartsAgree
  <2> QED
    BY <2>1, OneMore DEF WellFormed, StartsAgree
<1>3. EndsAreTold(more)
  BY OneMore DEF WellFormed, EndsAreTold, Extends
<1>4. OpsAreNamed(more)
  BY OneMore DEF WellFormed, OpsAreNamed, Extends
<1> QED
  BY <1>1, <1>2, <1>3, <1>4 DEF WellFormed

LEMMA RecoveryExtends ==
    ASSUME NEW log \in Seq(Record), NEW rec \in Record, NEW more, more = Append(log, rec),
           WellFormed(more)
    PROVE  /\ WellFormed(log)
           /\ \A i \in DOMAIN log : log[i].request = rec.request
           /\ ~Logged(log, rec.record, rec.op)
           /\ rec.record = "operation.terminal" =>
                 /\ rec.result # None
                 /\ \E i \in DOMAIN log : log[i].record = "operation.accepted"
                                             /\ SameOperation(rec, log[i])
<1>1. Len(more) \in DOMAIN more /\ DOMAIN log \subseteq DOMAIN more
  BY OneMore
<1>2. \A i \in DOMAIN log : log[i].request = rec.request
  BY <1>1, OneMore DEF WellFormed, Recoverable
<1>3. ~Logged(log, rec.record, rec.op)
  BY <1>1, OneMore DEF WellFormed, Recoverable, Logged
<1>4. ASSUME rec.record = "operation.terminal"
      PROVE  /\ rec.result # None
             /\ \E i \in DOMAIN log : log[i].record = "operation.accepted" /\ SameOperation(rec, log[i])
  <2>1. PICK j \in DOMAIN more : /\ j < Len(more)
                                 /\ more[j].record = "operation.accepted"
                                 /\ SameOperation(more[Len(more)], more[j])
    BY <1>1, <1>4, OneMore DEF WellFormed, Recoverable
  <2> QED
    BY <1>1, <1>4, <2>1, OneMore DEF WellFormed, EndsAreTold
<1>5. Recoverable(log)
  <2> SUFFICES ASSUME NEW i \in DOMAIN log
               PROVE  /\ \A j \in DOMAIN log : log[j].request = log[i].request
                      /\ \A j \in DOMAIN log : j < i /\ log[j].record = log[i].record
                                                  => log[j].op # log[i].op
                      /\ log[i].record = "operation.terminal" =>
                            \E j \in DOMAIN log :
                                /\ j < i
                                /\ log[j].record = "operation.accepted"
                                /\ SameOperation(log[i], log[j])
    BY DEF Recoverable
  <2>1. i \in DOMAIN more /\ more[i] = log[i]
    BY OneMore
  <2>2. \A j \in DOMAIN more : j < i => j \in DOMAIN log
    BY OneMore
  <2>3. ASSUME log[i].record = "operation.terminal"
        PROVE  \E j \in DOMAIN log : /\ j < i
                                     /\ log[j].record = "operation.accepted"
                                     /\ SameOperation(log[i], log[j])
    <3>1. PICK j \in DOMAIN more : /\ j < i
                                   /\ more[j].record = "operation.accepted"
                                   /\ SameOperation(more[i], more[j])
      BY <2>1, <2>3 DEF WellFormed, Recoverable
    <3> QED
      BY <2>1, <2>2, <3>1, OneMore
  <2> QED
    BY <1>2, <2>1, <2>3, OneMore DEF WellFormed, Recoverable
<1>6. StartsAgree(log) /\ EndsAreTold(log) /\ OpsAreNamed(log)
  BY OneMore DEF WellFormed, StartsAgree, EndsAreTold, OpsAreNamed
<1> QED
  BY <1>2, <1>3, <1>4, <1>5, <1>6 DEF WellFormed

\* An operation ends after it was accepted.
LEMMA EndedIsAccepted ==
    ASSUME NEW log \in Seq(Record), WellFormed(log), NEW o, Logged(log, "operation.terminal", o)
    PROVE  Logged(log, "operation.accepted", o)
  BY DEF WellFormed, Recoverable, Logged, SameOperation

LEMMA OneRecord ==
    ASSUME NEW log \in Seq(Record), WellFormed(log), NEW i \in DOMAIN log, NEW j \in DOMAIN log,
           log[i].record = log[j].record, log[i].op = log[j].op
    PROVE  i = j
<1>1. i \in Nat /\ j \in Nat
  OBVIOUS
<1>2. ~(i < j) /\ ~(j < i)
  BY DEF WellFormed, Recoverable
<1> QED
  BY <1>1, <1>2

LEMMA RecordOfIs ==
    ASSUME NEW log \in Seq(Record), WellFormed(log), NEW i \in DOMAIN log
    PROVE  RecordOf(log, log[i].record, log[i].op) = log[i]
<1>1. \E j \in DOMAIN log : log[j].record = log[i].record /\ log[j].op = log[i].op
  OBVIOUS
<1>2. PICK j : j = CHOOSE n \in DOMAIN log : log[n].record = log[i].record /\ log[n].op = log[i].op
  OBVIOUS
<1>3. j \in DOMAIN log /\ log[j].record = log[i].record /\ log[j].op = log[i].op
  BY <1>1, <1>2
<1>4. i = j
  BY <1>3, OneRecord
<1> QED
  BY <1>2, <1>4 DEF RecordOf

LEMMA OpRecovered ==
    ASSUME NEW log \in Seq(Record), WellFormed(log), NEW o
    PROVE  OpIs(log, o, RecoveredOperation(log, o)) /\ RecoveredOperation(log, o).known \in BOOLEAN
<1> DEFINE q == RecoveredOperation(log, o)
<1>1. CASE Logged(log, "operation.accepted", o)
  <2>1. PICK i \in DOMAIN log : log[i].record = "operation.accepted" /\ log[i].op = o
    BY <1>1 DEF Logged
  <2>2. RecordOf(log, "operation.accepted", o) = log[i]
    BY <2>1, RecordOfIs
  <2>3. /\ q.known = TRUE /\ q.request = log[i].request /\ q.content = log[i].content
        /\ q.terminal = IF Logged(log, "operation.terminal", o)
                        THEN RecordOf(log, "operation.terminal", o).result ELSE None
    BY <1>1, <2>2 DEF RecoveredOperation
  <2>4. \A j \in DOMAIN log : log[j].record = "operation.terminal" /\ log[j].op = o =>
           q.terminal = log[j].result
    <3> SUFFICES ASSUME NEW j \in DOMAIN log, log[j].record = "operation.terminal", log[j].op = o
                 PROVE  q.terminal = log[j].result
      OBVIOUS
    <3>1. RecordOf(log, "operation.terminal", o) = log[j] /\ Logged(log, "operation.terminal", o)
      BY RecordOfIs DEF Logged
    <3> QED
      BY <2>3, <3>1
  <2>5. \A j \in DOMAIN log : log[j].record = "operation.accepted" /\ log[j].op = o => j = i
    BY <2>1, OneRecord
  <2> QED
    BY <1>1, <2>3, <2>4, <2>5 DEF OpIs
<1>2. CASE ~Logged(log, "operation.accepted", o)
  <2>1. q = NoOperation /\ ~Logged(log, "operation.terminal", o)
    BY <1>2, EndedIsAccepted DEF RecoveredOperation
  <2> QED
    BY <1>2, <2>1 DEF OpIs, Logged, NoOperation
<1> QED
  BY <1>1, <1>2

LEMMA JobRecovered ==
    ASSUME NEW log \in Seq(Record), WellFormed(log)
    PROVE  JobIs(log, RecoveredJob(log)) /\ RecoveredJob(log).known \in BOOLEAN
<1> DEFINE mine == {i \in DOMAIN log : log[i].start \/ log[i].record = "job.terminal"}
           ends == {i \in mine : log[i].record = "operation.terminal"}
           q == RecoveredJob(log)
<1>1. /\ \A i \in DOMAIN log : i \in mine <=> OfJob(log, i)
      /\ \A i \in DOMAIN log : i \in ends <=> EndsStart(log, i)
  BY DEF OfJob, EndsStart
<1>2. CASE mine = {}
  <2>1. q = NoJob
    BY <1>2 DEF RecoveredJob
  <2>2. ~Logged(log, "job.terminal", None)
    BY <1>2 DEF Logged
  <2> QED
    BY <1>1, <1>2, <2>1, <2>2 DEF JobIs, NoJob
<1>3. CASE mine # {}
  <2>1. PICK m \in mine : m = CHOOSE i \in mine : TRUE
    BY <1>3
  <2>2. q = [known |-> TRUE,
             request |-> log[m].request,
             startResult |-> IF ends = {} THEN None ELSE log[CHOOSE i \in ends : TRUE].result,
             terminal |-> Logged(log, "job.terminal", None)]
    BY <1>3, <2>1 DEF RecoveredJob
  <2>3. \A i \in DOMAIN log : log[i].request = log[m].request
    BY <2>1 DEF WellFormed, Recoverable
  <2>4. ASSUME NEW i \in ends PROVE q.startResult = log[i].result
    <3>1. PICK e \in ends : e = CHOOSE n \in ends : TRUE
      BY <2>4
    <3> HIDE DEF ends, mine, q
    <3>4. q.startResult = log[e].result
      BY <2>2, <2>4, <3>1
    <3> USE DEF ends, mine
    <3>2. log[e].op = log[i].op
      BY <1>1, <2>4, <3>1 DEF WellFormed, StartsAgree, EndsStart
    <3>3. e = i
      BY <2>4, <3>1, <3>2, OneRecord
    <3> QED
      BY <3>3, <3>4
  <2>5. ends = {} => q.startResult = None
    BY <2>2
  <2>6. q.known /\ q.request = log[m].request /\ (q.terminal <=> Logged(log, "job.terminal", None))
    BY <2>2
  <2> QED
    BY <1>1, <2>1, <2>3, <2>4, <2>5, <2>6 DEF JobIs
<1> QED
  BY <1>2, <1>3

LEMMA OpIsOne ==
    ASSUME NEW log \in Seq(Record), NEW o, NEW p \in OperationState, NEW q \in OperationState,
           OpIs(log, o, p), OpIs(log, o, q)
    PROVE  [p EXCEPT !.preexisting = TRUE] = [q EXCEPT !.preexisting = TRUE]
<1>1. p.known = q.known
  BY DEF OpIs, OperationState
<1>2. p.request = q.request /\ p.content = q.content
  BY <1>1 DEF OpIs, Logged
<1>3. p.terminal = q.terminal
  BY DEF OpIs, Logged
<1> QED
  BY <1>1, <1>2, <1>3 DEF OperationState

LEMMA JobIsOne ==
    ASSUME NEW log \in Seq(Record), NEW p \in JobState, NEW q \in JobState,
           JobIs(log, p), JobIs(log, q)
    PROVE  p = q
<1>1. p.known = q.known /\ p.terminal = q.terminal
  BY DEF JobIs, JobState
<1>2. p.request = q.request
  BY <1>1 DEF JobIs
<1>3. p.startResult = q.startResult
  BY DEF JobIs
<1> QED
  BY <1>1, <1>2, <1>3 DEF JobState

\* One more record, seen by the operations and by the job.
LEMMA OpElsewhere ==
    ASSUME NEW log \in Seq(Record), NEW rec \in Record, NEW more, more = Append(log, rec),
           NEW o, NEW p, OpIs(log, o, p), rec.op # o
    PROVE  OpIs(more, o, p)
<1>1. \A kind : Logged(more, kind, o) <=> Logged(log, kind, o)
  BY LoggedMore
<1>2. \A i \in DOMAIN more : more[i].op = o => i \in DOMAIN log /\ more[i] = log[i]
  BY OneMore
<1> QED
  BY <1>1, <1>2 DEF OpIs

LEMMA OpAccepted ==
    ASSUME NEW log \in Seq(Record), NEW rec \in Record, NEW more, more = Append(log, rec),
           WellFormed(more), rec.record = "operation.accepted",
           NEW p, p.known, p.request = rec.request, p.content = rec.content, p.terminal = None
    PROVE  OpIs(more, rec.op, p)
<1>1. WellFormed(log) /\ ~Logged(log, "operation.accepted", rec.op)
  BY RecoveryExtends
<1>2. ~Logged(log, "operation.terminal", rec.op)
  BY <1>1, EndedIsAccepted
<1>5. Logged(more, "operation.accepted", rec.op)
  BY LoggedMore
<1>6. rec.record # "operation.terminal"
  OBVIOUS
<1>3. Logged(more, "operation.accepted", rec.op) /\ ~Logged(more, "operation.terminal", rec.op)
  BY <1>2, <1>5, <1>6, LoggedMore
<1>4. \A i \in DOMAIN more : more[i].record = "operation.accepted" /\ more[i].op = rec.op => more[i] = rec
  BY <1>1, OneMore DEF Logged
<1> QED
  BY <1>3, <1>4 DEF OpIs, Logged

LEMMA OpEnded ==
    ASSUME NEW log \in Seq(Record), NEW rec \in Record, NEW more, more = Append(log, rec),
           WellFormed(more), rec.record = "operation.terminal",
           NEW p, OpIs(log, rec.op, p),
           NEW q, q.known = p.known, q.request = p.request, q.content = p.content, q.terminal = rec.result
    PROVE  OpIs(more, rec.op, q)
<1>1. WellFormed(log) /\ ~Logged(log, "operation.terminal", rec.op)
      /\ \E i \in DOMAIN log : log[i].record = "operation.accepted" /\ SameOperation(rec, log[i])
  BY RecoveryExtends
<1>2. Logged(log, "operation.accepted", rec.op) /\ Logged(more, "operation.accepted", rec.op)
  BY <1>1, LoggedMore DEF SameOperation, Logged
<1>3. \A i \in DOMAIN more : more[i].record = "operation.terminal" /\ more[i].op = rec.op => more[i] = rec
  BY <1>1, OneMore DEF Logged
<1>4. \A i \in DOMAIN more : more[i].record = "operation.accepted" =>
         i \in DOMAIN log /\ more[i] = log[i]
  BY OneMore
<1>5. Logged(more, "operation.terminal", rec.op)
  BY LoggedMore
<1> QED
  BY <1>2, <1>3, <1>4, <1>5 DEF OpIs

LEMMA JobElsewhere ==
    ASSUME NEW log \in Seq(Record), NEW rec \in Record, NEW more, more = Append(log, rec),
           NEW p, JobIs(log, p), ~rec.start, rec.record # "job.terminal"
    PROVE  JobIs(more, p)
<1>1. Logged(more, "job.terminal", None) <=> Logged(log, "job.terminal", None)
  BY LoggedMore
<1>2. \A i \in DOMAIN more : OfJob(more, i) =>
         i \in DOMAIN log /\ more[i] = log[i] /\ OfJob(log, i)
  BY OneMore DEF OfJob
<1>3. \A i \in DOMAIN log : i \in DOMAIN more /\ more[i] = log[i]
                              /\ (OfJob(more, i) <=> OfJob(log, i))
                              /\ (EndsStart(more, i) <=> EndsStart(log, i))
  BY OneMore DEF OfJob, EndsStart
<1>4. \A i \in DOMAIN more : EndsStart(more, i) => OfJob(more, i)
  BY DEF EndsStart, OfJob
<1> QED
  BY <1>1, <1>2, <1>3, <1>4 DEF JobIs

LEMMA JobAccepted ==
    ASSUME NEW log \in Seq(Record), NEW rec \in Record, NEW more, more = Append(log, rec),
           rec.record = "operation.accepted", rec.start, \A i \in DOMAIN log : ~OfJob(log, i),
           NEW p, p.known, p.request = rec.request, p.startResult = None, ~p.terminal
    PROVE  JobIs(more, p)
<1>1. ~Logged(more, "job.terminal", None)
  BY LoggedMore DEF Logged, OfJob
<1>2. OfJob(more, Len(more)) /\ Len(more) \in DOMAIN more /\ more[Len(more)] = rec
  BY OneMore DEF OfJob
<1>3. \A i \in DOMAIN more : OfJob(more, i) => i = Len(more)
  BY OneMore DEF OfJob
<1>4. \A i \in DOMAIN more : ~EndsStart(more, i)
  BY <1>2, <1>3 DEF EndsStart, OfJob
<1> QED
  BY <1>1, <1>2, <1>3, <1>4 DEF JobIs

LEMMA JobStartEnded ==
    ASSUME NEW log \in Seq(Record), NEW rec \in Record, NEW more, more = Append(log, rec),
           WellFormed(more), rec.record = "operation.terminal", rec.start,
           NEW p, JobIs(log, p),
           NEW q, q.known = p.known, q.request = p.request, q.terminal = p.terminal,
           q.startResult = rec.result
    PROVE  JobIs(more, q)
<1>1. /\ WellFormed(log) /\ ~Logged(log, "operation.terminal", rec.op)
      /\ \E i \in DOMAIN log : log[i].record = "operation.accepted" /\ SameOperation(rec, log[i])
      /\ \A i \in DOMAIN log : log[i].request = rec.request
  BY RecoveryExtends
<1>2. PICK a \in DOMAIN log : log[a].start /\ log[a].op = rec.op /\ log[a].request = rec.request
  BY <1>1 DEF SameOperation
<1>3. OfJob(log, a)
  BY <1>2 DEF OfJob
<1>4. \A i \in DOMAIN log : ~EndsStart(log, i)
  BY <1>1, <1>2 DEF EndsStart, Logged, WellFormed, StartsAgree
<1>10. rec.record # "job.terminal"
  OBVIOUS
<1>5. Logged(more, "job.terminal", None) <=> Logged(log, "job.terminal", None)
  BY <1>10, OneMore DEF Logged
<1>6. \A i \in DOMAIN log : i \in DOMAIN more /\ more[i] = log[i]
                              /\ (OfJob(more, i) <=> OfJob(log, i))
                              /\ (EndsStart(more, i) <=> EndsStart(log, i))
  BY OneMore DEF OfJob, EndsStart
<1>7. \A i \in DOMAIN more : i \in DOMAIN log \/ (i = Len(more) /\ more[i] = rec)
  BY OneMore
<1>8. Len(more) \in DOMAIN more /\ EndsStart(more, Len(more)) /\ more[Len(more)] = rec
  BY OneMore DEF EndsStart
<1>9. p.known /\ p.request = rec.request
  BY <1>2, <1>3 DEF JobIs
<1> QED
  BY <1>2, <1>3, <1>4, <1>5, <1>6, <1>7, <1>8, <1>9, <1>1 DEF JobIs

LEMMA JobEnded ==
    ASSUME NEW log \in Seq(Record), NEW rec \in Record, NEW more, more = Append(log, rec),
           WellFormed(more), rec.record = "job.terminal", rec.op = None, ~rec.start,
           NEW p, JobIs(log, p), p.known,
           NEW q, q.known = p.known, q.request = p.request, q.terminal, q.startResult = p.startResult
    PROVE  JobIs(more, q)
<1>1. PICK a \in DOMAIN log : OfJob(log, a)
  BY DEF JobIs
<1>2. \A i \in DOMAIN log : log[i].request = rec.request
  BY RecoveryExtends
<1>3. p.request = rec.request
  BY <1>1, <1>2 DEF JobIs
<1>4. Logged(more, "job.terminal", None)
  BY LoggedMore
<1>5. \A i \in DOMAIN log : i \in DOMAIN more /\ more[i] = log[i]
                              /\ (OfJob(more, i) <=> OfJob(log, i))
                              /\ (EndsStart(more, i) <=> EndsStart(log, i))
  BY OneMore DEF OfJob, EndsStart
<1>6. \A i \in DOMAIN more : i \in DOMAIN log \/ (i = Len(more) /\ more[i] = rec /\ ~EndsStart(more, i))
  BY OneMore DEF EndsStart
<1> QED
  BY <1>1, <1>2, <1>3, <1>4, <1>5, <1>6 DEF JobIs

(***************************************************************************)
(* Steps that leave the journal of a job alone                             *)
(***************************************************************************)
LEMMA ThreadOfFacts ==
    ASSUME NEW k \in Key, NEW t
    PROVE  /\ t \in ThreadOf(k) <=> t \in Thread /\ KeyOf[t] = k
           /\ t \in Thread => KeyOf[t] \in Key
  BY ManagerAssumption DEF ThreadOf, StarterOf, ControllerOf, Thread

LEMMA ShardFreeIs ==
    ASSUME NEW k
    PROVE  JournalShardFree(k) <=>
              (\A t \in ThreadOf(k) : pc[t] \notin Held) /\ dispatcher[k] # "commit"
  BY DEF JournalShardFree, ThreadOf, Held

\* The holder of the journal shard stays where it is, with its record.
KeepsHands(k) ==
    /\ \A t \in ThreadOf(k) : pc'[t] \in Held \/ pc[t] \in Held => pc'[t] = pc[t] /\ want'[t] = want[t]
    /\ dispatcher'[k] = "commit" <=> dispatcher[k] = "commit"
    /\ entry'[k].request = entry[k].request \/ entry[k].dispatch \in {"absent", "accepted"}

LEMMA HandsKept ==
    ASSUME JobInv, NEW k \in Key, KeepsHands(k)
    PROVE  /\ JournalShardFree(k)' <=> JournalShardFree(k)
           /\ \A rec : InHand(k, rec) => InHand(k, rec)'
           /\ OneJournal(k) => OneJournal(k)'
<1>1. JournalShardFree(k)' <=> JournalShardFree(k)
  BY DEF KeepsHands, JournalShardFree, ThreadOf, StarterOf, ControllerOf, Held
<1>2. ASSUME NEW t \in ThreadOf(k), pc[t] \in Held PROVE RequestFor(t)' = RequestFor(t)
  <2>1. t \in Starter \/ (t \in Controller /\ t \notin Starter /\ KeyOf[t] = k)
    BY <1>2, ThreadFacts DEF ThreadOf
  <2>2. CASE t \in Starter
    BY <2>2 DEF RequestFor
  <2>3. CASE t \in Controller /\ t \notin Starter /\ KeyOf[t] = k
    <3>1. entry[k].dispatch = "running"
      BY <1>2, <2>3 DEF JobInv, ControlOK, Held, Controls
    <3> QED
      BY <2>3, <3>1 DEF KeepsHands, RequestFor
  <2> QED
    BY <2>1, <2>2, <2>3
<1>3. ASSUME NEW rec, InHand(k, rec) PROVE InHand(k, rec)'
  <2>0. ThreadOf(k)' = ThreadOf(k)
    BY DEF ThreadOf, StarterOf, ControllerOf
  <2>1. ASSUME NEW t \in ThreadOf(k), pc[t] = "commit", rec = BeginRecord(t) PROVE InHand(k, rec)'
    <3>1. pc'[t] = "commit" /\ RequestFor(t)' = RequestFor(t)
      BY <1>2, <2>1 DEF KeepsHands, Held
    <3>2. BeginRecord(t)' = BeginRecord(t)
      BY <3>1 DEF BeginRecord, AcceptedRecord
    <3> QED
      BY <2>0, <2>1, <3>1, <3>2 DEF InHand
  <2>2. ASSUME NEW t \in ThreadOf(k), pc[t] = "finished", rec = FinishRecord(t) PROVE InHand(k, rec)'
    <3>1. pc'[t] = "finished" /\ RequestFor(t)' = RequestFor(t) /\ want'[t] = want[t]
      BY <1>2, <2>2 DEF KeepsHands, Held
    <3>2. FinishRecord(t)' = FinishRecord(t)
      BY <3>1 DEF FinishRecord, TerminalRecord
    <3> QED
      BY <2>0, <2>2, <3>1, <3>2 DEF InHand
  <2>3. ASSUME dispatcher[k] = "commit", rec = JobTerminalRecord(entry[k].request) PROVE InHand(k, rec)'
    <3>1. entry[k].dispatch = "terminal"
      BY <2>3 DEF JobInv, JobOK, JobOwns
    <3>2. dispatcher'[k] = "commit" /\ entry'[k].request = entry[k].request
      BY <2>3, <3>1 DEF KeepsHands
    <3> QED
      BY <2>3, <3>2 DEF InHand, JobTerminalRecord
  <2> QED
    BY <1>3, <2>1, <2>2, <2>3 DEF InHand
<1>4. OneJournal(k) => OneJournal(k)'
  BY DEF KeepsHands, OneJournal, ThreadOf, StarterOf, ControllerOf
<1> QED
  BY <1>1, <1>3, <1>4

LEMMA QuietJob ==
    ASSUME JobInv, NEW k \in Key, LogOK(k), StoreStep, KeepsHands(k), ClaimLogged(k)',
           ops'[k] = ops[k], jobs'[k] = jobs[k], disk'[k] = disk[k]
    PROVE  LogOK(k)'
<1>1. WellFormed(disk[k])'
  BY DEF LogOK
<1>2. OneJournal(k)'
  BY HandsKept DEF LogOK
<1>3. \A log : Mirrors(k, log) => Mirrors(k, log)'
  BY DEF Mirrors
<1>4. ASSUME store' = "open" PROVE Follows(k)'
  <2>1. Follows(k)
    BY <1>4 DEF LogOK, StoreStep
  <2>2. CASE JournalShardFree(k)
    BY <1>3, <2>1, <2>2, HandsKept DEF Follows
  <2>3. CASE ~JournalShardFree(k)
    <3>1. PICK log \in Seq(Record), rec \in Record :
             disk[k] = Append(log, rec) /\ InHand(k, rec) /\ Mirrors(k, log)
      BY <2>1, <2>3 DEF Follows
    <3>2. ~JournalShardFree(k)' /\ InHand(k, rec)' /\ Mirrors(k, log)'
      BY <1>3, <2>3, <3>1, HandsKept
    <3> QED
      BY <3>1, <3>2 DEF Follows
  <2> QED
    BY <2>2, <2>3
<1> QED
  BY <1>1, <1>2, <1>4 DEF LogOK

\* What a thread relies on, when another one moves.
Watchful == {"accept", "commit", "claim", "spawn"}

LEMMA ThreadStays ==
    ASSUME JobInv, NEW t \in Thread, NEW k, k = KeyOf[t], ThreadLogged(t), StoreStep,
           pc'[t] = pc[t], want'[t] = want[t],
           \A i \in DOMAIN disk[k] : i \in DOMAIN disk'[k] /\ disk'[k][i] = disk[k][i],
           \/ t \in Controller \/ pc[t] \notin Watchful
           \/ entry'[k].request = entry[k].request /\ disk'[k] = disk[k]
    PROVE  ThreadLogged(t)'
<1>1. pc'[t] \in {"finish", "finished"} => want'[t] \in Outcome
  BY DEF ThreadLogged
<1>2. store' = "open" => store = "open"
  BY DEF StoreStep
<1>3. store' = "open" /\ pc'[t] \in Begun => \E i \in DOMAIN disk'[k] : OwnRecord(t, disk'[k][i])
  BY <1>2 DEF ThreadLogged
<1>4. Configured' <=> Configured
  BY DEF StoreStep, Configured
<1>5. t \in Controller => t \notin Starter
  BY ThreadFacts
<1>6. t \in Starter /\ pc'[t] \in {"accept", "commit", "claim"} => entry'[k].request = RequestOf[t]
  BY <1>5 DEF ThreadLogged, Watchful
<1>7. t \in Starter /\ pc'[t] \in {"commit", "claim", "spawn"} /\ Configured' =>
         \A i \in DOMAIN disk'[k] : ~EndsStart(disk'[k], i) /\ disk'[k][i].record # "job.terminal"
  BY <1>4, <1>5 DEF ThreadLogged, Watchful
<1> QED
  BY <1>1, <1>3, <1>6, <1>7 DEF ThreadLogged, OwnRecord, EndsStart

\* Only job k and the threads in T are touched.
Touches(k, T) ==
    /\ StoreStep
    /\ \A j \in Key \ {k} : /\ entry'[j] = entry[j] /\ dispatcher'[j] = dispatcher[j]
                            /\ ops'[j] = ops[j] /\ jobs'[j] = jobs[j] /\ disk'[j] = disk[j]
    /\ \A u \in Thread \ T : pc'[u] = pc[u] /\ want'[u] = want[u]
    /\ T \subseteq ThreadOf(k)

LEMMA JobsElsewhere ==
    ASSUME JobInv, LogInv, NEW k \in Key, NEW T, Touches(k, T), LogOK(k)',
           \A t \in ThreadOf(k) : ThreadLogged(t)'
    PROVE  LogInv'
<1>1. ASSUME NEW j \in Key, j # k PROVE LogOK(j)'
  <2>1. \A t \in ThreadOf(j) : pc'[t] = pc[t] /\ want'[t] = want[t]
    BY <1>1, ThreadOfFacts DEF Touches
  <2>2. KeepsHands(j)
    BY <1>1, <2>1 DEF KeepsHands, Touches
  <2>3. Configured' <=> Configured
    BY DEF Touches, StoreStep, Configured
  <2>4. ClaimLogged(j)'
    BY <1>1, <2>3 DEF LogInv, LogOK, ClaimLogged, Touches, StoreStep
  <2> QED
    BY <1>1, <2>2, <2>4, QuietJob DEF LogInv, Touches
<1>2. ASSUME NEW t \in Thread PROVE ThreadLogged(t)'
  <2>1. CASE KeyOf[t] = k
    BY <2>1, ThreadOfFacts
  <2>2. CASE KeyOf[t] # k
    <3>1. t \notin T /\ KeyOf[t] \in Key \ {k}
      BY <2>2, ThreadOfFacts DEF Touches
    <3> QED
      BY <3>1, ThreadStays DEF LogInv, Touches
  <2> QED
    BY <2>1, <2>2
<1> QED
  BY <1>1, <1>2 DEF LogInv

\* A step of the threads T of job k that does not reach its journal.
LEMMA QuietKeeps ==
    ASSUME JobInv, LogInv, NEW k \in Key, NEW T, Touches(k, T),
           ops'[k] = ops[k], jobs'[k] = jobs[k], disk'[k] = disk[k],
           \A t \in T : pc[t] \notin Held /\ pc'[t] \notin Held /\ ThreadLogged(t)',
           dispatcher'[k] = "commit" <=> dispatcher[k] = "commit",
           \/ entry'[k].request = entry[k].request
           \/ /\ entry[k].dispatch \in {"absent", "accepted"}
              /\ \A u \in ThreadOf(k) \ T : u \in Controller \/ pc[u] \notin Watchful,
           ClaimLogged(k)'
    PROVE  LogInv'
<1>1. KeepsHands(k)
  BY ThreadOfFacts DEF KeepsHands, Touches
<1>2. LogOK(k)'
  BY <1>1, QuietJob DEF LogInv, Touches
<1>3. ASSUME NEW t \in ThreadOf(k) PROVE ThreadLogged(t)'
  <2>1. CASE t \in T
    BY <2>1
  <2>2. CASE t \notin T
    <3>1. t \in Thread /\ KeyOf[t] = k
      BY <1>3, ThreadOfFacts
    <3> QED
      BY <1>3, <2>2, <3>1, ThreadStays DEF LogInv, Touches
  <2> QED
    BY <2>1, <2>2
<1> QED
  BY <1>2, <1>3, JobsElsewhere

LEMMA ClaimStays ==
    ASSUME NEW k \in Key, ClaimLogged(k), StoreStep, disk'[k] = disk[k],
           entry'[k].dispatch \in {"claimed", "running", "terminal"} =>
              /\ entry[k].dispatch \in {"claimed", "running", "terminal"}
              /\ entry'[k].request = entry[k].request,
           entry'[k].dispatch \in {"claimed", "running"} \/ dispatcher'[k] = "append" =>
              entry[k].dispatch \in {"claimed", "running"} \/ dispatcher[k] = "append"
    PROVE  ClaimLogged(k)'
<1>1. (Configured' <=> Configured) /\ (store' = "open" => store = "open")
  BY DEF StoreStep, Configured
<1> QED
  BY <1>1 DEF ClaimLogged

\* A step of a start that does not reach the journal, to point p.
StartQuiet(s, p) ==
    LET k == KeyOf[s] IN
    /\ StoreStep /\ UNCHANGED <<ops, jobs, disk>>
    /\ p \in StarterPoint \ Held /\ pc' = [pc EXCEPT ![s] = p] /\ pc[s] \notin Held
    /\ want' = want \/ \E w \in Outcome : want' = [want EXCEPT ![s] = w]
    /\ p = "finish" => want'[s] \in Outcome
    /\ \/ dispatcher' = dispatcher
       \/ dispatcher[k] = "none" /\ dispatcher' = [dispatcher EXCEPT ![k] = "run"]
    /\ \A j \in Key \ {k} : entry'[j] = entry[j]
    /\ pc[s] \notin AtRest \/ StartShardFree(k)
    /\ p \in Begun => pc[s] \in Begun
    /\ p \notin {"commit", "claim"}
    /\ p = "accept" => entry'[k].request = RequestOf[s]
    /\ p = "spawn" => pc[s] = "claim"

\* Its job is as claimed as it was.
SameClaim(k) ==
    /\ entry'[k].request = entry[k].request \/ entry[k].dispatch \in {"absent", "accepted"}
    /\ entry'[k].dispatch \in {"claimed", "running", "terminal"} =>
          /\ entry[k].dispatch \in {"claimed", "running", "terminal"}
          /\ entry'[k].request = entry[k].request
    /\ entry'[k].dispatch \in {"claimed", "running"} => entry[k].dispatch \in {"claimed", "running"}

LEMMA StartQuietKeeps ==
    ASSUME JobInv, LogInv, NEW s \in Starter, NEW k, k = KeyOf[s], NEW p, StartQuiet(s, p),
           entry'[k].request = entry[k].request \/ entry[k].dispatch \in {"absent", "accepted"},
           ClaimLogged(k)'
    PROVE  LogInv'
<1>1. /\ JobTypes /\ k \in Key /\ s \in Thread /\ s \in ThreadOf(k) /\ s \in StarterOf(k)
      /\ ThreadLogged(s) /\ OneStart(k)
  BY ThreadFacts, ThreadOfFacts DEF JobInv, LogInv, StarterOf
<1>2. pc'[s] = p /\ \A u \in Thread \ {s} : pc'[u] = pc[u]
  BY <1>1 DEF StartQuiet, JobTypes
<1>3. \A u \in Thread \ {s} : want'[u] = want[u]
  BY <1>1 DEF StartQuiet, JobTypes
<1>4. /\ \A j \in Key \ {k} : dispatcher'[j] = dispatcher[j]
      /\ dispatcher'[k] = "commit" <=> dispatcher[k] = "commit"
  BY <1>1 DEF StartQuiet, JobTypes
<1>5. Touches(k, {s})
  BY <1>1, <1>2, <1>3, <1>4 DEF Touches, StartQuiet
<1>6. \A u \in ThreadOf(k) \ {s} : u \in Controller \/ pc[u] \notin Watchful
  <2>1. \A u \in StarterOf(k) \ {s} : pc[u] \in AtRest
    BY <1>1 DEF StartQuiet, OneStart, StartShardFree, AtRest
  <2> QED
    BY <2>1, ThreadFacts DEF ThreadOf, AtRest, Watchful
<1>7. ThreadLogged(s)'
  <2>1. (Configured' <=> Configured) /\ (store' = "open" => store = "open") /\ disk' = disk
    BY DEF StartQuiet, StoreStep, Configured
  <2>2. pc'[s] \in {"finish", "finished"} => want'[s] \in Outcome
    BY <1>2 DEF StartQuiet, Held
  <2>3. store' = "open" /\ pc'[s] \in Begun => \E i \in DOMAIN disk'[k] : OwnRecord(s, disk'[k][i])
    BY <1>1, <1>2, <2>1 DEF StartQuiet, ThreadLogged
  <2>4. pc'[s] \in {"accept", "commit", "claim"} => entry'[k].request = RequestOf[s]
    BY <1>2 DEF StartQuiet
  <2>5. pc'[s] \in {"commit", "claim", "spawn"} /\ Configured' =>
           \A i \in DOMAIN disk'[k] : ~EndsStart(disk'[k], i) /\ disk'[k][i].record # "job.terminal"
    BY <1>1, <1>2, <2>1 DEF StartQuiet, ThreadLogged
  <2> QED
    BY <2>2, <2>3, <2>4, <2>5 DEF ThreadLogged, OwnRecord, EndsStart
<1>8. /\ ops'[k] = ops[k] /\ jobs'[k] = jobs[k] /\ disk'[k] = disk[k]
      /\ \A t \in {s} : pc[t] \notin Held /\ pc'[t] \notin Held /\ ThreadLogged(t)'
  BY <1>2, <1>7 DEF StartQuiet
<1> QED
  BY <1>1, <1>4, <1>5, <1>6, <1>8, QuietKeeps

LEMMA StartSameClaim ==
    ASSUME JobInv, LogInv, NEW s \in Starter, NEW p, StartQuiet(s, p), SameClaim(KeyOf[s])
    PROVE  LogInv'
<1>1. JobTypes /\ KeyOf[s] \in Key /\ ClaimLogged(KeyOf[s])
  BY ThreadFacts DEF JobInv, LogInv, LogOK
<1>2. dispatcher'[KeyOf[s]] = "append" => dispatcher[KeyOf[s]] = "append"
  BY <1>1 DEF StartQuiet, JobTypes
<1>3. ClaimLogged(KeyOf[s])'
  BY <1>1, <1>2, ClaimStays DEF StartQuiet, SameClaim
<1> QED
  BY <1>3, StartQuietKeeps DEF SameClaim

LEMMA KeptIsSame ==
    ASSUME NEW k
    PROVE  EntryKept(k) \/ EntryFenced(k) =>
              SameClaim(k) /\ entry'[k].request = entry[k].request
                           /\ \A j \in Key \ {k} : entry'[j] = entry[j]
  BY DEF EntryKept, EntryFenced, EntryGoes, SameClaim

\* The steps of a start before it has an entry, and when it gives up.
LEMMA EarlyLogged ==
    ASSUME JobInv, LogInv, NEW s \in Starter,
           \/ EnterStart(s) \/ CheckLive(s) \/ JoinLive(s) \/ CheckRecovered(s) \/ Preflight(s)
           \/ Admit(s) \/ FenceUnavailable(s) \/ FenceStart(s) \/ RollbackStart(s) \/ OpenGate(s)
    PROVE  LogInv'
<1>0. PICK k \in Key : k = KeyOf[s]
  BY ThreadFacts
<1>1. JobTypes /\ s \in Thread /\ StartOK(s)
  BY ThreadFacts DEF JobInv
<1>2. /\ UNCHANGED <<store, ops, jobs, disk, want, dispatcher, restarts>>
      /\ pc[s] \notin Held /\ (pc[s] \notin AtRest \/ StartShardFree(k))
  BY <1>0 DEF EnterStart, CheckLive, JoinLive, CheckRecovered, Preflight, Admit, FenceUnavailable,
     FenceStart, RollbackStart, OpenGate, Goto, Return, ReturnPermit, jobJournalVars, jobVars, Held, AtRest
<1>3. PICK p \in Early \cup {"done"} : pc' = [pc EXCEPT ![s] = p]
  BY DEF EnterStart, CheckLive, JoinLive, CheckRecovered, Preflight, Admit, FenceUnavailable,
     FenceStart, RollbackStart, OpenGate, Goto, Return, ReturnPermit, Early
<1>4. /\ pc[s] = "rollback" => entry[k].dispatch = "accepted"
      /\ \/ UNCHANGED jobRegistryVars \/ MarkRestartUncertain(k)
         \/ pc[s] = "rollback" /\ RollbackAccept(k, RequestOf[s])
  <2>1. pc[s] = "rollback" => entry[k].dispatch = "accepted"
    BY <1>0, <1>1 DEF StartOK, StartOwns, Accepting
  <2> QED
    BY <1>0, <2>1 DEF EnterStart, CheckLive, JoinLive, CheckRecovered, Preflight, Admit, FenceUnavailable,
       FenceStart, RollbackStart, OpenGate, Goto, Return, ReturnPermit
<1>5. SameClaim(k) /\ \A j \in Key \ {k} : entry'[j] = entry[j]
  <2>1. CASE UNCHANGED jobRegistryVars \/ MarkRestartUncertain(k)
    BY <1>1, <2>1, SameEntry, MarkFences, KeptIsSame
  <2>2. CASE pc[s] = "rollback" /\ RollbackAccept(k, RequestOf[s])
    <3>1. EntryGoes(k, "absent") /\ entry[k].dispatch = "accepted"
      BY <1>1, <1>4, <2>2, RollbackFacts
    <3> QED
      BY <3>1 DEF EntryGoes, SameClaim
  <2> QED
    BY <1>4, <2>1, <2>2
<1>6. StoreStep
  BY <1>2 DEF StoreStep
<1>7. StartQuiet(s, p)
  BY <1>0, <1>2, <1>3, <1>5, <1>6 DEF StartQuiet, Early, StarterPoint, Held, Begun
<1> QED
  BY <1>0, <1>5, <1>7, StartSameClaim

LEMMA BeginEntryLogged ==
    ASSUME JobInv, LogInv, NEW s \in Starter, BeginEntry(s)
    PROVE  LogInv'
<1>0. PICK k \in Key : k = KeyOf[s]
  BY ThreadFacts
<1>1. JobTypes /\ s \in Thread /\ RequestOf[s] \in Request
  BY ThreadFacts, ManagerAssumption DEF JobInv
<1>2. /\ UNCHANGED <<store, ops, jobs, disk, want, dispatcher, restarts>> /\ pc[s] = "begin"
  BY DEF BeginEntry, Goto, Return, ReturnPermit, jobJournalVars, jobVars
<1>3. PICK p \in {"unavailable", "accept", "done"} :
         /\ pc' = [pc EXCEPT ![s] = p]
         /\ \/ Accept(k, RequestOf[s])
            \/ p = "done" /\ (UNCHANGED jobRegistryVars \/ MarkRestartUncertain(k))
  BY <1>0 DEF BeginEntry, Goto, Return, ReturnPermit
<1>4. /\ SameClaim(k) /\ \A j \in Key \ {k} : entry'[j] = entry[j]
      /\ p = "accept" => entry'[k].request = RequestOf[s]
  <2>1. CASE p = "done" /\ (UNCHANGED jobRegistryVars \/ MarkRestartUncertain(k))
    BY <1>1, <2>1, SameEntry, MarkFences, KeptIsSame
  <2>2. CASE Accept(k, RequestOf[s])
    <3>1. EntryGoes(k, "accepted") /\ entry'[k].request = RequestOf[s] /\ entry[k].dispatch = "absent"
      BY <1>1, <2>2, AcceptFacts
    <3> QED
      BY <3>1 DEF EntryGoes, SameClaim
  <2> QED
    BY <1>3, <2>1, <2>2
<1>5. StartQuiet(s, p)
  <2>1. StoreStep
    BY <1>2 DEF StoreStep
  <2> QED
    BY <1>0, <1>2, <1>3, <1>4, <2>1 DEF StartQuiet, StarterPoint, Held, Begun, AtRest
<1> QED
  BY <1>0, <1>4, <1>5, StartSameClaim

LEMMA ClaimIsLogged ==
    ASSUME JobInv, LogInv, NEW s \in Starter, Claim(s)
    PROVE  LogInv'
<1>0. PICK k \in Key : k = KeyOf[s]
  BY ThreadFacts
<1>1. JobTypes /\ s \in Thread /\ ThreadLogged(s) /\ ClaimLogged(k) /\ WellFormed(disk[k])
      /\ disk[k] \in Seq(Record) /\ StartOK(s)
  BY ThreadFacts DEF JobInv, LogInv, LogOK, JobTypes
<1>2. UNCHANGED <<store, ops, jobs, disk, dispatcher, restarts>> /\ pc[s] = "claim"
  BY DEF Claim, Goto, jobJournalVars, jobVars
<1>3. \/ /\ pc' = [pc EXCEPT ![s] = "spawn"] /\ want' = want /\ ClaimSpawn(k)
      \/ /\ pc' = [pc EXCEPT ![s] = "finish"] /\ want' = [want EXCEPT ![s] = "spawn_failed"]
         /\ UNCHANGED jobRegistryVars
  BY <1>0 DEF Claim, Goto
<1>4. PICK p \in {"spawn", "finish"} :
         /\ pc' = [pc EXCEPT ![s] = p]
         /\ want' = want \/ \E w \in Outcome : want' = [want EXCEPT ![s] = w]
         /\ p = "finish" => want'[s] \in Outcome /\ UNCHANGED jobRegistryVars
         /\ p = "spawn" => ClaimSpawn(k)
  BY <1>1, <1>3 DEF JobTypes, Outcome
<1>5. /\ entry'[k].request = entry[k].request /\ \A j \in Key \ {k} : entry'[j] = entry[j]
      /\ p = "finish" => entry'[k].dispatch = entry[k].dispatch
  BY <1>1, <1>4, SameEntry, ClaimFacts DEF EntryKept, EntryGoes
<1>6. StoreStep
  BY <1>2 DEF StoreStep
<1>7. StartQuiet(s, p)
  BY <1>0, <1>2, <1>4, <1>5, <1>6 DEF StartQuiet, StarterPoint, Held, Begun, AtRest
<1>8. ClaimLogged(k)'
  <2>1. CASE p = "finish"
    BY <1>1, <1>2, <1>5, <1>6, <2>1, ClaimStays
  <2>2. CASE p = "spawn"
    <3>1. entry[k].request = RequestOf[s] /\ dispatcher[k] = "none"
      BY <1>0, <1>1, <1>2 DEF ThreadLogged, StartOK, StartOwns, Accepting
    <3>2. Configured => ~Logged(disk[k], "job.terminal", None)
      BY <1>0, <1>1, <1>2 DEF ThreadLogged, Logged
    <3>3. store = "open" => \E i \in DOMAIN disk[k] : disk[k][i].start /\ disk[k][i].request = RequestOf[s]
      <4>1. store = "open" => \E i \in DOMAIN disk[k] : OwnRecord(s, disk[k][i])
        BY <1>0, <1>1, <1>2 DEF ThreadLogged, Begun
      <4> QED
        BY <4>1 DEF OwnRecord
    <3> QED
      BY <1>2, <1>5, <3>1, <3>2, <3>3 DEF ClaimLogged, Configured
  <2> QED
    BY <2>1, <2>2
<1> QED
  BY <1>0, <1>5, <1>7, <1>8, StartQuietKeeps

\* The steps of a start that only move the process.
LEMMA SpawnLogged ==
    ASSUME JobInv, LogInv, NEW s \in Starter,
           Spawn(s) \/ ObserveStart(s) \/ StartDispatcher(s) \/ Abort(s)
    PROVE  LogInv'
<1>0. PICK k \in Key : k = KeyOf[s]
  BY ThreadFacts
<1>1. JobTypes /\ s \in Thread /\ StartOK(s)
  BY ThreadFacts DEF JobInv
<1>2. /\ UNCHANGED <<entry, nextGen, ops, jobs, disk, restarts>>
      /\ pc[s] \in {"spawn", "observe", "dispatch", "abort"}
  BY DEF Spawn, ObserveStart, StartDispatcher, Abort, Goto, jobRegistryVars, jobJournalVars
<1>3. StoreStep
  BY <1>2 DEF Spawn, ObserveStart, StartDispatcher, Abort, jobJournalVars, ObservationKept,
     ObservationLost, Configured, StoreStep
<1>4. PICK p \in {"publish", "finish", "abort", "ready"} :
         /\ pc' = [pc EXCEPT ![s] = p]
         /\ want' = want \/ \E w \in Outcome : want' = [want EXCEPT ![s] = w]
         /\ p = "finish" => \E w \in Outcome : want' = [want EXCEPT ![s] = w]
  <2>1. CASE Spawn(s)
    BY <2>1 DEF Spawn, Goto, Outcome
  <2>2. CASE ObserveStart(s)
    BY <2>2 DEF ObserveStart, Goto, Outcome
  <2>3. CASE StartDispatcher(s)
    BY <2>3 DEF StartDispatcher, Goto
  <2>4. CASE Abort(s)
    BY <2>4 DEF Abort, Goto, Outcome
  <2> QED
    BY <2>1, <2>2, <2>3, <2>4
<1>5. p = "finish" => want'[s] \in Outcome
  BY <1>1, <1>4 DEF JobTypes
<1>6. \/ dispatcher' = dispatcher
      \/ dispatcher[k] = "none" /\ dispatcher' = [dispatcher EXCEPT ![k] = "run"]
  <2>1. pc[s] = "dispatch" => dispatcher[k] = "none"
    BY <1>0, <1>1 DEF StartOK, StartOwns, Published
  <2> QED
    BY <1>0, <2>1 DEF Spawn, ObserveStart, StartDispatcher, Abort, Goto, jobVars
<1>7. StartQuiet(s, p)
  BY <1>0, <1>2, <1>3, <1>4, <1>5, <1>6 DEF StartQuiet, StarterPoint, Held, Begun, AtRest
<1>8. SameClaim(k)
  BY <1>2 DEF SameClaim
<1> QED
  BY <1>0, <1>7, <1>8, StartSameClaim

LEMMA PublishLogged ==
    ASSUME JobInv, LogInv, NEW s \in Starter, Publish(s)
    PROVE  LogInv'
<1>0. PICK k \in Key : k = KeyOf[s]
  BY ThreadFacts
<1>1. JobTypes /\ s \in Thread
  BY ThreadFacts DEF JobInv
<1>2. /\ UNCHANGED <<store, ops, jobs, disk, restarts, want, dispatcher>>
      /\ pc[s] = "publish" /\ pc' = [pc EXCEPT ![s] = "observe"] /\ RecordStarted(k)
  BY <1>0 DEF Publish, Goto, jobJournalVars
<1>3. /\ entry'[k].request = entry[k].request /\ entry'[k].dispatch = "running"
      /\ entry[k].dispatch = "claimed" /\ \A j \in Key \ {k} : entry'[j] = entry[j]
  BY <1>1, <1>2, StartedFacts DEF EntryGoes, RecordStarted
<1>4. StartQuiet(s, "observe")
  <2>1. StoreStep
    BY <1>2 DEF StoreStep
  <2> QED
    BY <1>0, <1>2, <1>3, <2>1 DEF StartQuiet, StarterPoint, Held, Begun, AtRest
<1>5. SameClaim(k)
  BY <1>3 DEF SameClaim
<1> QED
  BY <1>0, <1>4, <1>5, StartSameClaim

\* A step of the dispatcher of a job or of its process that does not reach the
\* journal.
DispatcherQuiet(k) ==
    /\ StoreStep /\ UNCHANGED <<ops, jobs, disk, pc, want>>
    /\ \A j \in Key \ {k} : entry'[j] = entry[j] /\ dispatcher'[j] = dispatcher[j]
    /\ (dispatcher'[k] # "commit" /\ dispatcher[k] # "commit") \/ dispatcher'[k] = dispatcher[k]
    /\ entry'[k].request = entry[k].request
    /\ \/ entry'[k].dispatch = entry[k].dispatch /\ (dispatcher'[k] = "append" => dispatcher[k] = "append")
       \/ entry[k].dispatch = "running" /\ entry'[k].dispatch = "terminal"

LEMMA DispatcherQuietKeeps ==
    ASSUME JobInv, LogInv, NEW k \in Key, DispatcherQuiet(k)
    PROVE  LogInv'
<1>1. ClaimLogged(k) /\ Touches(k, {})
  BY DEF LogInv, LogOK, Touches, DispatcherQuiet
<1>2. ClaimLogged(k)'
  BY <1>1, ClaimStays DEF DispatcherQuiet
<1>3. /\ ops'[k] = ops[k] /\ jobs'[k] = jobs[k] /\ disk'[k] = disk[k]
      /\ dispatcher'[k] = "commit" <=> dispatcher[k] = "commit"
      /\ entry'[k].request = entry[k].request
  BY DEF DispatcherQuiet
<1> QED
  BY <1>1, <1>2, <1>3, QuietKeeps

LEMMA EventLogged ==
    ASSUME JobInv, LogInv, NEW k \in Key,
           \/ Output(k) \/ ProcessFault(k) \/ ProcessExits(k) \/ ObserveExit(k) \/ LockTerminal(k)
           \/ RemoveJob(k) \/ DropJob(k) \/ ChannelCloses(k)
           \/ \E a \in Attachment : AttachJob(k, a)
    PROVE  LogInv'
<1>1. JobTypes
  BY DEF JobInv
<1>2. /\ UNCHANGED <<ops, jobs, disk, pc, want, restarts>>
      /\ ObservationKept \/ ObservationLost \/ UNCHANGED <<store, latched>>
  BY DEF Output, ProcessFault, ProcessExits, ObserveExit, LockTerminal, RemoveJob, DropJob, ChannelCloses,
     AttachJob, jobJournalVars, callVars
<1>3. StoreStep
  BY <1>2 DEF ObservationKept, ObservationLost, Configured, StoreStep
<1>4. EntryKept(k) \/ EntryFenced(k)
  <2>1. CASE Output(k)
    BY <1>1, <2>1, LiveKeeps, MarkFences DEF Output
  <2>2. CASE UNCHANGED jobRegistryVars
    BY <1>1, <2>2, SameEntry
  <2>3. CASE \E a \in Attachment : AttachJob(k, a)
    BY <1>1, <2>3, LiveKeeps DEF AttachJob
  <2>4. CASE ChannelCloses(k)
    BY <1>1, <2>4, MarkFences DEF ChannelCloses
  <2> QED
    BY <2>1, <2>2, <2>3, <2>4 DEF ProcessFault, ProcessExits, ObserveExit, LockTerminal, RemoveJob, DropJob
<1>5. /\ \A j \in Key \ {k} : dispatcher'[j] = dispatcher[j]
      /\ \/ dispatcher'[k] = dispatcher[k]
         \/ /\ dispatcher[k] \in {"run", "lock", "remove", "drop"}
            /\ dispatcher'[k] \in {"lock", "complete", "gone", "drop"}
  <2>1. \A a, b : DispatcherAt(k, a, b) =>
           /\ \A j \in Key \ {k} : dispatcher'[j] = dispatcher[j]
           /\ dispatcher[k] = a /\ dispatcher'[k] = b
    BY <1>1 DEF DispatcherAt, JobTypes
  <2>2. \/ UNCHANGED dispatcher
        \/ DispatcherAt(k, "run", "lock") \/ DispatcherAt(k, "lock", "complete")
        \/ DispatcherAt(k, "remove", "gone") \/ DispatcherAt(k, "drop", "gone") \/ DispatcherAt(k, "run", "drop")
    BY DEF Output, ProcessFault, ProcessExits, ObserveExit, LockTerminal, RemoveJob, DropJob, ChannelCloses,
       AttachJob, jobVars
  <2> QED
    BY <2>1, <2>2
<1>6. DispatcherQuiet(k)
  BY <1>2, <1>3, <1>4, <1>5 DEF DispatcherQuiet, EntryKept, EntryFenced, EntryGoes
<1> QED
  BY <1>6, DispatcherQuietKeeps

LEMMA CompleteLogged ==
    ASSUME JobInv, LogInv, NEW k \in Key, CompleteJob(k)
    PROVE  LogInv'
<1>1. JobTypes
  BY DEF JobInv
<1>2. /\ UNCHANGED <<ops, jobs, disk, pc, want, restarts>>
      /\ ObservationLost \/ UNCHANGED <<store, latched>>
      /\ Complete(k) /\ entry[k].dispatch = "running"
  BY DEF CompleteJob, Complete, Completable, callVars
<1>3. /\ \A j \in Key \ {k} : dispatcher'[j] = dispatcher[j]
      /\ dispatcher[k] = "complete" /\ dispatcher'[k] = "append"
  BY <1>1 DEF CompleteJob, DispatcherAt, JobTypes
<1>4. /\ \A j \in Key \ {k} : entry'[j] = entry[j]
      /\ entry'[k].dispatch = "terminal" /\ entry'[k].request = entry[k].request
  BY <1>1, <1>2, CompleteFacts DEF EntryGoes
<1>5. StoreStep
  BY <1>2 DEF ObservationLost, Configured, StoreStep
<1>6. DispatcherQuiet(k)
  BY <1>2, <1>3, <1>4, <1>5 DEF DispatcherQuiet
<1> QED
  BY <1>6, DispatcherQuietKeeps

\* An append for another job fails.
LEMMA SiblingLogged ==
    ASSUME JobInv, LogInv, SiblingFails
    PROVE  LogInv'
<1>1. /\ UNCHANGED <<entry, ops, jobs, disk, pc, want, dispatcher>> /\ StoreStep
  BY DEF SiblingFails, jobRegistryVars, callVars, jobVars, StoreStep
<1>2. ASSUME NEW k \in Key PROVE LogOK(k)'
  <2>1. KeepsHands(k) /\ LogOK(k) /\ ClaimLogged(k)
    BY <1>1 DEF KeepsHands, LogInv, LogOK
  <2>2. ClaimLogged(k)'
    BY <1>1, <2>1, ClaimStays
  <2> QED
    BY <1>1, <2>1, <2>2, QuietJob
<1>3. ASSUME NEW t \in Thread PROVE ThreadLogged(t)'
  BY <1>1, ThreadStays DEF LogInv
<1> QED
  BY <1>2, <1>3 DEF LogInv

(***************************************************************************)
(* Steps that reach the journal                                            *)
(***************************************************************************)

\* No other start of the job looks at its log.
Unwatched(k, T) == \A u \in ThreadOf(k) \ T : u \in Controller \/ pc[u] \notin Watchful

LEMMA StartIsUnwatched ==
    ASSUME JobInv, NEW s \in Starter, NEW k, k = KeyOf[s], pc[s] \notin AtRest
    PROVE  Unwatched(k, {s})
<1>1. s \in StarterOf(k) /\ OneStart(k)
  BY ThreadFacts DEF StarterOf, JobInv
<1>2. \A u \in StarterOf(k) \ {s} : pc[u] \in AtRest
  BY <1>1 DEF OneStart
<1> QED
  BY <1>2, ThreadFacts DEF Unwatched, ThreadOf, AtRest, Watchful

LEMMA RunningIsUnwatched ==
    ASSUME JobInv, NEW k \in Key, entry[k].dispatch \in {"running", "terminal"}
    PROVE  \A T : Unwatched(k, T)
<1>1. ASSUME NEW s \in Starter, KeyOf[s] = k PROVE pc[s] \notin Watchful
  BY <1>1 DEF JobInv, StartOK, StartOwns, Watchful, Accepting
<1> QED
  BY <1>1, ThreadFacts DEF Unwatched, ThreadOf

Grows(k) ==
    disk'[k] = disk[k] \/ \E rec \in Record : disk'[k] = Append(disk[k], rec)

LEMMA JournalKeeps ==
    ASSUME JobInv, LogInv, NEW k \in Key, NEW T, Touches(k, T), Unwatched(k, T), Grows(k),
           WellFormed(disk[k])', OneJournal(k)', store' = "open" => Follows(k)', ClaimLogged(k)',
           \A t \in T : ThreadLogged(t)'
    PROVE  LogInv'
<1>1. LogOK(k)'
  BY DEF LogOK
<1>2. \A i \in DOMAIN disk[k] : i \in DOMAIN disk'[k] /\ disk'[k][i] = disk[k][i]
  <2>1. disk[k] \in Seq(Record)
    BY DEF JobInv, JobTypes
  <2>2. CASE disk'[k] = disk[k]
    BY <2>2
  <2>3. ASSUME NEW rec \in Record, disk'[k] = Append(disk[k], rec)
        PROVE  \A i \in DOMAIN disk[k] : i \in DOMAIN disk'[k] /\ disk'[k][i] = disk[k][i]
    BY <2>1, <2>3, OneMore
  <2> QED
    BY <2>2, <2>3 DEF Grows
<1>3. ASSUME NEW t \in ThreadOf(k) PROVE ThreadLogged(t)'
  <2>1. CASE t \in T
    BY <2>1
  <2>2. CASE t \notin T
    <3>1. /\ t \in Thread /\ KeyOf[t] = k /\ ThreadLogged(t) /\ pc'[t] = pc[t] /\ want'[t] = want[t]
          /\ StoreStep /\ (t \in Controller \/ pc[t] \notin Watchful)
      BY <1>3, <2>2, ThreadOfFacts DEF LogInv, Touches, Unwatched
    <3> QED
      BY <1>2, <3>1, ThreadStays
  <2> QED
    BY <2>1, <2>2
<1> QED
  BY <1>1, <1>3, JobsElsewhere

\* The shard is taken when it is free, or given back.
LEMMA JournalHeld ==
    ASSUME NEW k \in Key, NEW T, Touches(k, T), OneJournal(k),
           \/ /\ \A t \in T : pc'[t] \notin Held
              /\ dispatcher'[k] = "commit" => dispatcher[k] = "commit"
           \/ JournalShardFree(k) /\ dispatcher'[k] # "commit" /\ \A t, u \in T : t = u
           \/ JournalShardFree(k) /\ T = {}
    PROVE  OneJournal(k)'
<1>1. \A u \in ThreadOf(k) \ T : pc'[u] = pc[u]
  BY ThreadOfFacts DEF Touches
<1>2. ThreadOf(k)' = ThreadOf(k)
  BY DEF ThreadOf, StarterOf, ControllerOf
<1> QED
  BY <1>1, <1>2, ShardFreeIs DEF OneJournal

\* What the first look of an operation makes sure of.
LEMMA RequestsAgree ==
    ASSUME JobTypes, NEW k \in Key, WellFormed(disk[k]), Mirrors(k, disk[k]), NEW r, ~RequestClash(k, r)
    PROVE  \A i \in DOMAIN disk[k] : disk[k][i].request = r
<1> DEFINE log == disk[k]
<1>1. log \in Seq(Record)
  BY DEF JobTypes
<1> HIDE DEF log
<1>2. ASSUME NEW i \in DOMAIN log, log[i].record = "operation.accepted" PROVE log[i].request = r
  <2>1. log[i].op \in Operation
    BY <1>2 DEF WellFormed, OpsAreNamed, log
  <2>2. OpIs(log, log[i].op, ops[k][log[i].op])
    BY <2>1 DEF Mirrors, log
  <2>3. ops[k][log[i].op].known /\ ops[k][log[i].op].request = log[i].request
    BY <1>2, <2>2 DEF OpIs, Logged
  <2> QED
    BY <2>1, <2>3 DEF RequestClash
<1>3. ASSUME NEW i \in DOMAIN log, log[i].record = "operation.terminal" PROVE log[i].request = r
  BY <1>2, <1>3 DEF WellFormed, Recoverable, log
<1>4. ASSUME NEW i \in DOMAIN log, log[i].record = "job.terminal" PROVE log[i].request = r
  <2>1. OfJob(log, i) /\ JobIs(log, jobs[k])
    BY <1>4 DEF OfJob, Mirrors, log
  <2>2. jobs[k].known /\ jobs[k].request = log[i].request
    BY <2>1 DEF JobIs
  <2> QED
    BY <2>2 DEF RequestClash
<1>5. ASSUME NEW i \in DOMAIN log
      PROVE  log[i].record \in {"operation.accepted", "operation.terminal", "job.terminal"}
  <2>1. log[i] \in Record
    BY <1>1
  <2> QED
    BY <2>1 DEF Record
<1> QED
  BY <1>2, <1>3, <1>4, <1>5 DEF log

LEMMA FreeMirrors ==
    ASSUME LogInv, NEW k \in Key, store = "open", JournalShardFree(k)
    PROVE  WellFormed(disk[k]) /\ Mirrors(k, disk[k])
  BY DEF LogInv, LogOK, Follows

LEMMA BeginExtends ==
    ASSUME JobInv, LogInv, NEW k \in Key, JournalShardFree(k),
           NEW r \in Request, NEW o \in Operation, NEW c \in Content, NEW start \in BOOLEAN,
           BeginAnswer(k, r, o, c, start) = "Append"
    PROVE  /\ store = "open" /\ Extends(disk[k], AcceptedRecord(r, o, c, start))
           /\ start => \A i \in DOMAIN disk[k] : ~OfJob(disk[k], i)
<1>1. store = "open" /\ ~RequestClash(k, r) /\ ~ops[k][o].known /\ ~(start /\ jobs[k].known)
  BY DEF BeginAnswer
<1>2. JobTypes /\ WellFormed(disk[k]) /\ Mirrors(k, disk[k])
  BY <1>1, FreeMirrors DEF JobInv
<1>3. \A i \in DOMAIN disk[k] : disk[k][i].request = r
  BY <1>1, <1>2, RequestsAgree
<1>4. ~Logged(disk[k], "operation.accepted", o)
  BY <1>1, <1>2 DEF Mirrors, OpIs
<1>5. start => \A i \in DOMAIN disk[k] : ~OfJob(disk[k], i)
  BY <1>1, <1>2 DEF Mirrors, JobIs
<1> QED
  BY <1>1, <1>3, <1>4, <1>5 DEF Extends, AcceptedRecord, OfJob

LEMMA CompleteExtends ==
    ASSUME JobInv, LogInv, NEW t \in Thread, NEW k, k = KeyOf[t], JournalShardFree(k), pc[t] = "finish",
           FinishAnswer(t) = "Append"
    PROVE  store = "open" /\ Extends(disk[k], FinishRecord(t))
<1>0. k \in Key /\ OperationOf[t] \in Operation
  BY ManagerAssumption
<1> DEFINE o == OperationOf[t]
<1>1. store = "open" /\ ~RequestClash(k, RequestFor(t)) /\ ops[k][o].terminal = None
  BY DEF FinishAnswer, CompleteAnswer
<1>2. JobTypes /\ WellFormed(disk[k]) /\ Mirrors(k, disk[k])
  BY <1>0, <1>1, FreeMirrors DEF JobInv
<1>3. \A i \in DOMAIN disk[k] : disk[k][i].request = RequestFor(t)
  BY <1>0, <1>1, <1>2, RequestsAgree
<1>4. ~Logged(disk[k], "operation.terminal", o)
  <2>1. OpIs(disk[k], o, ops[k][o])
    BY <1>0, <1>2 DEF Mirrors
  <2> QED
    BY <1>1, <1>2, <2>1 DEF OpIs, WellFormed, EndsAreTold, Logged
<1>5. want[t] \in Outcome /\ \E i \in DOMAIN disk[k] : OwnRecord(t, disk[k][i])
  BY <1>1 DEF LogInv, ThreadLogged, Begun
<1>6. want[t] # None
  BY <1>5, JournalAssumption
<1> DEFINE rec == FinishRecord(t)
<1>7. /\ rec.record = "operation.terminal" /\ rec.op = o /\ rec.request = RequestFor(t)
      /\ rec.content = ContentOf[t] /\ rec.start = (t \in Starter) /\ rec.result = want[t]
  BY DEF FinishRecord, TerminalRecord
<1> HIDE DEF rec
<1>8. \E i \in DOMAIN disk[k] : disk[k][i].record = "operation.accepted" /\ SameOperation(rec, disk[k][i])
  BY <1>5, <1>7 DEF OwnRecord, SameOperation
<1>9. Extends(disk[k], rec)
  BY <1>0, <1>3, <1>4, <1>6, <1>7, <1>8 DEF Extends
<1> QED
  BY <1>1, <1>9 DEF rec

LEMMA TerminalExtends ==
    ASSUME JobInv, LogInv, NEW k \in Key, store = "open", dispatcher[k] = "append"
    PROVE  Extends(disk[k], JobTerminalRecord(entry[k].request))
<1>1. entry[k].dispatch = "terminal" /\ JobTypes
  BY DEF JobInv, JobOK, JobOwns
<1>2. WellFormed(disk[k]) /\ ClaimLogged(k) /\ Configured
  BY DEF LogInv, LogOK, Configured
<1>3. ~Logged(disk[k], "job.terminal", None)
  BY <1>2 DEF ClaimLogged
<1>4. \A i \in DOMAIN disk[k] : disk[k][i].request = entry[k].request
  BY <1>1, <1>2 DEF ClaimLogged, WellFormed, Recoverable
<1> QED
  BY <1>3, <1>4 DEF Extends, JobTerminalRecord

\* An append, and what it does to the log of its job.
LEMMA AppendFollows ==
    ASSUME JobInv, LogInv, NEW k \in Key, NEW rec \in Record, store = "open", JournalShardFree(k),
           Extends(disk[k], rec), AppendSucceeds(k, rec) \/ AppendFails(k, rec)
    PROVE  /\ Grows(k) /\ WellFormed(disk[k])' /\ disk'[k] \in {disk[k], Append(disk[k], rec)}
           /\ \A j \in Key \ {k} : disk'[j] = disk[j]
           /\ AppendSucceeds(k, rec) => disk'[k] = Append(disk[k], rec)
           /\ AppendSucceeds(k, rec) /\ InHand(k, rec)' /\ ~JournalShardFree(k)' => Follows(k)'
<1>1. disk \in [Key -> Seq(Record)] /\ disk[k] \in Seq(Record)
  BY DEF JobInv, JobTypes
<1>2. WellFormed(disk[k]) /\ Mirrors(k, disk[k])
  BY FreeMirrors
<1>3. disk' = disk \/ disk' = [disk EXCEPT ![k] = Append(@, rec)]
  BY DEF AppendSucceeds, AppendFails
<1>4. /\ disk'[k] \in {disk[k], Append(disk[k], rec)} /\ \A j \in Key \ {k} : disk'[j] = disk[j]
      /\ AppendSucceeds(k, rec) => disk'[k] = Append(disk[k], rec)
  BY <1>1, <1>3 DEF AppendSucceeds
<1>5. WellFormed(disk[k])'
  <2>1. CASE disk'[k] = disk[k]
    BY <1>2, <2>1
  <2>2. CASE disk'[k] = Append(disk[k], rec)
    <3>1. PICK more : more = disk'[k]
      OBVIOUS
    <3>2. WellFormed(more)
      BY <1>1, <1>2, <2>2, <3>1, ExtendsRecovers
    <3> QED
      BY <3>1, <3>2
  <2> QED
    BY <1>4, <2>1, <2>2
<1>6. ASSUME AppendSucceeds(k, rec), InHand(k, rec)', ~JournalShardFree(k)' PROVE Follows(k)'
  <2>1. PICK log : log = disk[k]
    OBVIOUS
  <2>2. log \in Seq(Record) /\ disk'[k] = Append(log, rec) /\ jobs' = jobs /\ ops' = ops
    BY <1>1, <1>4, <1>6, <2>1 DEF AppendSucceeds
  <2>3. Mirrors(k, log)'
    BY <1>2, <2>1, <2>2 DEF Mirrors
  <2> QED
    BY <1>6, <2>2, <2>3 DEF Follows
<1> QED
  BY <1>4, <1>5, <1>6 DEF Grows

LEMMA ClaimGrows ==
    ASSUME NEW k \in Key, ClaimLogged(k), StoreStep, disk[k] \in Seq(Record), NEW rec \in Record,
           disk'[k] \in {disk[k], Append(disk[k], rec)},
           entry'[k].dispatch = entry[k].dispatch, entry'[k].request = entry[k].request,
           \/ rec.record # "job.terminal" /\ dispatcher'[k] = dispatcher[k]
           \/ entry[k].dispatch = "terminal" /\ dispatcher'[k] # "append"
    PROVE  ClaimLogged(k)'
<1>1. (Configured' <=> Configured) /\ (store' = "open" => store = "open")
  BY DEF StoreStep, Configured
<1>2. \A i \in DOMAIN disk[k] : i \in DOMAIN disk'[k] /\ disk'[k][i] = disk[k][i]
  <2>1. CASE disk'[k] = Append(disk[k], rec)
    <3>0. PICK log \in Seq(Record) : log = disk[k]
      OBVIOUS
    <3>1. PICK more : log = disk[k] /\ more = disk'[k]
      BY <3>0
    <3>2. \A i \in DOMAIN log : i \in DOMAIN more /\ more[i] = log[i]
      BY <2>1, <3>1, OneMore
    <3> QED
      BY <3>1, <3>2
  <2> QED
    BY <2>1
<1>3. rec.record # "job.terminal" => (Logged(disk'[k], "job.terminal", None) => Logged(disk[k], "job.terminal", None))
  <2>1. CASE disk'[k] = disk[k]
    BY <2>1
  <2>2. CASE disk'[k] = Append(disk[k], rec)
    <3>1. PICK log, more : log = disk[k] /\ more = disk'[k]
      OBVIOUS
    <3>2. log \in Seq(Record) /\ more = Append(log, rec)
      BY <2>2, <3>1
    <3>3. Logged(more, "job.terminal", None) => Logged(log, "job.terminal", None) \/ rec.record = "job.terminal"
      BY <3>2, OneMore DEF Logged
    <3> QED
      BY <3>1, <3>3
  <2> QED
    BY <2>1, <2>2
<1>4. store' = "open" /\ entry'[k].dispatch \in {"claimed", "running", "terminal"} =>
          \E i \in DOMAIN disk'[k] : disk'[k][i].start /\ disk'[k][i].request = entry'[k].request
  BY <1>1, <1>2 DEF ClaimLogged
<1>5. Configured' /\ (entry'[k].dispatch \in {"claimed", "running"} \/ dispatcher'[k] = "append") =>
          ~Logged(disk'[k], "job.terminal", None)
  BY <1>1, <1>3 DEF ClaimLogged
<1> QED
  BY <1>4, <1>5 DEF ClaimLogged

\* A thread that appends, in whichever way that ends.
LEMMA ThreadAppends ==
    ASSUME JobInv, LogInv, NEW t \in Thread, NEW k, k = KeyOf[t], Touches(k, {t}), Unwatched(k, {t}),
           JournalShardFree(k), store = "open", NEW rec \in Record, Extends(disk[k], rec),
           rec.record # "job.terminal", AppendSucceeds(k, rec) \/ AppendFails(k, rec),
           dispatcher' = dispatcher, entry'[k].dispatch = entry[k].dispatch,
           entry'[k].request = entry[k].request,
           AppendSucceeds(k, rec) => InHand(k, rec)' /\ pc'[t] \in Held,
           ThreadLogged(t)'
    PROVE  LogInv'
<1>1. k \in Key /\ t \in ThreadOf(k) /\ disk[k] \in Seq(Record) /\ OneJournal(k) /\ ClaimLogged(k) /\ StoreStep
  BY ThreadOfFacts, ManagerAssumption DEF JobInv, JobTypes, LogInv, LogOK, Touches
<1>2. /\ Grows(k) /\ WellFormed(disk[k])' /\ disk'[k] \in {disk[k], Append(disk[k], rec)}
      /\ AppendSucceeds(k, rec) /\ InHand(k, rec)' /\ ~JournalShardFree(k)' => Follows(k)'
  BY <1>1, AppendFollows
<1>3. OneJournal(k)'
  <2>1. dispatcher'[k] # "commit"
    BY ShardFreeIs
  <2> QED
    BY <1>1, <2>1, JournalHeld
<1>4. store' = "open" => Follows(k)'
  <2>1. store' = "open" => AppendSucceeds(k, rec)
    BY DEF AppendFails
  <2>2. AppendSucceeds(k, rec) => ~JournalShardFree(k)'
    BY <1>1 DEF JournalShardFree, ThreadOf, StarterOf, ControllerOf, Held
  <2> QED
    BY <1>2, <2>1, <2>2
<1>5. ClaimLogged(k)'
  BY <1>1, <1>2, ClaimGrows
<1> QED
  BY <1>1, <1>2, <1>3, <1>4, <1>5, JournalKeeps

\* A thread that leaves the log as it is while no store follows memory.
LEMMA ThreadForgets ==
    ASSUME JobInv, LogInv, NEW t \in Thread, NEW k, k = KeyOf[t], Touches(k, {t}), Unwatched(k, {t}),
           store' # "open", disk' = disk, pc'[t] \notin Held, dispatcher' = dispatcher,
           entry'[k].dispatch = entry[k].dispatch, entry'[k].request = entry[k].request,
           ThreadLogged(t)'
    PROVE  LogInv'
<1>1. /\ k \in Key /\ OneJournal(k) /\ ClaimLogged(k) /\ WellFormed(disk[k]) /\ StoreStep
  BY ManagerAssumption DEF LogInv, LogOK, Touches
<1>2. OneJournal(k)'
  BY <1>1, JournalHeld
<1>3. ClaimLogged(k)'
  BY <1>1, ClaimStays
<1>4. Grows(k) /\ WellFormed(disk[k])'
  BY <1>1 DEF Grows
<1> QED
  BY <1>1, <1>2, <1>3, <1>4, JournalKeeps

\* A thread that commits what it has appended.
LEMMA ThreadCommits ==
    ASSUME JobInv, LogInv, NEW t \in Thread, NEW k, k = KeyOf[t], Touches(k, {t}), Unwatched(k, {t}),
           disk' = disk, pc[t] \in Held, pc'[t] \notin Held, dispatcher' = dispatcher,
           entry'[k].dispatch = entry[k].dispatch, entry'[k].request = entry[k].request,
           store' = "open" => Mirrors(k, disk[k])',
           ThreadLogged(t)'
    PROVE  LogInv'
<1>1. /\ k \in Key /\ OneJournal(k) /\ ClaimLogged(k) /\ WellFormed(disk[k]) /\ StoreStep
      /\ t \in ThreadOf(k)
  BY ManagerAssumption, ThreadOfFacts DEF LogInv, LogOK, Touches
<1>2. OneJournal(k)'
  BY <1>1, JournalHeld
<1>3. ClaimLogged(k)'
  BY <1>1, ClaimStays
<1>4. Grows(k) /\ WellFormed(disk[k])'
  BY <1>1 DEF Grows
<1>5. JournalShardFree(k)'
  <2>1. \A u \in ThreadOf(k) \ {t} : pc'[u] = pc[u] /\ pc[u] \notin Held
    BY <1>1, ThreadOfFacts DEF OneJournal, Touches
  <2>2. dispatcher'[k] # "commit"
    BY <1>1 DEF OneJournal
  <2> QED
    BY <2>1, <2>2 DEF JournalShardFree, ThreadOf, StarterOf, ControllerOf, Held
<1>6. store' = "open" => Follows(k)'
  BY <1>5 DEF Follows
<1> QED
  BY <1>1, <1>2, <1>3, <1>4, <1>6, JournalKeeps

LEMMA BeginRecordIs ==
    /\ \A s \in Starter : BeginRecord(s) = StartRecord(s)
    /\ \A c \in Controller : BeginRecord(c) = ControlRecord(c)
<1>1. ASSUME NEW s \in Starter PROVE BeginRecord(s) = StartRecord(s)
  <2>1. RequestFor(s) = RequestOf[s] /\ (s \in Starter) = TRUE
    BY DEF RequestFor
  <2> QED
    BY <2>1 DEF BeginRecord, StartRecord
<1>2. ASSUME NEW c \in Controller PROVE BeginRecord(c) = ControlRecord(c)
  <2>1. (c \in Starter) = FALSE
    BY ThreadFacts
  <2> QED
    BY <2>1 DEF BeginRecord, ControlRecord
<1> QED
  BY <1>1, <1>2

LEMMA BeginRecordFacts ==
    ASSUME NEW t \in Thread, RequestFor(t) \in Request
    PROVE  /\ BeginRecord(t) \in Record /\ BeginRecord(t).record = "operation.accepted"
           /\ OwnRecord(t, BeginRecord(t)) /\ BeginRecord(t).request = RequestFor(t)
<1>1. OperationOf[t] \in Operation /\ ContentOf[t] \in Content /\ (t \in Starter) \in BOOLEAN
  BY ManagerAssumption
<1>2. BeginRecord(t) \in Record
  BY <1>1, RecordFacts DEF BeginRecord
<1> QED
  BY <1>2 DEF BeginRecord, AcceptedRecord, OwnRecord, RequestFor

LEMMA FinishRecordFacts ==
    ASSUME NEW t \in Thread, RequestFor(t) \in Request, want[t] \in Outcome
    PROVE  /\ FinishRecord(t) \in Record /\ FinishRecord(t).record = "operation.terminal"
           /\ FinishRecord(t).op = OperationOf[t] /\ FinishRecord(t).start = (t \in Starter)
           /\ FinishRecord(t).result = want[t]
<1>1. OperationOf[t] \in Operation /\ ContentOf[t] \in Content /\ (t \in Starter) \in BOOLEAN
  BY ManagerAssumption
<1>2. FinishRecord(t) \in Record
  BY <1>1, RecordFacts DEF FinishRecord
<1> QED
  BY <1>2 DEF FinishRecord, TerminalRecord

LEMMA HeldRecord ==
    ASSUME LogInv, NEW t \in Thread, NEW k, k = KeyOf[t], store = "open", pc[t] \in Held
    PROVE  \E log \in Seq(Record), rec \in Record :
              /\ disk[k] = Append(log, rec) /\ Mirrors(k, log)
              /\ rec = IF pc[t] = "commit" THEN BeginRecord(t) ELSE FinishRecord(t)
<1>1. k \in Key /\ t \in ThreadOf(k) /\ OneJournal(k) /\ Follows(k)
  BY ManagerAssumption, ThreadOfFacts DEF LogInv, LogOK
<1>2. ~JournalShardFree(k)
  BY <1>1, ShardFreeIs
<1>3. PICK log \in Seq(Record), rec \in Record :
         disk[k] = Append(log, rec) /\ InHand(k, rec) /\ Mirrors(k, log)
  BY <1>1, <1>2 DEF Follows
<1>4. dispatcher[k] # "commit" /\ \A u \in ThreadOf(k) : pc[u] \in Held => u = t
  BY <1>1 DEF OneJournal
<1>5. rec = IF pc[t] = "commit" THEN BeginRecord(t) ELSE FinishRecord(t)
  BY <1>3, <1>4 DEF InHand, Held
<1> QED
  BY <1>3, <1>5

\* start accepts.
LEMMA AcceptStartLogged ==
    ASSUME JobInv, LogInv, NEW s \in Starter, AcceptStart(s)
    PROVE  LogInv'
<1>0. PICK k \in Key : k = KeyOf[s]
  BY ThreadFacts
<1>1. /\ JobTypes /\ s \in Thread /\ StartOK(s) /\ ThreadLogged(s) /\ s \in ThreadOf(k)
      /\ RequestOf[s] \in Request /\ OperationOf[s] \in Operation /\ ContentOf[s] \in Content
      /\ disk[k] \in Seq(Record)
  BY <1>0, ThreadFacts, ThreadOfFacts, ManagerAssumption DEF JobInv, LogInv, JobTypes
<1>2. /\ JournalShardFree(k) /\ pc[s] = "accept" /\ UNCHANGED <<want, dispatcher, restarts>>
  BY <1>0 DEF AcceptStart, Goto, ReturnPermit, Return, jobVars
<1>3. Unwatched(k, {s})
  <2>1. pc[s] \notin AtRest
    BY <1>2 DEF AtRest
  <2> QED
    BY <1>0, <2>1, StartIsUnwatched
<1>4. entry[k].request = RequestOf[s]
  BY <1>0, <1>1, <1>2 DEF ThreadLogged
<1>5. CASE StartAnswer(s) = "Append"
  <2>0. /\ \/ AppendSucceeds(k, StartRecord(s)) /\ pc' = [pc EXCEPT ![s] = "commit"]
           \/ AppendFails(k, StartRecord(s)) /\ pc' = [pc EXCEPT ![s] = "rollback"]
        /\ UNCHANGED <<jobRegistryVars, ops, jobs>>
    <3>1. \/ /\ AppendSucceeds(k, StartRecord(s)) /\ Goto(s, "accept", "commit")
             /\ UNCHANGED jobRegistryVars
          \/ /\ AppendFails(k, StartRecord(s)) /\ Goto(s, "accept", "rollback")
             /\ UNCHANGED <<jobRegistryVars, ops, jobs>>
      BY <1>0, <1>5 DEF AcceptStart
    <3> QED
      BY <3>1 DEF Goto, AppendSucceeds
  <2>1. PICK rec \in Record : /\ rec = StartRecord(s) /\ rec.record = "operation.accepted"
                              /\ rec = BeginRecord(s) /\ rec.start
    <3>1. RequestFor(s) = RequestOf[s]
      BY DEF RequestFor
    <3> QED
      BY <1>1, <3>1, BeginRecordIs, BeginRecordFacts DEF OwnRecord
  <2>2. /\ store = "open" /\ Extends(disk[k], rec) /\ \A i \in DOMAIN disk[k] : ~OfJob(disk[k], i)
    <3>1. TRUE \in BOOLEAN /\ BeginAnswer(k, RequestOf[s], OperationOf[s], ContentOf[s], TRUE) = "Append"
      BY <1>0, <1>5 DEF StartAnswer
    <3> QED
      BY <1>1, <1>2, <2>1, <3>1, BeginExtends DEF StartRecord
  <2>3. AppendSucceeds(k, rec) \/ AppendFails(k, rec)
    BY <2>0, <2>1
  <2>4. /\ \A j \in Key \ {k} : disk'[j] = disk[j]
        /\ disk'[k] \in {disk[k], Append(disk[k], rec)}
    BY <1>2, <2>2, <2>3, AppendFollows
  <2>5. /\ pc'[s] \in {"commit", "rollback"} /\ (\A u \in Thread \ {s} : pc'[u] = pc[u])
        /\ AppendSucceeds(k, rec) => pc'[s] = "commit"
    <3>1. AppendSucceeds(k, rec) => ~AppendFails(k, rec)
      BY <2>2 DEF AppendSucceeds, AppendFails
    <3> QED
      BY <1>1, <2>0, <2>1, <3>1 DEF JobTypes
  <2>6. StoreStep /\ entry' = entry
    BY <1>2, <2>0, <2>2, <2>3 DEF StoreStep, AppendSucceeds, AppendFails, jobRegistryVars
  <2>7. Touches(k, {s})
    BY <1>1, <1>2, <2>0, <2>4, <2>5, <2>6 DEF Touches
  <2>8. AppendSucceeds(k, rec) => InHand(k, rec)' /\ pc'[s] \in Held
    <3>1. BeginRecord(s)' = BeginRecord(s)
      BY DEF BeginRecord, RequestFor
    <3>2. ThreadOf(k)' = ThreadOf(k)
      BY DEF ThreadOf, StarterOf, ControllerOf
    <3> QED
      BY <1>1, <2>1, <2>5, <3>1, <3>2 DEF InHand, Held
  <2>9. ThreadLogged(s)'
    <3>1. \A i \in DOMAIN disk'[k] : ~EndsStart(disk'[k], i) /\ disk'[k][i].record # "job.terminal"
      <4>1. PICK log, more : log = disk[k] /\ more = disk'[k]
        OBVIOUS
      <4>2. \A i \in DOMAIN log : ~OfJob(log, i)
        BY <2>2, <4>1
      <4>3. \A i \in DOMAIN more : more[i] = rec \/ (i \in DOMAIN log /\ more[i] = log[i])
        BY <1>1, <2>4, <4>1, OneMore
      <4>4. \A i \in DOMAIN more : ~EndsStart(more, i) /\ more[i].record # "job.terminal"
        BY <2>1, <4>2, <4>3 DEF EndsStart, OfJob
      <4> QED
        BY <4>1, <4>4
    <3>2. \A i \in DOMAIN disk'[k] : ~EndsStart(disk[k], i)' /\ disk'[k][i].record # "job.terminal"
      BY <3>1 DEF EndsStart
    <3> QED
      BY <1>0, <1>4, <2>5, <2>6, <3>2 DEF ThreadLogged, Begun
  <2>10. rec.record # "job.terminal"
    BY <2>1
  <2> QED
    BY <1>0, <1>1, <1>2, <1>3, <2>2, <2>3, <2>6, <2>7, <2>8, <2>9, <2>10, ThreadAppends
<1>6. ASSUME StartAnswer(s) = "Unjournaled",
             AcceptUnjournaled(k, RequestOf[s], OperationOf[s], ContentOf[s], TRUE),
             NEW p \in {"done", "claim"}, pc' = [pc EXCEPT ![s] = p],
             p = "claim" => Status # "Unavailable" /\ UNCHANGED jobRegistryVars,
             EntryKept(k) \/ EntryFenced(k)
      PROVE  LogInv'
  <2>1. store # "open" /\ UNCHANGED <<store, disk>>
    BY <1>6 DEF StartAnswer, BeginAnswer, AcceptUnjournaled
  <2>2. /\ pc'[s] = p /\ \A u \in Thread \ {s} : pc'[u] = pc[u]
    BY <1>1, <1>6 DEF JobTypes
  <2>3. \A j \in Key \ {k} : ops'[j] = ops[j] /\ jobs'[j] = jobs[j]
    BY <1>1, <1>6 DEF AcceptUnjournaled, Remember, JobTypes
  <2>4. /\ entry'[k].dispatch = entry[k].dispatch /\ entry'[k].request = entry[k].request
        /\ \A j \in Key \ {k} : entry'[j] = entry[j]
    BY <1>6 DEF EntryKept, EntryFenced, EntryGoes
  <2>5. StoreStep
    BY <1>2, <2>1 DEF StoreStep
  <2>6. Touches(k, {s})
    BY <1>1, <1>2, <2>1, <2>2, <2>3, <2>4, <2>5 DEF Touches
  <2>7. ThreadLogged(s)'
    <3>1. p = "claim" => ~Configured'
      BY <1>6, <2>1 DEF Status, Configured
    <3> QED
      BY <1>0, <1>4, <2>1, <2>2, <2>4, <3>1 DEF ThreadLogged
  <2> QED
    BY <1>0, <1>1, <1>2, <1>3, <2>1, <2>2, <2>4, <2>6, <2>7, ThreadForgets DEF Held
<1>8. CASE StartAnswer(s) = "Unjournaled"
  <2>1. AcceptUnjournaled(k, RequestOf[s], OperationOf[s], ContentOf[s], TRUE)
    BY <1>0, <1>8 DEF AcceptStart
  <2>2. \/ pc' = [pc EXCEPT ![s] = "done"] /\ MarkRestartUncertain(k)
        \/ pc' = [pc EXCEPT ![s] = "claim"] /\ Status # "Unavailable" /\ UNCHANGED jobRegistryVars
    BY <1>0, <1>8 DEF AcceptStart, Goto, ReturnPermit, Return
  <2>3. EntryKept(k) \/ EntryFenced(k)
    BY <1>1, <2>2, SameEntry, MarkFences
  <2> QED
    BY <1>6, <1>8, <2>1, <2>2, <2>3
<1> QED
  BY <1>5, <1>8 DEF AcceptStart

\* What an append is committed as.
LEMMA AcceptedMirrors ==
    ASSUME JobTypes, NEW k \in Key, NEW log \in Seq(Record), NEW rec \in Record, disk[k] = Append(log, rec),
           WellFormed(disk[k]), Mirrors(k, log), disk' = disk,
           NEW r, NEW o \in Operation, NEW c, NEW start \in BOOLEAN, NEW pre, rec = AcceptedRecord(r, o, c, start),
           Remember(k, r, o, c, start, pre), start => ~jobs[k].known
    PROVE  Mirrors(k, disk[k])'
<1>1. PICK more : more = disk[k]
  OBVIOUS
<1>2. /\ rec.record = "operation.accepted" /\ rec.op = o /\ rec.request = r /\ rec.content = c
      /\ rec.start = start
  BY DEF AcceptedRecord
<1>3. JobIs(log, jobs[k]) /\ \A u \in Operation : OpIs(log, u, ops[k][u])
  BY DEF Mirrors
<1>4. ASSUME NEW u \in Operation PROVE OpIs(more, u, ops'[k][u])
  <2>1. CASE u = o
    <3>1. PICK p : p = ops'[k][o]
      OBVIOUS
    <3>2. p.known /\ p.request = r /\ p.content = c /\ p.terminal = None
      BY <3>1 DEF Remember, JobTypes
    <3>3. p.request = rec.request /\ p.content = rec.content /\ p.terminal = None /\ p.known
      BY <1>2, <3>2
    <3>4. OpIs(more, rec.op, p)
      BY <1>1, <1>2, <3>3, OpAccepted
    <3> QED
      BY <1>2, <2>1, <3>1, <3>4
  <2>2. CASE u # o
    <3>1. ops'[k][u] = ops[k][u]
      BY <2>2 DEF Remember, JobTypes
    <3> QED
      BY <1>1, <1>2, <1>3, <2>2, <3>1, OpElsewhere
  <2> QED
    BY <2>1, <2>2
<1>5. JobIs(more, jobs'[k])
  <2>1. CASE start
    <3>1. PICK p : p = jobs'[k]
      OBVIOUS
    <3>2. p.known /\ p.request = r /\ p.startResult = None /\ ~p.terminal
      BY <2>1, <3>1 DEF Remember, JobTypes
    <3>3. \A i \in DOMAIN log : ~OfJob(log, i)
      BY <1>3, <2>1 DEF JobIs
    <3> QED
      BY <1>1, <1>2, <2>1, <3>1, <3>2, <3>3, JobAccepted
  <2>2. CASE ~start
    <3>1. jobs'[k] = jobs[k] /\ rec.record # "job.terminal"
      BY <1>2, <2>2 DEF Remember
    <3> QED
      BY <1>1, <1>2, <1>3, <2>2, <3>1, JobElsewhere
  <2> QED
    BY <2>1, <2>2
<1> QED
  BY <1>1, <1>4, <1>5 DEF Mirrors

LEMMA EndedMirrors ==
    ASSUME JobTypes, NEW k \in Key, NEW log \in Seq(Record), NEW rec \in Record, disk[k] = Append(log, rec),
           WellFormed(disk[k]), Mirrors(k, log), NEW o \in Operation, NEW start \in BOOLEAN, NEW w,
           rec.record = "operation.terminal", rec.op = o, rec.start = start, rec.result = w,
           CommitTerminal(k, o, start, w), start => jobs[k].known
    PROVE  Mirrors(k, disk[k])'
<1>1. PICK more : more = disk[k]
  OBVIOUS
<1>2. disk' = disk /\ JobIs(log, jobs[k]) /\ \A u \in Operation : OpIs(log, u, ops[k][u])
  BY DEF Mirrors, CommitTerminal
<1>3. ASSUME NEW u \in Operation PROVE OpIs(more, u, ops'[k][u])
  <2>1. CASE u = o
    <3>1. PICK p, q : p = ops[k][o] /\ q = ops'[k][o]
      OBVIOUS
    <3>2. q = [p EXCEPT !.terminal = w] /\ p \in OperationState
      BY <3>1 DEF CommitTerminal, JobTypes
    <3>3. q.known = p.known /\ q.request = p.request /\ q.content = p.content /\ q.terminal = w
      BY <3>2 DEF OperationState
    <3>4. OpIs(log, rec.op, p)
      BY <1>2, <3>1
    <3> QED
      BY <1>1, <2>1, <3>1, <3>3, <3>4, OpEnded
  <2>2. CASE u # o
    <3>1. ops'[k][u] = ops[k][u]
      BY <2>2 DEF CommitTerminal, JobTypes
    <3> QED
      BY <1>1, <1>2, <2>2, <3>1, OpElsewhere
  <2> QED
    BY <2>1, <2>2
<1>4. JobIs(more, jobs'[k])
  <2>1. CASE start
    <3>1. PICK p, q : p = jobs[k] /\ q = jobs'[k]
      OBVIOUS
    <3>2. q = [p EXCEPT !.startResult = w] /\ p \in JobState
      BY <2>1, <3>1 DEF CommitTerminal, JobTypes
    <3>3. q.known = p.known /\ q.request = p.request /\ q.terminal = p.terminal /\ q.startResult = w
      BY <3>2 DEF JobState
    <3>4. JobIs(log, p)
      BY <1>2, <3>1
    <3> QED
      BY <1>1, <2>1, <3>1, <3>3, <3>4, JobStartEnded
  <2>2. CASE ~start
    <3>1. jobs'[k] = jobs[k] /\ rec.record # "job.terminal"
      BY <2>2 DEF CommitTerminal
    <3> QED
      BY <1>1, <1>2, <2>2, <3>1, JobElsewhere
  <2> QED
    BY <2>1, <2>2
<1> QED
  BY <1>1, <1>2, <1>3, <1>4 DEF Mirrors

LEMMA CommitStartLogged ==
    ASSUME JobInv, LogInv, NEW s \in Starter, CommitStart(s)
    PROVE  LogInv'
<1>0. PICK k \in Key : k = KeyOf[s]
  BY ThreadFacts
<1>1. /\ JobTypes /\ s \in Thread /\ StartOK(s) /\ ThreadLogged(s) /\ s \in ThreadOf(k)
      /\ RequestOf[s] \in Request /\ OperationOf[s] \in Operation /\ ContentOf[s] \in Content
      /\ disk[k] \in Seq(Record) /\ WellFormed(disk[k])
  BY <1>0, ThreadFacts, ThreadOfFacts, ManagerAssumption DEF JobInv, LogInv, LogOK, JobTypes
<1>2. /\ pc[s] = "commit" /\ UNCHANGED <<want, dispatcher, restarts, store, disk>>
      /\ Remember(k, RequestOf[s], OperationOf[s], ContentOf[s], TRUE, store # "open")
  BY <1>0 DEF CommitStart, CommitAccepted, Goto, ReturnPermit, Return, jobVars
<1>3. Unwatched(k, {s})
  <2>1. pc[s] \notin AtRest
    BY <1>2 DEF AtRest
  <2> QED
    BY <1>0, <2>1, StartIsUnwatched
<1>4. PICK p \in {"claim", "done"} : pc' = [pc EXCEPT ![s] = p] /\ (p = "claim" => store = "open")
  BY DEF CommitStart, Goto, ReturnPermit, Return
<1>5. /\ entry'[k].dispatch = entry[k].dispatch /\ entry'[k].request = entry[k].request
      /\ \A j \in Key \ {k} : entry'[j] = entry[j]
  <2>1. UNCHANGED jobRegistryVars \/ MarkRestartUncertain(k)
    BY <1>0 DEF CommitStart
  <2>2. EntryKept(k) \/ EntryFenced(k)
    BY <1>1, <2>1, SameEntry, MarkFences
  <2> QED
    BY <2>2 DEF EntryKept, EntryFenced, EntryGoes
<1>6. pc'[s] = p /\ \A u \in Thread \ {s} : pc'[u] = pc[u]
  BY <1>1, <1>4 DEF JobTypes
<1>7. \A j \in Key \ {k} : ops'[j] = ops[j] /\ jobs'[j] = jobs[j]
  BY <1>1, <1>2 DEF Remember, JobTypes
<1>8. Touches(k, {s})
  <2>1. StoreStep
    BY <1>2 DEF StoreStep
  <2> QED
    BY <1>1, <1>2, <1>5, <1>6, <1>7, <2>1 DEF Touches
<1>9. ASSUME store = "open"
      PROVE  Mirrors(k, disk[k])' /\ \E i \in DOMAIN disk[k] : OwnRecord(s, disk[k][i])
  <2>1. PICK log \in Seq(Record), rec \in Record :
           disk[k] = Append(log, rec) /\ Mirrors(k, log) /\ rec = BeginRecord(s)
    <3>1. pc[s] \in Held
      BY <1>2 DEF Held
    <3> QED
      BY <1>0, <1>1, <1>2, <1>9, <3>1, HeldRecord
  <2>2. rec = AcceptedRecord(RequestOf[s], OperationOf[s], ContentOf[s], TRUE) /\ OwnRecord(s, rec)
    <3>1. RequestFor(s) = RequestOf[s]
      BY DEF RequestFor
    <3> QED
      BY <1>1, <2>1, <3>1, BeginRecordIs, BeginRecordFacts DEF StartRecord
  <2>3. ~jobs[k].known
    BY <1>0, <1>1, <1>2 DEF StartOK, StartIsNew
  <2>4. Mirrors(k, disk[k])'
    <3>1. TRUE \in BOOLEAN /\ disk' = disk
      BY <1>2
    <3> HIDE DEF Mirrors, Remember
    <3> QED
      BY <1>1, <1>2, <2>1, <2>2, <2>3, <3>1, AcceptedMirrors
  <2>5. Len(disk[k]) \in DOMAIN disk[k] /\ disk[k][Len(disk[k])] = rec
    BY <2>1, OneMore
  <2> QED
    BY <2>2, <2>4, <2>5
<1>10. ThreadLogged(s)'
  <2>1. entry[k].request = RequestOf[s]
    BY <1>0, <1>1, <1>2 DEF ThreadLogged
  <2>2. Configured => \A i \in DOMAIN disk[k] : ~EndsStart(disk[k], i) /\ disk[k][i].record # "job.terminal"
    BY <1>0, <1>1, <1>2 DEF ThreadLogged
  <2>3. Configured' => \A i \in DOMAIN disk'[k] : ~EndsStart(disk[k], i)' /\ disk'[k][i].record # "job.terminal"
    BY <1>2, <2>2 DEF EndsStart, Configured
  <2>4. store' = "open" => \E i \in DOMAIN disk'[k] : OwnRecord(s, disk[k][i])'
    BY <1>2, <1>9 DEF OwnRecord
  <2> QED
    BY <1>0, <1>5, <1>6, <2>1, <2>3, <2>4 DEF ThreadLogged
<1>11. pc[s] \in Held /\ pc'[s] \notin Held /\ dispatcher' = dispatcher /\ disk' = disk
       /\ (store' = "open" => Mirrors(k, disk[k])')
  BY <1>2, <1>6, <1>9 DEF Held
<1> QED
  BY <1>0, <1>1, <1>3, <1>5, <1>8, <1>10, <1>11, ThreadCommits

\* A control in the journal.
LEMMA ControlFacts ==
    ASSUME JobInv, LogInv, NEW c \in Controller, NEW k, k = KeyOf[c], pc[c] \in Controls \ {"check"}
    PROVE  /\ entry[k].dispatch = "running" /\ entry[k].request \in Request /\ RequestFor(c) = entry[k].request
           /\ k \in Key /\ c \in Thread /\ c \notin Starter /\ c \in ThreadOf(k)
           /\ Unwatched(k, {c}) /\ ThreadLogged(c) /\ disk[k] \in Seq(Record) /\ WellFormed(disk[k]) /\ JobTypes
           /\ OperationOf[c] \in Operation /\ ContentOf[c] \in Content
<1>1. /\ k \in Key /\ c \in Thread /\ c \notin Starter /\ c \in ThreadOf(k) /\ JobTypes
      /\ OperationOf[c] \in Operation /\ ContentOf[c] \in Content
  BY ThreadFacts, ThreadOfFacts, ManagerAssumption DEF JobInv
<1>2. entry[k].dispatch = "running"
  BY DEF JobInv, ControlOK
<1>3. entry[k].request # None
  BY <1>1, <1>2 DEF JobInv, JobOK, JobOwns
<1>4. entry[k].request \in Request
  BY <1>1, <1>3, EntryFacts DEF Entry
<1>5. Unwatched(k, {c})
  BY <1>1, <1>2, RunningIsUnwatched
<1>6. ThreadLogged(c) /\ disk[k] \in Seq(Record) /\ WellFormed(disk[k])
  BY <1>1 DEF LogInv, LogOK, JobInv, JobTypes
<1> QED
  BY <1>1, <1>2, <1>4, <1>5, <1>6 DEF RequestFor

LEMMA CommitControlLogged ==
    ASSUME JobInv, LogInv, NEW c \in Controller, CommitControl(c)
    PROVE  LogInv'
<1>0. PICK k \in Key : k = KeyOf[c]
  BY ThreadFacts
<1>1. /\ pc[c] = "commit" /\ UNCHANGED <<entry, want, dispatcher, restarts, store, disk>>
      /\ Remember(k, RequestFor(c), OperationOf[c], ContentOf[c], FALSE, store # "open")
  BY <1>0 DEF CommitControl, CommitAccepted, Goto, Return, jobVars, jobRegistryVars
<1>2. /\ RequestFor(c) \in Request
      /\ k \in Key /\ c \in Thread /\ c \notin Starter /\ c \in ThreadOf(k)
      /\ Unwatched(k, {c}) /\ ThreadLogged(c) /\ disk[k] \in Seq(Record) /\ WellFormed(disk[k]) /\ JobTypes
      /\ OperationOf[c] \in Operation /\ ContentOf[c] \in Content
  <2>1. pc[c] \in Controls \ {"check"}
    BY <1>1 DEF Controls
  <2> QED
    BY <1>0, <2>1, ControlFacts
<1>4. PICK p \in {"record", "effect", "done"} : pc' = [pc EXCEPT ![c] = p]
  BY DEF CommitControl, Goto, Return, FirstStep
<1>6. pc'[c] = p /\ \A u \in Thread \ {c} : pc'[u] = pc[u]
  BY <1>2, <1>4 DEF JobTypes
<1>7. \A j \in Key \ {k} : ops'[j] = ops[j] /\ jobs'[j] = jobs[j]
  BY <1>1, <1>2 DEF Remember, JobTypes
<1>8. Touches(k, {c})
  <2>1. StoreStep
    BY <1>1 DEF StoreStep
  <2> QED
    BY <1>1, <1>2, <1>6, <1>7, <2>1 DEF Touches
<1>9. ASSUME store = "open"
      PROVE  Mirrors(k, disk[k])' /\ \E i \in DOMAIN disk[k] : OwnRecord(c, disk[k][i])
  <2>1. PICK log \in Seq(Record), rec \in Record :
           disk[k] = Append(log, rec) /\ Mirrors(k, log) /\ rec = BeginRecord(c)
    <3>1. pc[c] \in Held
      BY <1>1 DEF Held
    <3> QED
      BY <1>0, <1>1, <1>2, <1>9, <3>1, HeldRecord
  <2>2. rec = AcceptedRecord(RequestFor(c), OperationOf[c], ContentOf[c], FALSE) /\ OwnRecord(c, rec)
    BY <1>2, <2>1, BeginRecordIs, BeginRecordFacts DEF ControlRecord
  <2>4. Mirrors(k, disk[k])'
    <3>1. FALSE \in BOOLEAN /\ disk' = disk
      BY <1>1
    <3> QED
      BY <1>1, <1>2, <2>1, <2>2, <3>1, AcceptedMirrors
  <2>5. Len(disk[k]) \in DOMAIN disk[k] /\ disk[k][Len(disk[k])] = rec
    BY <2>1, OneMore
  <2> QED
    BY <2>2, <2>4, <2>5
<1>10. ThreadLogged(c)'
  <2>4. store' = "open" => \E i \in DOMAIN disk'[k] : OwnRecord(c, disk[k][i])'
    BY <1>1, <1>9 DEF OwnRecord
  <2> QED
    BY <1>0, <1>2, <1>6, <2>4 DEF ThreadLogged
<1>11. pc[c] \in Held /\ pc'[c] \notin Held /\ dispatcher' = dispatcher /\ disk' = disk
       /\ (store' = "open" => Mirrors(k, disk[k])')
       /\ entry'[k].dispatch = entry[k].dispatch /\ entry'[k].request = entry[k].request
  BY <1>1, <1>6, <1>9 DEF Held
<1> QED
  BY <1>0, <1>2, <1>8, <1>10, <1>11, ThreadCommits

\* complete_operation, for a start and for a control alike.
LEMMA FinishingFacts ==
    ASSUME JobInv, LogInv, NEW t \in Thread, NEW k, k = KeyOf[t], pc[t] \in {"finish", "finished"}
    PROVE  /\ RequestFor(t) \in Request /\ k \in Key /\ t \in ThreadOf(k) /\ Unwatched(k, {t})
           /\ ThreadLogged(t) /\ want[t] \in Outcome /\ OperationOf[t] \in Operation
           /\ disk[k] \in Seq(Record) /\ WellFormed(disk[k]) /\ JobTypes
           /\ t \in Starter => jobs[k].known
<1>1. /\ k \in Key /\ t \in ThreadOf(k) /\ JobTypes /\ ThreadLogged(t)
      /\ OperationOf[t] \in Operation
  BY ThreadOfFacts, ManagerAssumption DEF JobInv, LogInv
<1>2. disk[k] \in Seq(Record) /\ WellFormed(disk[k]) /\ want[t] \in Outcome
  BY <1>1 DEF LogInv, LogOK, JobTypes, ThreadLogged
<1>3. CASE t \in Starter
  <2>1. Published(t) \/ Doomed(t)
    BY DEF Published, Doomed
  <2>2. jobs[k].known
    BY <1>3, <2>1 DEF JobInv, StartOK, StartIsNew
  <2>3. RequestFor(t) \in Request
    BY <1>3, ManagerAssumption DEF RequestFor
  <2>4. Unwatched(k, {t})
    <3>1. pc[t] \notin AtRest
      BY DEF AtRest
    <3> QED
      BY <1>3, <3>1, StartIsUnwatched
  <2> QED
    BY <1>1, <1>2, <2>2, <2>3, <2>4
<1>4. CASE t \in Controller
  <2>1. pc[t] \in Controls \ {"check"} /\ t \notin Starter
    BY <1>4, ThreadFacts DEF Controls
  <2>2. Unwatched(k, {t}) /\ RequestFor(t) \in Request
    BY <1>4, <2>1, ControlFacts
  <2> QED
    BY <1>1, <1>2, <2>1, <2>2
<1> QED
  BY <1>3, <1>4 DEF Thread

Left == {"dispatch", "fence", "abort", "done"}

LEMMA FinishLeaves ==
    ASSUME JobTypes, NEW t \in Thread, NEW k \in Key, k = KeyOf[t], NEW from,
           Resolved(t, from) \/ Unresolved(t, from)
    PROVE  /\ pc[t] = from /\ pc'[t] \in Left /\ \A u \in Thread \ {t} : pc'[u] = pc[u]
           /\ entry'[k].dispatch = entry[k].dispatch /\ entry'[k].request = entry[k].request
           /\ \A j \in Key \ {k} : entry'[j] = entry[j]
<1>1. pc[t] = from /\ \E p \in Left : pc' = [pc EXCEPT ![t] = p]
  BY DEF Resolved, Unresolved, Goto, Return, Left
<1>2. UNCHANGED jobRegistryVars \/ MarkRestartUncertain(k)
  BY DEF Resolved, Unresolved
<1>3. EntryKept(k) \/ EntryFenced(k)
  BY <1>2, SameEntry, MarkFences
<1>4. pc'[t] \in Left /\ \A u \in Thread \ {t} : pc'[u] = pc[u]
  BY <1>1 DEF JobTypes
<1> QED
  BY <1>1, <1>3, <1>4 DEF EntryKept, EntryFenced, EntryGoes

LEMMA LeftLogged ==
    ASSUME NEW t \in Thread, NEW k, k = KeyOf[t], ThreadLogged(t), StoreStep,
           pc[t] \in {"finish", "finished"}, pc'[t] \in Left, disk'[k] = disk[k] \/ store' # "open"
    PROVE  ThreadLogged(t)'
<1>1. store' = "open" => store = "open"
  BY DEF StoreStep
<1>2. store' = "open" => \E i \in DOMAIN disk'[k] : OwnRecord(t, disk[k][i])'
  BY <1>1 DEF ThreadLogged, Begun, OwnRecord
<1> QED
  BY <1>2 DEF ThreadLogged, Left

LEMMA FinishLogged ==
    ASSUME JobInv, LogInv, NEW t \in Thread, Finish(t)
    PROVE  LogInv'
<1>0. PICK k \in Key : k = KeyOf[t]
  BY ManagerAssumption
<1>1. JournalShardFree(k) /\ pc[t] = "finish" /\ UNCHANGED <<want, dispatcher, restarts>>
  BY <1>0 DEF Finish, Goto, Resolved, Unresolved, Return, jobVars
<1>2. /\ RequestFor(t) \in Request /\ k \in Key /\ t \in ThreadOf(k) /\ Unwatched(k, {t})
      /\ ThreadLogged(t) /\ want[t] \in Outcome /\ OperationOf[t] \in Operation
      /\ disk[k] \in Seq(Record) /\ WellFormed(disk[k]) /\ JobTypes
  BY <1>0, <1>1, FinishingFacts
<1>3. PICK rec \in Record : /\ rec = FinishRecord(t) /\ rec.record = "operation.terminal"
  BY <1>2, FinishRecordFacts
<1>4. rec.record # "job.terminal"
  BY <1>3
<1>5. MarkOperationUncertain(k, OperationOf[t]) => \A j \in Key \ {k} : ops'[j] = ops[j]
  BY <1>2, UncertainGoes
<1>6. CASE FinishAnswer(t) = "Append" /\ AppendSucceeds(k, rec) /\ Goto(t, "finish", "finished") /\ UNCHANGED jobRegistryVars
  <2>1. store = "open" /\ Extends(disk[k], rec)
    BY <1>0, <1>1, <1>3, <1>6, CompleteExtends
  <2>2. \A j \in Key \ {k} : disk'[j] = disk[j]
    BY <1>1, <1>6, <2>1, AppendFollows
  <2>3. /\ UNCHANGED <<entry, store, ops, jobs>> /\ disk'[k] = Append(disk[k], rec)
    BY <1>2, <1>6 DEF AppendSucceeds, jobRegistryVars, JobTypes
  <2>4. pc'[t] = "finished" /\ \A u \in Thread \ {t} : pc'[u] = pc[u]
    BY <1>2, <1>6 DEF Goto, JobTypes
  <2>5. Touches(k, {t})
    <3>1. StoreStep
      BY <1>1, <2>3 DEF StoreStep
    <3> QED
      BY <1>1, <1>2, <2>2, <2>3, <2>4, <3>1 DEF Touches
  <2>6. InHand(k, rec)' /\ pc'[t] \in Held
    <3>1. FinishRecord(t)' = FinishRecord(t)
      BY <1>1, <2>3 DEF FinishRecord, RequestFor
    <3>2. ThreadOf(k)' = ThreadOf(k)
      BY DEF ThreadOf, StarterOf, ControllerOf
    <3> QED
      BY <1>2, <1>3, <2>4, <3>1, <3>2 DEF InHand, Held
  <2>7. ThreadLogged(t)'
    <3>1. \E i \in DOMAIN disk[k] : OwnRecord(t, disk[k][i])
      BY <1>0, <1>1, <1>2, <2>1 DEF ThreadLogged, Begun
    <3>2. \E i \in DOMAIN disk'[k] : OwnRecord(t, disk[k][i])'
      <4>1. PICK i \in DOMAIN disk[k] : OwnRecord(t, disk[k][i])
        BY <3>1
      <4>2. i \in DOMAIN disk'[k] /\ disk'[k][i] = disk[k][i]
        BY <1>2, <2>3, OneMore
      <4> QED
        BY <4>1, <4>2 DEF OwnRecord
    <3> QED
      BY <1>0, <1>1, <1>2, <2>4, <3>2 DEF ThreadLogged
  <2> QED
    BY <1>0, <1>1, <1>2, <1>4, <1>6, <2>1, <2>3, <2>5, <2>6, <2>7, ThreadAppends
<1>7. CASE /\ FinishAnswer(t) = "Append" /\ AppendFails(k, rec) /\ MarkOperationUncertain(k, OperationOf[t])
           /\ UNCHANGED jobs /\ Unresolved(t, "finish")
  <2>1. store = "open" /\ Extends(disk[k], rec)
    BY <1>0, <1>1, <1>3, <1>7, CompleteExtends
  <2>2. (\A j \in Key \ {k} : disk'[j] = disk[j]) /\ store' = "lost"
    BY <1>1, <1>7, <2>1, AppendFollows DEF AppendFails
  <2>3. /\ pc'[t] \in Left /\ \A u \in Thread \ {t} : pc'[u] = pc[u]
        /\ entry'[k].dispatch = entry[k].dispatch /\ entry'[k].request = entry[k].request
        /\ \A j \in Key \ {k} : entry'[j] = entry[j]
    BY <1>0, <1>2, <1>7, FinishLeaves
  <2>4. StoreStep
    BY <1>1, <2>1, <2>2 DEF StoreStep
  <2>5. Touches(k, {t})
    BY <1>1, <1>2, <1>5, <1>7, <2>2, <2>3, <2>4 DEF Touches
  <2>6. ThreadLogged(t)'
    BY <1>0, <1>1, <1>2, <2>2, <2>3, <2>4, LeftLogged
  <2>7. ~AppendSucceeds(k, rec)
    BY <2>1, <2>2 DEF AppendSucceeds
  <2> QED
    BY <1>0, <1>1, <1>2, <1>4, <1>7, <2>1, <2>3, <2>5, <2>6, <2>7, ThreadAppends
<1>8. CASE /\ FinishAnswer(t) \in {"Lost", "Memory"}
           /\ Resolved(t, "finish") \/ Unresolved(t, "finish")
           /\ UNCHANGED <<store, disk>> /\ \A j \in Key \ {k} : ops'[j] = ops[j] /\ jobs'[j] = jobs[j]
  <2>1. store # "open"
    BY <1>8 DEF FinishAnswer, CompleteAnswer
  <2>3. /\ pc'[t] \in Left /\ \A u \in Thread \ {t} : pc'[u] = pc[u]
        /\ entry'[k].dispatch = entry[k].dispatch /\ entry'[k].request = entry[k].request
        /\ \A j \in Key \ {k} : entry'[j] = entry[j]
    BY <1>0, <1>2, <1>8, FinishLeaves
  <2>4. StoreStep
    BY <1>1, <1>8 DEF StoreStep
  <2>5. Touches(k, {t})
    BY <1>1, <1>2, <1>8, <2>3, <2>4 DEF Touches
  <2>6. ThreadLogged(t)'
    BY <1>0, <1>1, <1>2, <1>8, <2>1, <2>3, <2>4, LeftLogged
  <2> QED
    BY <1>0, <1>1, <1>2, <1>8, <2>1, <2>3, <2>5, <2>6, ThreadForgets DEF Left, Held
<1>9. CASE UNCHANGED jobJournalVars /\ Unresolved(t, "finish")
  <2>1. UNCHANGED <<store, ops, jobs, disk>>
    BY <1>9 DEF jobJournalVars
  <2>3. /\ pc'[t] \in Left /\ \A u \in Thread \ {t} : pc'[u] = pc[u]
        /\ entry'[k].dispatch = entry[k].dispatch /\ entry'[k].request = entry[k].request
        /\ \A j \in Key \ {k} : entry'[j] = entry[j]
    BY <1>0, <1>2, <1>9, FinishLeaves
  <2>4. StoreStep
    BY <1>1, <2>1 DEF StoreStep
  <2>5. Touches(k, {t})
    BY <1>1, <1>2, <2>1, <2>3, <2>4 DEF Touches
  <2>6. ThreadLogged(t)'
    BY <1>0, <1>1, <1>2, <2>1, <2>3, <2>4, LeftLogged
  <2>7. ClaimLogged(k)'
    BY <1>1, <2>1, <2>3, <2>4, ClaimStays DEF LogInv, LogOK
  <2>8. \A u \in {t} : pc[u] \notin Held /\ pc'[u] \notin Held /\ ThreadLogged(u)'
    BY <1>1, <2>3, <2>6 DEF Left, Held
  <2> QED
    BY <1>1, <1>2, <2>1, <2>3, <2>5, <2>7, <2>8, QuietKeeps
<1>10. CASE /\ FinishAnswer(t) = "Memory" /\ CommitTerminal(k, OperationOf[t], t \in Starter, want[t])
            /\ Resolved(t, "finish")
  <2>1. UNCHANGED <<store, disk>> /\ \A j \in Key \ {k} : ops'[j] = ops[j] /\ jobs'[j] = jobs[j]
    BY <1>2, <1>10 DEF CommitTerminal, JobTypes
  <2> QED
    BY <1>8, <1>10, <2>1
<1>11. CASE /\ FinishAnswer(t) = "Lost" /\ MarkOperationUncertain(k, OperationOf[t])
            /\ UNCHANGED <<store, jobs, disk>> /\ Unresolved(t, "finish")
  BY <1>5, <1>8, <1>11
<1> QED
  BY <1>0, <1>3, <1>6, <1>7, <1>9, <1>10, <1>11 DEF Finish

LEMMA CommitFinishLogged ==
    ASSUME JobInv, LogInv, NEW t \in Thread, CommitFinish(t)
    PROVE  LogInv'
<1>0. PICK k \in Key : k = KeyOf[t]
  BY ManagerAssumption
<1>1. pc[t] = "finished" /\ UNCHANGED <<want, dispatcher, restarts>>
  BY DEF CommitFinish, Goto, Resolved, Unresolved, Return, jobVars
<1>2. /\ RequestFor(t) \in Request /\ k \in Key /\ t \in ThreadOf(k) /\ Unwatched(k, {t})
      /\ ThreadLogged(t) /\ want[t] \in Outcome /\ OperationOf[t] \in Operation
      /\ disk[k] \in Seq(Record) /\ WellFormed(disk[k]) /\ JobTypes
      /\ t \in Starter => jobs[k].known
  BY <1>0, <1>1, FinishingFacts
<1>3. \/ /\ store = "open" /\ CommitTerminal(k, OperationOf[t], t \in Starter, want[t])
         /\ Resolved(t, "finished")
      \/ /\ store # "open" /\ MarkOperationUncertain(k, OperationOf[t])
         /\ UNCHANGED <<store, jobs, disk>> /\ Unresolved(t, "finished")
  BY <1>0 DEF CommitFinish
<1>4. UNCHANGED <<store, disk>> /\ \A j \in Key \ {k} : ops'[j] = ops[j] /\ jobs'[j] = jobs[j]
  <2>1. CASE CommitTerminal(k, OperationOf[t], t \in Starter, want[t])
    BY <1>2, <2>1 DEF CommitTerminal, JobTypes
  <2>2. CASE MarkOperationUncertain(k, OperationOf[t]) /\ UNCHANGED <<store, jobs, disk>>
    BY <1>2, <2>2, UncertainGoes
  <2> QED
    BY <1>3, <2>1, <2>2
<1>5. /\ pc'[t] \in Left /\ \A u \in Thread \ {t} : pc'[u] = pc[u]
      /\ entry'[k].dispatch = entry[k].dispatch /\ entry'[k].request = entry[k].request
      /\ \A j \in Key \ {k} : entry'[j] = entry[j]
  BY <1>0, <1>2, <1>3, FinishLeaves
<1>6. StoreStep
  BY <1>1, <1>4 DEF StoreStep
<1>7. Touches(k, {t})
  BY <1>1, <1>2, <1>4, <1>5, <1>6 DEF Touches
<1>8. ThreadLogged(t)'
  BY <1>0, <1>1, <1>2, <1>4, <1>5, <1>6, LeftLogged
<1>9. pc[t] \in Held /\ pc'[t] \notin Held
  BY <1>1, <1>5 DEF Held, Left
<1>10. ASSUME store' = "open" PROVE Mirrors(k, disk[k])'
  <2>1. store = "open" /\ CommitTerminal(k, OperationOf[t], t \in Starter, want[t])
    BY <1>3, <1>4, <1>10
  <2>2. PICK log \in Seq(Record), rec \in Record :
           disk[k] = Append(log, rec) /\ Mirrors(k, log) /\ rec = FinishRecord(t)
    BY <1>0, <1>1, <1>9, <2>1, HeldRecord
  <2>3. PICK start \in BOOLEAN : start = (t \in Starter)
    <3>1. (t \in Starter) \in BOOLEAN
      OBVIOUS
    <3> QED
      BY <3>1, Zenon
  <2>4. /\ rec.record = "operation.terminal" /\ rec.op = OperationOf[t] /\ rec.start = start
        /\ rec.result = want[t]
    BY <1>2, <2>2, <2>3, FinishRecordFacts
  <2>5. CommitTerminal(k, OperationOf[t], start, want[t]) /\ (start => jobs[k].known)
    BY <1>2, <2>1, <2>3
  <2> QED
    BY <1>2, <2>2, <2>4, <2>5, EndedMirrors
<1> QED
  BY <1>0, <1>1, <1>2, <1>4, <1>5, <1>7, <1>8, <1>9, <1>10, ThreadCommits

\* The steps of a control that do not reach the journal, to point p.
ControlQuiet(c, p) ==
    LET k == KeyOf[c] IN
    /\ UNCHANGED <<store, ops, jobs, disk, dispatcher, restarts>>
    /\ p \in ControllerPoint \ Held /\ pc' = [pc EXCEPT ![c] = p] /\ pc[c] \notin Held
    /\ want' = want \/ \E w \in Outcome : want' = [want EXCEPT ![c] = w]
    /\ p = "finish" => want'[c] \in Outcome
    /\ EntryKept(k) \/ EntryFenced(k)
    /\ p \in Begun => pc[c] \in Begun

LEMMA ControlQuietKeeps ==
    ASSUME JobInv, LogInv, NEW c \in Controller, NEW p, ControlQuiet(c, p)
    PROVE  LogInv'
<1>0. PICK k \in Key : k = KeyOf[c]
  BY ThreadFacts
<1>1. /\ JobTypes /\ c \in Thread /\ c \notin Starter /\ c \in ThreadOf(k) /\ ThreadLogged(c) /\ ClaimLogged(k)
  BY <1>0, ThreadFacts, ThreadOfFacts DEF JobInv, LogInv, LogOK
<1>2. /\ pc'[c] = p /\ (\A u \in Thread \ {c} : pc'[u] = pc[u])
      /\ \A u \in Thread \ {c} : want'[u] = want[u]
  BY <1>1 DEF ControlQuiet, JobTypes
<1>3. /\ entry'[k].dispatch = entry[k].dispatch /\ entry'[k].request = entry[k].request
      /\ \A j \in Key \ {k} : entry'[j] = entry[j]
  BY <1>0 DEF ControlQuiet, EntryKept, EntryFenced, EntryGoes
<1>4. StoreStep /\ UNCHANGED <<store, ops, jobs, disk, dispatcher>>
  BY DEF ControlQuiet, StoreStep
<1>5. Touches(k, {c})
  BY <1>1, <1>2, <1>3, <1>4 DEF Touches
<1>6. ThreadLogged(c)'
  <2>1. store' = "open" /\ pc'[c] \in Begun => \E i \in DOMAIN disk'[k] : OwnRecord(c, disk[k][i])'
    BY <1>0, <1>1, <1>2, <1>4 DEF ThreadLogged, OwnRecord, ControlQuiet
  <2>2. pc'[c] \in {"finish", "finished"} => want'[c] \in Outcome
    BY <1>2 DEF ControlQuiet, Held
  <2> QED
    BY <1>0, <1>1, <2>1, <2>2 DEF ThreadLogged
<1>7. ClaimLogged(k)'
  BY <1>1, <1>3, <1>4, ClaimStays
<1>8. \A u \in {c} : pc[u] \notin Held /\ pc'[u] \notin Held /\ ThreadLogged(u)'
  BY <1>2, <1>6 DEF ControlQuiet
<1> QED
  BY <1>3, <1>4, <1>5, <1>7, <1>8, QuietKeeps

LEMMA ControlLookLogged ==
    ASSUME JobInv, LogInv, NEW c \in Controller,
           Lookup(c) \/ WaitGate(c) \/ LockLifecycle(c) \/ CheckRunning(c)
    PROVE  LogInv'
<1>1. JobTypes /\ KeyOf[c] \in Key
  BY ThreadFacts DEF JobInv
<1>2. /\ UNCHANGED <<store, ops, jobs, disk, dispatcher, restarts, want>> /\ UNCHANGED jobRegistryVars
      /\ pc[c] \notin Held
  BY DEF Lookup, WaitGate, LockLifecycle, CheckRunning, Goto, Return, jobJournalVars, jobVars, Held
<1>3. PICK p \in {"gate", "lock", "check", "accept", "done"} : pc' = [pc EXCEPT ![c] = p]
  BY DEF Lookup, WaitGate, LockLifecycle, CheckRunning, Goto, Return
<1>4. EntryKept(KeyOf[c])
  BY <1>1, <1>2, SameEntry
<1>5. ControlQuiet(c, p)
  BY <1>2, <1>3, <1>4 DEF ControlQuiet, ControllerPoint, Held, Begun
<1> QED
  BY <1>5, ControlQuietKeeps

LEMMA ControlActLogged ==
    ASSUME JobInv, LogInv, NEW c \in Controller, Effect(c) \/ RecordControl(c)
    PROVE  LogInv'
<1>1. JobTypes /\ KeyOf[c] \in Key /\ c \in Thread
  BY ThreadFacts DEF JobInv
<1>2. UNCHANGED <<store, ops, jobs, disk, dispatcher, restarts>> /\ pc[c] \in {"effect", "record"}
  BY DEF Effect, RecordControl, Goto, jobJournalVars, jobVars
<1>3. PICK p \in {"finish", "record", "effect"} :
         /\ pc' = [pc EXCEPT ![c] = p]
         /\ want' = want \/ \E w \in Outcome : want' = [want EXCEPT ![c] = w]
         /\ p = "finish" => \E w \in Outcome : want' = [want EXCEPT ![c] = w]
  <2>1. CASE Effect(c)
    BY <2>1 DEF Effect, Goto, Outcome
  <2>2. CASE RecordControl(c)
    BY <2>2 DEF RecordControl, Goto, Outcome
  <2> QED
    BY <2>1, <2>2
<1>4. p = "finish" => want'[c] \in Outcome
  BY <1>1, <1>3 DEF JobTypes
<1>5. EntryKept(KeyOf[c])
  <2>1. CASE Effect(c)
    BY <1>1, <2>1, SameEntry DEF Effect
  <2>2. CASE RecordControl(c)
    <3>1. KindOf[c] \in {"write", "resize", "close_stdin", "kill"}
      BY ManagerAssumption
    <3> QED
      BY <1>1, <2>2, <3>1, SameEntry, LiveKeeps DEF RecordControl
  <2> QED
    BY <2>1, <2>2
<1>6. ControlQuiet(c, p)
  BY <1>2, <1>3, <1>4, <1>5 DEF ControlQuiet, ControllerPoint, Held, Begun
<1> QED
  BY <1>6, ControlQuietKeeps

LEMMA AcceptControlLogged ==
    ASSUME JobInv, LogInv, NEW c \in Controller, AcceptControl(c)
    PROVE  LogInv'
<1>0. PICK k \in Key : k = KeyOf[c]
  BY ThreadFacts
<1>1. JournalShardFree(k) /\ pc[c] = "accept" /\ UNCHANGED <<dispatcher, restarts, entry>> /\ UNCHANGED jobRegistryVars
  BY <1>0 DEF AcceptControl, Goto, Return, jobVars, jobRegistryVars
<1>2. /\ RequestFor(c) \in Request
      /\ c \in Thread /\ c \notin Starter /\ c \in ThreadOf(k)
      /\ Unwatched(k, {c}) /\ ThreadLogged(c) /\ disk[k] \in Seq(Record) /\ WellFormed(disk[k]) /\ JobTypes
      /\ OperationOf[c] \in Operation /\ ContentOf[c] \in Content
  <2>1. pc[c] \in Controls \ {"check"}
    BY <1>1 DEF Controls
  <2> QED
    BY <1>0, <2>1, ControlFacts
<1>3. PICK rec \in Record : /\ rec = ControlRecord(c) /\ rec = BeginRecord(c)
                            /\ rec.record = "operation.accepted" /\ rec.record # "job.terminal"
  BY <1>2, BeginRecordIs, BeginRecordFacts
<1>4. CASE /\ ControlAnswer(c) = "Append" /\ UNCHANGED <<want, ops, jobs>>
           /\ \/ AppendSucceeds(k, rec) /\ pc' = [pc EXCEPT ![c] = "commit"]
              \/ AppendFails(k, rec) /\ pc' = [pc EXCEPT ![c] = "done"]
  <2>1. store = "open" /\ Extends(disk[k], rec)
    <3>1. BeginAnswer(k, RequestFor(c), OperationOf[c], ContentOf[c], FALSE) = "Append" /\ FALSE \in BOOLEAN
      BY <1>0, <1>4 DEF ControlAnswer
    <3> QED
      BY <1>1, <1>2, <1>3, <3>1, BeginExtends DEF ControlRecord
  <2>2. AppendSucceeds(k, rec) \/ AppendFails(k, rec)
    BY <1>4
  <2>3. \A j \in Key \ {k} : disk'[j] = disk[j]
    BY <1>1, <2>1, <2>2, AppendFollows
  <2>4. /\ pc'[c] \in {"commit", "done"} /\ (\A u \in Thread \ {c} : pc'[u] = pc[u])
        /\ AppendSucceeds(k, rec) => pc'[c] = "commit"
    <3>1. AppendSucceeds(k, rec) => ~AppendFails(k, rec)
      BY <2>1 DEF AppendSucceeds, AppendFails
    <3> QED
      BY <1>2, <1>4, <3>1 DEF JobTypes
  <2>5. StoreStep
    BY <1>1, <2>1, <2>2 DEF StoreStep, AppendSucceeds, AppendFails
  <2>6. Touches(k, {c})
    BY <1>1, <1>2, <1>4, <2>3, <2>4, <2>5 DEF Touches
  <2>7. AppendSucceeds(k, rec) => InHand(k, rec)' /\ pc'[c] \in Held
    <3>1. BeginRecord(c)' = BeginRecord(c)
      BY <1>1 DEF BeginRecord, RequestFor
    <3>2. ThreadOf(k)' = ThreadOf(k)
      BY DEF ThreadOf, StarterOf, ControllerOf
    <3> QED
      BY <1>2, <1>3, <2>4, <3>1, <3>2 DEF InHand, Held
  <2>8. ThreadLogged(c)'
    BY <1>2, <2>4 DEF ThreadLogged, Begun
  <2>9. dispatcher' = dispatcher /\ entry'[k].dispatch = entry[k].dispatch /\ entry'[k].request = entry[k].request
    BY <1>1
  <2> QED
    BY <1>0, <1>1, <1>2, <1>3, <2>1, <2>2, <2>6, <2>7, <2>8, <2>9, ThreadAppends
<1>5. CASE /\ ControlAnswer(c) = "Unjournaled"
           /\ AcceptUnjournaled(k, RequestFor(c), OperationOf[c], ContentOf[c], FALSE)
           /\ Goto(c, "accept", IF Allow THEN FirstStep(c) ELSE "finish")
           /\ want' = [want EXCEPT ![c] = IF Allow THEN @ ELSE "control_failed"]
  <2>1. store # "open" /\ UNCHANGED <<store, disk>>
    BY <1>5 DEF ControlAnswer, BeginAnswer, AcceptUnjournaled
  <2>2. PICK p \in {"effect", "record", "finish"} : pc' = [pc EXCEPT ![c] = p] /\ (p = "finish" => ~Allow)
    BY <1>5 DEF Goto, FirstStep
  <2>3. /\ pc'[c] = p /\ (\A u \in Thread \ {c} : pc'[u] = pc[u] /\ want'[u] = want[u])
        /\ p = "finish" => want'[c] = "control_failed"
    BY <1>2, <1>5, <2>2 DEF JobTypes
  <2>4. \A j \in Key \ {k} : ops'[j] = ops[j] /\ jobs'[j] = jobs[j]
    BY <1>2, <1>5 DEF AcceptUnjournaled, Remember, JobTypes
  <2>5. StoreStep
    BY <1>1, <2>1 DEF StoreStep
  <2>6. Touches(k, {c})
    BY <1>1, <1>2, <2>1, <2>3, <2>4, <2>5 DEF Touches
  <2>7. ThreadLogged(c)'
    BY <1>2, <2>1, <2>3 DEF ThreadLogged, Outcome
  <2>8. pc'[c] \notin Held /\ entry'[k].dispatch = entry[k].dispatch /\ entry'[k].request = entry[k].request
        /\ store' # "open" /\ disk' = disk /\ dispatcher' = dispatcher
    BY <1>1, <2>1, <2>3 DEF Held
  <2> QED
    BY <1>0, <1>2, <2>6, <2>7, <2>8, ThreadForgets
<1>6. CASE UNCHANGED jobJournalVars /\ UNCHANGED want /\ pc' = [pc EXCEPT ![c] = "done"]
  <2>1. EntryKept(KeyOf[c])
    BY <1>0, <1>1, <1>2, SameEntry
  <2>2. ControlQuiet(c, "done")
    BY <1>1, <1>6, <2>1 DEF ControlQuiet, ControllerPoint, Held, Begun, jobJournalVars
  <2> QED
    BY <2>2, ControlQuietKeeps
<1>7. CASE /\ ControlAnswer(c) = "Append" /\ AppendSucceeds(k, rec) /\ Goto(c, "accept", "commit")
           /\ UNCHANGED want
  BY <1>4, <1>7 DEF Goto, AppendSucceeds
<1>8. CASE /\ ControlAnswer(c) = "Append" /\ AppendFails(k, rec) /\ Return(c, "accept", "Err")
           /\ UNCHANGED <<ops, jobs, want>>
  BY <1>4, <1>8 DEF Goto, Return
<1>9. \/ /\ ControlAnswer(c) = "Append" /\ AppendSucceeds(k, rec) /\ Goto(c, "accept", "commit")
         /\ UNCHANGED want
      \/ /\ ControlAnswer(c) = "Append" /\ AppendFails(k, rec) /\ Return(c, "accept", "Err")
         /\ UNCHANGED <<ops, jobs, want>>
      \/ /\ ControlAnswer(c) = "Unjournaled"
         /\ AcceptUnjournaled(k, RequestFor(c), OperationOf[c], ContentOf[c], FALSE)
         /\ Goto(c, "accept", IF Allow THEN FirstStep(c) ELSE "finish")
         /\ want' = [want EXCEPT ![c] = IF Allow THEN @ ELSE "control_failed"]
      \/ UNCHANGED jobJournalVars /\ UNCHANGED want /\ pc' = [pc EXCEPT ![c] = "done"]
  BY <1>0, <1>3 DEF AcceptControl, Return, Goto
<1> QED
  BY <1>5, <1>6, <1>7, <1>8, <1>9

\* The end of a job.
LEMMA AppendTerminalLogged ==
    ASSUME JobInv, LogInv, NEW k \in Key, AppendTerminal(k)
    PROVE  LogInv'
<1>1. /\ JobTypes /\ JobOK(k) /\ OneJournal(k) /\ ClaimLogged(k) /\ disk[k] \in Seq(Record) /\ WellFormed(disk[k])
  BY DEF JobInv, LogInv, LogOK, JobTypes
<1>2. /\ JournalShardFree(k) /\ dispatcher[k] = "append" /\ UNCHANGED <<entry, pc, want, restarts>>
  BY DEF AppendTerminal, DispatcherAt, jobRegistryVars, callVars
<1>3. entry[k].dispatch = "terminal" /\ entry[k].request \in Request
  <2>1. entry[k].dispatch = "terminal" /\ entry[k].request # None
    BY <1>1, <1>2 DEF JobOK, JobOwns
  <2> QED
    BY <1>1, <2>1, EntryFacts DEF Entry
<1>4. PICK rec \in Record : rec = JobTerminalRecord(entry[k].request)
  BY <1>3 DEF Record, JobTerminalRecord
<1>5. Unwatched(k, {})
  BY <1>3, RunningIsUnwatched
<1>6. /\ dispatcher'[k] \in {"commit", "remove"} /\ \A j \in Key \ {k} : dispatcher'[j] = dispatcher[j]
  BY <1>1 DEF AppendTerminal, DispatcherAt, JobTypes
<1>7. CASE /\ store = "open" /\ UNCHANGED <<ops, jobs>>
           /\ \/ AppendSucceeds(k, rec) /\ dispatcher'[k] = "commit"
              \/ AppendFails(k, rec)
  <2>1. Extends(disk[k], rec)
    BY <1>2, <1>4, <1>7, TerminalExtends
  <2>2. AppendSucceeds(k, rec) \/ AppendFails(k, rec)
    BY <1>7
  <2>3. /\ Grows(k) /\ WellFormed(disk[k])' /\ disk'[k] \in {disk[k], Append(disk[k], rec)}
        /\ \A j \in Key \ {k} : disk'[j] = disk[j]
        /\ AppendSucceeds(k, rec) /\ InHand(k, rec)' /\ ~JournalShardFree(k)' => Follows(k)'
    BY <1>2, <1>7, <2>1, <2>2, AppendFollows
  <2>4. StoreStep
    BY <1>2, <1>7 DEF StoreStep, AppendSucceeds, AppendFails
  <2>5. Touches(k, {})
    BY <1>2, <1>6, <1>7, <2>3, <2>4 DEF Touches
  <2>6. OneJournal(k)'
    BY <1>1, <1>2, <2>5, JournalHeld
  <2>7. store' = "open" => Follows(k)'
    <3>1. store' = "open" => AppendSucceeds(k, rec) /\ dispatcher'[k] = "commit"
      BY <1>7 DEF AppendFails
    <3>2. dispatcher'[k] = "commit" => ~JournalShardFree(k)' /\ InHand(k, rec)'
      BY <1>2, <1>4 DEF JournalShardFree, InHand
    <3> QED
      BY <2>3, <3>1, <3>2
  <2>8. ClaimLogged(k)'
    <3>1. dispatcher'[k] # "append" /\ entry' = entry
      BY <1>2, <1>6
    <3> QED
      BY <1>1, <1>3, <2>3, <2>4, <3>1, ClaimGrows
  <2> QED
    BY <1>5, <2>3, <2>5, <2>6, <2>7, <2>8, JournalKeeps
<1>8. CASE /\ store # "open" /\ UNCHANGED <<store, ops, disk>> /\ dispatcher'[k] = "remove"
           /\ \A j \in Key \ {k} : jobs'[j] = jobs[j]
  <2>1. StoreStep
    BY <1>2, <1>8 DEF StoreStep
  <2>2. Touches(k, {})
    BY <1>2, <1>6, <1>8, <2>1 DEF Touches
  <2>3. OneJournal(k)'
    BY <1>1, <1>2, <2>2, JournalHeld
  <2>4. ClaimLogged(k)'
    BY <1>1, <1>2, <1>8, <2>1, ClaimStays
  <2>5. Grows(k) /\ WellFormed(disk[k])' /\ store' # "open"
    BY <1>1, <1>8 DEF Grows
  <2> QED
    BY <1>5, <2>2, <2>3, <2>4, <2>5, JournalKeeps
<1>9. \/ /\ store = "open" /\ AppendSucceeds(k, rec) /\ DispatcherAt(k, "append", "commit")
      \/ /\ store = "open" /\ AppendFails(k, rec) /\ UNCHANGED <<ops, jobs>>
      \/ /\ Status # "Durable" /\ UNCHANGED <<store, ops, disk>> /\ DispatcherAt(k, "append", "remove")
         /\ UNCHANGED jobs \/ jobs' = [jobs EXCEPT ![k].terminal = TRUE]
  BY <1>4 DEF AppendTerminal, jobJournalVars
<1>10. Status # "Durable" => store # "open"
  BY DEF Status
<1>11. jobs' = [jobs EXCEPT ![k].terminal = TRUE] => \A j \in Key \ {k} : jobs'[j] = jobs[j]
  BY <1>1, TerminalGoes
<1>12. \A a, b : DispatcherAt(k, a, b) => dispatcher'[k] = b
  BY <1>1 DEF DispatcherAt, JobTypes
<1>13. AppendSucceeds(k, rec) => UNCHANGED <<ops, jobs>>
  BY DEF AppendSucceeds
<1> QED
  BY <1>7, <1>8, <1>9, <1>10, <1>11, <1>12, <1>13

LEMMA CommitTerminalLogged ==
    ASSUME JobInv, LogInv, NEW k \in Key, CommitJobTerminal(k)
    PROVE  LogInv'
<1>1. /\ JobTypes /\ JobOK(k) /\ OneJournal(k) /\ ClaimLogged(k) /\ disk[k] \in Seq(Record) /\ WellFormed(disk[k])
  BY DEF JobInv, LogInv, LogOK, JobTypes
<1>2. UNCHANGED <<entry, store, ops, disk, pc, want, restarts>>
  BY DEF CommitJobTerminal, jobRegistryVars, callVars
<1>3. /\ dispatcher[k] = "commit" /\ dispatcher'[k] = "remove"
      /\ \A j \in Key \ {k} : dispatcher'[j] = dispatcher[j]
  BY <1>1 DEF CommitJobTerminal, DispatcherAt, JobTypes
<1>4. entry[k].dispatch = "terminal" /\ jobs[k].known
  BY <1>1, <1>3 DEF JobOK, JobOwns, StartKnown
<1>5. Unwatched(k, {})
  BY <1>4, RunningIsUnwatched
<1>6. jobs' = jobs \/ (store = "open" /\ jobs' = [jobs EXCEPT ![k].terminal = TRUE])
  BY DEF CommitJobTerminal
<1>7. \A j \in Key \ {k} : jobs'[j] = jobs[j]
  BY <1>1, <1>6, TerminalGoes
<1>8. Touches(k, {})
  <2>1. StoreStep
    BY <1>2 DEF StoreStep
  <2> QED
    BY <1>2, <1>3, <1>7, <2>1 DEF Touches
<1>9. OneJournal(k)'
  BY <1>1, <1>3, <1>8, JournalHeld
<1>10. ClaimLogged(k)'
  BY <1>1, <1>2, <1>3, <1>8, ClaimStays DEF Touches
<1>11. Grows(k) /\ WellFormed(disk[k])'
  BY <1>1, <1>2 DEF Grows
<1>12. ASSUME store' = "open" PROVE Follows(k)'
  <2>0. store = "open" /\ jobs' = [jobs EXCEPT ![k].terminal = TRUE]
    BY <1>2, <1>12 DEF CommitJobTerminal
  <2>1. ~JournalShardFree(k) /\ \A t \in ThreadOf(k) : pc[t] \notin Held
    BY <1>1, <1>3, ShardFreeIs DEF OneJournal
  <2>2. PICK log \in Seq(Record), rec \in Record :
           disk[k] = Append(log, rec) /\ InHand(k, rec) /\ Mirrors(k, log)
    BY <2>0, <2>1 DEF LogInv, LogOK, Follows
  <2>3. rec = JobTerminalRecord(entry[k].request)
    BY <2>1, <2>2 DEF InHand, Held
  <2>4. rec.record = "job.terminal" /\ rec.op = None /\ ~rec.start
    BY <2>3 DEF JobTerminalRecord
  <2>5. PICK more, p, q : more = disk[k] /\ p = jobs[k] /\ q = jobs'[k]
    OBVIOUS
  <2>6. q = [p EXCEPT !.terminal = TRUE] /\ p \in JobState /\ JobIs(log, p) /\ p.known
    BY <1>1, <1>4, <2>0, <2>2, <2>5 DEF JobTypes, Mirrors
  <2>7. q.known = p.known /\ q.request = p.request /\ q.terminal /\ q.startResult = p.startResult
    BY <2>6 DEF JobState
  <2>8. JobIs(more, q)
    BY <1>1, <2>2, <2>4, <2>5, <2>6, <2>7, JobEnded
  <2>9. ASSUME NEW o \in Operation PROVE OpIs(more, o, ops'[k][o])
    <3>1. o # None /\ OpIs(log, o, ops[k][o]) /\ ops' = ops
      BY <1>2, <2>2, JournalAssumption DEF Mirrors
    <3> QED
      BY <2>2, <2>4, <2>5, <3>1, OpElsewhere
  <2>10. Mirrors(k, disk[k])'
    BY <1>2, <2>5, <2>8, <2>9 DEF Mirrors
  <2>11. JournalShardFree(k)'
    BY <1>2, <1>3, <2>1 DEF JournalShardFree, ThreadOf, StarterOf, ControllerOf, Held
  <2> QED
    BY <2>10, <2>11 DEF Follows
<1> QED
  BY <1>5, <1>8, <1>9, <1>10, <1>11, <1>12, JournalKeeps

\* A new process reads the log back.
LEMMA RestartLogged ==
    ASSUME JobInv, LogInv, NEW opened \in BOOLEAN, Restart(opened)
    PROVE  LogInv'
<1>1. /\ JobTypes /\ disk' = disk /\ (\A t \in Thread : pc'[t] = "idle")
      /\ \A k \in Key : dispatcher'[k] = "none" /\ entry'[k] = Absent
  BY DEF JobInv, Restart, Reopen
<1>2. ASSUME NEW k \in Key PROVE LogOK(k)'
  <2>1. WellFormed(disk[k]) /\ disk[k] \in Seq(Record)
    BY <1>1 DEF LogInv, LogOK, JobTypes
  <2>2. /\ ThreadOf(k)' = ThreadOf(k) /\ (\A t \in ThreadOf(k) : pc'[t] \notin Held)
        /\ dispatcher'[k] # "commit"
    BY <1>1, ThreadOfFacts DEF ThreadOf, StarterOf, ControllerOf, Held
  <2>3. OneJournal(k)' /\ JournalShardFree(k)'
    BY <2>2 DEF OneJournal, JournalShardFree, ThreadOf, StarterOf, ControllerOf, Held
  <2>4. ClaimLogged(k)'
    BY <1>1 DEF ClaimLogged, Absent
  <2>5. ASSUME store' = "open" PROVE Follows(k)'
    <3>1. /\ ops'[k] = [o \in Operation |-> RecoveredOperation(disk[k], o)]
          /\ jobs'[k] = RecoveredJob(disk[k])
      BY <2>5 DEF Restart, Reopen
    <3>2. Mirrors(k, disk[k])'
      BY <1>1, <2>1, <3>1, JobRecovered, OpRecovered DEF Mirrors
    <3> QED
      BY <2>3, <3>2 DEF Follows
  <2> QED
    BY <1>1, <2>1, <2>3, <2>4, <2>5 DEF LogOK
<1>3. ASSUME NEW t \in Thread PROVE ThreadLogged(t)'
  BY <1>1 DEF ThreadLogged, Begun
<1> QED
  BY <1>2, <1>3 DEF LogInv

LEMMA EmptyLog ==
    /\ WellFormed(<<>>) /\ JobIs(<<>>, NoJob) /\ \A o : OpIs(<<>>, o, NoOperation)
<1>1. DOMAIN <<>> = {}
  OBVIOUS
<1> QED
  BY <1>1 DEF WellFormed, Recoverable, StartsAgree, EndsAreTold, OpsAreNamed, JobIs, OpIs, Logged,
     NoJob, NoOperation

LEMMA InitLogged == ManagerInit => LogInv
<1> SUFFICES ASSUME ManagerInit PROVE LogInv
  OBVIOUS
<1>1. /\ \A t \in Thread : pc[t] = "idle"
      /\ \A k \in Key : /\ dispatcher[k] = "none" /\ entry[k] = Absent /\ disk[k] = <<>>
                        /\ jobs[k] = NoJob /\ \A o \in Operation : ops[k][o] = NoOperation
  BY DEF ManagerInit, JobRegistryInit, JobJournalInit
<1>2. ASSUME NEW k \in Key PROVE LogOK(k)
  <2>1. (\A t \in ThreadOf(k) : pc[t] \notin Held) /\ dispatcher[k] # "commit"
    BY <1>1, ThreadOfFacts DEF Held
  <2>2. OneJournal(k) /\ JournalShardFree(k)
    BY <2>1, ShardFreeIs DEF OneJournal
  <2>3. ClaimLogged(k)
    BY <1>1 DEF ClaimLogged, Absent
  <2>4. WellFormed(disk[k]) /\ Mirrors(k, disk[k])
    BY <1>1, EmptyLog DEF Mirrors
  <2> QED
    BY <2>2, <2>3, <2>4 DEF LogOK, Follows
<1>3. ASSUME NEW t \in Thread PROVE ThreadLogged(t)
  BY <1>1 DEF ThreadLogged, Begun
<1> QED
  BY <1>2, <1>3 DEF LogInv

LEMMA StutterLogged ==
    ASSUME LogInv, UNCHANGED vars
    PROVE  LogInv'
<1>1. UNCHANGED <<entry, store, ops, jobs, disk, pc, want, dispatcher>>
  BY DEF vars, jobRegistryVars, jobJournalVars, callVars, jobVars
<1>2. ASSUME NEW k \in Key PROVE LogOK(k)'
  <2>1. /\ WellFormed(disk[k])' /\ (OneJournal(k)' <=> OneJournal(k)) /\ (ClaimLogged(k)' <=> ClaimLogged(k))
    BY <1>1, <1>2 DEF LogInv, LogOK, OneJournal, ThreadOf, StarterOf, ControllerOf, ClaimLogged, Configured
  <2>2. (JournalShardFree(k)' <=> JournalShardFree(k)) /\ (\A log : Mirrors(k, log) => Mirrors(k, log)')
    BY <1>1 DEF JournalShardFree, StarterOf, ControllerOf, Mirrors
  <2>3. \A rec : InHand(k, rec) => InHand(k, rec)'
    BY <1>1 DEF InHand, ThreadOf, StarterOf, ControllerOf, BeginRecord, FinishRecord, RequestFor
  <2>4. ASSUME store' = "open" PROVE Follows(k)'
    <3>1. Follows(k)
      BY <1>1, <1>2, <2>4 DEF LogInv, LogOK
    <3>2. CASE JournalShardFree(k)
      BY <1>1, <2>2, <3>1, <3>2 DEF Follows
    <3>3. CASE ~JournalShardFree(k)
      <4>1. PICK log \in Seq(Record), rec \in Record :
               disk[k] = Append(log, rec) /\ InHand(k, rec) /\ Mirrors(k, log)
        BY <3>1, <3>3 DEF Follows
      <4> QED
        BY <1>1, <2>2, <2>3, <3>3, <4>1 DEF Follows
    <3> QED
      BY <3>2, <3>3
  <2> QED
    BY <1>2, <2>1, <2>4 DEF LogInv, LogOK
<1>3. ASSUME NEW t \in Thread PROVE ThreadLogged(t)'
  BY <1>1, <1>3 DEF LogInv, ThreadLogged, OwnRecord, EndsStart, Configured
<1> QED
  BY <1>2, <1>3 DEF LogInv

LEMMA StepLogged == JobInv /\ LogInv /\ [ManagerNext]_vars => LogInv'
<1> SUFFICES ASSUME JobInv, LogInv, [ManagerNext]_vars PROVE LogInv'
  OBVIOUS
<1>1. ASSUME NEW s \in Starter, StarterStep(s) PROVE LogInv'
  <2>0. s \in Thread
    BY DEF Thread
  <2>1. CASE \/ EnterStart(s) \/ CheckLive(s) \/ JoinLive(s) \/ CheckRecovered(s) \/ Preflight(s)
             \/ Admit(s) \/ FenceUnavailable(s) \/ FenceStart(s) \/ RollbackStart(s) \/ OpenGate(s)
    BY <2>1, EarlyLogged
  <2>2. CASE BeginEntry(s) \/ AcceptStart(s) \/ CommitStart(s) \/ Claim(s) \/ Publish(s)
    BY <2>2, BeginEntryLogged, AcceptStartLogged, CommitStartLogged, ClaimIsLogged, PublishLogged
  <2>3. CASE Spawn(s) \/ ObserveStart(s) \/ StartDispatcher(s) \/ Abort(s)
    BY <2>3, SpawnLogged
  <2>4. CASE Finish(s) \/ CommitFinish(s)
    BY <2>0, <2>4, FinishLogged, CommitFinishLogged
  <2> QED
    BY <1>1, <2>1, <2>2, <2>3, <2>4 DEF StarterStep
<1>2. ASSUME NEW c \in Controller, ControllerStep(c) PROVE LogInv'
  <2>0. c \in Thread
    BY DEF Thread
  <2>1. CASE Lookup(c) \/ WaitGate(c) \/ LockLifecycle(c) \/ CheckRunning(c)
    BY <2>1, ControlLookLogged
  <2>2. CASE Effect(c) \/ RecordControl(c)
    BY <2>2, ControlActLogged
  <2>3. CASE AcceptControl(c) \/ CommitControl(c)
    BY <2>3, AcceptControlLogged, CommitControlLogged
  <2>4. CASE Finish(c) \/ CommitFinish(c)
    BY <2>0, <2>4, FinishLogged, CommitFinishLogged
  <2> QED
    BY <1>2, <2>1, <2>2, <2>3, <2>4 DEF ControllerStep
<1>3. ASSUME NEW k \in Key, DispatcherStep(k) \/ DispatcherEvent(k) PROVE LogInv'
  <2>1. CASE AppendTerminal(k) \/ CommitJobTerminal(k) \/ CompleteJob(k)
    BY <2>1, AppendTerminalLogged, CommitTerminalLogged, CompleteLogged
  <2>2. CASE \/ Output(k) \/ ProcessFault(k) \/ ObserveExit(k) \/ LockTerminal(k)
             \/ RemoveJob(k) \/ DropJob(k) \/ ChannelCloses(k)
    BY <2>2, EventLogged
  <2> QED
    BY <1>3, <2>1, <2>2 DEF DispatcherStep, DispatcherEvent
<1>4. CASE Environment
  BY <1>4, EventLogged, SiblingLogged, RestartLogged DEF Environment
<1>5. CASE UNCHANGED vars
  BY <1>5, StutterLogged
<1> QED
  BY <1>1, <1>2, <1>3, <1>4, <1>5 DEF ManagerNext

\* At every moment, whatever was appended in whichever order, memory is what the
\* log of the job says but for the one record that a holder of the journal shard
\* has not committed yet.
THEOREM LogInvariance == ManagerSpec => []LogInv
  BY InitLogged, StepLogged, JobInvariance, PTL DEF ManagerSpec

\* No interleaving of starts, controls, dispatchers, failed appends and restarts
\* writes a log that recover refuses, and with the store up and the shard free a
\* restart rebuilds exactly the jobs and operations the manager remembers.
THEOREM RecoveryFaithful == ManagerSpec => []RecoveryIsFaithful
<1>1. JobInv /\ LogInv => RecoveryIsFaithful
  <2> SUFFICES ASSUME JobInv, LogInv, NEW k \in Key
               PROVE  /\ Recoverable(disk[k])
                      /\ store = "open" /\ JournalShardFree(k) =>
                            /\ jobs[k] = RecoveredJob(disk[k])
                            /\ \A o \in Operation :
                                  [ops[k][o] EXCEPT !.preexisting = TRUE] =
                                      [RecoveredOperation(disk[k], o) EXCEPT !.preexisting = TRUE]
    BY DEF RecoveryIsFaithful
  <2>1. WellFormed(disk[k]) /\ disk[k] \in Seq(Record) /\ JobTypes
    BY DEF LogInv, LogOK, JobInv, JobTypes
  <2>2. ASSUME store = "open", JournalShardFree(k)
        PROVE  /\ jobs[k] = RecoveredJob(disk[k])
               /\ \A o \in Operation :
                     [ops[k][o] EXCEPT !.preexisting = TRUE] =
                         [RecoveredOperation(disk[k], o) EXCEPT !.preexisting = TRUE]
    <3>1. JobIs(disk[k], jobs[k]) /\ \A o \in Operation : OpIs(disk[k], o, ops[k][o])
      BY <2>2, FreeMirrors DEF Mirrors
    <3>2. jobs[k] = RecoveredJob(disk[k])
      <4>1. jobs[k] \in JobState /\ RecoveredJob(disk[k]) \in JobState
        BY <2>1, RecoveredTypes DEF JobTypes
      <4> QED
        BY <2>1, <3>1, <4>1, JobRecovered, JobIsOne
    <3>3. ASSUME NEW o \in Operation
          PROVE  [ops[k][o] EXCEPT !.preexisting = TRUE] =
                     [RecoveredOperation(disk[k], o) EXCEPT !.preexisting = TRUE]
      <4>1. ops[k][o] \in OperationState /\ RecoveredOperation(disk[k], o) \in OperationState
        BY <2>1, RecoveredTypes DEF JobTypes
      <4> QED
        BY <2>1, <3>1, <4>1, OpRecovered, OpIsOne
    <3> QED
      BY <3>2, <3>3
  <2> QED
    BY <2>1, <2>2 DEF WellFormed
<1> QED
  BY <1>1, JobInvariance, LogInvariance, PTL

(***************************************************************************)
(* Effects and answers                                                     *)
(***************************************************************************)

\* A control that will reach the process, and one that has.
Poised(c) == pc[c] \in {"commit", "effect"} \/ (pc[c] = "record" /\ KindOf[c] = "kill")

Acted(c) == \/ pc[c] = "record" /\ KindOf[c] # "kill"
            \/ pc[c] \in {"finish", "finished"} /\ want[c] = "applied"
            \/ result[c] = "Applied"

Gate == {"pending", "ready", "failed", "terminal"}

\* The journal's memory or its log say that the job has ended.
Ended(k) == jobs[k].terminal \/ Logged(disk[k], "job.terminal", None)

\* A job and its process: what ran was spawned, what is reported ended has
\* ended, and a control acts once, on a process, and is then remembered.
JobEffects(k) ==
    /\ process[k] # "none" => spawned[k] # 0
    /\ entry[k].dispatch \in {"running", "terminal"} => spawned[k] # 0
    /\ entry[k].dispatch = "terminal" \/ Ended(k) => process[k] = "exited"
    /\ k \in running => gate[k] \in Gate
    /\ \A o \in Operation :
          /\ applied[k][o] <= 1
          /\ spawned[k] = 0 \/ entry[k].dispatch = "claimed" => applied[k][o] = 0
          /\ entry[k].dispatch = "running" /\ applied[k][o] # 0 => ops[k][o].known

\* What a start has seen of it, and tells.
StartEffects(s) ==
    LET k == KeyOf[s] IN
    /\ pc[s] = "gate" => gate[k] \in Gate
    /\ pc[s] = "publish" => spawned[k] # 0
    /\ pc[s] \in {"finish", "finished"} /\ want[s] = "spawn_failed" => spawned[k] = 0
    /\ pc[s] \in {"dispatch", "ready"} \/ result[s] = "Started" => StartResolved(k, "started")
    /\ result[s] = "ExistingTerminal" => process[k] = "exited"

\* What a control has done to it, and tells.
ControlEffects(c) ==
    LET k == KeyOf[c]
        o == OperationOf[c]
    IN
    /\ Poised(c) => applied[k][o] = 0
    /\ Acted(c) => applied[k][o] = 1
    /\ pc[c] \in {"effect", "record"} => ops[k][o].known
    /\ ~Allow /\ pc[c] \in {"commit", "effect", "record"} => Logged(disk[k], "operation.accepted", o)
    /\ result[c] = "Applied" => OutcomeLogged(k, o, "applied")

EffectInv ==
    /\ result = [t \in Thread |-> result[t]]
    /\ Configured => /\ \A k \in Key : JobEffects(k)
                     /\ \A s \in Starter : StartEffects(s)
                     /\ \A c \in Controller : ControlEffects(c)

(***************************************************************************)
(* Steps that neither start a process nor act on one                       *)
(***************************************************************************)
EntryMoves(j) ==
    LET d == entry[j].dispatch
        e == entry'[j].dispatch
    IN
    \/ e = d
    \/ e \in {"absent", "accepted"}
    \/ e = "claimed" /\ (Configured => spawned[j] = 0)
    \/ d = "claimed" /\ e = "running" /\ (Configured => spawned[j] # 0)
    \/ d = "running" /\ e = "terminal" /\ process[j] = "exited"

LogKept(j) ==
    /\ \A i \in DOMAIN disk[j] : i \in DOMAIN disk'[j] /\ disk'[j][i] = disk[j][i]
    /\ \A o \in Operation : ops[j][o].known => ops'[j][o].known
    /\ Ended(j)' => Ended(j) \/ process[j] = "exited"

ProcessKept(j) ==
    /\ process'[j] # "none" => process[j] # "none"
    /\ process[j] = "exited" => process'[j] = "exited"
    /\ j \in running' => j \in running \/ gate'[j] \in Gate
    /\ gate[j] \in Gate => gate'[j] \in Gate

\* Only the threads in T move.
Alone(T) ==
    \A u \in Thread \ T : pc'[u] = pc[u] /\ want'[u] = want[u] /\ result'[u] = result[u]

Tame(T) ==
    /\ StoreStep /\ Alone(T) /\ UNCHANGED historyVars
    /\ result' = [t \in Thread |-> result'[t]]
    /\ \A j \in Key : EntryMoves(j) /\ LogKept(j) /\ ProcessKept(j)

LEMMA JobEffectsStay ==
    ASSUME JobTypes, Configured, NEW j \in Key, JobEffects(j), EntryMoves(j), LogKept(j), ProcessKept(j),
           spawned'[j] = spawned[j], applied'[j] = applied[j]
    PROVE  JobEffects(j)'
<1>1. entry'[j].dispatch \in {"running", "terminal"} => spawned[j] # 0
  BY DEF JobEffects, EntryMoves
<1>2. entry'[j].dispatch = "terminal" \/ Ended(j)' => process[j] = "exited"
  BY DEF JobEffects, EntryMoves, LogKept
<1>3. j \in running' => gate'[j] \in Gate
  BY DEF JobEffects, ProcessKept
<1>4. ASSUME NEW o \in Operation
      PROVE  /\ applied[j][o] <= 1
             /\ spawned[j] = 0 \/ entry'[j].dispatch = "claimed" => applied[j][o] = 0
             /\ entry'[j].dispatch = "running" /\ applied[j][o] # 0 => ops'[j][o].known
  <2>1. /\ applied[j][o] <= 1
        /\ spawned[j] = 0 \/ entry[j].dispatch = "claimed" => applied[j][o] = 0
        /\ entry[j].dispatch = "running" /\ applied[j][o] # 0 => ops[j][o].known
        /\ ops[j][o].known => ops'[j][o].known
    BY DEF JobEffects, LogKept
  <2> QED
    BY <2>1 DEF EntryMoves
<1> QED
  BY <1>1, <1>2, <1>3, <1>4 DEF JobEffects, ProcessKept

\* The effects of a thread that does not move, its job's log growing.
LEMMA StartEffectsStay ==
    ASSUME NEW s \in Starter, NEW k, k = KeyOf[s], StartEffects(s), LogKept(k), ProcessKept(k),
           spawned'[k] = spawned[k], pc'[s] = pc[s], want'[s] = want[s], result'[s] = result[s]
    PROVE  StartEffects(s)'
<1>1. StartResolved(k, "started") => StartResolved(k, "started")'
  BY DEF StartResolved, LogKept
<1> QED
  BY <1>1 DEF StartEffects, ProcessKept

LEMMA ControlEffectsStay ==
    ASSUME NEW c \in Controller, NEW k, k = KeyOf[c], NEW o \in Operation, o = OperationOf[c],
           ControlEffects(c), LogKept(k),
           applied'[k][o] = applied[k][o], pc'[c] = pc[c], want'[c] = want[c], result'[c] = result[c]
    PROVE  ControlEffects(c)'
<1>1. /\ OutcomeLogged(k, o, "applied") => OutcomeLogged(k, o, "applied")'
      /\ Logged(disk[k], "operation.accepted", o) => Logged(disk'[k], "operation.accepted", o)
      /\ ops[k][o].known => ops'[k][o].known
  BY DEF OutcomeLogged, Logged, LogKept
<1>2. (Poised(c)' <=> Poised(c)) /\ (Acted(c)' <=> Acted(c))
  BY DEF Poised, Acted
<1> QED
  BY <1>1, <1>2 DEF ControlEffects

LEMMA OperationFacts ==
    \A t \in Thread : KeyOf[t] \in Key /\ OperationOf[t] \in Operation /\ ContentOf[t] \in Content
  BY ManagerAssumption

LEMMA TameKeeps ==
    ASSUME JobInv, EffectInv, NEW T, Tame(T),
           Configured => /\ \A s \in Starter \cap T : StartEffects(s)'
                         /\ \A c \in Controller \cap T : ControlEffects(c)'
    PROVE  EffectInv'
<1>1. Configured' <=> Configured
  BY DEF Tame, StoreStep, Configured
<1>2. JobTypes /\ spawned' = spawned /\ applied' = applied
  BY DEF JobInv, Tame, historyVars
<1>3. ASSUME Configured PROVE EffectInv'
  <2>1. ASSUME NEW j \in Key PROVE JobEffects(j)'
    <3>1. JobEffects(j) /\ EntryMoves(j) /\ LogKept(j) /\ ProcessKept(j)
      BY <1>3, <2>1 DEF EffectInv, Tame
    <3> QED
      BY <1>2, <1>3, <3>1, JobEffectsStay
  <2>2. ASSUME NEW s \in Starter PROVE StartEffects(s)'
    <3>1. CASE s \in T
      BY <1>3, <3>1
    <3>2. CASE s \notin T
      <4>1. PICK k \in Key : k = KeyOf[s]
        BY ThreadFacts
      <4>2. s \in Thread \ T /\ StartEffects(s) /\ LogKept(k) /\ ProcessKept(k)
        BY <1>3, <3>2, ThreadFacts DEF EffectInv, Tame
      <4>3. pc'[s] = pc[s] /\ want'[s] = want[s] /\ result'[s] = result[s]
        BY <4>2 DEF Tame, Alone
      <4> QED
        BY <1>2, <4>1, <4>2, <4>3, StartEffectsStay
    <3> QED
      BY <3>1, <3>2
  <2>3. ASSUME NEW c \in Controller PROVE ControlEffects(c)'
    <3>1. CASE c \in T
      BY <1>3, <3>1
    <3>2. CASE c \notin T
      <4>1. PICK k \in Key : k = KeyOf[c]
        BY ThreadFacts
      <4>0. PICK o \in Operation : o = OperationOf[c]
        BY ThreadFacts, OperationFacts
      <4>2. c \in Thread \ T /\ ControlEffects(c) /\ LogKept(k)
        BY <1>3, <3>2, ThreadFacts DEF EffectInv, Tame
      <4>3. pc'[c] = pc[c] /\ want'[c] = want[c] /\ result'[c] = result[c]
        BY <4>2 DEF Tame, Alone
      <4> QED
        BY <1>2, <4>0, <4>1, <4>2, <4>3, ControlEffectsStay
    <3> QED
      BY <3>1, <3>2
  <2> QED
    BY <2>1, <2>2, <2>3 DEF EffectInv, Tame
<1>4. CASE ~Configured
  BY <1>1, <1>4 DEF EffectInv, Tame
<1> QED
  BY <1>3, <1>4

\* The registry's operations, seen so.
LEMMA EntryMovesAll ==
    ASSUME NEW k \in Key, NEW d, EntryGoes(k, d), EntryMoves(k)
    PROVE  \A j \in Key : EntryMoves(j)
  BY DEF EntryGoes, EntryMoves

LEMMA KeptMoves ==
    ASSUME NEW k \in Key, EntryKept(k) \/ EntryFenced(k)
    PROVE  \A j \in Key : EntryMoves(j)
<1>1. EntryGoes(k, entry[k].dispatch)
  BY DEF EntryKept, EntryFenced
<1>2. EntryMoves(k)
  BY <1>1 DEF EntryGoes, EntryMoves
<1> QED
  BY <1>1, <1>2, EntryMovesAll

LEMMA FenceMoves ==
    ASSUME JobTypes, NEW k \in Key, UNCHANGED jobRegistryVars \/ MarkRestartUncertain(k)
    PROVE  \A j \in Key : EntryMoves(j)
  BY SameEntry, MarkFences, KeptMoves

\* The journal's.
LEMMA SameLog ==
    ASSUME UNCHANGED <<ops, jobs, disk>>
    PROVE  \A j \in Key : LogKept(j)
  BY DEF LogKept, Ended

LEMMA MemoryLog ==
    ASSUME NEW k \in Key, disk' = disk, \A j \in Key \ {k} : ops'[j] = ops[j] /\ jobs'[j] = jobs[j],
           \A o \in Operation : ops[k][o].known => ops'[k][o].known,
           jobs'[k].terminal => jobs[k].terminal \/ process[k] = "exited"
    PROVE  \A j \in Key : LogKept(j)
<1>1. LogKept(k)
  BY DEF LogKept, Ended
<1>2. \A j \in Key \ {k} : LogKept(j)
  BY DEF LogKept, Ended
<1> QED
  BY <1>1, <1>2

LEMMA RememberLog ==
    ASSUME JobTypes, NEW k \in Key, NEW r \in Request, NEW o \in Operation, NEW c \in Content,
           NEW start \in BOOLEAN, NEW pre \in BOOLEAN,
           Remember(k, r, o, c, start, pre), UNCHANGED <<store, disk>>
    PROVE  (\A j \in Key : LogKept(j)) /\ ops'[k][o].known
<1> DEFINE op == [known |-> TRUE, request |-> r, content |-> c, terminal |-> None, preexisting |-> pre]
           jb == [known |-> TRUE, request |-> r, startResult |-> None, terminal |-> FALSE]
<1>1. op.known /\ ~jb.terminal
  OBVIOUS
<1>2. ops' = [ops EXCEPT ![k][o] = op] /\ (jobs' = [jobs EXCEPT ![k] = jb] \/ jobs' = jobs)
  BY DEF Remember
<1> HIDE DEF op, jb
<1>3. ops \in [Key -> [Operation -> OperationState]] /\ jobs \in [Key -> JobState]
  BY DEF JobTypes
<1>4. /\ \A j \in Key \ {k} : ops'[j] = ops[j] /\ jobs'[j] = jobs[j]
      /\ ops'[k][o] = op /\ \A p \in Operation \ {o} : ops'[k][p] = ops[k][p]
      /\ jobs'[k] = jb \/ jobs'[k] = jobs[k]
  BY <1>2, <1>3
<1>5. ops'[k][o].known /\ (\A p \in Operation : ops[k][p].known => ops'[k][p].known)
  BY <1>1, <1>4
<1>6. jobs'[k].terminal => jobs[k].terminal
  BY <1>1, <1>4
<1> QED
  BY <1>4, <1>5, <1>6, MemoryLog

LEMMA OpsTerminal ==
    ASSUME JobTypes, NEW k \in Key, NEW o \in Operation,
           \/ MarkOperationUncertain(k, o)
           \/ \E w : ops' = [ops EXCEPT ![k][o].terminal = w]
    PROVE  /\ \A j \in Key \ {k} : ops'[j] = ops[j]
           /\ \A p \in Operation : ops[k][p].known => ops'[k][p].known
<1>1. ops[k][o] \in OperationState /\ ops \in [Key -> [Operation -> OperationState]]
  BY DEF JobTypes
<1>2. PICK q : q.known = ops[k][o].known /\ ops' = [ops EXCEPT ![k] = [ops[k] EXCEPT ![o] = q]]
  <2>1. CASE MarkOperationUncertain(k, o)
    <3>1. PICK q : q = [ops[k][o] EXCEPT !.preexisting = TRUE]
      OBVIOUS
    <3>2. q.known = ops[k][o].known
      BY <1>1, <3>1 DEF OperationState
    <3>3. ops' = [ops EXCEPT ![k] = [ops[k] EXCEPT ![o] = q]]
      BY <2>1, <3>1 DEF MarkOperationUncertain
    <3> QED
      BY <3>2, <3>3
  <2>2. CASE \E w : ops' = [ops EXCEPT ![k][o].terminal = w]
    <3>0. PICK w : ops' = [ops EXCEPT ![k][o].terminal = w]
      BY <2>2
    <3>1. PICK q : q = [ops[k][o] EXCEPT !.terminal = w]
      OBVIOUS
    <3>2. q.known = ops[k][o].known
      BY <1>1, <3>1 DEF OperationState
    <3>3. ops' = [ops EXCEPT ![k] = [ops[k] EXCEPT ![o] = q]]
      BY <3>0, <3>1
    <3> QED
      BY <3>2, <3>3
  <2> QED
    BY <2>1, <2>2
<1>3. /\ \A j \in Key \ {k} : ops'[j] = ops[j]
      /\ ops'[k][o] = q /\ \A p \in Operation \ {o} : ops'[k][p] = ops[k][p]
  BY <1>1, <1>2
<1> QED
  BY <1>2, <1>3

LEMMA CommitLog ==
    ASSUME JobTypes, NEW k \in Key, NEW o \in Operation, NEW start, NEW w,
           CommitTerminal(k, o, start, w)
    PROVE  \A j \in Key : LogKept(j)
<1>1. /\ disk' = disk /\ ops' = [ops EXCEPT ![k][o].terminal = w]
      /\ jobs' = jobs \/ jobs' = [jobs EXCEPT ![k].startResult = w]
  BY DEF CommitTerminal
<1>2. jobs \in [Key -> JobState] /\ jobs[k] \in JobState
  BY DEF JobTypes
<1>3. (\A j \in Key \ {k} : jobs'[j] = jobs[j]) /\ jobs'[k].terminal = jobs[k].terminal
  BY <1>1, <1>2 DEF JobState
<1>4. /\ \A j \in Key \ {k} : ops'[j] = ops[j]
      /\ \A p \in Operation : ops[k][p].known => ops'[k][p].known
  BY <1>1, OpsTerminal
<1> QED
  BY <1>1, <1>3, <1>4, MemoryLog

LEMMA UncertainLog ==
    ASSUME JobTypes, NEW k \in Key, NEW o \in Operation, MarkOperationUncertain(k, o), UNCHANGED <<jobs, disk>>
    PROVE  \A j \in Key : LogKept(j)
  BY OpsTerminal, MemoryLog

LEMMA AppendLog ==
    ASSUME JobTypes, NEW k \in Key, NEW rec \in Record, AppendSucceeds(k, rec) \/ AppendFails(k, rec),
           jobs' = jobs, rec.record # "job.terminal" \/ process[k] = "exited",
           \/ ops' = ops
           \/ \E o \in Operation : MarkOperationUncertain(k, o)
    PROVE  \A j \in Key : LogKept(j)
<1>1. disk' = disk \/ disk' = [disk EXCEPT ![k] = Append(@, rec)]
  BY DEF AppendSucceeds, AppendFails
<1>2. disk \in [Key -> Seq(Record)]
  BY DEF JobTypes
<1>3. (\A j \in Key \ {k} : disk'[j] = disk[j]) /\ disk'[k] \in {disk[k], Append(disk[k], rec)}
  BY <1>1, <1>2
<1>4. /\ \A j \in Key \ {k} : ops'[j] = ops[j]
      /\ \A p \in Operation : ops[k][p].known => ops'[k][p].known
  BY OpsTerminal
<1>5. PICK log \in Seq(Record) : log = disk[k]
  BY <1>2
<1>6. PICK more : more = disk'[k]
  OBVIOUS
<1>7. /\ \A i \in DOMAIN log : i \in DOMAIN more /\ more[i] = log[i]
      /\ \A i \in DOMAIN more : more[i] = rec \/ (i \in DOMAIN log /\ more[i] = log[i])
  <2>1. CASE more = log
    BY <2>1
  <2>2. CASE more = Append(log, rec)
    BY <2>2, OneMore
  <2> QED
    BY <1>3, <1>5, <1>6, <2>1, <2>2
<1>8. Logged(more, "job.terminal", None) => Logged(log, "job.terminal", None) \/ process[k] = "exited"
  BY <1>7 DEF Logged
<1>9. LogKept(k)
  BY <1>4, <1>5, <1>6, <1>7, <1>8 DEF LogKept, Ended
<1>10. \A j \in Key \ {k} : LogKept(j)
  BY <1>3, <1>4 DEF LogKept, Ended
<1> QED
  BY <1>9, <1>10

\* And the process, the running map and the gate.
LEMMA KillMoves ==
    ASSUME JobTypes, NEW k \in Key, Kill(k) \/ UNCHANGED process, running' \subseteq running,
           \/ gate' = gate
           \/ \E x \in {"ready", "failed", "terminal"} :
                 gate' = [gate EXCEPT ![k] = IF @ = "pending" THEN x ELSE @]
    PROVE  \A j \in Key : ProcessKept(j)
<1>1. \A j \in Key : gate[j] \in Gate => gate'[j] \in Gate
  BY DEF JobTypes, Gate
<1>2. \A j \in Key : process'[j] = process[j] \/ (process[j] = "live" /\ process'[j] = "dying")
  BY KillFacts
<1> QED
  BY <1>1, <1>2 DEF ProcessKept

LEMMA SameProcess ==
    ASSUME JobTypes, UNCHANGED <<process, running, gate>>
    PROVE  \A j \in Key : ProcessKept(j)
  BY DEF ProcessKept

\* Where a thread goes and what it returns.
LEMMA AloneFacts ==
    ASSUME JobTypes, EffectInv, NEW t \in Thread, NEW p, pc' = [pc EXCEPT ![t] = p],
           \/ want' = want
           \/ \E w : want' = [want EXCEPT ![t] = w],
           \/ result' = result
           \/ \E r : result' = [result EXCEPT ![t] = r]
    PROVE  /\ Alone({t}) /\ pc'[t] = p /\ result' = [u \in Thread |-> result'[u]]
           /\ \A r : result' = [result EXCEPT ![t] = r] => result'[t] = r
           /\ \A w : want' = [want EXCEPT ![t] = w] => want'[t] = w
<1>1. /\ pc \in [Thread -> StarterPoint \cup ControllerPoint] /\ want \in [Thread -> Outcome \cup {None}]
      /\ result = [u \in Thread |-> result[u]]
  BY DEF JobTypes, EffectInv
<1>2. pc'[t] = p /\ \A u \in Thread \ {t} : pc'[u] = pc[u]
  BY <1>1
<1>3. /\ \A u \in Thread \ {t} : want'[u] = want[u]
      /\ \A w : want' = [want EXCEPT ![t] = w] => want'[t] = w
  BY <1>1
<1>4. DOMAIN result = Thread
  BY <1>1
<1>5. /\ \A u \in Thread \ {t} : result'[u] = result[u]
      /\ \A r : result' = [result EXCEPT ![t] = r] => result'[t] = r
  BY <1>4
<1>6. result' = [u \in Thread |-> result'[u]]
  <2>1. CASE result' = result
    BY <1>1, <2>1
  <2>2. CASE \E r : result' = [result EXCEPT ![t] = r]
    BY <1>4, <2>2
  <2> QED
    BY <2>1, <2>2
<1> QED
  BY <1>2, <1>3, <1>5, <1>6 DEF Alone

(***************************************************************************)
(* The steps of a start                                                    *)
(***************************************************************************)
LEMMA StartMoves ==
    ASSUME JobInv, EffectInv, NEW s \in Starter, NEW k \in Key, k = KeyOf[s], Tame({s}),
           pc'[s] \notin {"publish", "finish", "finished", "dispatch", "ready"},
           Configured => /\ pc'[s] = "gate" => gate[k] \in Gate
                         /\ result'[s] # result[s] =>
                               /\ result'[s] = "Started" => StartResolved(k, "started")
                               /\ result'[s] = "ExistingTerminal" => process[k] = "exited"
    PROVE  EffectInv'
<1>1. LogKept(k) /\ ProcessKept(k) /\ \A c \in Controller : c # s
  BY ThreadFacts DEF Tame
<1>2. StartResolved(k, "started") => StartResolved(k, "started")'
  BY <1>1 DEF StartResolved, LogKept
<1>3. ASSUME Configured PROVE StartEffects(s)'
  <2>1. StartEffects(s)
    BY <1>3 DEF EffectInv
  <2>2. /\ result[s] = "Started" => StartResolved(k, "started")
        /\ result[s] = "ExistingTerminal" => process[k] = "exited"
    BY <2>1 DEF StartEffects
  <2> QED
    BY <1>1, <1>2, <1>3, <2>2 DEF StartEffects, ProcessKept
<1> QED
  BY <1>1, <1>3, TameKeeps

Quick == {"idle", "live", "gate", "recovered", "preflight", "admit", "begin", "unavailable",
          "accept", "commit", "rollback", "claim", "done"}

\* What a start returns before it has dispatched anything, and its last step.
LEMMA EarlyEffects ==
    ASSUME JobInv, EffectInv, NEW s \in Starter,
           \/ EnterStart(s) \/ CheckLive(s) \/ JoinLive(s) \/ CheckRecovered(s) \/ Preflight(s)
           \/ Admit(s) \/ BeginEntry(s) \/ FenceUnavailable(s) \/ FenceStart(s) \/ RollbackStart(s)
           \/ OpenGate(s)
    PROVE  EffectInv'
<1>0. PICK k \in Key : k = KeyOf[s]
  BY ThreadFacts
<1>1. JobTypes /\ s \in Thread /\ RequestOf[s] \in Request
  BY ThreadFacts, ManagerAssumption DEF JobInv
<1>2. UNCHANGED <<store, ops, jobs, disk, want, process, running, restarts, spawned, applied>>
  BY DEF EnterStart, CheckLive, JoinLive, CheckRecovered, Preflight, Admit, BeginEntry, FenceUnavailable,
     FenceStart, RollbackStart, OpenGate, jobJournalVars, jobVars, historyVars
<1>3. PICK p \in Quick : pc' = [pc EXCEPT ![s] = p]
  BY DEF EnterStart, CheckLive, JoinLive, CheckRecovered, Preflight, Admit, BeginEntry, FenceUnavailable,
     FenceStart, RollbackStart, OpenGate, Goto, Return, ReturnPermit, Quick
<1>4. gate' = gate \/ gate' = [gate EXCEPT ![k] = IF @ = "pending" THEN "ready" ELSE @]
  BY <1>0 DEF EnterStart, CheckLive, JoinLive, CheckRecovered, Preflight, Admit, BeginEntry, FenceUnavailable,
     FenceStart, RollbackStart, OpenGate, jobVars
<1>5. result' = result \/ \E r : result' = [result EXCEPT ![s] = r]
  BY DEF EnterStart, CheckLive, JoinLive, CheckRecovered, Preflight, Admit, BeginEntry, FenceUnavailable,
     FenceStart, RollbackStart, OpenGate, Return, ReturnPermit
<1>6. \A j \in Key : EntryMoves(j)
  <2>1. \/ UNCHANGED jobRegistryVars \/ MarkRestartUncertain(k)
        \/ RollbackAccept(k, RequestOf[s]) \/ Accept(k, RequestOf[s])
    BY <1>0 DEF EnterStart, CheckLive, JoinLive, CheckRecovered, Preflight, Admit, BeginEntry, FenceUnavailable,
       FenceStart, RollbackStart, OpenGate
  <2>2. CASE UNCHANGED jobRegistryVars \/ MarkRestartUncertain(k)
    BY <1>1, <2>2, FenceMoves
  <2>3. CASE RollbackAccept(k, RequestOf[s])
    <3>1. EntryGoes(k, "absent")
      BY <1>1, <2>3, RollbackFacts
    <3> QED
      BY <3>1, EntryMovesAll DEF EntryGoes, EntryMoves
  <2>4. CASE Accept(k, RequestOf[s])
    <3>1. EntryGoes(k, "accepted")
      BY <1>1, <2>4, AcceptFacts
    <3> QED
      BY <3>1, EntryMovesAll DEF EntryGoes, EntryMoves
  <2> QED
    BY <2>1, <2>2, <2>3, <2>4
<1>7. /\ Alone({s}) /\ pc'[s] = p /\ result' = [u \in Thread |-> result'[u]]
      /\ \A r : result' = [result EXCEPT ![s] = r] => result'[s] = r
  BY <1>1, <1>2, <1>3, <1>5, AloneFacts
<1>8. Tame({s})
  <2>1. \A j \in Key : LogKept(j) /\ ProcessKept(j)
    BY <1>1, <1>2, <1>4, SameLog, KillMoves
  <2>2. StoreStep /\ UNCHANGED historyVars
    BY <1>2 DEF StoreStep, historyVars
  <2> QED
    BY <1>6, <1>7, <2>1, <2>2 DEF Tame
<1>9. ASSUME Configured
      PROVE  /\ pc'[s] = "gate" => gate[k] \in Gate
             /\ result'[s] # result[s] =>
                   /\ result'[s] = "Started" => StartResolved(k, "started")
                   /\ result'[s] = "ExistingTerminal" => process[k] = "exited"
  <2>0. JobEffects(k) /\ StartEffects(s) /\ gate[k] \in Gate \cup {None}
    BY <1>1, <1>9 DEF EffectInv, JobTypes, Gate
  <2>1. CASE EnterStart(s)
    BY <1>7, <2>1 DEF EnterStart, Goto
  <2>2. CASE CheckLive(s)
    <3>1. result' = result \/ result' = [result EXCEPT ![s] = "Conflict"]
      BY <2>2 DEF CheckLive, Return
    <3>2. pc'[s] = "gate" => k \in running
      BY <1>0, <1>1, <2>2 DEF CheckLive, Goto, Return, JobTypes
    <3> QED
      BY <1>7, <2>0, <3>1, <3>2 DEF JobEffects
  <2>3. CASE JoinLive(s)
    <3>1. gate[k] \in Gate /\ gate[k] # "pending" /\ pc'[s] = "done"
      BY <1>0, <1>1, <2>0, <2>3 DEF JoinLive, Goto, Return, StartEffects, JobTypes
    <3>2. \E r \in {"ExistingLive", "Err", "NotLive"} : result' = [result EXCEPT ![s] = r]
      BY <1>0, <2>3, <3>1 DEF JoinLive, Return, Gate
    <3> QED
      BY <1>7, <3>1, <3>2
  <2>4. CASE CheckRecovered(s)
    <3>1. pc'[s] # "gate"
      BY <1>1, <2>4 DEF CheckRecovered, Goto, Return, JobTypes
    <3>2. \/ result' = result
          \/ result' = [result EXCEPT ![s] = "Conflict"]
          \/ result' = [result EXCEPT ![s] = "Unknown"]
          \/ result' = [result EXCEPT ![s] = "ExistingTerminal"] /\ jobs[k].terminal
      BY <1>0, <2>4 DEF CheckRecovered, Return
    <3> QED
      BY <1>7, <2>0, <3>1, <3>2 DEF JobEffects, Ended
  <2>5. CASE Preflight(s) \/ Admit(s) \/ FenceUnavailable(s) \/ FenceStart(s) \/ RollbackStart(s)
    <3>1. pc'[s] # "gate"
      BY <1>1, <2>5 DEF Preflight, Admit, FenceUnavailable, FenceStart, RollbackStart, Goto, Return,
         ReturnPermit, JobTypes
    <3>2. result' = result \/ \E r \in {"Err", "Capacity", "Unknown"} : result' = [result EXCEPT ![s] = r]
      BY <2>5 DEF Preflight, Admit, FenceUnavailable, FenceStart, RollbackStart, Return, ReturnPermit
    <3> QED
      BY <1>7, <3>1, <3>2
  <2>6. CASE BeginEntry(s)
    <3>1. pc'[s] # "gate"
      BY <1>1, <2>6 DEF BeginEntry, Goto, Return, ReturnPermit, JobTypes
    <3>2. \/ result' = result
          \/ \E r \in {"Err", "Conflict", "Unknown"} : result' = [result EXCEPT ![s] = r]
          \/ result' = [result EXCEPT ![s] = "ExistingTerminal"] /\ entry[k].dispatch = "terminal"
      BY <1>0, <2>6 DEF BeginEntry, Return, ReturnPermit
    <3> QED
      BY <1>7, <2>0, <3>1, <3>2 DEF JobEffects
  <2>7. CASE OpenGate(s)
    <3>1. /\ pc[s] = "ready" /\ pc'[s] = "done" /\ result'[s] = "Started"
      BY <1>1, <1>7, <2>7 DEF OpenGate, Goto, Return, JobTypes
    <3> QED
      BY <1>0, <2>0, <3>1 DEF StartEffects
  <2> QED
    BY <2>1, <2>2, <2>3, <2>4, <2>5, <2>6, <2>7
<1> QED
  BY <1>0, <1>3, <1>7, <1>8, <1>9, StartMoves DEF Quick

\* start accepts and commits.
LEMMA AcceptStartEffects ==
    ASSUME JobInv, EffectInv, NEW s \in Starter, AcceptStart(s) \/ CommitStart(s)
    PROVE  EffectInv'
<1>0. PICK k \in Key : k = KeyOf[s]
  BY ThreadFacts
<1>1. /\ JobTypes /\ s \in Thread /\ RequestOf[s] \in Request /\ OperationOf[s] \in Operation
      /\ ContentOf[s] \in Content
  BY ThreadFacts, ManagerAssumption DEF JobInv
<1>2. UNCHANGED <<want, process, running, gate, restarts, spawned, applied>>
  BY DEF AcceptStart, CommitStart, jobVars, historyVars
<1>3. PICK p \in Quick : p # "gate" /\ pc' = [pc EXCEPT ![s] = p]
  BY DEF AcceptStart, CommitStart, Goto, Return, ReturnPermit, Quick
<1>4. result' = result \/ \E r \in {"Unknown", "Err"} : result' = [result EXCEPT ![s] = r]
  BY DEF AcceptStart, CommitStart, Return, ReturnPermit
<1>5. UNCHANGED jobRegistryVars \/ MarkRestartUncertain(k)
  BY <1>0 DEF AcceptStart, CommitStart
<1>6. (\A j \in Key : LogKept(j)) /\ StoreStep
  <2>1. CASE CommitStart(s)
    <3>1. /\ Remember(k, RequestOf[s], OperationOf[s], ContentOf[s], TRUE, store # "open")
          /\ UNCHANGED <<store, disk>>
      BY <1>0, <2>1 DEF CommitStart, CommitAccepted
    <3> QED
      BY <1>1, <1>2, <3>1, RememberLog DEF StoreStep
  <2>2. CASE AcceptStart(s) /\ StartAnswer(s) = "Append"
    <3>1. PICK rec \in Record : rec = StartRecord(s) /\ rec.record = "operation.accepted"
      BY <1>1, RecordFacts DEF StartRecord
    <3>2. /\ AppendSucceeds(k, rec) \/ (AppendFails(k, rec) /\ UNCHANGED <<ops, jobs>>)
          /\ store = "open"
      BY <1>0, <2>2, <3>1 DEF AcceptStart, AppendSucceeds, StartAnswer, BeginAnswer
    <3>3. rec.record # "job.terminal"
      BY <3>1
    <3>4. StoreStep /\ UNCHANGED <<ops, jobs>>
      BY <1>2, <3>2 DEF AppendSucceeds, AppendFails, StoreStep
    <3> QED
      BY <1>1, <3>2, <3>3, <3>4, AppendLog
  <2>3. CASE AcceptStart(s) /\ StartAnswer(s) = "Unjournaled"
    <3>1. /\ Remember(k, RequestOf[s], OperationOf[s], ContentOf[s], TRUE, FALSE)
          /\ UNCHANGED <<store, disk>>
      BY <1>0, <2>3 DEF AcceptStart, AcceptUnjournaled
    <3> QED
      BY <1>1, <1>2, <3>1, RememberLog DEF StoreStep
  <2> QED
    BY <2>1, <2>2, <2>3 DEF AcceptStart
<1>7. /\ Alone({s}) /\ pc'[s] = p /\ result' = [u \in Thread |-> result'[u]]
      /\ \A r : result' = [result EXCEPT ![s] = r] => result'[s] = r
  BY <1>1, <1>2, <1>3, <1>4, AloneFacts
<1>8. Tame({s})
  <2>1. \A j \in Key : EntryMoves(j) /\ ProcessKept(j)
    BY <1>1, <1>2, <1>5, FenceMoves, SameProcess
  <2> QED
    BY <1>2, <1>6, <1>7, <2>1 DEF Tame, historyVars
<1> QED
  BY <1>0, <1>3, <1>4, <1>7, <1>8, StartMoves DEF Quick

\* The steps of a start between its claim and its answer that do not reach the
\* journal; the spawn is apart.
LEMMA ClaimEffects ==
    ASSUME JobInv, EffectInv, NEW s \in Starter,
           Claim(s) \/ Publish(s) \/ ObserveStart(s) \/ StartDispatcher(s) \/ Abort(s)
    PROVE  EffectInv'
<1>0. PICK k \in Key : k = KeyOf[s]
  BY ThreadFacts
<1>1. JobTypes /\ s \in Thread /\ StartOK(s) /\ spawned[k] \in Nat
  BY ThreadFacts DEF JobInv, JobTypes
<1>2. UNCHANGED <<ops, jobs, disk, result, restarts, spawned, applied>>
  BY DEF Claim, Publish, ObserveStart, StartDispatcher, Abort, jobJournalVars, jobVars, historyVars
<1>3. PICK p \in StarterPoint : pc' = [pc EXCEPT ![s] = p]
  BY DEF Claim, Publish, ObserveStart, StartDispatcher, Abort, Goto, StarterPoint
<1>4. want' = want \/ \E w : want' = [want EXCEPT ![s] = w]
  BY DEF Claim, Publish, ObserveStart, StartDispatcher, Abort
<1>5. StoreStep
  BY <1>2 DEF Claim, Publish, ObserveStart, StartDispatcher, Abort, jobJournalVars, ObservationKept,
     ObservationLost, Configured, StoreStep
<1>6. \A j \in Key : EntryMoves(j)
  <2>1. CASE UNCHANGED jobRegistryVars
    BY <1>1, <2>1, FenceMoves
  <2>2. CASE Claim(s) /\ ClaimSpawn(k)
    <3>1. EntryGoes(k, "claimed") /\ pc[s] = "claim"
      BY <1>1, <2>2, ClaimFacts DEF Claim, Goto
    <3>2. Configured => spawned[k] = 0
      BY <1>0, <1>1, <3>1 DEF StartOK, StartIsNew
    <3> QED
      BY <3>1, <3>2, EntryMovesAll DEF EntryGoes, EntryMoves
  <2>3. CASE Publish(s)
    <3>1. RecordStarted(k) /\ pc[s] = "publish"
      BY <1>0, <2>3 DEF Publish, Goto
    <3>2. EntryGoes(k, "running") /\ entry[k].dispatch = "claimed"
      BY <1>1, <3>1, StartedFacts DEF RecordStarted
    <3>3. Configured => spawned[k] # 0
      BY <1>0, <3>1 DEF EffectInv, StartEffects
    <3> QED
      BY <3>2, <3>3, EntryMovesAll DEF EntryGoes, EntryMoves
  <2> QED
    BY <1>0, <2>1, <2>2, <2>3 DEF Claim, ObserveStart, StartDispatcher, Abort
<1>7. \A j \in Key : ProcessKept(j)
  <2>1. CASE UNCHANGED <<process, running, gate>>
    BY <1>1, <2>1, SameProcess
  <2>2. CASE Publish(s)
    <3>1. gate' = [gate EXCEPT ![k] = "pending"] /\ running' = running \cup {k} /\ process' = process
      BY <1>0, <2>2 DEF Publish
    <3> QED
      BY <1>1, <3>1 DEF JobTypes, ProcessKept, Gate
  <2>3. CASE Abort(s)
    <3>1. FailGate(k) /\ Kill(k) /\ running' = running \ {k}
      BY <1>0, <2>3 DEF Abort
    <3> QED
      BY <1>1, <3>1, KillMoves DEF FailGate
  <2> QED
    BY <2>1, <2>2, <2>3 DEF Claim, ObserveStart, StartDispatcher, jobVars
<1>8. /\ Alone({s}) /\ pc'[s] = p /\ result' = [u \in Thread |-> result'[u]]
      /\ \A w : want' = [want EXCEPT ![s] = w] => want'[s] = w
  BY <1>1, <1>2, <1>3, <1>4, AloneFacts
<1>9. Tame({s})
  BY <1>2, <1>5, <1>6, <1>7, <1>8, SameLog DEF Tame, historyVars
<1>10. ASSUME Configured PROVE StartEffects(s)'
  <2>1. StartEffects(s) /\ ProcessKept(k)
    BY <1>7, <1>10 DEF EffectInv
  <2>2. p \in {"spawn", "observe", "finish", "ready", "abort"}
    BY <1>1, <1>3, <1>8 DEF Claim, Publish, ObserveStart, StartDispatcher, Abort, Goto, JobTypes
  <2>3. p = "finish" /\ want'[s] = "spawn_failed" => spawned[k] = 0
    <3>1. CASE Claim(s)
      BY <1>0, <1>1, <1>10, <3>1 DEF Claim, Goto, StartOK, StartIsNew
    <3>2. CASE ObserveStart(s) \/ Abort(s)
      BY <1>8, <3>2 DEF ObserveStart, Abort
    <3>3. CASE Publish(s) \/ StartDispatcher(s)
      BY <1>1, <1>8, <3>3 DEF Publish, StartDispatcher, Goto, JobTypes
    <3> QED
      BY <3>1, <3>2, <3>3
  <2>4. p = "ready" => StartResolved(k, "started")
    <3>1. p = "ready" => pc[s] = "dispatch"
      BY <1>1, <1>8 DEF Claim, Publish, ObserveStart, StartDispatcher, Abort, Goto, JobTypes
    <3> QED
      BY <1>0, <2>1, <3>1 DEF StartEffects
  <2>5. StartResolved(k, "started")' <=> StartResolved(k, "started")
    BY <1>2 DEF StartResolved
  <2>6. /\ result[s] = "Started" => StartResolved(k, "started")
        /\ result[s] = "ExistingTerminal" => process'[k] = "exited"
    BY <1>0, <2>1 DEF StartEffects, ProcessKept
  <2>7. p # "gate" /\ p # "publish" /\ p # "finished" /\ p # "dispatch"
    BY <2>2
  <2> QED
    BY <1>0, <1>2, <1>8, <2>3, <2>4, <2>5, <2>6, <2>7 DEF StartEffects
<1>11. \A c \in Controller : c # s
  BY ThreadFacts
<1> QED
  BY <1>9, <1>10, <1>11, TameKeeps

LEMMA SpawnEffects ==
    ASSUME JobInv, EffectInv, NEW s \in Starter, Spawn(s)
    PROVE  EffectInv'
<1>0. PICK k \in Key : k = KeyOf[s]
  BY ThreadFacts
<1>1. JobTypes /\ s \in Thread /\ StartOK(s) /\ spawned[k] \in Nat /\ OneStart(k) /\ s \in StarterOf(k)
  BY <1>0, ThreadFacts DEF JobInv, JobTypes, StarterOf
<1>2. UNCHANGED <<entry, store, ops, jobs, disk, result, running, gate, applied, restarts>> /\ pc[s] = "spawn"
  BY DEF Spawn, Goto, jobRegistryVars, jobJournalVars
<1>3. PICK p \in {"publish", "finish"} : pc' = [pc EXCEPT ![s] = p]
  BY DEF Spawn, Goto
<1>4. want' = want \/ \E w : want' = [want EXCEPT ![s] = w]
  BY DEF Spawn
<1>5. /\ Alone({s}) /\ pc'[s] = p /\ result' = [u \in Thread |-> result'[u]]
      /\ \A w : want' = [want EXCEPT ![s] = w] => want'[s] = w
  BY <1>1, <1>2, <1>3, <1>4, AloneFacts
<1>6. /\ \A j \in Key \ {k} : process'[j] = process[j] /\ spawned'[j] = spawned[j]
      /\ \/ p = "publish" /\ process'[k] = "live" /\ spawned'[k] = spawned[k] + 1
         \/ p = "finish" /\ want'[s] = "internal_failure" /\ process'[k] = "dying" /\ spawned'[k] = spawned[k] + 1
         \/ p = "finish" /\ want'[s] = "spawn_failed" /\ process'[k] = process[k] /\ spawned'[k] = spawned[k]
  <2>1. process \in [Key -> {"none", "live", "dying", "exited"}] /\ spawned \in [Key -> Nat]
    BY <1>1 DEF JobTypes
  <2>2. \/ /\ process' = [process EXCEPT ![k] = "live"] /\ spawned' = [spawned EXCEPT ![k] = @ + 1]
           /\ p = "publish"
        \/ /\ process' = [process EXCEPT ![k] = "dying"] /\ spawned' = [spawned EXCEPT ![k] = @ + 1]
           /\ p = "finish" /\ want'[s] = "internal_failure"
        \/ /\ process' = process /\ spawned' = spawned /\ p = "finish" /\ want'[s] = "spawn_failed"
    BY <1>0, <1>1, <1>5 DEF Spawn, Goto, JobTypes
  <2> QED
    BY <2>1, <2>2
<1>7. (Configured' <=> Configured) /\ \A j \in Key : Ended(j)' <=> Ended(j)
  BY <1>2 DEF Configured, Ended
<1>8. ASSUME Configured PROVE EffectInv'
  <2>1. spawned[k] = 0
    BY <1>0, <1>1, <1>2, <1>8 DEF StartOK, StartIsNew
  <2>2. process[k] = "none" /\ JobEffects(k)
    BY <1>1, <1>8, <2>1 DEF EffectInv, JobEffects, JobTypes
  <2>3. ASSUME NEW j \in Key PROVE JobEffects(j)'
    <3>1. CASE j # k
      BY <1>2, <1>6, <1>7, <1>8, <3>1 DEF EffectInv, JobEffects
    <3>2. CASE j = k
      <4>1. entry[k].dispatch \notin {"running", "terminal"} /\ ~Ended(k)
        BY <2>1, <2>2 DEF JobEffects
      <4> QED
        BY <1>1, <1>2, <1>6, <1>7, <2>1, <2>2, <3>2, <4>1 DEF JobEffects
    <3> QED
      BY <3>1, <3>2
  <2>4. ASSUME NEW u \in Starter PROVE StartEffects(u)'
    <3>1. StartEffects(u) /\ u \in Thread /\ KeyOf[u] \in Key
      BY <1>8, <2>4, ThreadFacts DEF EffectInv
    <3>2. StartResolved(KeyOf[u], "started")' <=> StartResolved(KeyOf[u], "started")
      BY <1>2 DEF StartResolved
    <3>3. CASE u = s
      BY <1>0, <1>1, <1>2, <1>5, <1>6, <2>1, <2>2, <3>1, <3>2, <3>3 DEF StartEffects
    <3>4. CASE u # s /\ KeyOf[u] # k
      BY <1>2, <1>5, <1>6, <3>1, <3>2, <3>4 DEF StartEffects, Alone
    <3>5. CASE u # s /\ KeyOf[u] = k
      <4>1. pc[u] \in AtRest /\ pc'[u] = pc[u]
        BY <1>1, <1>2, <1>5, <3>1, <3>5 DEF OneStart, AtRest, StarterOf, Alone
      <4> QED
        BY <1>2, <2>2, <3>1, <3>2, <3>5, <4>1 DEF StartEffects, AtRest
    <3> QED
      BY <3>3, <3>4, <3>5
  <2>5. ASSUME NEW c \in Controller PROVE ControlEffects(c)'
    <3>1. ControlEffects(c) /\ c \in Thread \ {s}
      BY <1>8, <2>5, ThreadFacts DEF EffectInv
    <3>2. pc'[c] = pc[c] /\ want'[c] = want[c] /\ result'[c] = result[c]
      BY <1>5, <3>1 DEF Alone
    <3>3. (Poised(c)' <=> Poised(c)) /\ (Acted(c)' <=> Acted(c))
      BY <3>2 DEF Poised, Acted
    <3> QED
      BY <1>2, <3>1, <3>2, <3>3 DEF ControlEffects, OutcomeLogged
  <2> QED
    BY <1>5, <2>3, <2>4, <2>5 DEF EffectInv
<1>9. CASE ~Configured
  BY <1>5, <1>7, <1>9 DEF EffectInv
<1> QED
  BY <1>8, <1>9

(***************************************************************************)
(* complete_operation, for a start and for a control                       *)
(***************************************************************************)

\* What a thread reports of an operation that ended well is in the log.
Told(t) ==
    Configured =>
        /\ t \in Starter /\ want[t] = "started" => StartResolved(KeyOf[t], "started")'
        /\ t \in Controller /\ want[t] = "applied" => OutcomeLogged(KeyOf[t], OperationOf[t], "applied")'

\* What the end of an operation leaves to its thread.
LEMMA LeavesEffects ==
    ASSUME JobInv, EffectInv, NEW t \in Thread, NEW k \in Key, k = KeyOf[t],
           NEW from \in {"finish", "finished"},
           \A j \in Key : LogKept(j), StoreStep,
           UNCHANGED <<want, process, running, gate, spawned, applied>>,
           \/ Unresolved(t, from)
           \/ Resolved(t, from) /\ Told(t)
    PROVE  EffectInv'
<1>1. JobTypes /\ k \in Key
  BY ManagerAssumption DEF JobInv
<1>2. PICK p \in Left : pc' = [pc EXCEPT ![t] = p]
  BY DEF Resolved, Unresolved, Goto, Return, Left
<1>3. result' = result \/ \E r : result' = [result EXCEPT ![t] = r]
  BY DEF Resolved, Unresolved, Return
<1>4. UNCHANGED jobRegistryVars \/ MarkRestartUncertain(k)
  BY DEF Resolved, Unresolved
<1>5. /\ Alone({t}) /\ pc'[t] = p /\ result' = [u \in Thread |-> result'[u]]
      /\ \A r : result' = [result EXCEPT ![t] = r] => result'[t] = r
  BY <1>1, <1>2, <1>3, AloneFacts
<1>6. Tame({t})
  BY <1>1, <1>4, <1>5, FenceMoves, SameProcess DEF Tame, historyVars
<1>7. ASSUME Configured, t \in Starter PROVE StartEffects(t)'
  <2>1. StartEffects(t) /\ LogKept(k) /\ result' = result
    BY <1>7 DEF EffectInv, Resolved, Unresolved
  <2>2. StartResolved(k, "started") => StartResolved(k, "started")'
    BY <2>1 DEF StartResolved, LogKept
  <2>3. /\ p = "dispatch" => StartResolved(k, "started")'
        /\ p \notin {"gate", "publish", "finish", "finished", "ready"}
    <3>1. CASE Resolved(t, from) /\ Told(t)
      <4>1. pc' = [pc EXCEPT ![t] = IF want[t] = "started" THEN "dispatch" ELSE "fence"]
        BY <1>7, <3>1 DEF Resolved, Goto
      <4>2. p = IF want[t] = "started" THEN "dispatch" ELSE "fence"
        BY <1>1, <1>5, <4>1 DEF JobTypes
      <4> QED
        BY <1>7, <3>1, <4>2 DEF Told
    <3>2. CASE Unresolved(t, from)
      <4>1. pc' = [pc EXCEPT ![t] = IF want[t] = "started" THEN "abort" ELSE "fence"]
        BY <1>7, <3>2 DEF Unresolved, Goto
      <4>2. p = IF want[t] = "started" THEN "abort" ELSE "fence"
        BY <1>1, <1>5, <4>1 DEF JobTypes
      <4> QED
        BY <4>2
    <3> QED
      BY <3>1, <3>2
  <2> QED
    BY <1>5, <2>1, <2>2, <2>3 DEF StartEffects
<1>8. ASSUME Configured, t \in Controller PROVE ControlEffects(t)'
  <2>1. PICK o \in Operation : o = OperationOf[t]
    BY OperationFacts
  <2>2. ControlEffects(t) /\ LogKept(k) /\ t \notin Starter
    BY <1>8, ThreadFacts DEF EffectInv
  <2>3. OutcomeLogged(k, o, "applied") => OutcomeLogged(k, o, "applied")'
    BY <2>2 DEF OutcomeLogged, LogKept
  <2>4. p = "done" /\ pc[t] = from
    BY <1>1, <1>5, <2>2 DEF Resolved, Unresolved, Goto, Return, JobTypes
  <2>5. \/ result'[t] = "Applied" /\ want[t] = "applied" /\ Told(t)
        \/ result'[t] = "Err"
    BY <1>5, <2>2 DEF Resolved, Unresolved, Return
  <2>6. ~Poised(t)' /\ (Acted(t)' => Acted(t))
    BY <1>5, <2>4, <2>5 DEF Poised, Acted
  <2>7. result'[t] = "Applied" => OutcomeLogged(k, o, "applied")'
    BY <1>8, <2>1, <2>5 DEF Told
  <2> QED
    BY <1>5, <2>1, <2>2, <2>4, <2>6, <2>7 DEF ControlEffects
<1> QED
  BY <1>6, <1>7, <1>8, TameKeeps

LEMMA FinishEffects ==
    ASSUME JobInv, LogInv, EffectInv, NEW t \in Thread, Finish(t)
    PROVE  EffectInv'
<1>0. PICK k \in Key : k = KeyOf[t]
  BY ManagerAssumption
<1>1. pc[t] = "finish" /\ UNCHANGED <<want, process, running, gate, restarts, spawned, applied>>
  BY DEF Finish, Goto, Resolved, Unresolved, Return, jobVars, historyVars
<1>2. RequestFor(t) \in Request /\ want[t] \in Outcome /\ OperationOf[t] \in Operation /\ JobTypes
  BY <1>0, <1>1, FinishingFacts
<1>3. PICK rec \in Record : rec = FinishRecord(t) /\ rec.record = "operation.terminal"
  BY <1>2, FinishRecordFacts
<1>4. rec.record # "job.terminal"
  BY <1>3
<1>6. CASE AppendSucceeds(k, rec) /\ Goto(t, "finish", "finished") /\ UNCHANGED <<jobRegistryVars, result>>
  <2>1. UNCHANGED <<ops, jobs, store>> /\ \A j \in Key : LogKept(j)
    BY <1>2, <1>4, <1>6, AppendLog DEF AppendSucceeds
  <2>2. pc' = [pc EXCEPT ![t] = "finished"] /\ UNCHANGED jobRegistryVars /\ result' = result
    BY <1>6 DEF Goto
  <2>3. Alone({t}) /\ pc'[t] = "finished" /\ result' = [u \in Thread |-> result'[u]]
    BY <1>1, <1>2, <2>2, AloneFacts
  <2>4. Tame({t})
    BY <1>1, <1>2, <2>1, <2>2, <2>3, FenceMoves, SameProcess DEF Tame, historyVars, StoreStep
  <2>5. ASSUME Configured, t \in Starter PROVE StartEffects(t)'
    <3>1. StartEffects(t) /\ LogKept(k)
      BY <2>1, <2>5 DEF EffectInv
    <3>2. StartResolved(k, "started") => StartResolved(k, "started")'
      BY <3>1 DEF StartResolved, LogKept
    <3> QED
      BY <1>0, <1>1, <2>2, <2>3, <3>1, <3>2 DEF StartEffects
  <2>6. ASSUME Configured, t \in Controller PROVE ControlEffects(t)'
    <3>1. ControlEffects(t) /\ LogKept(k)
      BY <2>1, <2>6 DEF EffectInv
    <3>2. OutcomeLogged(k, OperationOf[t], "applied") => OutcomeLogged(k, OperationOf[t], "applied")'
      BY <3>1 DEF OutcomeLogged, LogKept
    <3>3. ~Poised(t)' /\ (Acted(t)' => Acted(t))
      BY <1>1, <2>2, <2>3 DEF Poised, Acted
    <3> QED
      BY <1>0, <1>1, <2>2, <2>3, <3>1, <3>2, <3>3 DEF ControlEffects
  <2> QED
    BY <2>4, <2>5, <2>6, TameKeeps
<1>7. CASE /\ FinishAnswer(t) = "Append" /\ AppendFails(k, rec) /\ MarkOperationUncertain(k, OperationOf[t])
           /\ UNCHANGED jobs /\ Unresolved(t, "finish")
  <2>1. \A j \in Key : LogKept(j)
    BY <1>2, <1>4, <1>7, AppendLog
  <2>2. StoreStep
    BY <1>1, <1>7 DEF AppendFails, FinishAnswer, CompleteAnswer, StoreStep
  <2> QED
    BY <1>0, <1>1, <1>7, <2>1, <2>2, LeavesEffects
<1>8. CASE /\ FinishAnswer(t) = "Lost" /\ MarkOperationUncertain(k, OperationOf[t])
           /\ UNCHANGED <<store, jobs, disk>> /\ Unresolved(t, "finish")
  <2>1. (\A j \in Key : LogKept(j)) /\ StoreStep
    BY <1>1, <1>2, <1>8, UncertainLog DEF StoreStep
  <2> QED
    BY <1>0, <1>1, <1>8, <2>1, LeavesEffects
<1>9. CASE UNCHANGED jobJournalVars /\ Unresolved(t, "finish")
  <2>1. (\A j \in Key : LogKept(j)) /\ StoreStep
    BY <1>1, <1>9, SameLog DEF jobJournalVars, StoreStep
  <2> QED
    BY <1>0, <1>1, <1>9, <2>1, LeavesEffects
<1>10. CASE /\ FinishAnswer(t) = "Memory" /\ CommitTerminal(k, OperationOf[t], t \in Starter, want[t])
            /\ Resolved(t, "finish")
  <2>1. (\A j \in Key : LogKept(j)) /\ StoreStep
    BY <1>1, <1>2, <1>10, CommitLog DEF CommitTerminal, StoreStep
  <2>2. Told(t)
    BY <1>10 DEF Told, FinishAnswer, CompleteAnswer
  <2> QED
    BY <1>0, <1>1, <1>10, <2>1, <2>2, LeavesEffects
<1> QED
  BY <1>0, <1>3, <1>6, <1>7, <1>8, <1>9, <1>10 DEF Finish

LEMMA CommitFinishEffects ==
    ASSUME JobInv, LogInv, EffectInv, NEW t \in Thread, pc[t] = "finished", CommitFinish(t)
    PROVE  EffectInv'
<1>0. PICK k \in Key : k = KeyOf[t]
  BY ManagerAssumption
<1>1. UNCHANGED <<want, process, running, gate, restarts, spawned, applied>>
  BY DEF CommitFinish, jobVars, historyVars
<1>2. RequestFor(t) \in Request /\ want[t] \in Outcome /\ OperationOf[t] \in Operation /\ JobTypes
  BY <1>0, FinishingFacts
<1>3. CASE /\ store = "open" /\ CommitTerminal(k, OperationOf[t], t \in Starter, want[t])
           /\ Resolved(t, "finished")
  <2>1. (\A j \in Key : LogKept(j)) /\ StoreStep /\ disk' = disk
    BY <1>1, <1>2, <1>3, CommitLog DEF CommitTerminal, StoreStep
  <2>2. PICK log \in Seq(Record), rec \in Record : disk[k] = Append(log, rec) /\ rec = FinishRecord(t)
    BY <1>0, <1>3, HeldRecord DEF Held
  <2>3. rec.op = OperationOf[t] /\ rec.start = (t \in Starter) /\ rec.result = want[t]
    BY <1>2, <2>2, FinishRecordFacts
  <2>4. PICK more : more = disk'[k]
    OBVIOUS
  <2>5. Len(more) \in DOMAIN more /\ more[Len(more)] = rec
    BY <2>1, <2>2, <2>4, OneMore
  <2>6. PICK i \in DOMAIN disk'[k] : disk'[k][i] = rec
    BY <2>4, <2>5
  <2>7. Told(t)
    BY <1>0, <2>3, <2>6 DEF Told, StartResolved, OutcomeLogged
  <2> QED
    BY <1>0, <1>1, <1>3, <2>1, <2>7, LeavesEffects
<1>4. CASE /\ MarkOperationUncertain(k, OperationOf[t]) /\ UNCHANGED <<store, jobs, disk>>
           /\ Unresolved(t, "finished")
  <2>1. (\A j \in Key : LogKept(j)) /\ StoreStep
    BY <1>1, <1>2, <1>4, UncertainLog DEF StoreStep
  <2> QED
    BY <1>0, <1>1, <1>4, <2>1, LeavesEffects
<1> QED
  BY <1>0, <1>3, <1>4 DEF CommitFinish

(***************************************************************************)
(* The steps of a control                                                  *)
(***************************************************************************)
LEMMA ControlMoves ==
    ASSUME JobInv, EffectInv, NEW c \in Controller, NEW k \in Key, k = KeyOf[c],
           NEW o \in Operation, o = OperationOf[c], Tame({c}),
           result'[c] = result[c] \/ result'[c] # "Applied",
           Configured =>
              /\ Poised(c)' => applied[k][o] = 0
              /\ pc'[c] \in {"record", "finish", "finished"} /\ Acted(c)' => applied[k][o] = 1
              /\ pc'[c] \in {"effect", "record"} => ops'[k][o].known
              /\ ~Allow /\ pc'[c] \in {"commit", "effect", "record"} =>
                    Logged(disk'[k], "operation.accepted", o)
    PROVE  EffectInv'
<1>1. LogKept(k) /\ applied' = applied /\ \A s \in Starter : c # s
  BY ThreadFacts DEF Tame, historyVars
<1>2. OutcomeLogged(k, o, "applied") => OutcomeLogged(k, o, "applied")'
  BY <1>1 DEF OutcomeLogged, LogKept
<1>3. ASSUME Configured PROVE ControlEffects(c)'
  <2>1. ControlEffects(c)
    BY <1>3 DEF EffectInv
  <2>2. result'[c] = "Applied" => applied[k][o] = 1 /\ OutcomeLogged(k, o, "applied")
    BY <2>1 DEF ControlEffects, Acted
  <2>3. Acted(c)' => applied[k][o] = 1
    BY <1>3, <2>2 DEF Acted
  <2> QED
    BY <1>1, <1>2, <1>3, <2>2, <2>3 DEF ControlEffects
<1> QED
  BY <1>1, <1>3, TameKeeps

LEMMA LookEffects ==
    ASSUME JobInv, EffectInv, NEW c \in Controller,
           Lookup(c) \/ WaitGate(c) \/ LockLifecycle(c) \/ CheckRunning(c)
    PROVE  EffectInv'
<1>0. PICK k \in Key : k = KeyOf[c]
  BY ThreadFacts
<1>1. PICK o \in Operation : o = OperationOf[c]
  BY ThreadFacts, OperationFacts
<1>2. JobTypes /\ c \in Thread
  BY ThreadFacts DEF JobInv
<1>3. UNCHANGED <<jobRegistryVars, store, ops, jobs, disk, want, process, running, gate, restarts, spawned, applied>>
  BY DEF Lookup, WaitGate, LockLifecycle, CheckRunning, jobJournalVars, jobVars, historyVars
<1>4. PICK p \in {"gate", "lock", "check", "accept", "done"} : pc' = [pc EXCEPT ![c] = p]
  BY DEF Lookup, WaitGate, LockLifecycle, CheckRunning, Goto, Return
<1>5. result' = result \/ \E r \in {"NotLive", "Err", "Unknown"} : result' = [result EXCEPT ![c] = r]
  BY DEF Lookup, WaitGate, LockLifecycle, CheckRunning, Return
<1>6. /\ Alone({c}) /\ pc'[c] = p /\ result' = [u \in Thread |-> result'[u]]
      /\ \A r : result' = [result EXCEPT ![c] = r] => result'[c] = r
  BY <1>2, <1>3, <1>4, <1>5, AloneFacts
<1>7. Tame({c})
  BY <1>2, <1>3, <1>6, FenceMoves, SameProcess, SameLog DEF Tame, historyVars, StoreStep
<1>8. ~Poised(c)' /\ pc'[c] \notin {"record", "finish", "finished", "effect", "commit"}
  BY <1>4, <1>6 DEF Poised
<1>9. result'[c] = result[c] \/ result'[c] # "Applied"
  BY <1>5, <1>6
<1> QED
  BY <1>0, <1>1, <1>7, <1>8, <1>9, ControlMoves

\* An operation the journal does not know has not acted.
LEMMA UnknownNeverActed ==
    ASSUME JobInv, EffectInv, Configured, NEW c \in Controller, NEW k, k = KeyOf[c],
           NEW o, o = OperationOf[c], pc[c] = "accept",
           ControlAnswer(c) \in {"Append", "Unjournaled"}
    PROVE  applied[k][o] = 0
<1>1. k \in Key /\ o \in Operation /\ entry[k].dispatch = "running"
  BY ThreadFacts, OperationFacts DEF JobInv, ControlOK, Controls
<1>2. ~ops[k][o].known
  BY DEF ControlAnswer, BeginAnswer
<1>3. JobEffects(k)
  BY <1>1 DEF EffectInv
<1> QED
  BY <1>1, <1>2, <1>3 DEF JobEffects

LEMMA AcceptControlEffects ==
    ASSUME JobInv, LogInv, EffectInv, NEW c \in Controller, AcceptControl(c)
    PROVE  EffectInv'
<1>0. PICK k \in Key : k = KeyOf[c]
  BY ThreadFacts
<1>1. PICK o \in Operation : o = OperationOf[c]
  BY ThreadFacts, OperationFacts
<1>2. /\ UNCHANGED <<jobRegistryVars, process, running, gate, restarts, spawned, applied>>
      /\ pc[c] = "accept"
  BY DEF AcceptControl, Goto, Return, jobVars, historyVars
<1>3. /\ JobTypes /\ c \in Thread /\ RequestFor(c) \in Request /\ ContentOf[c] \in Content
      /\ c \notin Starter
  BY <1>0, <1>2, ControlFacts DEF Controls
<1>4. /\ \A j \in Key : EntryMoves(j) /\ ProcessKept(j)
  BY <1>2, <1>3, FenceMoves, SameProcess
<1>5. CASE ControlAnswer(c) = "Append"
  <2>1. PICK rec \in Record :
           rec = BeginRecord(c) /\ rec.record = "operation.accepted" /\ rec.op = o
    BY <1>1, <1>3, BeginRecordFacts DEF OwnRecord
  <2>2. rec.record # "job.terminal" /\ rec = ControlRecord(c)
    BY <2>1, BeginRecordIs
  <2>3. /\ want' = want
        /\ \/ /\ AppendSucceeds(k, rec) /\ pc' = [pc EXCEPT ![c] = "commit"] /\ result' = result
           \/ /\ AppendFails(k, rec) /\ pc' = [pc EXCEPT ![c] = "done"] /\ UNCHANGED <<ops, jobs>>
              /\ result' = [result EXCEPT ![c] = "Err"]
    BY <1>0, <1>5, <2>2 DEF AcceptControl, Goto, Return
  <2>4. PICK p \in {"commit", "done"} :
           pc' = [pc EXCEPT ![c] = p] /\ (p = "commit" => AppendSucceeds(k, rec))
    BY <2>3
  <2>5. /\ Alone({c}) /\ pc'[c] = p /\ result' = [u \in Thread |-> result'[u]]
        /\ \A r : result' = [result EXCEPT ![c] = r] => result'[c] = r
    BY <1>3, <2>3, <2>4, AloneFacts
  <2>6. (\A j \in Key : LogKept(j)) /\ StoreStep
    <3>1. store = "open" /\ jobs' = jobs /\ ops' = ops
      BY <1>5, <2>3 DEF ControlAnswer, BeginAnswer, AppendSucceeds
    <3> QED
      BY <1>2, <1>3, <2>2, <2>3, <3>1, AppendLog DEF StoreStep, AppendSucceeds, AppendFails
  <2>7. Tame({c})
    BY <1>2, <1>4, <2>5, <2>6 DEF Tame, historyVars
  <2>8. Configured => applied[k][o] = 0
    BY <1>0, <1>1, <1>2, <1>5, UnknownNeverActed
  <2>9. p = "commit" => Logged(disk'[k], "operation.accepted", o)
    <3>1. ASSUME p = "commit" PROVE Logged(disk'[k], "operation.accepted", o)
      <4>1. PICK log \in Seq(Record) : log = disk[k]
        BY <1>3 DEF JobTypes
      <4>2. PICK more : more = disk'[k] /\ more = Append(log, rec)
        BY <1>3, <2>4, <3>1, <4>1 DEF AppendSucceeds, JobTypes
      <4> QED
        BY <2>1, <4>2, OneMore DEF Logged
    <3> QED
      BY <3>1
  <2>10. result'[c] = result[c] \/ result'[c] # "Applied"
    BY <2>3, <2>5
  <2>11. pc'[c] \notin {"record", "finish", "finished", "effect"} /\ (pc'[c] = "commit" => p = "commit")
    BY <2>4, <2>5
  <2> QED
    BY <1>0, <1>1, <2>7, <2>8, <2>9, <2>10, <2>11, ControlMoves
<1>6. CASE ControlAnswer(c) = "Unjournaled"
  <2>1. /\ Remember(k, RequestFor(c), o, ContentOf[c], FALSE, FALSE) /\ UNCHANGED <<store, disk>>
        /\ pc' = [pc EXCEPT ![c] = IF Allow THEN FirstStep(c) ELSE "finish"]
        /\ want' = [want EXCEPT ![c] = IF Allow THEN @ ELSE "control_failed"] /\ result' = result
    BY <1>0, <1>1, <1>6 DEF AcceptControl, AcceptUnjournaled, Goto
  <2>2. (\A j \in Key : LogKept(j)) /\ ops'[k][o].known
    BY <1>3, <2>1, RememberLog
  <2>3. PICK p : p = IF Allow THEN FirstStep(c) ELSE "finish"
    OBVIOUS
  <2>4. PICK w : w = IF Allow THEN want[c] ELSE "control_failed"
    OBVIOUS
  <2>5. pc' = [pc EXCEPT ![c] = p] /\ want' = [want EXCEPT ![c] = w]
    BY <2>1, <2>3, <2>4
  <2>6. /\ Alone({c}) /\ pc'[c] = p /\ result' = [u \in Thread |-> result'[u]] /\ want'[c] = w
    <3>1. result' = result
      BY <2>1
    <3>2. want'[c] = w
      BY <1>3, <2>5 DEF JobTypes
    <3> QED
      BY <1>3, <2>5, <3>1, <3>2, AloneFacts
  <2>7. Tame({c})
    BY <1>2, <1>4, <2>1, <2>2, <2>6 DEF Tame, historyVars, StoreStep
  <2>8. Configured => applied[k][o] = 0
    BY <1>0, <1>1, <1>2, <1>6, UnknownNeverActed
  <2>9. result'[c] = result[c]
    BY <2>1
  <2>10. /\ p \in {"effect", "record", "finish"} /\ (~Allow => p = "finish" /\ w = "control_failed")
         /\ p = "record" => KindOf[c] = "kill"
         /\ p = "finish" => ~Allow
    BY <2>3, <2>4, ManagerAssumption DEF FirstStep
  <2>11. ASSUME Configured PROVE ~(pc'[c] \in {"record", "finish", "finished"} /\ Acted(c)')
    <3>1. result[c] # "Applied"
      BY <1>0, <1>1, <2>8, <2>11 DEF EffectInv, ControlEffects, Acted
    <3> QED
      BY <2>1, <2>6, <2>10, <3>1 DEF Acted
  <2>12. ~Allow => pc'[c] \notin {"commit", "effect", "record"}
    BY <2>6, <2>10
  <2> QED
    BY <1>0, <1>1, <2>2, <2>7, <2>8, <2>9, <2>11, <2>12, ControlMoves
<1>7. CASE ControlAnswer(c) \notin {"Append", "Unjournaled"}
  <2>1. /\ UNCHANGED <<store, ops, jobs, disk, want>> /\ pc' = [pc EXCEPT ![c] = "done"]
        /\ \E r \in {"Err", "Unknown", "Existing"} : result' = [result EXCEPT ![c] = r]
    BY <1>7 DEF AcceptControl, Return, Goto, jobJournalVars
  <2>2. /\ Alone({c}) /\ pc'[c] = "done" /\ result' = [u \in Thread |-> result'[u]]
        /\ \A r : result' = [result EXCEPT ![c] = r] => result'[c] = r
    BY <1>3, <2>1, AloneFacts
  <2>3. Tame({c})
    BY <1>2, <1>4, <2>1, <2>2, SameLog DEF Tame, historyVars, StoreStep
  <2>4. ~Poised(c)' /\ result'[c] # "Applied"
    BY <2>1, <2>2 DEF Poised
  <2> QED
    BY <1>0, <1>1, <2>2, <2>3, <2>4, ControlMoves
<1> QED
  BY <1>5, <1>6, <1>7

LEMMA CommitControlEffects ==
    ASSUME JobInv, LogInv, EffectInv, NEW c \in Controller, CommitControl(c)
    PROVE  EffectInv'
<1>0. PICK k \in Key : k = KeyOf[c]
  BY ThreadFacts
<1>1. PICK o \in Operation : o = OperationOf[c]
  BY ThreadFacts, OperationFacts
<1>2. /\ UNCHANGED <<jobRegistryVars, want, process, running, gate, restarts, spawned, applied>>
      /\ pc[c] = "commit"
  BY DEF CommitControl, Goto, Return, jobVars, historyVars
<1>3. /\ JobTypes /\ c \in Thread /\ RequestFor(c) \in Request /\ ContentOf[c] \in Content
  BY <1>0, <1>2, ControlFacts DEF Controls
<1>4. /\ Remember(k, RequestFor(c), o, ContentOf[c], FALSE, store # "open") /\ UNCHANGED <<store, disk>>
      /\ \/ pc' = [pc EXCEPT ![c] = FirstStep(c)] /\ result' = result
         \/ pc' = [pc EXCEPT ![c] = "done"] /\ result' = [result EXCEPT ![c] = "Unknown"]
  BY <1>0, <1>1 DEF CommitControl, CommitAccepted, Goto, Return
<1>5. (\A j \in Key : LogKept(j)) /\ ops'[k][o].known
  BY <1>3, <1>4, RememberLog
<1>6. PICK p \in {FirstStep(c), "done"} : pc' = [pc EXCEPT ![c] = p]
  BY <1>4
<1>7. /\ Alone({c}) /\ pc'[c] = p /\ result' = [u \in Thread |-> result'[u]]
      /\ \A r : result' = [result EXCEPT ![c] = r] => result'[c] = r
  BY <1>2, <1>3, <1>4, <1>6, AloneFacts
<1>8. Tame({c})
  BY <1>2, <1>3, <1>4, <1>5, <1>7, FenceMoves, SameProcess DEF Tame, historyVars, StoreStep
<1>9. result'[c] = result[c] \/ result'[c] # "Applied"
  BY <1>4, <1>7
<1>10. /\ p \in {"effect", "record", "done"} /\ (p = "record" => KindOf[c] = "kill")
  BY <1>6 DEF FirstStep
<1>11. ASSUME Configured
       PROVE  /\ applied[k][o] = 0 /\ ~(pc'[c] = "record" /\ Acted(c)')
              /\ ~Allow => Logged(disk'[k], "operation.accepted", o)
  <2>1. ControlEffects(c) /\ Poised(c)
    BY <1>2, <1>11 DEF EffectInv, Poised
  <2>2. applied[k][o] = 0 /\ (~Allow => Logged(disk[k], "operation.accepted", o)) /\ result[c] # "Applied"
    BY <1>0, <1>1, <1>2, <2>1 DEF ControlEffects, Acted
  <2>3. ~(pc'[c] = "record" /\ Acted(c)')
    BY <1>4, <1>7, <1>10, <2>2 DEF Acted
  <2> QED
    BY <1>4, <2>2, <2>3
<1>12. pc'[c] \notin {"finish", "finished"}
  BY <1>7, <1>10
<1> QED
  BY <1>0, <1>1, <1>5, <1>8, <1>9, <1>11, <1>12, ControlMoves

LEMMA RecordControlEffects ==
    ASSUME JobInv, EffectInv, NEW c \in Controller, RecordControl(c)
    PROVE  EffectInv'
<1>0. PICK k \in Key : k = KeyOf[c]
  BY ThreadFacts
<1>1. PICK o \in Operation : o = OperationOf[c]
  BY ThreadFacts, OperationFacts
<1>2. /\ UNCHANGED <<store, ops, jobs, disk, result, process, running, gate, restarts, spawned, applied>>
      /\ pc[c] = "record"
  BY DEF RecordControl, Goto, jobJournalVars, jobVars, historyVars
<1>3. JobTypes /\ c \in Thread /\ KindOf[c] \in {"write", "resize", "close_stdin", "kill"}
  BY ThreadFacts, ManagerAssumption DEF JobInv
<1>4. \A j \in Key : EntryMoves(j)
  <2>1. \/ UNCHANGED jobRegistryVars
        \/ RecordInput(k) \/ RecordLive(k) \/ CloseStdin(k) \/ RequestKill(k)
    BY <1>0, <1>3 DEF RecordControl
  <2>2. EntryKept(k)
    BY <1>3, <2>1, SameEntry, LiveKeeps
  <2> QED
    BY <2>2, KeptMoves
<1>5. PICK p \in {"effect", "finish"}, w \in {"applied", "control_failed"} :
         /\ pc' = [pc EXCEPT ![c] = p] /\ want' = [want EXCEPT ![c] = w]
         /\ p = "effect" => KindOf[c] = "kill"
         /\ p = "finish" /\ KindOf[c] = "kill" => w = "control_failed"
  BY DEF RecordControl, Goto
<1>6. /\ Alone({c}) /\ pc'[c] = p /\ result' = [u \in Thread |-> result'[u]] /\ want'[c] = w
  <2>1. want'[c] = w
    BY <1>3, <1>5 DEF JobTypes
  <2> QED
    BY <1>2, <1>3, <1>5, <2>1, AloneFacts
<1>7. Tame({c})
  BY <1>2, <1>3, <1>4, <1>6, SameLog, SameProcess DEF Tame, historyVars, StoreStep
<1>8. ASSUME Configured
      PROVE  /\ Poised(c)' => applied[k][o] = 0
             /\ pc'[c] \in {"record", "finish", "finished"} /\ Acted(c)' => applied[k][o] = 1
             /\ ops'[k][o].known
             /\ ~Allow => Logged(disk'[k], "operation.accepted", o)
  <2>1. ControlEffects(c)
    BY <1>8 DEF EffectInv
  <2>2. /\ KindOf[c] = "kill" => applied[k][o] = 0
        /\ KindOf[c] # "kill" => applied[k][o] = 1
        /\ result[c] = "Applied" => applied[k][o] = 1
        /\ ops[k][o].known /\ (~Allow => Logged(disk[k], "operation.accepted", o))
    BY <1>0, <1>1, <1>2, <2>1 DEF ControlEffects, Poised, Acted
  <2>3. Poised(c)' => KindOf[c] = "kill"
    BY <1>5, <1>6 DEF Poised
  <2>4. pc'[c] \in {"record", "finish", "finished"} /\ Acted(c)' => KindOf[c] # "kill" \/ result[c] = "Applied"
    BY <1>2, <1>5, <1>6 DEF Acted
  <2> QED
    BY <1>2, <2>2, <2>3, <2>4
<1> QED
  BY <1>0, <1>1, <1>2, <1>7, <1>8, ControlMoves

\* A control reaches the process.
LEMMA EffectEffects ==
    ASSUME JobInv, EffectInv, NEW c \in Controller, Effect(c)
    PROVE  EffectInv'
<1>0. PICK k \in Key : k = KeyOf[c]
  BY ThreadFacts
<1>1. PICK o \in Operation : o = OperationOf[c]
  BY ThreadFacts, OperationFacts
<1>2. /\ UNCHANGED <<jobRegistryVars, entry, store, ops, jobs, disk, result, running, gate, restarts, spawned>>
      /\ pc[c] = "effect"
  BY DEF Effect, Goto, jobRegistryVars, jobJournalVars
<1>3. /\ JobTypes /\ c \in Thread /\ entry[k].dispatch = "running" /\ OneLifecycle(k) /\ c \in ControllerOf(k)
  BY <1>0, <1>2, ThreadFacts DEF JobInv, ControlOK, Controls, ControllerOf
<1>4. PICK p \in {"finish", "record"} :
         /\ pc' = [pc EXCEPT ![c] = p] /\ (want' = want \/ \E w : want' = [want EXCEPT ![c] = w])
         /\ p = "record" => KindOf[c] # "kill"
  BY DEF Effect, Goto
<1>5. /\ Alone({c}) /\ pc'[c] = p /\ result' = [u \in Thread |-> result'[u]]
  BY <1>2, <1>3, <1>4, AloneFacts
<1>6. \A j \in Key : EntryMoves(j) /\ LogKept(j) /\ ProcessKept(j)
  <2>1. Kill(k) \/ UNCHANGED process
    BY <1>0 DEF Effect
  <2> QED
    BY <1>2, <1>3, <2>1, FenceMoves, SameLog, KillMoves
<1>7. /\ \A j \in Key \ {k} : applied'[j] = applied[j]
      /\ applied'[k][o] = applied[k][o] + 1 /\ \A q \in Operation \ {o} : applied'[k][q] = applied[k][q]
  <2>1. applied \in [Key -> [Operation -> Nat]] /\ applied' = [applied EXCEPT ![k][o] = @ + 1]
    BY <1>0, <1>1, <1>3 DEF JobTypes, Effect
  <2> QED
    BY <2>1
<1>8. Configured' <=> Configured
  BY <1>2 DEF Configured
<1>9. ASSUME Configured PROVE EffectInv'
  <2>1. ControlEffects(c) /\ Poised(c)
    BY <1>2, <1>9 DEF EffectInv, Poised
  <2>2. applied[k][o] = 0 /\ ops[k][o].known /\ (~Allow => Logged(disk[k], "operation.accepted", o))
    BY <1>0, <1>1, <1>2, <2>1 DEF ControlEffects
  <2>3. ASSUME NEW j \in Key PROVE JobEffects(j)'
    <3>1. CASE j # k
      BY <1>2, <1>3, <1>6, <1>7, <1>9, <3>1, JobEffectsStay DEF EffectInv
    <3>2. CASE j = k
      <4>1. JobEffects(k) /\ ProcessKept(k)
        BY <1>6, <1>9 DEF EffectInv
      <4>2. Ended(k)' <=> Ended(k)
        BY <1>2 DEF Ended
      <4>3. spawned[k] # 0
        BY <1>3, <4>1 DEF JobEffects
      <4>4. ASSUME NEW q \in Operation
            PROVE  /\ applied'[k][q] <= 1
                   /\ applied'[k][q] # 0 => ops[k][q].known
        <5>1. CASE q = o
          BY <1>7, <2>2, <5>1
        <5>2. CASE q # o
          BY <1>3, <1>7, <4>1, <5>2 DEF JobEffects
        <5> QED
          BY <5>1, <5>2
      <4> QED
        BY <1>2, <1>3, <3>2, <4>1, <4>2, <4>3, <4>4 DEF JobEffects, ProcessKept
    <3> QED
      BY <3>1, <3>2
  <2>4. ASSUME NEW s \in Starter PROVE StartEffects(s)'
    <3>1. PICK j \in Key : j = KeyOf[s]
      BY ThreadFacts
    <3>2. StartEffects(s) /\ LogKept(j) /\ ProcessKept(j) /\ s \in Thread \ {c}
      BY <1>6, <1>9, ThreadFacts DEF EffectInv
    <3>3. pc'[s] = pc[s] /\ want'[s] = want[s] /\ result'[s] = result[s] /\ spawned'[j] = spawned[j]
      BY <1>2, <1>5, <3>2 DEF Alone
    <3> QED
      BY <3>1, <3>2, <3>3, StartEffectsStay
  <2>5. ASSUME NEW d \in Controller PROVE ControlEffects(d)'
    <3>0. PICK j \in Key : j = KeyOf[d]
      BY ThreadFacts
    <3>1. PICK q \in Operation : q = OperationOf[d]
      BY ThreadFacts, OperationFacts
    <3>2. ControlEffects(d) /\ LogKept(j) /\ d \in Thread
      BY <1>6, <1>9, ThreadFacts DEF EffectInv
    <3>3. CASE d = c
      <4>1. ~Poised(c)' /\ applied'[k][o] = 1
        BY <1>4, <1>5, <1>7, <2>2 DEF Poised
      <4>2. result[c] # "Applied"
        BY <1>0, <1>1, <2>1, <2>2 DEF ControlEffects, Acted
      <4> QED
        BY <1>0, <1>1, <1>2, <1>5, <2>2, <3>3, <4>1, <4>2 DEF ControlEffects
    <3>4. CASE d # c
      <4>1. pc'[d] = pc[d] /\ want'[d] = want[d] /\ result'[d] = result[d]
        BY <1>5, <3>2, <3>4 DEF Alone
      <4>2. CASE j # k \/ q # o
        <5>1. applied'[j][q] = applied[j][q]
          BY <1>7, <4>2
        <5> QED
          BY <3>0, <3>1, <3>2, <4>1, <5>1, ControlEffectsStay
      <4>3. CASE j = k /\ q = o
        <5>1. pc[d] \notin Controls
          BY <1>2, <1>3, <3>0, <3>4, <4>3 DEF OneLifecycle, ControllerOf, Controls
        <5>2. ~Poised(d) /\ ~Acted(d)
          BY <2>2, <3>0, <3>1, <3>2, <4>3, <5>1 DEF ControlEffects, Poised, Controls
        <5>3. ~Poised(d)' /\ ~Acted(d)' /\ result'[d] # "Applied"
          BY <4>1, <5>2 DEF Poised, Acted
        <5> QED
          BY <4>1, <5>1, <5>3 DEF ControlEffects, Controls
      <4> QED
        BY <4>2, <4>3
    <3> QED
      BY <3>3, <3>4
  <2> QED
    BY <1>5, <2>3, <2>4, <2>5 DEF EffectInv
<1>10. CASE ~Configured
  BY <1>5, <1>8, <1>10 DEF EffectInv
<1> QED
  BY <1>9, <1>10

(***************************************************************************)
(* The dispatcher and the environment                                      *)
(***************************************************************************)
LEMMA NobodyMoves ==
    ASSUME EffectInv, UNCHANGED callVars
    PROVE  Alone({}) /\ result' = [u \in Thread |-> result'[u]] /\ UNCHANGED <<pc, want, result>>
<1>1. UNCHANGED <<pc, want, result>>
  BY DEF callVars
<1>2. result = [u \in Thread |-> result[u]]
  BY DEF EffectInv
<1> QED
  BY <1>1, <1>2 DEF Alone

LEMMA EventEffects ==
    ASSUME JobInv, EffectInv, NEW k \in Key,
           \/ Output(k) \/ ProcessFault(k) \/ ProcessExits(k) \/ ObserveExit(k) \/ LockTerminal(k)
           \/ RemoveJob(k) \/ DropJob(k) \/ ChannelCloses(k)
           \/ \E a \in Attachment : AttachJob(k, a)
    PROVE  EffectInv'
<1>1. JobTypes
  BY DEF JobInv
<1>2. /\ UNCHANGED <<ops, jobs, disk, restarts, spawned, applied>> /\ UNCHANGED callVars
      /\ ObservationKept \/ ObservationLost \/ UNCHANGED <<store, latched>>
  BY DEF Output, ProcessFault, ProcessExits, ObserveExit, LockTerminal, RemoveJob, DropJob, ChannelCloses,
     AttachJob, jobJournalVars, historyVars
<1>3. StoreStep
  BY <1>2 DEF ObservationKept, ObservationLost, Configured, StoreStep
<1>4. EntryKept(k) \/ EntryFenced(k)
  <2>1. CASE Output(k)
    BY <1>1, <2>1, LiveKeeps, MarkFences DEF Output
  <2>2. CASE UNCHANGED jobRegistryVars
    BY <1>1, <2>2, SameEntry
  <2>3. CASE \E a \in Attachment : AttachJob(k, a)
    BY <1>1, <2>3, LiveKeeps DEF AttachJob
  <2>4. CASE ChannelCloses(k)
    BY <1>1, <2>4, MarkFences DEF ChannelCloses
  <2> QED
    BY <2>1, <2>2, <2>3, <2>4 DEF ProcessFault, ProcessExits, ObserveExit, LockTerminal, RemoveJob, DropJob
<1>5. \A j \in Key : ProcessKept(j)
  <2>1. CASE ProcessExits(k)
    <3>1. /\ process[k] \in {"live", "dying"} /\ process' = [process EXCEPT ![k] = "exited"]
          /\ UNCHANGED <<running, gate>>
      BY <2>1 DEF ProcessExits
    <3>2. process'[k] = "exited" /\ process[k] # "none" /\ \A j \in Key \ {k} : process'[j] = process[j]
      BY <1>1, <3>1 DEF JobTypes
    <3> QED
      BY <3>1, <3>2 DEF ProcessKept
  <2>2. CASE ~ProcessExits(k)
    <3>1. (Kill(k) \/ UNCHANGED process) /\ running' \subseteq running
      BY <2>2 DEF Output, ProcessFault, ObserveExit, LockTerminal, RemoveJob, DropJob, ChannelCloses,
         AttachJob, jobVars
    <3>2. \/ gate' = gate
          \/ \E x \in {"ready", "failed", "terminal"} :
                gate' = [gate EXCEPT ![k] = IF @ = "pending" THEN x ELSE @]
      BY <2>2 DEF Output, ProcessFault, ObserveExit, LockTerminal, RemoveJob, DropJob, ChannelCloses,
         AttachJob, jobVars, FailGate
    <3> QED
      BY <1>1, <3>1, <3>2, KillMoves
  <2> QED
    BY <2>1, <2>2
<1>6. Tame({})
  BY <1>2, <1>3, <1>4, <1>5, NobodyMoves, KeptMoves, SameLog DEF Tame, historyVars
<1> QED
  BY <1>6, TameKeeps

\* The terminal of a job: its process has exited.
LEMMA TerminalEffects ==
    ASSUME JobInv, EffectInv, NEW k \in Key,
           CompleteJob(k) \/ AppendTerminal(k) \/ CommitJobTerminal(k)
    PROVE  EffectInv'
<1>1. JobTypes /\ Reached(k) /\ JobOwns(k)
  BY DEF JobInv, JobOK
<1>2. /\ UNCHANGED <<ops, process, running, gate, restarts, spawned, applied>> /\ UNCHANGED callVars
  BY DEF CompleteJob, AppendTerminal, CommitJobTerminal, AppendSucceeds, AppendFails, jobJournalVars, historyVars
<1>3. dispatcher[k] \in Ending
  BY DEF CompleteJob, AppendTerminal, CommitJobTerminal, DispatcherAt, Ending
<1>4. process[k] = "exited"
  BY <1>1, <1>3 DEF Reached
<1>5. StoreStep
  BY <1>2 DEF CompleteJob, AppendTerminal, CommitJobTerminal, AppendSucceeds, AppendFails, jobJournalVars,
     ObservationLost, Configured, StoreStep
<1>6. \A j \in Key : EntryMoves(j)
  <2>1. CASE CompleteJob(k)
    <3>1. EntryGoes(k, "terminal") /\ entry[k].dispatch = "running"
      BY <1>1, <2>1, CompleteFacts DEF CompleteJob, Complete, Completable
    <3> QED
      BY <1>4, <3>1, EntryMovesAll DEF EntryGoes, EntryMoves
  <2>2. CASE UNCHANGED jobRegistryVars
    BY <1>1, <2>2, FenceMoves
  <2> QED
    BY <2>1, <2>2 DEF AppendTerminal, CommitJobTerminal
<1>7. \A j \in Key : LogKept(j)
  <2>1. CASE UNCHANGED <<jobs, disk>>
    BY <1>2, <2>1, SameLog
  <2>2. CASE disk' = disk /\ jobs' = [jobs EXCEPT ![k].terminal = TRUE]
    <3>1. \A j \in Key \ {k} : jobs'[j] = jobs[j]
      BY <1>1, <2>2 DEF JobTypes
    <3> QED
      BY <1>2, <1>4, <2>2, <3>1, MemoryLog
  <2>3. CASE /\ store = "open" /\ jobs' = jobs
             /\ \/ AppendSucceeds(k, JobTerminalRecord(entry[k].request))
                \/ AppendFails(k, JobTerminalRecord(entry[k].request))
             /\ AppendTerminal(k)
    <3>1. entry[k].dispatch = "terminal"
      BY <1>1, <2>3 DEF AppendTerminal, DispatcherAt, JobOwns
    <3>2. entry[k].request \in Request
      BY <1>1, <3>1, EntryFacts DEF JobOwns, Entry
    <3>3. PICK rec \in Record : rec = JobTerminalRecord(entry[k].request)
      BY <3>2 DEF JobTerminalRecord, Record
    <3> QED
      BY <1>1, <1>2, <1>4, <2>3, <3>3, AppendLog
  <2> QED
    BY <2>1, <2>2, <2>3 DEF CompleteJob, AppendTerminal, CommitJobTerminal, AppendSucceeds, jobJournalVars
<1>8. Tame({})
  BY <1>1, <1>2, <1>5, <1>6, <1>7, NobodyMoves, SameProcess DEF Tame, historyVars
<1> QED
  BY <1>8, TameKeeps

LEMMA SiblingEffects ==
    ASSUME JobInv, EffectInv, SiblingFails \/ UNCHANGED vars
    PROVE  EffectInv'
<1>1. /\ UNCHANGED <<entry, ops, jobs, disk, process, running, gate, restarts, spawned, applied>>
      /\ UNCHANGED callVars /\ UNCHANGED jobRegistryVars
      /\ store' = store \/ (store = "open" /\ store' = "lost")
  BY DEF SiblingFails, vars, jobRegistryVars, jobJournalVars, jobVars, historyVars
<1>2. StoreStep /\ \A j \in Key : EntryMoves(j)
  BY <1>1 DEF StoreStep, EntryMoves
<1>3. Tame({})
  BY <1>1, <1>2, NobodyMoves, SameProcess, SameLog DEF Tame, historyVars, JobInv
<1> QED
  BY <1>3, TameKeeps

LEMMA RestartEffects ==
    ASSUME JobInv, LogInv, EffectInv, NEW opened \in BOOLEAN, Restart(opened)
    PROVE  EffectInv'
<1>1. /\ JobTypes /\ disk' = disk /\ (Configured' <=> Configured)
      /\ result' = [t \in Thread |-> None] /\ pc' = [t \in Thread |-> "idle"]
      /\ running' = {} /\ UNCHANGED <<spawned, applied>>
      /\ \A k \in Key : /\ entry'[k] = Absent
                        /\ process'[k] = IF process[k] = "none" THEN "none" ELSE "exited"
  BY DEF JobInv, Restart, Reopen, Configured, historyVars
<1>2. ASSUME NEW k \in Key PROVE jobs'[k].terminal => Logged(disk[k], "job.terminal", None)
  <2>1. jobs'[k] = NoJob \/ jobs'[k] = RecoveredJob(disk[k])
    BY DEF Restart, Reopen
  <2>2. ~NoJob.terminal
    BY DEF NoJob
  <2>3. WellFormed(disk[k]) /\ disk[k] \in Seq(Record)
    BY <1>1 DEF LogInv, LogOK, JobTypes
  <2>4. JobIs(disk[k], RecoveredJob(disk[k]))
    BY <2>3, JobRecovered
  <2> QED
    BY <2>1, <2>2, <2>4 DEF JobIs
<1>3. ASSUME Configured, NEW k \in Key PROVE JobEffects(k)'
  <2>1. JobEffects(k) /\ process[k] \in {"none", "live", "dying", "exited"}
    BY <1>1, <1>3 DEF EffectInv, JobTypes
  <2>2. Ended(k)' => process[k] = "exited"
    BY <1>1, <1>2, <2>1 DEF Ended, JobEffects
  <2>3. entry'[k].dispatch = "absent"
    BY <1>1, AbsentFacts
  <2> QED
    BY <1>1, <2>1, <2>2, <2>3 DEF JobEffects
<1>4. \A s \in Starter : StartEffects(s)'
  BY <1>1, ThreadFacts, ManagerAssumption DEF StartEffects
<1>5. ASSUME NEW c \in Controller PROVE ControlEffects(c)'
  <2>1. pc'[c] = "idle" /\ result'[c] = None
    BY <1>1, ThreadFacts
  <2>2. result'[c] # "Applied"
    BY <2>1, ManagerAssumption
  <2> QED
    BY <2>1, <2>2 DEF ControlEffects, Poised, Acted
<1> QED
  BY <1>1, <1>3, <1>4, <1>5 DEF EffectInv

LEMMA InitEffects == ManagerInit => EffectInv
<1> SUFFICES ASSUME ManagerInit PROVE EffectInv
  OBVIOUS
<1>1. /\ result = [t \in Thread |-> None] /\ pc = [t \in Thread |-> "idle"] /\ running = {}
      /\ \A k \in Key : /\ entry[k] = Absent /\ process[k] = "none" /\ disk[k] = <<>>
                        /\ jobs[k] = NoJob /\ \A o \in Operation : applied[k][o] = 0
  BY DEF ManagerInit, JobRegistryInit, JobJournalInit
<1>2. ASSUME NEW k \in Key PROVE JobEffects(k)
  <2>1. ~Ended(k)
    BY <1>1 DEF Ended, Logged, NoJob
  <2> QED
    BY <1>1, <2>1, AbsentFacts DEF JobEffects
<1>3. \A s \in Starter : StartEffects(s)
  BY <1>1, ThreadFacts, ManagerAssumption DEF StartEffects
<1>4. ASSUME NEW c \in Controller PROVE ControlEffects(c)
  <2>1. pc[c] = "idle" /\ result[c] = None
    BY <1>1, ThreadFacts
  <2>2. result[c] # "Applied"
    BY <2>1, ManagerAssumption
  <2> QED
    BY <2>1, <2>2 DEF ControlEffects, Poised, Acted
<1> QED
  BY <1>1, <1>2, <1>3, <1>4 DEF EffectInv

LEMMA StepEffects == JobInv /\ LogInv /\ EffectInv /\ [ManagerNext]_vars => EffectInv'
<1> SUFFICES ASSUME JobInv, LogInv, EffectInv, [ManagerNext]_vars PROVE EffectInv'
  OBVIOUS
<1>1. ASSUME NEW s \in Starter, StarterStep(s) PROVE EffectInv'
  <2>0. s \in Thread /\ (CommitFinish(s) => pc[s] = "finished")
    BY DEF Thread, CommitFinish, Resolved, Unresolved, Goto, Return
  <2>1. CASE \/ EnterStart(s) \/ CheckLive(s) \/ JoinLive(s) \/ CheckRecovered(s) \/ Preflight(s)
             \/ Admit(s) \/ BeginEntry(s) \/ FenceUnavailable(s) \/ FenceStart(s) \/ RollbackStart(s)
             \/ OpenGate(s)
    BY <2>1, EarlyEffects
  <2>2. CASE AcceptStart(s) \/ CommitStart(s) \/ Spawn(s)
    BY <2>2, AcceptStartEffects, SpawnEffects
  <2>3. CASE Claim(s) \/ Publish(s) \/ ObserveStart(s) \/ StartDispatcher(s) \/ Abort(s)
    BY <2>3, ClaimEffects
  <2>4. CASE Finish(s) \/ CommitFinish(s)
    BY <2>0, <2>4, FinishEffects, CommitFinishEffects
  <2> QED
    BY <1>1, <2>1, <2>2, <2>3, <2>4 DEF StarterStep
<1>2. ASSUME NEW c \in Controller, ControllerStep(c) PROVE EffectInv'
  <2>0. c \in Thread /\ (CommitFinish(c) => pc[c] = "finished")
    BY DEF Thread, CommitFinish, Resolved, Unresolved, Goto, Return
  <2>1. CASE Lookup(c) \/ WaitGate(c) \/ LockLifecycle(c) \/ CheckRunning(c)
    BY <2>1, LookEffects
  <2>2. CASE AcceptControl(c) \/ CommitControl(c) \/ Effect(c) \/ RecordControl(c)
    BY <2>2, AcceptControlEffects, CommitControlEffects, EffectEffects, RecordControlEffects
  <2>3. CASE Finish(c) \/ CommitFinish(c)
    BY <2>0, <2>3, FinishEffects, CommitFinishEffects
  <2> QED
    BY <1>2, <2>1, <2>2, <2>3 DEF ControllerStep
<1>3. ASSUME NEW k \in Key, DispatcherStep(k) \/ DispatcherEvent(k) PROVE EffectInv'
  <2>1. CASE AppendTerminal(k) \/ CommitJobTerminal(k) \/ CompleteJob(k)
    BY <2>1, TerminalEffects
  <2>2. CASE \/ Output(k) \/ ProcessFault(k) \/ ObserveExit(k) \/ LockTerminal(k)
             \/ RemoveJob(k) \/ DropJob(k) \/ ChannelCloses(k)
    BY <2>2, EventEffects
  <2> QED
    BY <1>3, <2>1, <2>2 DEF DispatcherStep, DispatcherEvent
<1>4. CASE Environment
  BY <1>4, EventEffects, SiblingEffects, RestartEffects DEF Environment
<1>5. CASE UNCHANGED vars
  BY <1>5, SiblingEffects
<1> QED
  BY <1>1, <1>2, <1>3, <1>4, <1>5 DEF ManagerNext

\* With a journal configured, what the threads have done to the processes is what
\* they will tell: EffectInv is an invariant.
THEOREM EffectInvariance == ManagerSpec => []EffectInv
  BY InitEffects, StepEffects, JobInvariance, LogInvariance, PTL DEF ManagerSpec

\* With a journal configured, a caller is told Started, Applied or
\* ExistingTerminal only of what a restart would find: the outcome is in the log,
\* the control reached the process exactly once, the process has exited.
THEOREM AnswersDurable == ManagerSpec => [](Configured => AnswersAreDurable)
<1>1. EffectInv => (Configured => AnswersAreDurable)
  BY DEF EffectInv, AnswersAreDurable, StartEffects, ControlEffects, Acted
<1> QED
  BY <1>1, EffectInvariance, PTL

(***************************************************************************)
(* JobManager implements JobEffect                                         *)
(***************************************************************************)

\* The disk changes by appends, each of a record that says what is so.
Noted(k, rec) ==
    /\ ~Logged(disk[k], rec.record, rec.op)
    /\ rec.record # "job.terminal" => rec.op \in Operation
    /\ rec.result # None => rec.record = "operation.terminal"
    /\ rec.record = "job.terminal" => rec.op = None /\ process[k] = "exited"
    /\ rec.start /\ rec.result = "spawn_failed" => spawned[k] = 0

Writes(k, rec) ==
    /\ disk'[k] = Append(disk[k], rec) /\ \A j \in Key \ {k} : disk'[j] = disk[j]
    /\ UNCHANGED <<process, spawned, applied>>
    /\ Noted(k, rec)

LEMMA AppendWrites ==
    ASSUME JobTypes, NEW k \in Key, NEW rec \in Record, AppendSucceeds(k, rec) \/ AppendFails(k, rec),
           UNCHANGED <<process, spawned, applied>>, Noted(k, rec)
    PROVE  disk' = disk \/ Writes(k, rec)
<1>1. disk \in [Key -> Seq(Record)]
  BY DEF JobTypes
<1>2. disk' = disk \/ disk' = [disk EXCEPT ![k] = Append(@, rec)]
  BY DEF AppendSucceeds, AppendFails
<1>3. CASE disk' = [disk EXCEPT ![k] = Append(@, rec)]
  <2>1. disk'[k] = Append(disk[k], rec) /\ \A j \in Key \ {k} : disk'[j] = disk[j]
    BY <1>1, <1>3
  <2> QED
    BY <2>1 DEF Writes
<1> QED
  BY <1>2, <1>3

\* The two acceptances append the same record.
LEMMA BeginWrites ==
    ASSUME JobInv, LogInv, NEW k \in Key, JournalShardFree(k),
           NEW r \in Request, NEW o \in Operation, NEW c \in Content, NEW start \in BOOLEAN,
           BeginAnswer(k, r, o, c, start) = "Append", UNCHANGED <<process, spawned, applied>>,
           \/ AppendSucceeds(k, AcceptedRecord(r, o, c, start))
           \/ AppendFails(k, AcceptedRecord(r, o, c, start))
    PROVE  disk' = disk \/ \E rec \in Record : Writes(k, rec)
<1>1. PICK rec \in Record : rec = AcceptedRecord(r, o, c, start)
  BY RecordFacts
<1>2. Extends(disk[k], rec) /\ JobTypes
  BY <1>1, BeginExtends DEF JobInv
<1>3. rec.record = "operation.accepted" /\ rec.result = None /\ rec.op = o
  BY <1>1 DEF AcceptedRecord
<1>4. None \notin Outcome
  BY JournalAssumption
<1>5. "spawn_failed" \in Outcome
  BY DEF Outcome
<1>6. Noted(k, rec)
  BY <1>2, <1>3, <1>4, <1>5 DEF Noted, Extends
<1> QED
  BY <1>1, <1>2, <1>6, AppendWrites

LEMMA AcceptWrites ==
    ASSUME JobInv, LogInv, NEW s \in Starter, AcceptStart(s)
    PROVE  disk' = disk \/ \E k \in Key, rec \in Record : Writes(k, rec)
<1>0. PICK k \in Key : k = KeyOf[s]
  BY ThreadFacts
<1>1. RequestOf[s] \in Request /\ OperationOf[s] \in Operation /\ ContentOf[s] \in Content
  BY ThreadFacts, ManagerAssumption
<1>2. UNCHANGED <<process, spawned, applied>> /\ JournalShardFree(k)
  BY <1>0 DEF AcceptStart, jobVars, historyVars
<1>3. CASE /\ StartAnswer(s) = "Append"
           /\ AppendSucceeds(k, StartRecord(s)) \/ AppendFails(k, StartRecord(s))
  BY <1>0, <1>1, <1>2, <1>3, BeginWrites DEF StartAnswer, StartRecord
<1>4. CASE AcceptUnjournaled(k, RequestOf[s], OperationOf[s], ContentOf[s], TRUE)
  BY <1>4 DEF AcceptUnjournaled
<1> QED
  BY <1>0, <1>3, <1>4 DEF AcceptStart

LEMMA AcceptControlWrites ==
    ASSUME JobInv, LogInv, NEW c \in Controller, AcceptControl(c)
    PROVE  disk' = disk \/ \E k \in Key, rec \in Record : Writes(k, rec)
<1>0. PICK k \in Key : k = KeyOf[c]
  BY ThreadFacts
<1>1. pc[c] = "accept" /\ UNCHANGED <<process, spawned, applied>> /\ JournalShardFree(k)
  BY <1>0 DEF AcceptControl, Goto, Return, jobVars, historyVars
<1>2. RequestFor(c) \in Request /\ OperationOf[c] \in Operation /\ ContentOf[c] \in Content
  <2>1. pc[c] \in Controls \ {"check"}
    BY <1>1 DEF Controls
  <2> QED
    BY <1>0, <2>1, ControlFacts
<1>3. CASE /\ ControlAnswer(c) = "Append"
           /\ AppendSucceeds(k, ControlRecord(c)) \/ AppendFails(k, ControlRecord(c))
  BY <1>0, <1>1, <1>2, <1>3, BeginWrites DEF ControlAnswer, ControlRecord
<1>4. CASE AcceptUnjournaled(k, RequestFor(c), OperationOf[c], ContentOf[c], FALSE)
  BY <1>4 DEF AcceptUnjournaled
<1>5. CASE UNCHANGED jobJournalVars
  BY <1>5 DEF jobJournalVars
<1> QED
  BY <1>0, <1>3, <1>4, <1>5 DEF AcceptControl

LEMMA FinishWrites ==
    ASSUME JobInv, LogInv, EffectInv, Configured, NEW t \in Thread, Finish(t)
    PROVE  disk' = disk \/ \E k \in Key, rec \in Record : Writes(k, rec)
<1>0. PICK k \in Key : k = KeyOf[t]
  BY ManagerAssumption
<1>1. pc[t] = "finish" /\ UNCHANGED <<process, spawned, applied>> /\ JournalShardFree(k)
  BY <1>0 DEF Finish, Goto, Resolved, Unresolved, Return, jobVars, historyVars
<1>2. RequestFor(t) \in Request /\ want[t] \in Outcome /\ OperationOf[t] \in Operation /\ JobTypes
  BY <1>0, <1>1, FinishingFacts
<1>3. PICK rec \in Record : rec = FinishRecord(t)
  BY <1>2, FinishRecordFacts
<1>4. rec.record = "operation.terminal" /\ rec.op = OperationOf[t] /\ rec.start = (t \in Starter) /\ rec.result = want[t]
  BY <1>2, <1>3, FinishRecordFacts
<1>5. CASE FinishAnswer(t) = "Append" /\ (AppendSucceeds(k, rec) \/ AppendFails(k, rec))
  <2>1. Extends(disk[k], rec)
    BY <1>0, <1>1, <1>3, <1>5, CompleteExtends
  <2>2. rec.start /\ rec.result = "spawn_failed" => spawned[k] = 0
    <3>1. CASE t \in Starter
      <4>1. StartEffects(t)
        BY <3>1 DEF EffectInv
      <4> QED
        BY <1>0, <1>1, <1>4, <4>1 DEF StartEffects
    <3> QED
      BY <1>4, <3>1
  <2>3. Noted(k, rec)
    BY <1>4, <2>1, <2>2 DEF Noted, Extends
  <2> QED
    BY <1>1, <1>2, <1>5, <2>3, AppendWrites
<1>6. CASE UNCHANGED disk
  BY <1>6
<1> QED
  BY <1>0, <1>3, <1>5, <1>6 DEF Finish, CommitTerminal, jobJournalVars

LEMMA TerminalWrites ==
    ASSUME JobInv, LogInv, NEW k \in Key, AppendTerminal(k)
    PROVE  disk' = disk \/ \E j \in Key, rec \in Record : Writes(j, rec)
<1>1. JobTypes /\ Reached(k) /\ JobOwns(k) /\ dispatcher[k] = "append"
  BY DEF JobInv, JobOK, AppendTerminal, DispatcherAt
<1>2. UNCHANGED <<process, spawned, applied>>
  BY DEF AppendTerminal, historyVars
<1>3. process[k] = "exited"
  BY <1>1 DEF Reached, Ending
<1>4. CASE /\ store = "open"
           /\ \/ AppendSucceeds(k, JobTerminalRecord(entry[k].request))
              \/ AppendFails(k, JobTerminalRecord(entry[k].request))
  <2>1. entry[k].dispatch = "terminal"
    BY <1>1 DEF JobOwns
  <2>2. entry[k].request \in Request
    BY <1>1, <2>1, EntryFacts DEF JobOwns, Entry
  <2>3. PICK rec \in Record : rec = JobTerminalRecord(entry[k].request)
    BY <2>2 DEF JobTerminalRecord, Record
  <2>4. Extends(disk[k], rec)
    BY <1>1, <1>4, <2>3, TerminalExtends
  <2>5. rec.record = "job.terminal" /\ rec.op = None /\ rec.result = None /\ rec.start = FALSE
    BY <2>3 DEF JobTerminalRecord
  <2>6. Noted(k, rec)
    BY <1>3, <2>4, <2>5 DEF Noted, Extends
  <2> QED
    BY <1>1, <1>2, <1>4, <2>3, <2>6, AppendWrites
<1>5. CASE UNCHANGED disk
  BY <1>5
<1> QED
  BY <1>4, <1>5 DEF AppendTerminal, jobJournalVars

\* Only an end has a result.
ResultsAreEnds ==
    \A k \in Key : \A i \in DOMAIN disk[k] :
        disk[k][i].result # None => disk[k][i].record = "operation.terminal"

\* A process is started for an accepted start that has not failed.
Starts(k) ==
    /\ spawned' = [spawned EXCEPT ![k] = @ + 1] /\ spawned[k] = 0
    /\ UNCHANGED <<disk, applied>>
    /\ \A j \in Key : process'[j] = "exited" <=> process[j] = "exited"
    /\ \E i \in DOMAIN disk[k] : disk[k][i].record = "operation.accepted" /\ disk[k][i].op \in Operation
    /\ ~StartResolved(k, "spawn_failed")

\* An accepted control reaches the process of a job that has not been closed.
Applies(k, o) ==
    /\ applied' = [applied EXCEPT ![k][o] = @ + 1] /\ applied[k][o] = 0
    /\ UNCHANGED <<disk, spawned>>
    /\ \A j \in Key : process'[j] = "exited" <=> process[j] = "exited"
    /\ Logged(disk[k], "operation.accepted", o)
    /\ spawned[k] = 1
    /\ ~Logged(disk[k], "job.terminal", None)

\* Processes end, possibly none.
Ends(S) ==
    /\ UNCHANGED <<disk, spawned, applied>>
    /\ \A k \in S : spawned[k] = 1 /\ process[k] # "exited"
    /\ \A j \in Key : process'[j] = "exited" <=> process[j] = "exited" \/ j \in S

EffectStep ==
    \/ \E k \in Key, rec \in Record : Writes(k, rec)
    \/ \E k \in Key : Starts(k)
    \/ \E k \in Key, o \in Operation : Applies(k, o)
    \/ \E S \in SUBSET Key : Ends(S)

LEMMA NothingEnds ==
    ASSUME JobTypes, UNCHANGED <<disk, spawned, applied>>,
           process' = process \/ \E k \in Key : Kill(k)
    PROVE  EffectStep
<1>1. \A j \in Key : process'[j] = "exited" <=> process[j] = "exited"
  <2>1. CASE process' = process
    BY <2>1
  <2>2. ASSUME NEW k \in Key, Kill(k)
        PROVE  \A j \in Key : process'[j] = "exited" <=> process[j] = "exited"
    <3>1. \A j \in Key : process'[j] = process[j] \/ (process[j] = "live" /\ process'[j] = "dying")
      BY <2>2, KillFacts
    <3> QED
      BY <3>1
  <2> QED
    BY <2>1, <2>2
<1>2. Ends({})
  BY <1>1 DEF Ends
<1> QED
  BY <1>2 DEF EffectStep

LEMMA SpawnIsStep ==
    ASSUME JobInv, LogInv, EffectInv, ResultsAreEnds, Configured, NEW s \in Starter, Spawn(s)
    PROVE  EffectStep
<1>0. PICK k \in Key : k = KeyOf[s]
  BY ThreadFacts
<1>1. /\ JobTypes /\ s \in Thread /\ StartOK(s) /\ JobEffects(k) /\ ThreadLogged(s) /\ WellFormed(disk[k])
      /\ disk[k] \in Seq(Record)
  BY <1>0, ThreadFacts DEF JobInv, LogInv, LogOK, EffectInv, JobTypes
<1>2. pc[s] = "spawn" /\ UNCHANGED <<disk, applied>>
  BY DEF Spawn, Goto, jobJournalVars
<1>3. spawned[k] = 0 /\ StartLogged(k)
  BY <1>0, <1>1, <1>2 DEF StartOK, StartIsNew, JobTypes
<1>4. process[k] = "none"
  BY <1>1, <1>3 DEF JobEffects, JobTypes
<1>5. \A i \in DOMAIN disk[k] : ~EndsStart(disk[k], i) /\ disk[k][i].record # "job.terminal"
  BY <1>0, <1>1, <1>2 DEF ThreadLogged
<1>6. PICK i \in DOMAIN disk[k] : disk[k][i].start
  BY <1>3, <1>5 DEF StartLogged
<1>7. disk[k][i].record = "operation.accepted" /\ disk[k][i].op \in Operation
  <2>1. disk[k][i] \in Record
    BY <1>1, <1>6
  <2>2. disk[k][i].record \in {"operation.accepted", "operation.terminal", "job.terminal"}
    BY <2>1 DEF Record
  <2> QED
    BY <1>1, <1>5, <1>6, <2>2 DEF EndsStart, WellFormed, OpsAreNamed
<1>8. ~StartResolved(k, "spawn_failed")
  <2>1. "spawn_failed" # None
    BY JournalAssumption DEF Outcome
  <2> QED
    BY <1>5, <2>1 DEF StartResolved, ResultsAreEnds, EndsStart
<1>9. CASE /\ spawned' = [spawned EXCEPT ![k] = @ + 1]
           /\ \/ process' = [process EXCEPT ![k] = "live"]
              \/ process' = [process EXCEPT ![k] = "dying"]
  <2>1. \A j \in Key : process'[j] = "exited" <=> process[j] = "exited"
    BY <1>1, <1>4, <1>9 DEF JobTypes
  <2>2. Starts(k)
    BY <1>2, <1>3, <1>6, <1>7, <1>8, <1>9, <2>1 DEF Starts
  <2> QED
    BY <2>2 DEF EffectStep
<1>10. CASE UNCHANGED <<process, spawned>>
  BY <1>1, <1>2, <1>10, NothingEnds
<1> QED
  BY <1>0, <1>9, <1>10 DEF Spawn

LEMMA EffectIsStep ==
    ASSUME JobInv, LogInv, EffectInv, Configured, ~Allow, NEW c \in Controller, Effect(c)
    PROVE  EffectStep
<1>0. PICK k \in Key : k = KeyOf[c]
  BY ThreadFacts
<1>1. PICK o \in Operation : o = OperationOf[c]
  BY ThreadFacts, OperationFacts
<1>2. pc[c] = "effect" /\ UNCHANGED <<disk, spawned>> /\ (Kill(k) \/ UNCHANGED process)
  BY <1>0 DEF Effect, Goto, jobJournalVars
<1>3. /\ JobTypes /\ entry[k].dispatch = "running" /\ ClaimLogged(k) /\ SpawnsCounted(k)
      /\ JobEffects(k) /\ ControlEffects(c) /\ Poised(c)
  BY <1>0, <1>2 DEF JobInv, JobOK, ControlOK, Controls, LogInv, LogOK, EffectInv, Poised
<1>4. applied[k][o] = 0 /\ Logged(disk[k], "operation.accepted", o)
  BY <1>0, <1>1, <1>2, <1>3 DEF ControlEffects
<1>5. spawned[k] = 1 /\ ~Logged(disk[k], "job.terminal", None)
  BY <1>3 DEF JobTypes, SpawnsCounted, JobEffects, ClaimLogged
<1>6. \A j \in Key : process'[j] = "exited" <=> process[j] = "exited"
  <2>1. \A j \in Key : process'[j] = process[j] \/ (process[j] = "live" /\ process'[j] = "dying")
    BY <1>2, <1>3, KillFacts
  <2> QED
    BY <2>1
<1>7. applied' = [applied EXCEPT ![k][o] = @ + 1]
  BY <1>0, <1>1 DEF Effect
<1>8. Applies(k, o)
  BY <1>2, <1>4, <1>5, <1>6, <1>7 DEF Applies
<1> QED
  BY <1>8 DEF EffectStep

LEMMA ExitIsStep ==
    ASSUME JobInv, EffectInv, Configured,
           \/ \E k \in Key : ProcessExits(k)
           \/ \E opened \in BOOLEAN : Restart(opened)
    PROVE  EffectStep
<1>1. JobTypes
  BY DEF JobInv
<1>2. ASSUME NEW k \in Key, process[k] # "none" PROVE spawned[k] = 1
  <2>1. JobEffects(k) /\ SpawnsCounted(k)
    BY DEF EffectInv, JobInv, JobOK
  <2> QED
    BY <1>1, <1>2, <2>1 DEF JobEffects, SpawnsCounted, JobTypes
<1>3. ASSUME NEW k \in Key, ProcessExits(k) PROVE Ends({k})
  <2>1. process[k] \in {"live", "dying"} /\ process' = [process EXCEPT ![k] = "exited"]
    BY <1>3 DEF ProcessExits
  <2>2. UNCHANGED <<disk, spawned, applied>>
    BY <1>3 DEF ProcessExits, jobJournalVars, historyVars
  <2>3. \A j \in Key : process'[j] = "exited" <=> process[j] = "exited" \/ j \in {k}
    BY <1>1, <2>1 DEF JobTypes
  <2> QED
    BY <1>2, <2>1, <2>2, <2>3 DEF Ends
<1>4. ASSUME NEW opened \in BOOLEAN, Restart(opened)
      PROVE  Ends({k \in Key : process[k] \in {"live", "dying"}})
  <2>1. UNCHANGED <<disk, spawned, applied>>
    BY <1>4 DEF Restart, Reopen, historyVars
  <2>2. \A k \in Key : process'[k] = IF process[k] = "none" THEN "none" ELSE "exited"
    BY <1>4 DEF Restart
  <2> QED
    BY <1>1, <1>2, <2>1, <2>2 DEF Ends, JobTypes
<1> QED
  BY <1>3, <1>4 DEF EffectStep

LEMMA StarterIsStep ==
    ASSUME JobInv, LogInv, EffectInv, ResultsAreEnds, Configured, NEW s \in Starter, StarterStep(s)
    PROVE  EffectStep
<1>0. PICK k \in Key : k = KeyOf[s]
  BY ThreadFacts
<1>1. JobTypes /\ s \in Thread
  BY ThreadFacts DEF JobInv
<1>2. CASE \/ EnterStart(s) \/ CheckLive(s) \/ JoinLive(s) \/ CheckRecovered(s) \/ Preflight(s)
           \/ Admit(s) \/ BeginEntry(s) \/ FenceUnavailable(s) \/ FenceStart(s) \/ RollbackStart(s)
           \/ OpenGate(s)
  <2>1. UNCHANGED <<disk, spawned, applied, process>>
    BY <1>2 DEF EnterStart, CheckLive, JoinLive, CheckRecovered, Preflight, Admit, BeginEntry,
       FenceUnavailable, FenceStart, RollbackStart, OpenGate, jobJournalVars, historyVars, jobVars
  <2> QED
    BY <1>1, <2>1, NothingEnds
<1>3. CASE \/ CommitStart(s) \/ Claim(s) \/ Publish(s) \/ ObserveStart(s) \/ StartDispatcher(s)
           \/ CommitFinish(s) \/ Abort(s)
  <2>1. UNCHANGED <<disk, spawned, applied>> /\ (process' = process \/ Kill(k))
    BY <1>0, <1>3 DEF CommitStart, CommitAccepted, Claim, Publish, ObserveStart, StartDispatcher,
       CommitFinish, CommitTerminal, Abort, jobJournalVars, historyVars, jobVars
  <2> QED
    BY <1>1, <2>1, NothingEnds
<1>4. CASE AcceptStart(s) \/ Finish(s)
  <2>1. UNCHANGED <<spawned, applied, process>>
    BY <1>4 DEF AcceptStart, Finish, historyVars, jobVars
  <2>2. disk' = disk \/ \E j \in Key, rec \in Record : Writes(j, rec)
    BY <1>1, <1>4, AcceptWrites, FinishWrites
  <2>3. CASE disk' = disk
    BY <1>1, <2>1, <2>3, NothingEnds
  <2> QED
    BY <2>2, <2>3 DEF EffectStep
<1> QED
  BY <1>2, <1>3, <1>4, SpawnIsStep DEF StarterStep

LEMMA ControllerIsStep ==
    ASSUME JobInv, LogInv, EffectInv, Configured, ~Allow, NEW c \in Controller, ControllerStep(c)
    PROVE  EffectStep
<1>1. JobTypes /\ c \in Thread
  BY ThreadFacts DEF JobInv
<1>2. CASE \/ Lookup(c) \/ WaitGate(c) \/ LockLifecycle(c) \/ CheckRunning(c) \/ CommitControl(c)
           \/ RecordControl(c) \/ CommitFinish(c)
  <2>1. UNCHANGED <<disk, spawned, applied, process>>
    BY <1>2 DEF Lookup, WaitGate, LockLifecycle, CheckRunning, CommitControl, CommitAccepted,
       RecordControl, CommitFinish, CommitTerminal, jobJournalVars, historyVars, jobVars
  <2> QED
    BY <1>1, <2>1, NothingEnds
<1>3. CASE AcceptControl(c) \/ Finish(c)
  <2>1. UNCHANGED <<spawned, applied, process>>
    BY <1>3 DEF AcceptControl, Finish, historyVars, jobVars
  <2>2. disk' = disk \/ \E j \in Key, rec \in Record : Writes(j, rec)
    BY <1>1, <1>3, AcceptControlWrites, FinishWrites
  <2>3. CASE disk' = disk
    BY <1>1, <2>1, <2>3, NothingEnds
  <2> QED
    BY <2>2, <2>3 DEF EffectStep
<1> QED
  BY <1>2, <1>3, EffectIsStep DEF ControllerStep

LEMMA DispatcherIsStep ==
    ASSUME JobInv, LogInv, NEW k \in Key, DispatcherStep(k) \/ DispatcherEvent(k)
    PROVE  EffectStep
<1>1. JobTypes
  BY DEF JobInv
<1>2. CASE AppendTerminal(k)
  <2>1. UNCHANGED <<spawned, applied, process>>
    BY <1>2 DEF AppendTerminal, historyVars
  <2>2. disk' = disk \/ \E j \in Key, rec \in Record : Writes(j, rec)
    BY <1>2, TerminalWrites
  <2>3. CASE disk' = disk
    BY <1>1, <2>1, <2>3, NothingEnds
  <2> QED
    BY <2>2, <2>3 DEF EffectStep
<1>3. CASE ~AppendTerminal(k)
  <2>1. UNCHANGED <<disk, spawned, applied>> /\ (process' = process \/ Kill(k))
    BY <1>3 DEF DispatcherStep, DispatcherEvent, ObserveExit, LockTerminal, CompleteJob,
       CommitJobTerminal, RemoveJob, DropJob, Output, ProcessFault, ChannelCloses,
       jobJournalVars, historyVars
  <2> QED
    BY <1>1, <2>1, NothingEnds
<1> QED
  BY <1>2, <1>3

\* What a step of the manager is for the promise.
LEMMA EveryStep ==
    ASSUME JobInv, LogInv, EffectInv, ResultsAreEnds, Configured, ~Allow, [ManagerNext]_vars
    PROVE  EffectStep
<1>1. JobTypes
  BY DEF JobInv
<1>2. CASE SiblingFails \/ UNCHANGED vars \/ \E k \in Key, a \in Attachment : AttachJob(k, a)
  <2>1. UNCHANGED <<disk, spawned, applied, process>>
    BY <1>2 DEF SiblingFails, vars, AttachJob, jobJournalVars, historyVars, jobVars
  <2> QED
    BY <1>1, <2>1, NothingEnds
<1>3. CASE Environment
  BY <1>2, <1>3, ExitIsStep DEF Environment
<1> QED
  BY <1>2, <1>3, StarterIsStep, ControllerIsStep, DispatcherIsStep DEF ManagerNext

\* The promise's variables, as the manager gives them.
AcceptedOps == {p \in Key \X Operation : Logged(disk[p[1]], "operation.accepted", p[2])}
RefusedJobs == {k \in Key : StartResolved(k, "spawn_failed")}
EndedJobs == {k \in Key : process[k] = "exited"}
ClosedJobs == {k \in Key : Logged(disk[k], "job.terminal", None)}

LEMMA SameDisk ==
    ASSUME disk' = disk
    PROVE  UNCHANGED <<AcceptedOps, RefusedJobs, ClosedJobs>>
<1>1. \A k \in Key : StartResolved(k, "spawn_failed")' <=> StartResolved(k, "spawn_failed")
  BY DEF StartResolved
<1> QED
  BY <1>1 DEF AcceptedOps, RefusedJobs, ClosedJobs

LEMMA StartMaps ==
    ASSUME JobTypes, NEW k \in Key, Starts(k)
    PROVE  Effects!StartProcess(k)
<1>1. /\ UNCHANGED <<AcceptedOps, RefusedJobs, ClosedJobs>> /\ applied' = applied
  BY SameDisk DEF Starts
<1>2. EndedJobs' = EndedJobs
  BY DEF Starts, EndedJobs
<1>3. \E o \in Operation : <<k, o>> \in AcceptedOps
  BY DEF Starts, AcceptedOps, Logged
<1>4. k \notin RefusedJobs
  BY DEF Starts, RefusedJobs
<1>5. spawned[k] = 0 /\ spawned' = [spawned EXCEPT ![k] = 1]
  BY DEF Starts, JobTypes
<1> QED
  BY <1>1, <1>2, <1>3, <1>4, <1>5
     DEF Effects!StartProcess, AcceptedOps, RefusedJobs, EndedJobs, ClosedJobs

LEMMA ApplyMaps ==
    ASSUME JobTypes, NEW k \in Key, NEW o \in Operation, Applies(k, o)
    PROVE  Effects!ApplyControl(k, o)
<1>1. UNCHANGED <<AcceptedOps, RefusedJobs, ClosedJobs>> /\ spawned' = spawned
  BY SameDisk DEF Applies
<1>2. EndedJobs' = EndedJobs
  BY DEF Applies, EndedJobs
<1>3. <<k, o>> \in AcceptedOps /\ k \notin ClosedJobs
  BY DEF Applies, AcceptedOps, ClosedJobs
<1>4. spawned[k] = 1 /\ applied[k][o] = 0 /\ applied' = [applied EXCEPT ![k][o] = 1]
  BY DEF Applies, JobTypes
<1> QED
  BY <1>1, <1>2, <1>3, <1>4
     DEF Effects!ApplyControl, AcceptedOps, RefusedJobs, EndedJobs, ClosedJobs

LEMMA EndMaps ==
    ASSUME NEW S \in SUBSET Key, Ends(S)
    PROVE  Effects!EndProcesses(S) \/ UNCHANGED Effects!effectVars
<1>1. UNCHANGED <<AcceptedOps, RefusedJobs, ClosedJobs>> /\ UNCHANGED <<spawned, applied>>
  BY SameDisk DEF Ends
<1>2. EndedJobs' = EndedJobs \cup S /\ \A k \in S : spawned[k] = 1 /\ k \notin EndedJobs
  BY DEF Ends, EndedJobs
<1>3. CASE S = {}
  <2>1. EndedJobs' = EndedJobs
    BY <1>2, <1>3
  <2> QED
    BY <1>1, <2>1 DEF Effects!effectVars, AcceptedOps, RefusedJobs, EndedJobs, ClosedJobs
<1>4. CASE S # {}
  BY <1>1, <1>2, <1>4 DEF Effects!EndProcesses, AcceptedOps, RefusedJobs, EndedJobs, ClosedJobs
<1> QED
  BY <1>3, <1>4

LEMMA WriteMaps ==
    ASSUME JobTypes, NEW k \in Key, NEW rec \in Record, Writes(k, rec)
    PROVE  \/ \E o \in Operation : Effects!AcceptOperation(k, o)
           \/ Effects!RefuseJob(k) \/ Effects!CloseJob(k) \/ UNCHANGED Effects!effectVars
<1>0. PICK log \in Seq(Record) : log = disk[k]
  BY DEF JobTypes
<1>1. PICK more \in Seq(Record) : log = disk[k] /\ more = disk'[k] /\ more = Append(log, rec)
  <2>1. disk'[k] = Append(log, rec)
    BY <1>0 DEF Writes
  <2>2. Append(log, rec) \in Seq(Record)
    OBVIOUS
  <2> QED
    BY <1>0, <2>1, <2>2
<1>2. Noted(k, rec) /\ \A j \in Key \ {k} : disk'[j] = disk[j]
  BY DEF Writes
<1>3. \A kind, o : Logged(more, kind, o) <=> Logged(log, kind, o) \/ (rec.record = kind /\ rec.op = o)
  BY <1>1, LoggedMore
<1>4. /\ StartResolved(k, "spawn_failed")' <=>
            StartResolved(k, "spawn_failed") \/ (rec.start /\ rec.result = "spawn_failed")
      /\ \A j \in Key \ {k} : StartResolved(j, "spawn_failed")' <=> StartResolved(j, "spawn_failed")
  <2>1. /\ DOMAIN more = DOMAIN log \cup {Len(more)} /\ \A i \in DOMAIN log : more[i] = log[i]
        /\ more[Len(more)] = rec
    BY <1>1, OneMore
  <2>2. \A j \in Key \ {k} : StartResolved(j, "spawn_failed")' <=> StartResolved(j, "spawn_failed")
    BY <1>2 DEF StartResolved
  <2> QED
    BY <1>1, <2>1, <2>2 DEF StartResolved
<1>5. UNCHANGED <<spawned, applied>> /\ EndedJobs' = EndedJobs
  BY DEF Writes, EndedJobs
<1>6. rec.start /\ rec.result = "spawn_failed" => rec.record = "operation.terminal" /\ spawned[k] = 0
  <2>1. "spawn_failed" # None
    BY JournalAssumption DEF Outcome
  <2> QED
    BY <1>2, <2>1 DEF Noted
<1>7. RefusedJobs' = IF rec.start /\ rec.result = "spawn_failed" THEN RefusedJobs \cup {k} ELSE RefusedJobs
  BY <1>4 DEF RefusedJobs
<1>8. ClosedJobs' = IF rec.record = "job.terminal" THEN ClosedJobs \cup {k} ELSE ClosedJobs
  <2>1. rec.record = "job.terminal" => rec.op = None
    BY <1>2 DEF Noted
  <2> QED
    BY <1>1, <1>2, <1>3, <2>1 DEF ClosedJobs
<1>9. AcceptedOps' = IF rec.record = "operation.accepted" THEN AcceptedOps \cup {<<k, rec.op>>} ELSE AcceptedOps
  <2>1. rec.record = "operation.accepted" => rec.op \in Operation
    BY <1>2 DEF Noted
  <2>2. ASSUME NEW p \in Key \X Operation
        PROVE  p \in AcceptedOps' <=>
                  p \in AcceptedOps \/ (rec.record = "operation.accepted" /\ p = <<k, rec.op>>)
    <3>1. PICK j \in Key, o \in Operation : p = <<j, o>>
      OBVIOUS
    <3>2. /\ p \in AcceptedOps <=> Logged(disk[j], "operation.accepted", o)
          /\ p \in AcceptedOps' <=> Logged(disk'[j], "operation.accepted", o)
      BY <3>1 DEF AcceptedOps
    <3>3. CASE j = k
      BY <1>1, <1>3, <3>1, <3>2, <3>3
    <3>4. CASE j # k
      BY <1>2, <3>1, <3>2, <3>4
    <3> QED
      BY <3>3, <3>4
  <2>3. AcceptedOps \subseteq Key \X Operation /\ AcceptedOps' \subseteq Key \X Operation
    BY DEF AcceptedOps
  <2> QED
    BY <2>1, <2>2, <2>3
<1>10. CASE rec.record = "operation.accepted"
  <2>1. PICK o \in Operation : o = rec.op
    BY <1>2, <1>10 DEF Noted
  <2>2. <<k, o>> \notin AcceptedOps
    BY <1>2, <1>10, <2>1 DEF Noted, AcceptedOps
  <2>3. AcceptedOps' = AcceptedOps \cup {<<k, o>>} /\ UNCHANGED <<RefusedJobs, ClosedJobs>>
    BY <1>6, <1>7, <1>8, <1>9, <1>10, <2>1
  <2>4. Effects!AcceptOperation(k, o)
    BY <1>5, <2>2, <2>3 DEF Effects!AcceptOperation, AcceptedOps, RefusedJobs, EndedJobs, ClosedJobs
  <2> QED
    BY <2>4
<1>11. CASE rec.record = "job.terminal"
  <2>1. k \in EndedJobs \ ClosedJobs
    BY <1>2, <1>11 DEF Noted, EndedJobs, ClosedJobs
  <2>2. ClosedJobs' = ClosedJobs \cup {k} /\ UNCHANGED <<AcceptedOps, RefusedJobs>>
    BY <1>6, <1>7, <1>8, <1>9, <1>11
  <2>3. Effects!CloseJob(k)
    BY <1>5, <2>1, <2>2 DEF Effects!CloseJob, AcceptedOps, RefusedJobs, EndedJobs, ClosedJobs
  <2> QED
    BY <2>3
<1>12. CASE rec.record \notin {"operation.accepted", "job.terminal"}
  <2>1. UNCHANGED <<AcceptedOps, ClosedJobs>>
    BY <1>8, <1>9, <1>12
  <2>2. CASE rec.start /\ rec.result = "spawn_failed" /\ k \notin RefusedJobs
    <3>1. RefusedJobs' = RefusedJobs \cup {k} /\ spawned[k] = 0
      BY <1>6, <1>7, <2>2
    <3>2. Effects!RefuseJob(k)
      BY <1>5, <2>1, <2>2, <3>1 DEF Effects!RefuseJob, AcceptedOps, RefusedJobs, EndedJobs, ClosedJobs
    <3> QED
      BY <3>2
  <2>3. CASE ~(rec.start /\ rec.result = "spawn_failed") \/ k \in RefusedJobs
    <3>1. RefusedJobs' = RefusedJobs
      BY <1>7, <2>3
    <3> QED
      BY <1>5, <2>1, <3>1 DEF Effects!effectVars, AcceptedOps, RefusedJobs, EndedJobs, ClosedJobs
  <2> QED
    BY <2>2, <2>3
<1> QED
  BY <1>10, <1>11, <1>12

LEMMA StepMaps ==
    ASSUME JobTypes, EffectStep
    PROVE  [Effects!EffectNext]_(Effects!effectVars)
<1>1. ASSUME NEW k \in Key, NEW rec \in Record, Writes(k, rec) PROVE [Effects!EffectNext]_(Effects!effectVars)
  BY <1>1, WriteMaps DEF Effects!EffectNext
<1>2. ASSUME NEW k \in Key, Starts(k) PROVE Effects!EffectNext
  BY <1>2, StartMaps DEF Effects!EffectNext
<1>3. ASSUME NEW k \in Key, NEW o \in Operation, Applies(k, o) PROVE Effects!EffectNext
  BY <1>3, ApplyMaps DEF Effects!EffectNext
<1>4. ASSUME NEW S \in SUBSET Key, Ends(S) PROVE [Effects!EffectNext]_(Effects!effectVars)
  BY <1>4, EndMaps DEF Effects!EffectNext
<1> QED
  BY <1>1, <1>2, <1>3, <1>4 DEF EffectStep

LEMMA InitMaps == ManagerInit => Effects!EffectInit
<1> SUFFICES ASSUME ManagerInit PROVE Effects!EffectInit
  OBVIOUS
<1>1. /\ spawned = [k \in Key |-> 0] /\ applied = [k \in Key |-> [o \in Operation |-> 0]]
      /\ \A k \in Key : disk[k] = <<>> /\ process[k] = "none"
  BY DEF ManagerInit, JobJournalInit
<1>2. AcceptedOps = {} /\ RefusedJobs = {} /\ EndedJobs = {} /\ ClosedJobs = {}
  BY <1>1 DEF AcceptedOps, RefusedJobs, EndedJobs, ClosedJobs, Logged, StartResolved
<1> QED
  BY <1>1, <1>2 DEF Effects!EffectInit, AcceptedOps, RefusedJobs, EndedJobs, ClosedJobs

\* The results in the log are those of ends, and the manager keeps its journal.
LEMMA ResultsStay ==
    ASSUME JobTypes, ResultsAreEnds, EffectStep
    PROVE  ResultsAreEnds'
<1>1. CASE disk' = disk
  BY <1>1 DEF ResultsAreEnds
<1>2. ASSUME NEW k \in Key, NEW rec \in Record, Writes(k, rec) PROVE ResultsAreEnds'
  <2>0. PICK log \in Seq(Record) : log = disk[k]
    BY DEF JobTypes
  <2>1. PICK more \in Seq(Record) : log = disk[k] /\ more = disk'[k] /\ more = Append(log, rec)
    <3>1. disk'[k] = Append(log, rec)
      BY <1>2, <2>0 DEF Writes
    <3>2. Append(log, rec) \in Seq(Record)
      OBVIOUS
    <3> QED
      BY <2>0, <3>1, <3>2
  <2>2. /\ DOMAIN more = DOMAIN log \cup {Len(more)} /\ \A i \in DOMAIN log : more[i] = log[i]
        /\ more[Len(more)] = rec
    BY <2>1, OneMore
  <2>3. (\A j \in Key \ {k} : disk'[j] = disk[j]) /\ (rec.result # None => rec.record = "operation.terminal")
    BY <1>2 DEF Writes, Noted
  <2>4. \A i \in DOMAIN more : more[i].result # None => more[i].record = "operation.terminal"
    BY <2>1, <2>2, <2>3 DEF ResultsAreEnds
  <2>5. \A j \in Key : j # k => \A i \in DOMAIN disk'[j] :
           disk'[j][i].result # None => disk'[j][i].record = "operation.terminal"
    BY <2>3 DEF ResultsAreEnds
  <2> QED
    BY <2>1, <2>4, <2>5 DEF ResultsAreEnds
<1> QED
  BY <1>1, <1>2 DEF EffectStep, Starts, Applies, Ends

LEMMA ConfiguredStays ==
    ASSUME Configured, [ManagerNext]_vars
    PROVE  Configured'
<1>1. ASSUME NEW s \in Starter, StarterStep(s) PROVE store' = store \/ store' = "lost"
  <2>1. CASE \/ EnterStart(s) \/ CheckLive(s) \/ JoinLive(s) \/ CheckRecovered(s) \/ Preflight(s)
             \/ Admit(s) \/ BeginEntry(s) \/ FenceUnavailable(s) \/ FenceStart(s) \/ RollbackStart(s)
             \/ OpenGate(s) \/ Claim(s) \/ Spawn(s) \/ Publish(s) \/ StartDispatcher(s) \/ Abort(s)
    BY <2>1 DEF EnterStart, CheckLive, JoinLive, CheckRecovered, Preflight, Admit, BeginEntry,
       FenceUnavailable, FenceStart, RollbackStart, OpenGate, Claim, Spawn, Publish, StartDispatcher,
       Abort, jobJournalVars
  <2>2. CASE AcceptStart(s) \/ CommitStart(s) \/ ObserveStart(s) \/ Finish(s) \/ CommitFinish(s)
    BY <2>2 DEF AcceptStart, CommitStart, ObserveStart, Finish, CommitFinish, AppendSucceeds, AppendFails,
       AcceptUnjournaled, CommitAccepted, CommitTerminal, ObservationKept, ObservationLost, jobJournalVars
  <2> QED
    BY <1>1, <2>1, <2>2 DEF StarterStep
<1>2. ASSUME NEW c \in Controller, ControllerStep(c) PROVE store' = store \/ store' = "lost"
  BY <1>2 DEF ControllerStep, Lookup, WaitGate, LockLifecycle, CheckRunning, AcceptControl, CommitControl,
     Effect, RecordControl, Finish, CommitFinish, AppendSucceeds, AppendFails, AcceptUnjournaled,
     CommitAccepted, CommitTerminal, jobJournalVars
<1>3. ASSUME NEW k \in Key, DispatcherStep(k) \/ DispatcherEvent(k) PROVE store' = store \/ store' = "lost"
  BY <1>3 DEF DispatcherStep, DispatcherEvent, ObserveExit, LockTerminal, CompleteJob, AppendTerminal,
     CommitJobTerminal, RemoveJob, DropJob, Output, ProcessFault, ChannelCloses, ObservationKept,
     ObservationLost, AppendSucceeds, AppendFails, jobJournalVars
<1>4. Environment => store' \in {store, "lost", "open"}
  BY DEF Environment, ProcessExits, SiblingFails, AttachJob, Restart, Reopen, jobJournalVars, Configured
<1>5. UNCHANGED vars => store' = store
  BY DEF vars, jobJournalVars
<1>6. store' \in {store, "lost", "open"}
  BY <1>1, <1>2, <1>3, <1>4, <1>5 DEF ManagerNext
<1> QED
  BY <1>6 DEF Configured

\* With a journal configured and unjournaled effects off, the manager implements
\* JobEffect: over every restart, retry and storage fault a process is started and
\* a control applied at most once, after a durable acceptance; a job is closed
\* durably after its process has ended, and refused durably only if it never starts.
THEOREM RefinesJobEffect ==
    ASSUME "none" \notin Journals, ~Allow
    PROVE  ManagerSpec => ImplementsJobEffect
<1> DEFINE Inv == Configured /\ ResultsAreEnds
<1>1. ManagerInit => Inv
  <2> SUFFICES ASSUME ManagerInit PROVE Inv
    OBVIOUS
  <2>1. Configured /\ \A k \in Key : disk[k] = <<>>
    BY DEF ManagerInit, JobJournalInit, Configured
  <2> QED
    BY <2>1 DEF ResultsAreEnds
<1>2. ASSUME JobInv, LogInv, EffectInv, Inv, [ManagerNext]_vars
      PROVE  Inv' /\ [Effects!EffectNext]_(Effects!effectVars)
  <2>1. JobTypes /\ EffectStep
    BY <1>2, EveryStep DEF JobInv
  <2>2. Configured'
    BY <1>2, ConfiguredStays
  <2> QED
    BY <1>2, <2>1, <2>2, ResultsStay, StepMaps
<1> QED
  BY <1>1, <1>2, InitMaps, JobInvariance, LogInvariance, EffectInvariance, PTL
     DEF ManagerSpec, ImplementsJobEffect, Effects!EffectSpec
=============================================================================
