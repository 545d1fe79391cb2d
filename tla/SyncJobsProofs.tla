--------------------------- MODULE SyncJobsProofs ---------------------------
(***************************************************************************)
(* Safety of SyncJobs, for any number of jobs, resources, changes, faults  *)
(* and crashes.  That a job is handed out once, and that row level         *)
(* security stops the synchronisation, holds for any number of workers.    *)
(* What the rows and the graph show needs a single worker (the Deployment  *)
(* has one replica); with two it is refuted by a run.                      *)
(***************************************************************************)
EXTENDS SyncJobs, TLAPS

\* Functions on some of the resources, with values in S.
Partial(S) == UNION {[R -> S] : R \in SUBSET Resources}

\* Requests to the relationship service: the target is one of the sources.
Sent ==
    {q \in [job : 0..NumJobs, target : SUBSET Resources, src : Partial(0..MaxChanges)] :
        q.target \subseteq DOMAIN q.src}

Typed ==
    /\ rls \in RlsModes
    /\ registered \in BOOLEAN
    /\ status \in [Jobs -> Statuses]
    /\ row \in Partial(Contents) /\ azure \in Partial(Contents)
    /\ node \in Partial(0..MaxChanges)
    /\ edges \subseteq Resources \X Resources
    /\ abandoned \subseteq Sent
    /\ exposed \in [Workers -> SUBSET Resources]
    /\ pc \in [Workers -> Phases]
    /\ job \in [Workers -> 0..NumJobs]
    /\ todo \in [Workers -> SUBSET Resources]
    /\ scan \in [Workers -> Partial(Contents)]
    /\ read \in [Workers -> Partial(Reads)]
    /\ pend \in [Workers -> Partial(SUBSET Columns)]
    /\ changes \in 0..MaxChanges
    /\ faults \in 0..MaxFaults
    /\ crashes \in 0..MaxCrashes
    /\ shown \in [Resources -> SUBSET Contents]
    /\ asked \in [Jobs -> Partial(Contents)]

\* No resource has changed more often than all together.
Versioned == \A r \in DOMAIN azure : \A c \in Columns : azure[r][c] <= changes

\* What the open transaction of a worker holds is part of its scan.
Held(w) ==
    /\ pc[w] \in {"upserting", "projecting"} => todo[w] \subseteq DOMAIN scan[w]
    /\ DOMAIN read[w] \subseteq todo[w] /\ DOMAIN pend[w] \subseteq DOMAIN scan[w]
    /\ pc[w] # "upserting" => read[w] = Nothing /\ pend[w] = Nothing
    /\ pc[w] = "upserting" => DOMAIN scan[w] \subseteq todo[w] \cup DOMAIN pend[w]

\* A resource without a row is inserted with all its columns.
Whole(w) ==
    /\ \A r \in DOMAIN read[w] \ DOMAIN row : read[w][r].cols = Columns
    /\ \A r \in DOMAIN pend[w] \ DOMAIN row : pend[w][r] = Columns

TInv == Typed /\ Versioned /\ \A w \in Workers : Held(w) /\ Whole(w)

\* A job that was ever claimed is not waiting, unless the claim is not committed
\* yet; one that is worked on has its worker for itself.
Claimed ==
    \A w \in Workers :
        /\ job[w] \in Jobs => status[job[w]] # "none"
        /\ job[w] \in Jobs /\ pc[w] # "claiming" => status[job[w]] # "queued"
        /\ pc[w] # "idle" => job[w] \in Jobs
        /\ pc[w] = "failing" => status[job[w]] \in {"running", "completed"}

JInv == TInv /\ Claimed /\ JobExclusive

\* Under row level security a worker flushes nothing.
Hidden ==
    rls => \A w \in Workers :
              /\ pend[w] = Nothing
              /\ pc[w] = "projecting" => todo[w] = {}

\* Nor does any request project a resource.
NoTargets == rls => \A q \in abandoned : q.target = {}

RInv == TInv /\ Hidden /\ NoTargets /\ RlsStopsSync

\* For the one worker: the columns a flush leaves alone are those in which the
\* row and the scan agree.
Agrees(w, r, cols) ==
    \A c \in Columns \ cols : r \in DOMAIN row /\ row[r][c] = scan[w][r][c]

Upserts(w) ==
    /\ \A r \in DOMAIN read[w] : Agrees(w, r, read[w][r].cols)
    /\ \A r \in DOMAIN pend[w] : Agrees(w, r, pend[w][r])

\* What it scans is what Azure has shown, no older than at any request it has
\* claimed, and complete.
Scans(w) ==
    /\ pc[w] \in {"querying", "upserting"} =>
          \A r \in DOMAIN scan[w] :
              /\ scan[w][r] \in shown[r]
              /\ \A j \in Jobs : r \in DOMAIN asked[j] /\ status[j] \notin {"none", "queued"} =>
                    NotOlder(scan[w][r], asked[j][r])
    /\ pc[w] = "querying" => DOMAIN azure \subseteq todo[w] \cup DOMAIN scan[w]
    /\ pc[w] = "upserting" => DOMAIN azure \subseteq DOMAIN scan[w]

\* What it projects is what it has written, and stays so in the graph unless
\* the resource is exposed.
Projects(w) ==
    pc[w] = "projecting" =>
        \A r \in DOMAIN scan[w] :
            /\ r \in DOMAIN row /\ row[r] = scan[w][r]
            /\ \/ r \in todo[w]
               \/ /\ r \in DOMAIN node
                  /\ r \notin exposed[w] => node[r] = scan[w][r]["properties"]

\* What abandoned requests may still write while it projects, and after.
Exposes(w) ==
    pc[w] \in {"projecting", "done"} => \A q \in abandoned : Covers(q) \subseteq exposed[w]

\* Azure only goes forward.
Forward ==
    /\ \A r \in DOMAIN azure : azure[r] \in shown[r]
    /\ \A j \in Jobs : \A r \in DOMAIN azure \cap DOMAIN asked[j] :
          NotOlder(azure[r], asked[j][r])

-----------------------------------------------------------------------------
(* Functions on some of the resources.                                     *)

LEMMA PartialFacts ==
    ASSUME NEW S, NEW f \in Partial(S)
    PROVE  DOMAIN f \subseteq Resources /\ f \in [DOMAIN f -> S]
  BY DEF Partial

LEMMA PartialNothing ==
    ASSUME NEW S
    PROVE  Nothing \in Partial(S) /\ DOMAIN Nothing = {}
  <1>1. DOMAIN Nothing = {} /\ Nothing \in [{} -> S]
    BY DEF Nothing
  <1> QED BY <1>1 DEF Partial

LEMMA PartialEmpty ==
    ASSUME NEW S, NEW f \in Partial(S), DOMAIN f = {}
    PROVE  f = Nothing
  <1>1. f \in [{} -> S]
    BY PartialFacts
  <1> QED BY <1>1 DEF Nothing

LEMMA PartialPut ==
    ASSUME NEW S, NEW f \in Partial(S), NEW r \in Resources, NEW v \in S
    PROVE  /\ Put(f, r, v) \in Partial(S)
           /\ DOMAIN Put(f, r, v) = DOMAIN f \cup {r}
           /\ Put(f, r, v)[r] = v
           /\ \A s \in DOMAIN f : s # r => Put(f, r, v)[s] = f[s]
  <1>1. DOMAIN f \subseteq Resources /\ f \in [DOMAIN f -> S]
    BY PartialFacts
  <1>2. Put(f, r, v) \in [DOMAIN f \cup {r} -> S]
    BY <1>1 DEF Put
  <1>3. DOMAIN f \cup {r} \in SUBSET Resources
    BY <1>1
  <1> QED BY <1>2, <1>3 DEF Partial, Put

\* A subset of the resources and a value for each give such a function.
LEMMA PartialMade ==
    ASSUME NEW S, NEW R \in SUBSET Resources, NEW f \in [R -> S]
    PROVE  f \in Partial(S)
  BY DEF Partial

-----------------------------------------------------------------------------
(* Types.                                                                  *)

LEMMA TypedInit ==
    ASSUME Init
    PROVE  TInv
  <1>1. [c \in Columns |-> 0] \in Contents
    BY MaxChangesAssumption DEF Contents
  <1>2. azure \in [Resources -> Contents] /\ azure \in Partial(Contents)
    <2>1. azure \in [Resources -> Contents]
      BY <1>1 DEF Init
    <2> QED BY <2>1, PartialMade
  <1>3. row = Nothing /\ node = Nothing /\ edges = {} /\ abandoned = {}
        /\ exposed \in [Workers -> SUBSET Resources]
    BY DEF Init
  <1>4. /\ status \in [Jobs -> Statuses] /\ pc \in [Workers -> Phases]
        /\ job \in [Workers -> 0..NumJobs] /\ todo \in [Workers -> SUBSET Resources]
    BY NumJobsAssumption DEF Init, Statuses, Phases
  <1>5. /\ scan = [w \in Workers |-> Nothing] /\ read = [w \in Workers |-> Nothing]
        /\ pend = [w \in Workers |-> Nothing] /\ asked = [j \in Jobs |-> Nothing]
        /\ pc = [w \in Workers |-> "idle"] /\ todo = [w \in Workers |-> {}]
    BY DEF Init
  <1>6. /\ scan \in [Workers -> Partial(Contents)] /\ read \in [Workers -> Partial(Reads)]
        /\ pend \in [Workers -> Partial(SUBSET Columns)] /\ asked \in [Jobs -> Partial(Contents)]
    BY <1>5, PartialNothing
  <1>7. changes = 0 /\ faults = 0 /\ crashes = 0
    BY DEF Init
  <1>8. changes \in 0..MaxChanges /\ faults \in 0..MaxFaults /\ crashes \in 0..MaxCrashes
    BY <1>7, MaxChangesAssumption, MaxFaultsAssumption, MaxCrashesAssumption
  <1>9. shown \in [Resources -> SUBSET Contents]
    BY <1>1 DEF Init
  <1>10. Typed
    <2>1. rls \in RlsModes /\ registered \in BOOLEAN
      BY DEF Init
    <2>2. row \in Partial(Contents) /\ node \in Partial(0..MaxChanges)
          /\ edges \subseteq Resources \X Resources /\ abandoned \subseteq Sent
      BY <1>3, PartialNothing
    <2> QED BY <1>2, <1>3, <1>4, <1>6, <1>8, <1>9, <2>1, <2>2 DEF Typed
  <1>11. Versioned
    BY <1>7 DEF Init, Versioned
  <1>12. \A w \in Workers : Held(w) /\ Whole(w)
    BY <1>5, PartialNothing DEF Held, Whole
  <1> QED BY <1>10, <1>11, <1>12 DEF TInv

\* Azure and the API.
LEMMA EnvironmentTyped ==
    ASSUME Typed, Versioned, Environment
    PROVE  Typed' /\ Versioned'
  <1>1. ASSUME NEW r \in Resources, NEW cols \in SUBSET Columns, AzureChange(r, cols)
        PROVE  Typed' /\ Versioned'
    <2> DEFINE new == [c \in Columns |-> azure[r][c] + (IF c \in cols THEN 1 ELSE 0)]
    <2>1. /\ r \in DOMAIN azure /\ changes < MaxChanges /\ changes' = changes + 1
          /\ azure' = [azure EXCEPT ![r] = new]
          /\ shown' = [shown EXCEPT ![r] = shown[r] \cup {new}]
      BY <1>1 DEF AzureChange, Typed
    <2>2. DOMAIN azure \subseteq Resources /\ azure \in [DOMAIN azure -> Contents]
      BY PartialFacts DEF Typed
    <2>3. /\ changes \in Nat /\ changes' \in 0..MaxChanges /\ MaxChanges \in Nat
      BY <2>1, MaxChangesAssumption DEF Typed
    <2>4. \A c \in Columns : /\ azure[r][c] \in 0..MaxChanges /\ azure[r][c] <= changes
      BY <2>1, <2>2 DEF Contents, Versioned
    <2>5. \A c \in Columns : new[c] \in 0..MaxChanges /\ new[c] <= changes'
      BY <2>1, <2>3, <2>4
    <2>6. new \in Contents
      BY <2>5 DEF Contents
    <2> HIDE DEF new
    <2>7. azure' \in [DOMAIN azure -> Contents]
      BY <2>1, <2>2, <2>6
    <2>8. azure' \in Partial(Contents)
      BY <2>2, <2>7, PartialMade
    <2>9. shown' \in [Resources -> SUBSET Contents]
      BY <2>1, <2>6 DEF Typed
    <2>10. Typed'
      BY <1>1, <2>3, <2>8, <2>9
      DEF Typed, AzureChange, apiVars, graphVars, workerVars
    <2>11. ASSUME NEW s \in DOMAIN azure', NEW c \in Columns PROVE azure'[s][c] <= changes'
      <3>1. CASE s = r
        BY <2>1, <2>5, <3>1
      <3>2. CASE s # r
        <4>1. s \in DOMAIN azure /\ azure'[s] = azure[s]
          BY <2>1, <3>2
        <4>2. azure[s][c] <= changes /\ azure[s][c] \in 0..MaxChanges
          BY <2>2, <4>1 DEF Versioned, Contents
        <4> QED BY <2>1, <2>3, <4>1, <4>2
      <3> QED BY <3>1, <3>2
    <2> QED BY <2>10, <2>11 DEF Versioned
  <1>2. ASSUME NEW r \in Resources, AzureDelete(r)
        PROVE  Typed' /\ Versioned'
    <2>1. /\ changes < MaxChanges /\ changes' = changes + 1
          /\ azure' = [s \in DOMAIN azure \ {r} |-> azure[s]]
      BY <1>2 DEF AzureDelete
    <2>2. DOMAIN azure \subseteq Resources /\ azure \in [DOMAIN azure -> Contents]
      BY PartialFacts DEF Typed
    <2>3. azure' \in [DOMAIN azure \ {r} -> Contents] /\ DOMAIN azure \ {r} \in SUBSET Resources
      BY <2>1, <2>2
    <2>4. azure' \in Partial(Contents)
      BY <2>3, PartialMade
    <2>5. changes \in Nat /\ changes' \in 0..MaxChanges
      BY <2>1, MaxChangesAssumption DEF Typed
    <2>6. Typed'
      BY <1>2, <2>4, <2>5
      DEF Typed, AzureDelete, apiVars, graphVars, workerVars, historyVars
    <2>7. ASSUME NEW s \in DOMAIN azure', NEW c \in Columns PROVE azure'[s][c] <= changes'
      <3>1. s \in DOMAIN azure /\ azure'[s] = azure[s]
        BY <2>1
      <3>2. azure[s][c] <= changes /\ azure[s][c] \in 0..MaxChanges
        BY <2>2, <3>1 DEF Versioned, Contents
      <3> QED BY <2>1, <2>5, <3>1, <3>2, MaxChangesAssumption
    <2> QED BY <2>6, <2>7 DEF Versioned
  <1>3. CASE Discover
    BY <1>3 DEF Discover, Typed, Versioned, graphVars, workerVars, boundVars, historyVars
  <1>4. ASSUME NEW j \in Jobs, Request(j) PROVE Typed' /\ Versioned'
    <2>1. "queued" \in Statuses
      BY DEF Statuses
    <2>2. asked' \in [Jobs -> Partial(Contents)] /\ status' \in [Jobs -> Statuses]
      BY <1>4, <2>1 DEF Request, Typed
    <2> QED BY <1>4, <2>2
         DEF Request, Typed, Versioned, graphVars, workerVars, boundVars
  <1> QED BY <1>1, <1>2, <1>3, <1>4 DEF Environment

\* The other workers go on undisturbed.
Alone(w) ==
    \A v \in Workers \ {w} :
        /\ pc'[v] = pc[v] /\ job'[v] = job[v] /\ todo'[v] = todo[v]
        /\ scan'[v] = scan[v] /\ read'[v] = read[v] /\ pend'[v] = pend[v]

\* The state of worker w after a step.
Becomes(w, p, j, t, s, rd, pe) ==
    /\ Alone(w)
    /\ pc'[w] = p /\ job'[w] = j /\ todo'[w] = t
    /\ scan'[w] = s /\ read'[w] = rd /\ pend'[w] = pe

WorkersTyped ==
    /\ pc \in [Workers -> Phases] /\ job \in [Workers -> 0..NumJobs]
    /\ todo \in [Workers -> SUBSET Resources] /\ scan \in [Workers -> Partial(Contents)]
    /\ read \in [Workers -> Partial(Reads)] /\ pend \in [Workers -> Partial(SUBSET Columns)]

\* A worker's variables keep their types if what it becomes has the right one.
LEMMA WorkerTyped ==
    ASSUME Typed, NEW w \in Workers,
           NEW p \in Phases, NEW j \in 0..NumJobs, NEW t \in SUBSET Resources,
           NEW s \in Partial(Contents), NEW rd \in Partial(Reads),
           NEW pe \in Partial(SUBSET Columns),
           pc' = [pc EXCEPT ![w] = p], job' = [job EXCEPT ![w] = j],
           todo' = [todo EXCEPT ![w] = t], scan' = [scan EXCEPT ![w] = s],
           read' = [read EXCEPT ![w] = rd], pend' = [pend EXCEPT ![w] = pe]
    PROVE  WorkersTyped' /\ Becomes(w, p, j, t, s, rd, pe)
  BY DEF Typed, WorkersTyped, Becomes, Alone

\* A variable that a step leaves alone, as a change to what it is.
LEMMA Same ==
    ASSUME Typed, NEW w \in Workers
    PROVE  /\ pc = [pc EXCEPT ![w] = pc[w]] /\ job = [job EXCEPT ![w] = job[w]]
           /\ todo = [todo EXCEPT ![w] = todo[w]] /\ scan = [scan EXCEPT ![w] = scan[w]]
           /\ read = [read EXCEPT ![w] = read[w]] /\ pend = [pend EXCEPT ![w] = pend[w]]
           /\ pc[w] \in Phases /\ job[w] \in 0..NumJobs /\ todo[w] \in SUBSET Resources
           /\ scan[w] \in Partial(Contents) /\ read[w] \in Partial(Reads)
           /\ pend[w] \in Partial(SUBSET Columns)
  BY DEF Typed

-----------------------------------------------------------------------------
(* What each step makes of its worker.                                     *)

LEMMA SelectJobEffect ==
    ASSUME Typed, NEW w \in Workers, SelectJob(w)
    PROVE  /\ Typed'
           /\ \E j \in Jobs : /\ status[j] = "queued"
                              /\ \A v \in Workers : pc[v] = "claiming" => job[v] # j
                              /\ Becomes(w, "claiming", j, todo[w], scan[w], read[w], pend[w])
  <1>1. PICK j \in Queued : /\ j \notin Selected
                            /\ job' = [job EXCEPT ![w] = j]
    BY DEF SelectJob, First
  <1>2. j \in Jobs /\ j \in 0..NumJobs /\ status[j] = "queued"
    BY <1>1, NumJobsAssumption DEF Queued, Jobs
  <1>3. \A v \in Workers : pc[v] = "claiming" => job[v] # j
    BY <1>1 DEF Selected
  <1>4. /\ "claiming" \in Phases
        /\ pc' = [pc EXCEPT ![w] = "claiming"] /\ todo' = [todo EXCEPT ![w] = todo[w]]
        /\ scan' = [scan EXCEPT ![w] = scan[w]] /\ read' = [read EXCEPT ![w] = read[w]]
        /\ pend' = [pend EXCEPT ![w] = pend[w]]
    BY Same DEF SelectJob, Phases
  <1>5. WorkersTyped' /\ Becomes(w, "claiming", j, todo[w], scan[w], read[w], pend[w])
    BY <1>1, <1>2, <1>4, Same, WorkerTyped
  <1>6. Typed'
    BY <1>5 DEF Typed, WorkersTyped, SelectJob, apiVars, graphVars, boundVars, historyVars
  <1> QED BY <1>2, <1>3, <1>5, <1>6

LEMMA ClaimEffect ==
    ASSUME Typed, NEW w \in Workers, Claim(w)
    PROVE  /\ Typed'
           /\ Becomes(w, "listing", job[w], todo[w], scan[w], read[w], pend[w])
  <1>1. "listing" \in Phases /\ "running" \in Statuses
    BY DEF Phases, Statuses
  <1>2. /\ pc' = [pc EXCEPT ![w] = "listing"] /\ todo' = [todo EXCEPT ![w] = todo[w]]
        /\ scan' = [scan EXCEPT ![w] = scan[w]] /\ read' = [read EXCEPT ![w] = read[w]]
        /\ pend' = [pend EXCEPT ![w] = pend[w]] /\ job' = [job EXCEPT ![w] = job[w]]
    BY Same DEF Claim
  <1>3. WorkersTyped' /\ Becomes(w, "listing", job[w], todo[w], scan[w], read[w], pend[w])
    BY <1>1, <1>2, Same, WorkerTyped
  <1>4. status' \in [Jobs -> Statuses]
    BY <1>1 DEF Claim, Typed
  <1>5. Typed'
    BY <1>3, <1>4 DEF Typed, WorkersTyped, Claim, graphVars, boundVars, historyVars
  <1> QED BY <1>3, <1>5

LEMMA UnclaimEffect ==
    ASSUME Typed, NEW w \in Workers, Unclaim(w)
    PROVE  /\ Typed'
           /\ Becomes(w, "idle", 0, todo[w], scan[w], read[w], pend[w])
  <1>1. "idle" \in Phases /\ 0 \in 0..NumJobs
    BY NumJobsAssumption DEF Phases
  <1>2. /\ pc' = [pc EXCEPT ![w] = "idle"] /\ todo' = [todo EXCEPT ![w] = todo[w]]
        /\ scan' = [scan EXCEPT ![w] = scan[w]] /\ read' = [read EXCEPT ![w] = read[w]]
        /\ pend' = [pend EXCEPT ![w] = pend[w]] /\ job' = [job EXCEPT ![w] = 0]
    BY Same DEF Unclaim
  <1>3. WorkersTyped' /\ Becomes(w, "idle", 0, todo[w], scan[w], read[w], pend[w])
    BY <1>1, <1>2, Same, WorkerTyped
  <1>4. crashes' \in 0..MaxCrashes
    BY MaxCrashesAssumption DEF Unclaim, Typed
  <1>5. Typed'
    BY <1>3, <1>4 DEF Typed, WorkersTyped, Unclaim, apiVars, graphVars, historyVars
  <1> QED BY <1>3, <1>5

LEMMA ListSubscriptionsEffect ==
    ASSUME Typed, NEW w \in Workers, ListSubscriptions(w)
    PROVE  /\ Typed'
           /\ Becomes(w, "querying", job[w], Resources, Nothing, read[w], pend[w])
  <1>1. "querying" \in Phases /\ Resources \in SUBSET Resources /\ Nothing \in Partial(Contents)
    BY PartialNothing DEF Phases
  <1>2. /\ pc' = [pc EXCEPT ![w] = "querying"] /\ todo' = [todo EXCEPT ![w] = Resources]
        /\ scan' = [scan EXCEPT ![w] = Nothing] /\ read' = [read EXCEPT ![w] = read[w]]
        /\ pend' = [pend EXCEPT ![w] = pend[w]] /\ job' = [job EXCEPT ![w] = job[w]]
    BY Same DEF ListSubscriptions
  <1>3. WorkersTyped' /\ Becomes(w, "querying", job[w], Resources, Nothing, read[w], pend[w])
    BY <1>1, <1>2, Same, WorkerTyped
  <1> QED BY <1>3 DEF Typed, WorkersTyped, ListSubscriptions, graphVars, boundVars, historyVars

LEMMA QueryPageEffect ==
    ASSUME Typed, NEW w \in Workers, NEW r \in Resources, QueryPage(w, r)
    PROVE  /\ Typed'
           /\ Becomes(w, pc[w], job[w], todo[w] \ {r},
                      IF r \in DOMAIN azure THEN Put(scan[w], r, azure[r]) ELSE scan[w],
                      read[w], pend[w])
  <1> DEFINE s == IF r \in DOMAIN azure THEN Put(scan[w], r, azure[r]) ELSE scan[w]
  <1>1. s \in Partial(Contents) /\ todo[w] \ {r} \in SUBSET Resources
    <2>1. CASE r \in DOMAIN azure
      <3>1. azure[r] \in Contents
        BY <2>1, PartialFacts DEF Typed
      <3>2. Put(scan[w], r, azure[r]) \in Partial(Contents)
        BY <3>1, PartialPut, Same
      <3> QED BY <2>1, <3>2, Same
    <2>2. CASE r \notin DOMAIN azure
      BY <2>2, Same
    <2> QED BY <2>1, <2>2
  <1>2. /\ pc' = [pc EXCEPT ![w] = pc[w]] /\ todo' = [todo EXCEPT ![w] = todo[w] \ {r}]
        /\ scan' = [scan EXCEPT ![w] = s] /\ read' = [read EXCEPT ![w] = read[w]]
        /\ pend' = [pend EXCEPT ![w] = pend[w]] /\ job' = [job EXCEPT ![w] = job[w]]
    BY Same DEF QueryPage
  <1> HIDE DEF s
  <1>3. WorkersTyped' /\ Becomes(w, pc[w], job[w], todo[w] \ {r}, s, read[w], pend[w])
    BY <1>1, <1>2, Same, WorkerTyped
  <1>4. Typed'
    BY <1>3 DEF Typed, WorkersTyped, QueryPage, apiVars, graphVars, boundVars, historyVars
  <1> QED BY <1>3, <1>4 DEF s

LEMMA QueryEndsEffect ==
    ASSUME Typed, NEW w \in Workers, QueryEnds(w)
    PROVE  /\ Typed'
           /\ Becomes(w, "upserting", job[w], DOMAIN scan[w], scan[w], read[w], pend[w])
  <1>1. "upserting" \in Phases /\ DOMAIN scan[w] \in SUBSET Resources
    BY PartialFacts, Same DEF Phases
  <1>2. /\ pc' = [pc EXCEPT ![w] = "upserting"] /\ todo' = [todo EXCEPT ![w] = DOMAIN scan[w]]
        /\ scan' = [scan EXCEPT ![w] = scan[w]] /\ read' = [read EXCEPT ![w] = read[w]]
        /\ pend' = [pend EXCEPT ![w] = pend[w]] /\ job' = [job EXCEPT ![w] = job[w]]
    BY Same DEF QueryEnds
  <1>3. WorkersTyped' /\ Becomes(w, "upserting", job[w], DOMAIN scan[w], scan[w], read[w], pend[w])
    BY <1>1, <1>2, Same, WorkerTyped
  <1> QED BY <1>3 DEF Typed, WorkersTyped, QueryEnds, apiVars, graphVars, boundVars, historyVars

LEMMA ReadRowEffect ==
    ASSUME Typed, NEW w \in Workers, NEW r \in Resources, ReadRow(w, r)
    PROVE  /\ Typed'
           /\ \E x \in Reads :
                 /\ x.cols = {c \in Columns : (r \in DOMAIN row /\ ~rls)
                                                 => row[r][c] # scan[w][r][c]}
                 /\ Becomes(w, pc[w], job[w], todo[w], scan[w], Put(read[w], r, x), pend[w])
  <1> DEFINE found == r \in DOMAIN row /\ ~rls
             x == [insert |-> ~found,
                   cols   |-> {c \in Columns : found => row[r][c] # scan[w][r][c]}]
  <1>1. x \in Reads
    BY DEF Reads
  <1>2. /\ pc' = [pc EXCEPT ![w] = pc[w]] /\ todo' = [todo EXCEPT ![w] = todo[w]]
        /\ scan' = [scan EXCEPT ![w] = scan[w]] /\ read' = [read EXCEPT ![w] = Put(read[w], r, x)]
        /\ pend' = [pend EXCEPT ![w] = pend[w]] /\ job' = [job EXCEPT ![w] = job[w]]
    BY Same DEF ReadRow
  <1>3. x.cols = {c \in Columns : (r \in DOMAIN row /\ ~rls) => row[r][c] # scan[w][r][c]}
    OBVIOUS
  <1> HIDE DEF x
  <1>4. Put(read[w], r, x) \in Partial(Reads)
    BY <1>1, Same, PartialPut
  <1>5. WorkersTyped'
        /\ Becomes(w, pc[w], job[w], todo[w], scan[w], Put(read[w], r, x), pend[w])
    BY <1>2, <1>4, Same, WorkerTyped
  <1>6. Typed'
    BY <1>5 DEF Typed, WorkersTyped, ReadRow, apiVars, graphVars, boundVars, historyVars
  <1> QED BY <1>1, <1>3, <1>5, <1>6

LEMMA FlushEffect ==
    ASSUME Typed, NEW w \in Workers, NEW r \in Resources, Flush(w, r)
    PROVE  /\ Typed'
           /\ read[w][r] \in Reads
           /\ Becomes(w, pc[w], job[w], todo[w] \ {r}, scan[w], Nothing,
                      Put(pend[w], r, read[w][r].cols))
  <1>1. read[w][r] \in Reads
    BY PartialFacts, Same DEF Flush
  <1>2. read[w][r].cols \in SUBSET Columns
    BY <1>1 DEF Reads
  <1>3. Put(pend[w], r, read[w][r].cols) \in Partial(SUBSET Columns)
    BY <1>2, Same, PartialPut
  <1>4. /\ pc' = [pc EXCEPT ![w] = pc[w]] /\ todo' = [todo EXCEPT ![w] = todo[w] \ {r}]
        /\ scan' = [scan EXCEPT ![w] = scan[w]] /\ read' = [read EXCEPT ![w] = Nothing]
        /\ pend' = [pend EXCEPT ![w] = Put(pend[w], r, read[w][r].cols)]
        /\ job' = [job EXCEPT ![w] = job[w]]
    BY Same DEF Flush
  <1>5. todo[w] \ {r} \in SUBSET Resources /\ Nothing \in Partial(Reads)
    BY Same, PartialNothing
  <1>6. WorkersTyped'
        /\ Becomes(w, pc[w], job[w], todo[w] \ {r}, scan[w], Nothing,
                   Put(pend[w], r, read[w][r].cols))
    BY <1>3, <1>4, <1>5, Same, WorkerTyped
  <1>7. Typed'
    BY <1>6 DEF Typed, WorkersTyped, Flush, apiVars, graphVars, boundVars, historyVars
  <1> QED BY <1>1, <1>6, <1>7

\* What a commit makes of the rows: the scan in the columns that were flushed.
LEMMA WrittenFacts ==
    ASSUME Typed, NEW w \in Workers, Held(w), Whole(w)
    PROVE  /\ Written(w) \in Partial(Contents)
           /\ DOMAIN Written(w) = DOMAIN row \cup DOMAIN pend[w]
           /\ \A r \in DOMAIN pend[w] : \A c \in Columns :
                 Written(w)[r][c] = IF c \in pend[w][r] THEN scan[w][r][c] ELSE row[r][c]
           /\ \A r \in DOMAIN row \ DOMAIN pend[w] : Written(w)[r] = row[r]
  <1>1. /\ DOMAIN row \subseteq Resources /\ row \in [DOMAIN row -> Contents]
        /\ DOMAIN pend[w] \subseteq Resources
        /\ scan[w] \in [DOMAIN scan[w] -> Contents]
    BY PartialFacts, Same DEF Typed
  <1> DEFINE R == DOMAIN row \cup DOMAIN pend[w]
             mixed(r) == [c \in Columns |-> IF c \in pend[w][r] THEN scan[w][r][c] ELSE row[r][c]]
             after(r) == IF r \in DOMAIN pend[w] THEN mixed(r) ELSE row[r]
  <1>2. Written(w) = [r \in R |-> after(r)]
    BY DEF Written
  <1>3. ASSUME NEW r \in DOMAIN pend[w] PROVE mixed(r) \in Contents
    <2>1. \A c \in Columns : scan[w][r][c] \in 0..MaxChanges
      BY <1>1 DEF Held, Contents
    <2>2. \A c \in Columns : c \notin pend[w][r] => row[r][c] \in 0..MaxChanges
      BY <1>1 DEF Whole, Contents
    <2> QED BY <2>1, <2>2 DEF Contents
  <1>4. \A r \in R : after(r) \in Contents
    BY <1>1, <1>3
  <1>5. Written(w) \in [R -> Contents]
    <2> HIDE DEF after, R
    <2> QED BY <1>2, <1>4
  <1>6. Written(w) \in Partial(Contents)
    BY <1>1, <1>5, PartialMade
  <1>7. \A r \in DOMAIN pend[w] : Written(w)[r] = mixed(r)
    BY <1>2
  <1> QED BY <1>2, <1>6, <1>7

\* What a request may write.
LEMMA CoversFacts ==
    ASSUME NEW q \in Sent
    PROVE  /\ Covers(q) \subseteq Resources /\ DOMAIN q.src \subseteq Covers(q)
           /\ q.target \subseteq DOMAIN q.src
  <1>1. DOMAIN q.src \subseteq Resources /\ q.target \subseteq DOMAIN q.src
    BY PartialFacts DEF Sent
  <1> QED BY <1>1 DEF Covers

LEMMA CompleteEffect ==
    ASSUME Typed, NEW w \in Workers, Held(w), Whole(w), Complete(w)
    PROVE  /\ Typed'
           /\ Becomes(w, "projecting", job[w], DOMAIN scan[w], scan[w], read[w], Nothing)
  <1>1. "projecting" \in Phases /\ "completed" \in Statuses /\ DOMAIN scan[w] \in SUBSET Resources
    BY PartialFacts, Same DEF Phases, Statuses
  <1>2. /\ pc' = [pc EXCEPT ![w] = "projecting"] /\ todo' = [todo EXCEPT ![w] = DOMAIN scan[w]]
        /\ scan' = [scan EXCEPT ![w] = scan[w]] /\ read' = [read EXCEPT ![w] = read[w]]
        /\ pend' = [pend EXCEPT ![w] = Nothing] /\ job' = [job EXCEPT ![w] = job[w]]
    BY Same DEF Complete
  <1>3. WorkersTyped'
        /\ Becomes(w, "projecting", job[w], DOMAIN scan[w], scan[w], read[w], Nothing)
    BY <1>1, <1>2, Same, PartialNothing, WorkerTyped
  <1>4. row' \in Partial(Contents) /\ status' \in [Jobs -> Statuses]
    BY <1>1, WrittenFacts DEF Complete, Typed
  <1>a. exposed' \in [Workers -> SUBSET Resources]
    <2>1. UNION {Covers(q) : q \in abandoned} \subseteq Resources
      BY CoversFacts DEF Typed
    <2> QED BY <2>1 DEF Complete, Typed
  <1>5. Typed'
    BY <1>3, <1>4, <1>a DEF Typed, WorkersTyped, Complete, graphVars, boundVars
  <1> QED BY <1>3, <1>5

\* The requests of a worker.
LEMMA RequestFacts ==
    ASSUME Typed, NEW w \in Workers
    PROVE  /\ \A r \in DOMAIN scan[w] :
                 /\ ProjectRequest(w, r) \in Sent
                 /\ ProjectRequest(w, r).target = {r}
                 /\ DOMAIN ProjectRequest(w, r).src = {r}
                 /\ ProjectRequest(w, r).src[r] = scan[w][r]["properties"]
           /\ RebuildRequest(w) \in Sent /\ RebuildRequest(w).target = {}
  <1>1. ASSUME NEW r \in DOMAIN scan[w]
        PROVE  /\ ProjectRequest(w, r) \in Sent
               /\ ProjectRequest(w, r).target = {r}
               /\ DOMAIN ProjectRequest(w, r).src = {r}
               /\ ProjectRequest(w, r).src[r] = scan[w][r]["properties"]
    <2> DEFINE f == [x \in {r} |-> scan[w][r]["properties"]]
    <2>1. r \in Resources /\ scan[w][r] \in Contents
      BY PartialFacts, Same
    <2>2. scan[w][r]["properties"] \in 0..MaxChanges
      BY <2>1 DEF Contents, Columns
    <2>3. f \in [{r} -> 0..MaxChanges] /\ {r} \in SUBSET Resources
      BY <2>1, <2>2
    <2>4. f \in Partial(0..MaxChanges) /\ DOMAIN f = {r} /\ f[r] = scan[w][r]["properties"]
      BY <2>3, PartialMade
    <2>5. ProjectRequest(w, r) = [job |-> job[w], target |-> {r}, src |-> f]
      BY DEF ProjectRequest
    <2> HIDE DEF f
    <2> QED BY <2>1, <2>4, <2>5, Same DEF Sent
  <1>2. RebuildRequest(w) \in Sent /\ RebuildRequest(w).target = {}
    BY PartialNothing, Same DEF RebuildRequest, Sent
  <1> QED BY <1>1, <1>2

LEMMA ListedFacts ==
    ASSUME Typed, NEW q \in Sent, q.target = {}
    PROVE  /\ Listed(q) \in Sent /\ Listed(q).target = {} /\ Listed(q).src = node
  <1>1. q \in [job : 0..NumJobs, target : SUBSET Resources, src : Partial(0..MaxChanges)]
    BY DEF Sent
  <1>2. /\ Listed(q) \in [job : 0..NumJobs, target : SUBSET Resources, src : Partial(0..MaxChanges)]
        /\ Listed(q).target = {} /\ Listed(q).src = node
    BY <1>1 DEF Listed, Typed
  <1> QED BY <1>2 DEF Sent

\* What the relationship service commits: nodes are never removed, those that
\* are not the target keep their properties, and so do the edges of sources
\* that are not visited.
LEMMA ServeFacts ==
    ASSUME Typed, NEW q \in Sent, Serve(q)
    PROVE  /\ node' \in Partial(0..MaxChanges) /\ edges' \subseteq Resources \X Resources
           /\ DOMAIN node' = DOMAIN node \cup q.target
           /\ \A r \in q.target : node'[r] = q.src[r]
           /\ \A r \in DOMAIN node \ q.target : node'[r] = node[r]
           /\ \A x, y : <<x, y>> \in edges' <=>
                 \/ <<x, y>> \in edges /\ x \notin DOMAIN q.src
                 \/ /\ x \in DOMAIN q.src /\ y \in DOMAIN node'
                    /\ y \in Refs[x][q.src[x]] /\ x # y
  <1> DEFINE R == DOMAIN node \cup q.target
             after(r) == IF r \in q.target THEN q.src[r] ELSE node[r]
  <1>1. /\ q.target \subseteq DOMAIN q.src /\ DOMAIN q.src \subseteq Resources
        /\ \A r \in DOMAIN q.src : q.src[r] \in 0..MaxChanges
    BY PartialFacts DEF Sent
  <1>2. DOMAIN node \subseteq Resources /\ \A r \in DOMAIN node : node[r] \in 0..MaxChanges
    <2>1. node \in Partial(0..MaxChanges)
      BY DEF Typed
    <2>2. DOMAIN node \subseteq Resources /\ node \in [DOMAIN node -> 0..MaxChanges]
      BY <2>1, PartialFacts
    <2> QED BY <2>2
  <1>3. \A r \in R : after(r) \in 0..MaxChanges
    BY <1>1, <1>2
  <1>4. node' = [r \in R |-> after(r)] /\ edges' = Rebuilt(q.src, DOMAIN node')
    BY DEF Serve
  <1>5. node' \in [R -> 0..MaxChanges] /\ R \in SUBSET Resources
    <2>1. R \in SUBSET Resources
      BY <1>1, <1>2
    <2> HIDE DEF R, after
    <2> QED BY <1>3, <1>4, <2>1
  <1>6. DOMAIN node' = R /\ DOMAIN node' \subseteq Resources
    BY <1>5
  <1>7. edges' \subseteq Resources \X Resources
    BY <1>1, <1>4, <1>6 DEF Rebuilt, Typed
  <1>8. \A x, y : <<x, y>> \in edges' <=>
           \/ <<x, y>> \in edges /\ x \notin DOMAIN q.src
           \/ /\ x \in DOMAIN q.src /\ y \in DOMAIN node'
              /\ y \in Refs[x][q.src[x]] /\ x # y
    BY <1>4 DEF Rebuilt
  <1>9. node' \in Partial(0..MaxChanges)
    BY <1>5, PartialMade
  <1> QED BY <1>4, <1>6, <1>7, <1>8, <1>9

LEMMA ProjectEffect ==
    ASSUME Typed, NEW w \in Workers, Held(w), NEW r \in Resources, Project(w, r)
    PROVE  /\ Typed' /\ r \in DOMAIN scan[w] /\ Serve(ProjectRequest(w, r))
           /\ Becomes(w, pc[w], job[w], todo[w] \ {r}, scan[w], read[w], pend[w])
  <1>1. r \in DOMAIN scan[w] /\ Serve(ProjectRequest(w, r))
    BY DEF Project, Held
  <1>2. node' \in Partial(0..MaxChanges) /\ edges' \subseteq Resources \X Resources
    BY <1>1, RequestFacts, ServeFacts
  <1>3. /\ pc' = [pc EXCEPT ![w] = pc[w]] /\ todo' = [todo EXCEPT ![w] = todo[w] \ {r}]
        /\ scan' = [scan EXCEPT ![w] = scan[w]] /\ read' = [read EXCEPT ![w] = read[w]]
        /\ pend' = [pend EXCEPT ![w] = pend[w]] /\ job' = [job EXCEPT ![w] = job[w]]
    BY Same DEF Project
  <1>4. todo[w] \ {r} \in SUBSET Resources
    BY Same
  <1>5. WorkersTyped' /\ Becomes(w, pc[w], job[w], todo[w] \ {r}, scan[w], read[w], pend[w])
    BY <1>3, <1>4, Same, WorkerTyped
  <1>6. Typed'
    BY <1>2, <1>5 DEF Typed, WorkersTyped, Project, apiVars, boundVars, historyVars
  <1> QED BY <1>1, <1>5, <1>6

LEMMA RebuildEffect ==
    ASSUME Typed, NEW w \in Workers, Rebuild(w)
    PROVE  /\ Typed'
           /\ Becomes(w, "done", job[w], todo[w], scan[w], read[w], pend[w])
  <1>1. "done" \in Phases
    BY DEF Phases
  <1>2. /\ pc' = [pc EXCEPT ![w] = "done"] /\ todo' = [todo EXCEPT ![w] = todo[w]]
        /\ scan' = [scan EXCEPT ![w] = scan[w]] /\ read' = [read EXCEPT ![w] = read[w]]
        /\ pend' = [pend EXCEPT ![w] = pend[w]] /\ job' = [job EXCEPT ![w] = job[w]]
    BY Same DEF Rebuild
  <1>3. WorkersTyped' /\ Becomes(w, "done", job[w], todo[w], scan[w], read[w], pend[w])
    BY <1>1, <1>2, Same, WorkerTyped
  <1>4. Listed(RebuildRequest(w)) \in Sent
    BY RequestFacts, ListedFacts
  <1>5. node' \in Partial(0..MaxChanges) /\ edges' \subseteq Resources \X Resources
    BY <1>4, ServeFacts DEF Rebuild
  <1>6. Typed'
    BY <1>3, <1>5 DEF Typed, WorkersTyped, Rebuild, apiVars, boundVars, historyVars
  <1> QED BY <1>3, <1>6

\* The steps by which a worker gives up: nothing else changes but counters, and
\* a request to the relationship service may be left behind.
Abandons(w) ==
    \/ Fault(w) \/ GiveUp(w) \/ DeadlockVictim(w) \/ Crash(w)
    \/ \E r \in Resources : FlushRejected(w, r)

LEMMA AbandonsEffect ==
    ASSUME Typed, NEW w \in Workers, Held(w), Abandons(w)
    PROVE  /\ Typed'
           /\ Becomes(w, IF Crash(w) THEN "idle" ELSE "failing", job[w], {}, scan[w], Nothing, Nothing)
           /\ UNCHANGED <<apiVars, row, azure, node, edges, changes, historyVars>>
           /\ abandoned' \subseteq abandoned \cup InFlight(w)
  <1> DEFINE p == IF Crash(w) THEN "idle" ELSE "failing"
  <1>1. p \in Phases /\ {} \in SUBSET Resources
    BY DEF Phases
  <1>2. /\ todo' = [todo EXCEPT ![w] = {}]
        /\ scan' = [scan EXCEPT ![w] = scan[w]] /\ read' = [read EXCEPT ![w] = Nothing]
        /\ pend' = [pend EXCEPT ![w] = Nothing] /\ job' = [job EXCEPT ![w] = job[w]]
    BY Same DEF Abandons, Fault, GiveUp, DeadlockVictim, Crash, FlushRejected, Raise
  <1>3. pc' = [pc EXCEPT ![w] = p]
    BY DEF Abandons, Fault, GiveUp, DeadlockVictim, Crash, FlushRejected, Raise
  <1>4. UNCHANGED <<apiVars, row, azure, node, edges, changes, historyVars>>
    BY DEF Abandons, Fault, GiveUp, DeadlockVictim, Crash, FlushRejected, Raise, boundVars,
           graphVars
  <1>5. faults' \in 0..MaxFaults /\ crashes' \in 0..MaxCrashes
    BY MaxFaultsAssumption, MaxCrashesAssumption
    DEF Typed, Abandons, Fault, GiveUp, DeadlockVictim, Crash, FlushRejected, boundVars
  <1>6. abandoned' \subseteq abandoned \cup InFlight(w)
    <2>1. CASE Crash(w)
      BY <2>1 DEF Crash
    <2>2. CASE GiveUp(w)
      BY <2>2 DEF GiveUp
    <2>3. CASE ~Crash(w) /\ ~GiveUp(w)
      BY <2>3 DEF Abandons, Fault, DeadlockVictim, FlushRejected, graphVars
    <2> QED BY <2>1, <2>2, <2>3
  <1>7. InFlight(w) \subseteq Sent
    BY RequestFacts DEF InFlight, Held
  <1> HIDE DEF p
  <1>8. WorkersTyped' /\ Becomes(w, p, job[w], {}, scan[w], Nothing, Nothing)
    BY <1>1, <1>2, <1>3, Same, PartialNothing, WorkerTyped
  <1>9. abandoned' \subseteq Sent
    BY <1>6, <1>7 DEF Typed
  <1>10. Typed'
    BY <1>4, <1>5, <1>8, <1>9 DEF Typed, WorkersTyped, apiVars, historyVars
  <1> QED BY <1>4, <1>6, <1>8, <1>10 DEF p

LEMMA MarkFailedEffect ==
    ASSUME Typed, NEW w \in Workers, MarkFailed(w)
    PROVE  /\ Typed'
           /\ Becomes(w, "idle", job[w], todo[w], scan[w], read[w], pend[w])
  <1>1. "idle" \in Phases /\ "failed" \in Statuses
    BY DEF Phases, Statuses
  <1>2. /\ pc' = [pc EXCEPT ![w] = "idle"] /\ todo' = [todo EXCEPT ![w] = todo[w]]
        /\ scan' = [scan EXCEPT ![w] = scan[w]] /\ read' = [read EXCEPT ![w] = read[w]]
        /\ pend' = [pend EXCEPT ![w] = pend[w]] /\ job' = [job EXCEPT ![w] = job[w]]
    BY Same DEF MarkFailed
  <1>3. WorkersTyped' /\ Becomes(w, "idle", job[w], todo[w], scan[w], read[w], pend[w])
    BY <1>1, <1>2, Same, WorkerTyped
  <1>4. status' \in [Jobs -> Statuses]
    BY <1>1 DEF MarkFailed, Typed
  <1>5. Typed'
    BY <1>3, <1>4 DEF Typed, WorkersTyped, MarkFailed, graphVars, boundVars, historyVars
  <1> QED BY <1>3, <1>5

\* The relationship service goes on with an abandoned request: the workers and
\* the inventory notice nothing.
LEMMA LateEffect ==
    ASSUME Typed, NEW q \in abandoned, Late(q)
    PROVE  /\ Typed'
           /\ UNCHANGED <<apiVars, row, azure, workerVars, boundVars, historyVars>>
           /\ \/ UNCHANGED <<node, edges>>
              \/ Serve(q)
           /\ \A p \in abandoned' \ abandoned :
                 /\ q.target = {} /\ q.src = Nothing
                 /\ p.target = {} /\ p.src = node /\ p \in Sent
  <1>0. q \in Sent
    BY DEF Typed
  <1>1. UNCHANGED <<apiVars, row, azure, workerVars, boundVars, historyVars>>
    BY DEF Late, LateList, LateCommit, LateFailure
  <1>2. UNCHANGED <<node, edges>> \/ Serve(q)
    BY DEF Late, LateList, LateCommit, LateFailure
  <1>3. node' \in Partial(0..MaxChanges) /\ edges' \subseteq Resources \X Resources
    <2>1. CASE UNCHANGED <<node, edges>>
      BY <2>1 DEF Typed
    <2>2. CASE Serve(q)
      BY <1>0, <2>2, ServeFacts
    <2> QED BY <1>2, <2>1, <2>2
  <1>4. \A p \in abandoned' \ abandoned :
           /\ q.target = {} /\ q.src = Nothing
           /\ p.target = {} /\ p.src = node /\ p \in Sent
    <2>1. CASE LateList(q)
      <3>1. q.target = {} /\ q.src = Nothing /\ abandoned' = (abandoned \ {q}) \cup {Listed(q)}
        BY <2>1 DEF LateList
      <3> QED BY <1>0, <3>1, ListedFacts
    <2>2. CASE LateCommit(q) \/ LateFailure(q)
      BY <2>2 DEF LateCommit, LateFailure
    <2> QED BY <2>1, <2>2 DEF Late
  <1>5. abandoned' \subseteq Sent
    BY <1>4 DEF Typed
  <1>6. Typed'
    BY <1>1, <1>3, <1>5 DEF Typed, apiVars, workerVars, boundVars, historyVars
  <1> QED BY <1>1, <1>2, <1>4, <1>6

\* The steps of a worker, one by one.
LEMMA WorkerSteps ==
    ASSUME NEW w \in Workers, Run(w) \/ Trouble(w)
    PROVE  \/ SelectJob(w) \/ Claim(w) \/ Unclaim(w) \/ ListSubscriptions(w)
           \/ QueryEnds(w) \/ Complete(w) \/ Rebuild(w) \/ MarkFailed(w) \/ Abandons(w)
           \/ \E r \in Resources : \/ QueryPage(w, r) \/ ReadRow(w, r) \/ Flush(w, r)
                                   \/ Project(w, r)
  BY DEF Run, Trouble, Abandons

\* A worker changes neither Azure nor the history.
LEMMA WorkerLeaves ==
    ASSUME NEW w \in Workers, Run(w) \/ Trouble(w)
    PROVE  UNCHANGED <<azure, changes, rls, shown, asked>>
  BY DEF Run, Trouble, SelectJob, Claim, Unclaim, ListSubscriptions, QueryEnds, Complete, Rebuild, MarkFailed,
         DeadlockVictim, Fault, GiveUp, Crash, FlushRejected, Raise, QueryPage, ReadRow, Flush,
         Project, apiVars, boundVars, historyVars

\* Another worker's open transaction stays sound while rows are only added.
LEMMA HeldOthers ==
    ASSUME NEW w \in Workers, Alone(w), NEW v \in Workers \ {w}, Held(v), Whole(v),
           DOMAIN row \subseteq DOMAIN row'
    PROVE  Held(v)' /\ Whole(v)'
  <1>1. /\ pc'[v] = pc[v] /\ todo'[v] = todo[v] /\ scan'[v] = scan[v]
        /\ read'[v] = read[v] /\ pend'[v] = pend[v]
    BY DEF Alone
  <1>2. Held(v)'
    BY <1>1 DEF Held
  <1>3. Whole(v)'
    BY <1>1 DEF Whole
  <1> QED BY <1>2, <1>3

\* The worker's own.
LEMMA HeldOwn ==
    ASSUME TInv, NEW w \in Workers, Run(w) \/ Trouble(w)
    PROVE  /\ Typed' /\ Alone(w) /\ DOMAIN row \subseteq DOMAIN row'
           /\ Held(w)' /\ Whole(w)'
  <1> DEFINE Goal == /\ Typed' /\ Alone(w) /\ DOMAIN row \subseteq DOMAIN row'
                     /\ Held(w)' /\ Whole(w)'
  <1>0. Typed /\ Held(w) /\ Whole(w)
    BY DEF TInv
  <1>a. DOMAIN Nothing = {}
    BY PartialNothing
  <1>1. CASE SelectJob(w)
    <2>1. PICK j \in Jobs : Becomes(w, "claiming", j, todo[w], scan[w], read[w], pend[w])
      BY <1>0, <1>1, SelectJobEffect
    <2>2. row' = row /\ pc[w] \in {"idle", "done"}
      BY <1>1 DEF SelectJob
    <2> QED BY <1>0, <1>1, <2>1, <2>2, SelectJobEffect DEF Becomes, Held, Whole
  <1>b. CASE Claim(w)
    <2>1. Typed' /\ Becomes(w, "listing", job[w], todo[w], scan[w], read[w], pend[w])
      BY <1>0, <1>b, ClaimEffect
    <2>2. row' = row /\ pc[w] = "claiming"
      BY <1>b DEF Claim
    <2> QED BY <1>0, <2>1, <2>2 DEF Becomes, Held, Whole
  <1>c. CASE Unclaim(w)
    <2>1. Typed' /\ Becomes(w, "idle", 0, todo[w], scan[w], read[w], pend[w])
      BY <1>0, <1>c, UnclaimEffect
    <2>2. row' = row /\ pc[w] = "claiming"
      BY <1>c DEF Unclaim
    <2> QED BY <1>0, <2>1, <2>2 DEF Becomes, Held, Whole
  <1>2. CASE ListSubscriptions(w)
    <2>1. Becomes(w, "querying", job[w], Resources, Nothing, read[w], pend[w]) /\ Typed'
      BY <1>0, <1>2, ListSubscriptionsEffect
    <2>2. row' = row /\ pc[w] = "listing"
      BY <1>2 DEF ListSubscriptions
    <2> QED BY <1>0, <1>a, <2>1, <2>2 DEF Becomes, Held, Whole
  <1>3. CASE QueryEnds(w)
    <2>1. /\ Typed'
          /\ Becomes(w, "upserting", job[w], DOMAIN scan[w], scan[w], read[w], pend[w])
      BY <1>0, <1>3, QueryEndsEffect
    <2>2. row' = row /\ pc[w] = "querying"
      BY <1>3 DEF QueryEnds
    <2> QED BY <1>0, <1>a, <2>1, <2>2 DEF Becomes, Held, Whole
  <1>4. CASE Complete(w)
    <2>1. /\ Typed'
          /\ Becomes(w, "projecting", job[w], DOMAIN scan[w], scan[w], read[w], Nothing)
      BY <1>0, <1>4, CompleteEffect
    <2>2. pc[w] = "upserting" /\ todo[w] = {} /\ row' = Written(w)
      BY <1>4 DEF Complete
    <2>3. DOMAIN row \subseteq DOMAIN row'
      BY <1>0, <2>2, WrittenFacts
    <2>4. DOMAIN read[w] = {} /\ read[w] = Nothing
      BY <1>0, <2>2, PartialEmpty, Same DEF Held
    <2> QED BY <1>0, <1>a, <2>1, <2>2, <2>3, <2>4 DEF Becomes, Held, Whole
  <1>5. CASE Rebuild(w)
    <2>1. Typed' /\ Becomes(w, "done", job[w], todo[w], scan[w], read[w], pend[w])
      BY <1>0, <1>5, RebuildEffect
    <2>2. row' = row /\ pc[w] = "projecting"
      BY <1>5 DEF Rebuild
    <2> QED BY <1>0, <2>1, <2>2 DEF Becomes, Held, Whole
  <1>6. CASE MarkFailed(w)
    <2>1. Typed' /\ Becomes(w, "idle", job[w], todo[w], scan[w], read[w], pend[w])
      BY <1>0, <1>6, MarkFailedEffect
    <2>2. row' = row /\ pc[w] = "failing"
      BY <1>6 DEF MarkFailed
    <2> QED BY <1>0, <2>1, <2>2 DEF Becomes, Held, Whole
  <1>7. CASE Abandons(w)
    <2> DEFINE p == IF Crash(w) THEN "idle" ELSE "failing"
    <2>1. /\ Typed' /\ Becomes(w, p, job[w], {}, scan[w], Nothing, Nothing) /\ row' = row
      BY <1>0, <1>7, AbandonsEffect
    <2>2. p \notin {"upserting", "projecting"}
      OBVIOUS
    <2> QED BY <1>a, <2>1, <2>2 DEF Becomes, Held, Whole
  <1>8. ASSUME NEW r \in Resources, QueryPage(w, r) PROVE Goal
    <2> DEFINE s == IF r \in DOMAIN azure THEN Put(scan[w], r, azure[r]) ELSE scan[w]
    <2>1. /\ Typed'
          /\ Becomes(w, pc[w], job[w], todo[w] \ {r}, s, read[w], pend[w])
      BY <1>0, <1>8, QueryPageEffect
    <2>2. row' = row /\ pc[w] = "querying"
      BY <1>8 DEF QueryPage
    <2> HIDE DEF s
    <2> QED BY <1>0, <1>a, <2>1, <2>2 DEF Becomes, Held, Whole
  <1>9. ASSUME NEW r \in Resources, ReadRow(w, r) PROVE Goal
    <2>1. PICK x \in Reads :
             /\ x.cols = {c \in Columns : (r \in DOMAIN row /\ ~rls) => row[r][c] # scan[w][r][c]}
             /\ Becomes(w, pc[w], job[w], todo[w], scan[w], Put(read[w], r, x), pend[w])
      BY <1>0, <1>9, ReadRowEffect
    <2>2. row' = row /\ pc[w] = "upserting" /\ r \in todo[w] /\ read[w] = Nothing /\ Typed'
      BY <1>0, <1>9, ReadRowEffect DEF ReadRow
    <2>3. DOMAIN Put(read[w], r, x) = {r} /\ Put(read[w], r, x)[r] = x
      <3>1. read[w] \in Partial(Reads) /\ DOMAIN read[w] = {}
        BY <1>0, <1>a, <2>2, Same
      <3>2. /\ DOMAIN Put(read[w], r, x) = DOMAIN read[w] \cup {r}
            /\ Put(read[w], r, x)[r] = x
        BY DEF Put
      <3> QED BY <3>1, <3>2
    <2>4. r \notin DOMAIN row => x.cols = Columns
      BY <2>1
    <2> QED BY <1>0, <2>1, <2>2, <2>3, <2>4 DEF Becomes, Held, Whole
  <1>10. ASSUME NEW r \in Resources, Flush(w, r) PROVE Goal
    <2> DEFINE pe == Put(pend[w], r, read[w][r].cols)
    <2>1. /\ Typed' /\ read[w][r] \in Reads
          /\ Becomes(w, pc[w], job[w], todo[w] \ {r}, scan[w], Nothing, pe)
      BY <1>0, <1>10, FlushEffect
    <2>2. row' = row /\ r \in DOMAIN read[w]
      BY <1>10 DEF Flush
    <2>3. pc[w] = "upserting"
      BY <1>0, <1>a, <2>2 DEF Held
    <2>4. /\ DOMAIN pe = DOMAIN pend[w] \cup {r} /\ pe[r] = read[w][r].cols
          /\ \A s \in DOMAIN pend[w] : s # r => pe[s] = pend[w][s]
      BY DEF Put
    <2> HIDE DEF pe
    <2>5. Held(w)'
      BY <1>0, <1>a, <2>1, <2>2, <2>3, <2>4 DEF Becomes, Held
    <2>6. Whole(w)'
      BY <1>0, <1>a, <2>1, <2>2, <2>3, <2>4 DEF Becomes, Whole
    <2> QED BY <2>1, <2>2, <2>5, <2>6 DEF Becomes
  <1>11. ASSUME NEW r \in Resources, Project(w, r) PROVE Goal
    <2>1. Typed' /\ Becomes(w, pc[w], job[w], todo[w] \ {r}, scan[w], read[w], pend[w])
      BY <1>0, <1>11, ProjectEffect
    <2>2. row' = row /\ pc[w] = "projecting"
      BY <1>11 DEF Project
    <2> QED BY <1>0, <1>a, <2>1, <2>2 DEF Becomes, Held, Whole
  <1> QED BY <1>1, <1>b, <1>c, <1>2, <1>3, <1>4, <1>5, <1>6, <1>7, <1>8, <1>9, <1>10, <1>11, WorkerSteps

\* The environment leaves the workers and the rows alone.
LEMMA EnvironmentLeaves ==
    ASSUME Environment
    PROVE  UNCHANGED <<workerVars, row, graphVars, rls, faults, crashes, exposed>>
  BY DEF Environment, Discover, Request, AzureDelete, AzureChange, apiVars, graphVars,
         boundVars, historyVars

LEMMA TInvStep ==
    ASSUME TInv, [Next]_vars
    PROVE  TInv'
  <1>1. CASE Environment
    <2>1. Typed' /\ Versioned'
      BY <1>1, EnvironmentTyped DEF TInv
    <2>2. UNCHANGED <<pc, todo, scan, read, pend, row>>
      BY <1>1, EnvironmentLeaves DEF workerVars
    <2>3. \A w \in Workers : Held(w)' /\ Whole(w)'
      BY <2>2 DEF TInv, Held, Whole
    <2> QED BY <2>1, <2>3 DEF TInv
  <1>2. ASSUME NEW w \in Workers, Run(w) \/ Trouble(w) PROVE TInv'
    <2>1. /\ Typed' /\ Alone(w) /\ DOMAIN row \subseteq DOMAIN row'
          /\ Held(w)' /\ Whole(w)'
      BY <1>2, HeldOwn
    <2>2. \A v \in Workers \ {w} : Held(v)' /\ Whole(v)'
      BY <2>1, HeldOthers DEF TInv
    <2>3. Versioned'
      BY <1>2, WorkerLeaves DEF TInv, Versioned
    <2> QED BY <2>1, <2>2, <2>3 DEF TInv
  <1>3. ASSUME NEW q \in abandoned, Late(q) PROVE TInv'
    <2>1. Typed' /\ UNCHANGED <<apiVars, row, azure, workerVars, boundVars, historyVars>>
      BY <1>3, LateEffect DEF TInv
    <2>2. \A w \in Workers : Held(w)' /\ Whole(w)'
      BY <2>1 DEF TInv, Held, Whole, workerVars
    <2> QED BY <2>1, <2>2 DEF TInv, Versioned, boundVars
  <1>4. CASE UNCHANGED vars
    BY <1>4 DEF TInv, Typed, Versioned, Held, Whole, vars, apiVars, graphVars, workerVars,
            boundVars, historyVars
  <1> QED BY <1>1, <1>2, <1>3, <1>4 DEF Next

\* The tables, the graph and what the workers hold are well formed in every
\* reachable state: no column ever passes the number of changes, and a commit
\* of upsert_resource never leaves a row with a missing column.
THEOREM TypeCorrect == Spec => []TypeOK
  <1>1. Init => TInv
    BY TypedInit
  <1>2. TInv /\ [Next]_vars => TInv'
    BY TInvStep
  <1>3. TInv => TypeOK
    <2> SUFFICES ASSUME Typed PROVE TypeOK
      BY DEF TInv
    <2>1. \A S : \A f \in Partial(S) : PartialOn(f, S)
      BY PartialFacts DEF PartialOn
    <2>2. /\ PartialOn(row, Contents) /\ PartialOn(azure, Contents)
          /\ PartialOn(node, 0..MaxChanges)
      BY <2>1 DEF Typed
    <2>3. \A w \in Workers : /\ PartialOn(scan[w], Contents) /\ PartialOn(read[w], Reads)
                             /\ PartialOn(pend[w], SUBSET Columns)
      BY <2>1, Same
    <2>4. \A q \in abandoned : /\ q.job \in 0..NumJobs /\ PartialOn(q.src, 0..MaxChanges)
                               /\ q.target \subseteq DOMAIN q.src
      BY <2>1 DEF Typed, Sent
    <2> QED BY <2>2, <2>3, <2>4 DEF Typed, TypeOK
  <1> QED BY <1>1, <1>2, <1>3, PTL DEF Spec

-----------------------------------------------------------------------------
(* A job is handed out once.                                               *)

\* What the argument needs of a worker: its phase and its job.
Owns(w) ==
    /\ job[w] \in Jobs => status[job[w]] # "none"
    /\ job[w] \in Jobs /\ pc[w] # "claiming" => status[job[w]] # "queued"
    /\ pc[w] # "idle" => job[w] \in Jobs
    /\ pc[w] = "failing" => status[job[w]] \in {"running", "completed"}
    /\ pc[w] = "claiming" => status[job[w]] = "queued"
    /\ pc[w] \in {"listing", "querying", "upserting"} => status[job[w]] = "running"
    /\ pc[w] \in {"projecting", "done"} => status[job[w]] = "completed"

Busy(w) == pc[w] \notin {"idle", "done"}

LEMMA OwnsMeans ==
    Claimed /\ JobExclusive <=>
        /\ \A w \in Workers : Owns(w)
        /\ \A w \in Workers : Busy(w) => \A v \in Workers \ {w} : job[v] # job[w]
  BY DEF Claimed, JobExclusive, Owns, Busy

\* The job of a step: the worker's own, or one that waits and is not selected.
Mine(w, j) ==
    \/ Busy(w) /\ job[w] = j
    \/ status[j] = "queued" /\ \A v \in Workers : pc[v] = "claiming" => job[v] # j

\* A step that touches only a job which is the worker's own, or waits.  After it
\* the worker has this job, or none.
LEMMA OwnStep ==
    ASSUME NEW w \in Workers, Alone(w), \A v \in Workers : Owns(v),
           \A u \in Workers : Busy(u) => \A v \in Workers \ {u} : job[v] # job[u],
           NEW j \in Jobs, job'[w] \in {0, j}, Mine(w, j),
           \A k \in Jobs \ {j} : status'[k] = status[k],
           Owns(w)'
    PROVE  /\ \A v \in Workers : Owns(v)'
           /\ \A u \in Workers : Busy(u)' => \A v \in Workers \ {u} : job'[v] # job'[u]
  <1>0. 0 \notin Jobs
    BY NumJobsAssumption DEF Jobs
  <1>1. \A v \in Workers \ {w} : /\ pc'[v] = pc[v] /\ job'[v] = job[v]
    BY DEF Alone
  <1>2. \A v \in Workers \ {w} : job[v] # j
    BY DEF Owns, Mine
  <1>3. \A v \in Workers \ {w} : Owns(v)'
    BY <1>1, <1>2 DEF Owns
  <1>4. ASSUME NEW u \in Workers, Busy(u)', NEW v \in Workers \ {u} PROVE job'[v] # job'[u]
    <2>1. CASE u = w
      <3>1. job'[w] = j
        BY <1>0, <1>4, <2>1 DEF Owns, Busy
      <3> QED BY <1>1, <1>2, <2>1, <3>1
    <2>2. CASE u # w
      <3>1. Busy(u) /\ job'[u] = job[u]
        BY <1>1, <1>4, <2>2 DEF Busy
      <3>2. job[u] \in Jobs /\ job[u] # j
        BY <1>2, <2>2, <3>1 DEF Owns, Busy
      <3>3. CASE v = w
        BY <1>0, <3>1, <3>2, <3>3
      <3>4. CASE v # w
        BY <1>1, <3>1, <3>4
      <3> QED BY <3>3, <3>4
    <2> QED BY <2>1, <2>2
  <1> QED BY <1>3, <1>4

\* Every step of a worker is such a step.
LEMMA WorkerOwns ==
    ASSUME TInv, NEW w \in Workers, Owns(w), Run(w) \/ Trouble(w)
    PROVE  \E j \in Jobs : /\ job'[w] \in {0, j} /\ Mine(w, j)
                           /\ \A k \in Jobs \ {j} : status'[k] = status[k]
                           /\ Owns(w)'
  <1> DEFINE Goal == \E j \in Jobs :
                        /\ job'[w] \in {0, j} /\ Mine(w, j)
                        /\ \A k \in Jobs \ {j} : status'[k] = status[k]
                        /\ Owns(w)'
  <1>0. Typed /\ Held(w) /\ Whole(w) /\ status \in [Jobs -> Statuses]
    BY DEF TInv, Typed
  <1>a. DOMAIN Nothing = {}
    BY PartialNothing
  <1>1. CASE SelectJob(w)
    <2>1. PICK j \in Jobs : /\ status[j] = "queued"
                            /\ \A v \in Workers : pc[v] = "claiming" => job[v] # j
                            /\ Becomes(w, "claiming", j, todo[w], scan[w], read[w], pend[w])
      BY <1>0, <1>1, SelectJobEffect
    <2>2. status' = status
      BY <1>1 DEF SelectJob, apiVars
    <2>3. Owns(w)' /\ job'[w] = j
      BY <2>1, <2>2 DEF Becomes, Owns
    <2> QED BY <2>1, <2>2, <2>3 DEF Mine
  <1>c. CASE Claim(w)
    <2>1. Becomes(w, "listing", job[w], todo[w], scan[w], read[w], pend[w])
      BY <1>0, <1>c, ClaimEffect
    <2>2. pc[w] = "claiming" /\ status' = [status EXCEPT ![job[w]] = "running"]
      BY <1>c DEF Claim
    <2>3. job[w] \in Jobs /\ Busy(w)
      BY <2>2 DEF Owns, Busy
    <2>4. status'[job[w]] = "running" /\ \A k \in Jobs \ {job[w]} : status'[k] = status[k]
      BY <1>0, <2>2, <2>3
    <2>5. Owns(w)' /\ job'[w] = job[w]
      BY <2>1, <2>3, <2>4 DEF Becomes, Owns
    <2> QED BY <2>3, <2>4, <2>5 DEF Mine
  <1>d. CASE Unclaim(w)
    <2>1. Becomes(w, "idle", 0, todo[w], scan[w], read[w], pend[w])
      BY <1>0, <1>d, UnclaimEffect
    <2>2. pc[w] = "claiming" /\ status' = status
      BY <1>d DEF Unclaim, apiVars
    <2>3. job[w] \in Jobs /\ Busy(w) /\ 0 \notin Jobs
      BY <2>2, NumJobsAssumption DEF Owns, Busy, Jobs
    <2>4. Owns(w)' /\ job'[w] = 0
      BY <2>1, <2>3 DEF Becomes, Owns
    <2> QED BY <2>2, <2>3, <2>4 DEF Mine
  <1>b. ASSUME Busy(w), pc[w] # "claiming", pc'[w] # "claiming", job'[w] = job[w], status' = status,
               pc'[w] \in {"listing", "querying", "upserting"} => status[job[w]] = "running",
               pc'[w] \in {"projecting", "done"} => status[job[w]] = "completed",
               pc'[w] = "failing" => pc[w] # "idle"
        PROVE  Goal
    <2>1. job[w] \in Jobs /\ status[job[w]] \in {"running", "completed"}
      <3>1. pc[w] \in Phases
        BY <1>0, Same
      <3> QED BY <1>b, <3>1 DEF Owns, Busy, Phases
    <2>2. Owns(w)'
      BY <1>b, <2>1 DEF Owns
    <2> QED BY <1>b, <2>1, <2>2 DEF Mine
  <1>2. CASE ListSubscriptions(w)
    <2>1. Becomes(w, "querying", job[w], Resources, Nothing, read[w], pend[w])
      BY <1>0, <1>2, ListSubscriptionsEffect
    <2>2. status' = status /\ pc[w] = "listing"
      BY <1>2 DEF ListSubscriptions
    <2> QED BY <1>b, <2>1, <2>2 DEF Becomes, Owns, Busy
  <1>3. CASE QueryEnds(w)
    <2>1. Becomes(w, "upserting", job[w], DOMAIN scan[w], scan[w], read[w], pend[w])
      BY <1>0, <1>3, QueryEndsEffect
    <2>2. status' = status /\ pc[w] = "querying"
      BY <1>3 DEF QueryEnds, apiVars
    <2> QED BY <1>b, <2>1, <2>2 DEF Becomes, Owns, Busy
  <1>4. CASE Complete(w)
    <2>1. Becomes(w, "projecting", job[w], DOMAIN scan[w], scan[w], read[w], Nothing)
      BY <1>0, <1>4, CompleteEffect
    <2>2. pc[w] = "upserting" /\ status' = [status EXCEPT ![job[w]] = "completed"]
      BY <1>4 DEF Complete
    <2>3. job[w] \in Jobs /\ Busy(w)
      BY <2>2 DEF Owns, Busy
    <2>4. status'[job[w]] = "completed" /\ \A k \in Jobs \ {job[w]} : status'[k] = status[k]
      BY <1>0, <2>2, <2>3
    <2>5. Owns(w)' /\ job'[w] = job[w]
      BY <2>1, <2>3, <2>4 DEF Becomes, Owns
    <2> QED BY <2>3, <2>4, <2>5 DEF Mine
  <1>5. CASE Rebuild(w)
    <2>1. Becomes(w, "done", job[w], todo[w], scan[w], read[w], pend[w])
      BY <1>0, <1>5, RebuildEffect
    <2>2. status' = status /\ pc[w] = "projecting"
      BY <1>5 DEF Rebuild, apiVars
    <2> QED BY <1>b, <2>1, <2>2 DEF Becomes, Owns, Busy
  <1>6. CASE MarkFailed(w)
    <2>1. Becomes(w, "idle", job[w], todo[w], scan[w], read[w], pend[w])
      BY <1>0, <1>6, MarkFailedEffect
    <2>2. pc[w] = "failing" /\ status' = [status EXCEPT ![job[w]] = "failed"]
      BY <1>6 DEF MarkFailed
    <2>3. job[w] \in Jobs /\ Busy(w)
      BY <2>2 DEF Owns, Busy
    <2>4. status'[job[w]] = "failed" /\ \A k \in Jobs \ {job[w]} : status'[k] = status[k]
      BY <1>0, <2>2, <2>3
    <2>5. Owns(w)' /\ job'[w] = job[w]
      BY <2>1, <2>3, <2>4 DEF Becomes, Owns
    <2> QED BY <2>3, <2>4, <2>5 DEF Mine
  <1>7. CASE Abandons(w)
    <2> DEFINE p == IF Crash(w) THEN "idle" ELSE "failing"
    <2>1. Becomes(w, p, job[w], {}, scan[w], Nothing, Nothing) /\ status' = status
      BY <1>0, <1>7, AbandonsEffect DEF apiVars
    <2>2. p \in {"idle", "failing"}
      OBVIOUS
    <2>3. Working(w) \/ pc[w] = "failing"
      <3>1. Working(w) \/ pc[w] = "failing" \/ DOMAIN read[w] # {}
        BY <1>7 DEF Abandons, Fault, GiveUp, InFlight, Crash, DeadlockVictim, FlushRejected,
                    Waits, Working
      <3> QED BY <1>0, <1>a, <3>1 DEF Held, Working
    <2> HIDE DEF p
    <2>4. job'[w] = job[w] /\ pc'[w] \in {"idle", "failing"}
      BY <2>1, <2>2 DEF Becomes
    <2>5. Busy(w) /\ pc[w] # "claiming" /\ pc[w] # "idle"
      BY <2>3 DEF Busy, Working
    <2> QED BY <1>b, <2>1, <2>4, <2>5
  <1>8. ASSUME NEW r \in Resources, QueryPage(w, r) PROVE Goal
    <2> DEFINE s == IF r \in DOMAIN azure THEN Put(scan[w], r, azure[r]) ELSE scan[w]
    <2>1. Becomes(w, pc[w], job[w], todo[w] \ {r}, s, read[w], pend[w])
      BY <1>0, <1>8, QueryPageEffect
    <2>2. status' = status /\ pc[w] = "querying"
      BY <1>8 DEF QueryPage, apiVars
    <2> HIDE DEF s
    <2> QED BY <1>b, <2>1, <2>2 DEF Becomes, Owns, Busy
  <1>9. ASSUME NEW r \in Resources, ReadRow(w, r) \/ Flush(w, r) PROVE Goal
    <2>1. pc'[w] = pc[w] /\ job'[w] = job[w]
      BY <1>0, <1>9, ReadRowEffect, FlushEffect DEF Becomes
    <2>2. status' = status
      BY <1>9 DEF ReadRow, Flush, apiVars
    <2>3. pc[w] = "upserting"
      BY <1>0, <1>9, <1>a DEF ReadRow, Flush, Held
    <2> QED BY <1>b, <2>1, <2>2, <2>3 DEF Owns, Busy
  <1>10. ASSUME NEW r \in Resources, Project(w, r) PROVE Goal
    <2>1. pc'[w] = pc[w] /\ job'[w] = job[w]
      BY <1>0, <1>10, ProjectEffect DEF Becomes
    <2>2. status' = status /\ pc[w] = "projecting"
      BY <1>10 DEF Project, apiVars
    <2> QED BY <1>b, <2>1, <2>2 DEF Owns, Busy
  <1>11. \A r \in Resources :
            QueryPage(w, r) \/ ReadRow(w, r) \/ Flush(w, r) \/ Project(w, r) => Goal
    <2> HIDE DEF Goal
    <2> QED BY <1>8, <1>9, <1>10
  <1>12. SelectJob(w) \/ Claim(w) \/ Unclaim(w) \/ ListSubscriptions(w) \/ QueryEnds(w)
         \/ Complete(w) \/ Rebuild(w) \/ MarkFailed(w) \/ Abandons(w) => Goal
    BY <1>1, <1>c, <1>d, <1>2, <1>3, <1>4, <1>5, <1>6, <1>7
  <1>13. Goal
    <2> HIDE DEF Goal
    <2> QED BY <1>11, <1>12, WorkerSteps
  <1> QED BY <1>13

LEMMA JInvInit ==
    ASSUME Init
    PROVE  JInv
  <1>1. \A w \in Workers : pc[w] = "idle" /\ job[w] = 0
    BY DEF Init
  <1>2. 0 \notin Jobs
    BY NumJobsAssumption DEF Jobs
  <1>3. Claimed /\ JobExclusive
    BY <1>1, <1>2 DEF Claimed, JobExclusive
  <1> QED BY <1>3, TypedInit DEF JInv

LEMMA JInvStep ==
    ASSUME JInv, [Next]_vars
    PROVE  JInv'
  <1>1. TInv'
    BY TInvStep DEF JInv
  <1>2. /\ \A v \in Workers : Owns(v)
        /\ \A u \in Workers : Busy(u) => \A v \in Workers \ {u} : job[v] # job[u]
    BY OwnsMeans DEF JInv
  <1> SUFFICES /\ \A v \in Workers : Owns(v)'
               /\ \A u \in Workers : Busy(u)' => \A v \in Workers \ {u} : job'[v] # job'[u]
    BY <1>1 DEF JInv, Claimed, JobExclusive, Owns, Busy
  <1>3. ASSUME NEW w \in Workers, Run(w) \/ Trouble(w)
        PROVE  /\ \A v \in Workers : Owns(v)'
               /\ \A u \in Workers : Busy(u)' => \A v \in Workers \ {u} : job'[v] # job'[u]
    <2>1. Alone(w)
      BY <1>3, HeldOwn DEF JInv
    <2>2. TInv /\ Owns(w)
      BY <1>2 DEF JInv
    <2>3. PICK j \in Jobs : /\ job'[w] \in {0, j} /\ Mine(w, j)
                            /\ \A k \in Jobs \ {j} : status'[k] = status[k]
                            /\ Owns(w)'
      BY <1>3, <2>2, WorkerOwns
    <2> QED BY <1>2, <2>1, <2>3, OwnStep
  <1>4. ASSUME pc' = pc, job' = job, status' = status
        PROVE  /\ \A v \in Workers : Owns(v)'
               /\ \A u \in Workers : Busy(u)' => \A v \in Workers \ {u} : job'[v] # job'[u]
    BY <1>2, <1>4 DEF Owns, Busy
  <1>5. CASE Environment
    <2>1. pc' = pc /\ job' = job
      BY <1>5, EnvironmentLeaves DEF workerVars
    <2>2. ASSUME NEW j \in Jobs, Request(j)
          PROVE  \A v \in Workers : Owns(v)'
      <3>1. status[j] = "none" /\ \A k \in Jobs \ {j} : status'[k] = status[k]
        BY <2>2 DEF Request, JInv, TInv, Typed
      <3>2. \A v \in Workers : job[v] # j
        BY <1>2, <3>1 DEF Owns
      <3> QED BY <1>2, <2>1, <3>1, <3>2 DEF Owns
    <2>3. (\E j \in Jobs : Request(j)) \/ status' = status
      BY <1>5 DEF Environment, Discover, AzureDelete, AzureChange, apiVars
    <2>4. \A u \in Workers : Busy(u)' => \A v \in Workers \ {u} : job'[v] # job'[u]
      BY <1>2, <2>1 DEF Busy
    <2> QED BY <1>4, <2>1, <2>2, <2>3, <2>4
  <1>6. ASSUME NEW q \in abandoned, Late(q)
        PROVE  pc' = pc /\ job' = job /\ status' = status
    BY <1>6, LateEffect DEF JInv, TInv, apiVars, workerVars
  <1>7. CASE UNCHANGED vars
    BY <1>4, <1>7 DEF vars, apiVars, workerVars
  <1> QED BY <1>3, <1>4, <1>5, <1>6, <1>7 DEF Next

\* claim_job hands a job out once, however many workers poll at the same moment,
\* fail and crash:
\* nobody else holds the job a worker works on, and the job's status says how
\* far its worker got.
THEOREM JobExclusiveTheorem == Spec => []JobExclusive
  <1>1. Init => JInv
    BY JInvInit
  <1>2. JInv /\ [Next]_vars => JInv'
    BY JInvStep
  <1> QED BY <1>1, <1>2, PTL DEF Spec, JInv

-----------------------------------------------------------------------------
(* Row level security.                                                     *)

\* What a worker holds under row level security.
Barred(w) ==
    /\ pend[w] = Nothing
    /\ pc[w] = "projecting" => todo[w] = {}
    /\ pc[w] \in {"projecting", "done"} => scan[w] = Nothing

LEMMA NothingServed ==
    ASSUME Typed, node = Nothing, NEW q \in Sent, q.target = {}, Serve(q)
    PROVE  node' = Nothing
  <1>1. node' \in Partial(0..MaxChanges) /\ DOMAIN node' = {}
    BY ServeFacts, PartialNothing
  <1> QED BY <1>1, PartialEmpty

LEMMA BarredOwn ==
    ASSUME TInv, rls, row = Nothing, node = Nothing, \A q \in abandoned : q.target = {},
           NEW w \in Workers, Barred(w), Run(w) \/ Trouble(w)
    PROVE  /\ Barred(w)' /\ row' = Nothing /\ node' = Nothing
           /\ \A q \in abandoned' : q.target = {}
  <1> DEFINE Goal == /\ Barred(w)' /\ row' = Nothing /\ node' = Nothing
                     /\ \A q \in abandoned' : q.target = {}
  <1>0. Typed /\ Held(w) /\ Whole(w)
    BY DEF TInv
  <1>1. CASE SelectJob(w)
    BY <1>0, <1>1, SelectJobEffect DEF SelectJob, graphVars, Barred, Becomes
  <1>b. CASE Claim(w)
    BY <1>0, <1>b, ClaimEffect DEF Claim, graphVars, Barred, Becomes
  <1>c. CASE Unclaim(w)
    BY <1>0, <1>c, UnclaimEffect DEF Unclaim, graphVars, Barred, Becomes
  <1>2. CASE ListSubscriptions(w)
    BY <1>0, <1>2, ListSubscriptionsEffect DEF ListSubscriptions, graphVars, Barred, Becomes
  <1>3. CASE QueryEnds(w)
    BY <1>0, <1>3, QueryEndsEffect DEF QueryEnds, graphVars, Barred, Becomes
  <1>4. CASE Complete(w)
    <2>1. Becomes(w, "projecting", job[w], DOMAIN scan[w], scan[w], read[w], Nothing)
      BY <1>0, <1>4, CompleteEffect
    <2>2. /\ pc[w] = "upserting" /\ todo[w] = {} /\ pend[w] = Nothing
          /\ row' = Written(w) /\ node' = node /\ abandoned' = abandoned
      BY <1>4 DEF Complete, graphVars, Barred
    <2>3. DOMAIN Nothing = {}
      BY PartialNothing
    <2>4. DOMAIN scan[w] = {}
      BY <1>0, <2>2, <2>3 DEF Held
    <2>5. scan[w] = Nothing
      BY <1>0, <2>4, PartialEmpty, Same
    <2>6. DOMAIN Written(w) = {} /\ Written(w) \in Partial(Contents)
      BY <1>0, <2>2, <2>3, WrittenFacts
    <2>7. Written(w) = Nothing
      BY <2>6, PartialEmpty
    <2> QED BY <2>1, <2>2, <2>4, <2>5, <2>7 DEF Barred, Becomes
  <1>5. CASE Rebuild(w)
    <2>1. Listed(RebuildRequest(w)) \in Sent /\ Listed(RebuildRequest(w)).target = {}
      BY <1>0, RequestFacts, ListedFacts
    <2>2. Serve(Listed(RebuildRequest(w))) /\ row' = row /\ abandoned' = abandoned
          /\ pc[w] = "projecting"
      BY <1>5 DEF Rebuild
    <2>3. node' = Nothing
      BY <1>0, <2>1, <2>2, NothingServed
    <2>4. Becomes(w, "done", job[w], todo[w], scan[w], read[w], pend[w])
      BY <1>0, <1>5, RebuildEffect
    <2> QED BY <2>2, <2>3, <2>4 DEF Barred, Becomes
  <1>6. CASE MarkFailed(w)
    BY <1>0, <1>6, MarkFailedEffect DEF MarkFailed, graphVars, Barred, Becomes
  <1>7. CASE Abandons(w)
    <2> DEFINE p == IF Crash(w) THEN "idle" ELSE "failing"
    <2>1. /\ Becomes(w, p, job[w], {}, scan[w], Nothing, Nothing)
          /\ row' = row /\ node' = node /\ abandoned' \subseteq abandoned \cup InFlight(w)
      BY <1>0, <1>7, AbandonsEffect
    <2>2. p \notin {"projecting", "done"}
      OBVIOUS
    <2>3. \A q \in InFlight(w) : q.target = {}
      BY RequestFacts, <1>0 DEF InFlight, Barred
    <2> HIDE DEF p
    <2> QED BY <2>1, <2>2, <2>3 DEF Barred, Becomes
  <1>8. ASSUME NEW r \in Resources, QueryPage(w, r) PROVE Goal
    <2> DEFINE s == IF r \in DOMAIN azure THEN Put(scan[w], r, azure[r]) ELSE scan[w]
    <2>1. Becomes(w, pc[w], job[w], todo[w] \ {r}, s, read[w], pend[w])
      BY <1>0, <1>8, QueryPageEffect
    <2> HIDE DEF s
    <2> QED BY <1>8, <2>1 DEF QueryPage, graphVars, Barred, Becomes
  <1>9. ASSUME NEW r \in Resources, ReadRow(w, r) PROVE Goal
    BY <1>0, <1>9, ReadRowEffect DEF ReadRow, graphVars, Barred, Becomes
  <1>10. ASSUME NEW r \in Resources, Flush(w, r) PROVE Goal
    BY <1>10 DEF Flush
  <1>11. ASSUME NEW r \in Resources, Project(w, r) PROVE Goal
    BY <1>11 DEF Project, Barred
  <1> QED BY <1>1, <1>b, <1>c, <1>2, <1>3, <1>4, <1>5, <1>6, <1>7, <1>8, <1>9, <1>10, <1>11, WorkerSteps

LEMMA RInvStep ==
    ASSUME RInv, [Next]_vars
    PROVE  RInv'
  <1>1. TInv' /\ TInv
    BY TInvStep DEF RInv
  <1>2. rls' = rls
    <2>1. CASE Environment
      BY <2>1, EnvironmentLeaves
    <2>2. ASSUME NEW w \in Workers, Run(w) \/ Trouble(w) PROVE rls' = rls
      BY <2>2, WorkerLeaves
    <2>3. ASSUME NEW q \in abandoned, Late(q) PROVE rls' = rls
      BY <1>1, <2>3, LateEffect DEF TInv, apiVars
    <2> QED BY <2>1, <2>2, <2>3 DEF Next, vars, apiVars
  <1>3. CASE ~rls
    BY <1>1, <1>2, <1>3 DEF RInv, Hidden, NoTargets, RlsStopsSync
  <1>4. CASE rls
    <2> DEFINE Kept == /\ row = Nothing /\ node = Nothing
                       /\ \A q \in abandoned : q.target = {}
                       /\ \A v \in Workers : Barred(v)
    <2>1. Kept
      BY <1>4 DEF RInv, Hidden, NoTargets, RlsStopsSync, Barred
    <2>2. ASSUME row' = row, UNCHANGED graphVars, UNCHANGED workerVars PROVE Kept'
      BY <2>1, <2>2 DEF graphVars, workerVars, Barred
    <2>3. ASSUME NEW w \in Workers, Run(w) \/ Trouble(w) PROVE Kept'
      <3>1. /\ Barred(w)' /\ row' = Nothing /\ node' = Nothing
            /\ \A q \in abandoned' : q.target = {}
        BY <1>1, <1>4, <2>1, <2>3, BarredOwn
      <3>2. Alone(w)
        BY <1>1, <2>3, HeldOwn
      <3>3. \A v \in Workers \ {w} : Barred(v)'
        BY <2>1, <3>2 DEF Alone, Barred
      <3> QED BY <3>1, <3>3
    <2>4. ASSUME NEW q \in abandoned, Late(q) PROVE Kept'
      <3>1. /\ UNCHANGED <<row, workerVars>>
            /\ UNCHANGED <<node, edges>> \/ Serve(q)
            /\ \A p \in abandoned' \ abandoned : p.target = {}
        BY <1>1, <2>4, LateEffect DEF TInv
      <3>2. q \in Sent /\ q.target = {}
        BY <1>1, <2>1 DEF TInv, Typed
      <3>3. node' = Nothing
        BY <1>1, <2>1, <3>1, <3>2, NothingServed DEF TInv
      <3>4. \A v \in Workers : Barred(v)'
        BY <2>1, <3>1 DEF workerVars, Barred
      <3> QED BY <2>1, <3>1, <3>3, <3>4
    <2>5. Environment \/ UNCHANGED vars => row' = row /\ UNCHANGED graphVars /\ UNCHANGED workerVars
      BY EnvironmentLeaves DEF vars
    <2>6. Kept'
      BY <2>2, <2>3, <2>4, <2>5 DEF Next
    <2> QED BY <1>1, <2>6 DEF RInv, Hidden, NoTargets, RlsStopsSync, Barred
  <1> QED BY <1>3, <1>4

\* If row level security applies to the workers' role, no sync job ever writes
\* a row or a node, however many workers try and however often: the policies
\* of schema.sql compare with app.tenant_id, which the workers never set.
THEOREM RlsStopsSyncTheorem == Spec => []RlsStopsSync
  <1>1. Init => RInv
    <2> SUFFICES ASSUME Init PROVE RInv
      OBVIOUS
    <2>1. \A w \in Workers : pc[w] = "idle" /\ pend[w] = Nothing
      BY DEF Init
    <2>2. row = Nothing /\ node = Nothing /\ abandoned = {}
      BY DEF Init
    <2> QED BY <2>1, <2>2, TypedInit DEF RInv, Hidden, NoTargets, RlsStopsSync
  <1>2. RInv /\ [Next]_vars => RInv'
    BY RInvStep
  <1> QED BY <1>1, <1>2, PTL DEF Spec, RInv

-----------------------------------------------------------------------------
(* One worker: the rows and the graph.                                     *)

\* GraphFollowsInventory, for one worker.
Follows(w) ==
    pc[w] = "done" =>
        /\ DOMAIN scan[w] \subseteq DOMAIN node
        /\ \A r \in DOMAIN scan[w] \ exposed[w] :
              /\ node[r] = row[r]["properties"]
              /\ \A x \in DOMAIN scan[w] : <<r, x>> \in edges <=> <<r, x>> \in Implied

Good(w) == Upserts(w) /\ Scans(w) /\ Projects(w) /\ Exposes(w) /\ Follows(w)

OInv ==
    /\ JInv /\ Forward /\ \A w \in Workers : Good(w)
    /\ RowsWereShown /\ CompletedIsFresh

\* The Deployment of the worker has one replica and no rollout is under way.
OneWorker == \A v, w \in Workers : v = w

LEMMA NotOlderFacts ==
    /\ \A x \in Contents : NotOlder(x, x)
    /\ \A x, y, z \in Contents : NotOlder(x, y) /\ NotOlder(y, z) => NotOlder(x, z)
  <1>1. \A x \in Contents : \A c \in Columns : x[c] \in Int
    BY MaxChangesAssumption DEF Contents
  <1> QED BY <1>1 DEF NotOlder

\* How Azure and the API go on: resources only get newer, or go.
LEMMA EnvironmentForward ==
    ASSUME Typed, Forward, Environment
    PROVE  /\ DOMAIN azure' \subseteq DOMAIN azure
           /\ \A r \in DOMAIN azure' : NotOlder(azure'[r], azure[r])
           /\ \A r \in DOMAIN azure' : azure'[r] \in shown'[r]
           /\ \A r \in Resources : shown[r] \subseteq shown'[r]
           /\ \A j \in Jobs : \/ asked'[j] = asked[j] /\ status'[j] = status[j]
                              \/ asked'[j] = azure /\ status'[j] = "queued"
  <1> DEFINE Goal ==
        /\ DOMAIN azure' \subseteq DOMAIN azure
        /\ \A r \in DOMAIN azure' : NotOlder(azure'[r], azure[r])
        /\ \A r \in DOMAIN azure' : azure'[r] \in shown'[r]
        /\ \A r \in Resources : shown[r] \subseteq shown'[r]
        /\ \A j \in Jobs : \/ asked'[j] = asked[j] /\ status'[j] = status[j]
                           \/ asked'[j] = azure /\ status'[j] = "queued"
  <1>0. DOMAIN azure \subseteq Resources /\ \A r \in DOMAIN azure : azure[r] \in Contents
    BY PartialFacts DEF Typed
  <1>a. \A r \in DOMAIN azure : NotOlder(azure[r], azure[r])
    BY <1>0, NotOlderFacts
  <1>1. ASSUME NEW r \in Resources, NEW cols \in SUBSET Columns, AzureChange(r, cols)
        PROVE  Goal
    <2> DEFINE new == [c \in Columns |-> azure[r][c] + (IF c \in cols THEN 1 ELSE 0)]
    <2>1. /\ r \in DOMAIN azure /\ azure' = [azure EXCEPT ![r] = new]
          /\ shown' = [shown EXCEPT ![r] = shown[r] \cup {new}]
          /\ status' = status /\ asked' = asked
      BY <1>1 DEF AzureChange, Typed, apiVars
    <2>2. \A c \in Columns : azure[r][c] \in Int
      BY <1>0, <2>1, MaxChangesAssumption DEF Contents
    <2>3. \A c \in Columns : new[c] >= azure[r][c]
      BY <2>2
    <2>4. NotOlder(new, azure[r])
      BY <2>3 DEF NotOlder
    <2> HIDE DEF new
    <2>5. /\ DOMAIN azure' = DOMAIN azure /\ azure'[r] = new
          /\ \A s \in DOMAIN azure : s # r => azure'[s] = azure[s]
      BY <2>1
    <2>6. /\ shown'[r] = shown[r] \cup {new}
          /\ \A s \in Resources : s # r => shown'[s] = shown[s]
      BY <2>1 DEF Typed
    <2>7. \A s \in DOMAIN azure' : NotOlder(azure'[s], azure[s])
      BY <1>a, <2>4, <2>5
    <2>8. \A s \in DOMAIN azure' : azure'[s] \in shown'[s]
      BY <1>0, <2>5, <2>6 DEF Forward
    <2>9. \A s \in Resources : shown[s] \subseteq shown'[s]
      BY <2>6
    <2> QED BY <2>1, <2>5, <2>7, <2>8, <2>9
  <1>2. ASSUME NEW r \in Resources, AzureDelete(r) PROVE Goal
    <2>1. /\ azure' = [s \in DOMAIN azure \ {r} |-> azure[s]]
          /\ status' = status /\ asked' = asked /\ shown' = shown
      BY <1>2 DEF AzureDelete, apiVars, historyVars
    <2>2. DOMAIN azure' \subseteq DOMAIN azure /\ \A s \in DOMAIN azure' : azure'[s] = azure[s]
      BY <2>1
    <2> QED BY <1>a, <2>1, <2>2 DEF Forward
  <1>3. CASE Discover
    BY <1>3, <1>a DEF Discover, historyVars, Forward
  <1>4. ASSUME NEW j \in Jobs, Request(j) PROVE Goal
    <2>1. /\ azure' = azure /\ shown' = shown
          /\ asked'[j] = azure /\ status'[j] = "queued"
          /\ \A k \in Jobs : k # j => asked'[k] = asked[k] /\ status'[k] = status[k]
      BY <1>4 DEF Request, Typed
    <2> QED BY <1>a, <2>1 DEF Forward
  <1> QED BY <1>1, <1>2, <1>3, <1>4 DEF Environment

\* While Azure goes forward, what was scanned and written stays good.
LEMMA EnvironmentGood ==
    ASSUME TInv, TInv', Forward, RowsWereShown, CompletedIsFresh, Environment
    PROVE  /\ Forward' /\ RowsWereShown' /\ CompletedIsFresh'
           /\ \A w \in Workers : Good(w) => Good(w)'
  <1>0. Typed /\ Typed'
    BY DEF TInv
  <1>1. /\ DOMAIN azure' \subseteq DOMAIN azure
        /\ \A r \in DOMAIN azure' : NotOlder(azure'[r], azure[r])
        /\ \A r \in DOMAIN azure' : azure'[r] \in shown'[r]
        /\ \A r \in Resources : shown[r] \subseteq shown'[r]
        /\ \A j \in Jobs : \/ asked'[j] = asked[j] /\ status'[j] = status[j]
                           \/ asked'[j] = azure /\ status'[j] = "queued"
    BY <1>0, EnvironmentForward
  <1>2. /\ row' = row /\ node' = node /\ edges' = edges /\ UNCHANGED workerVars
        /\ abandoned' = abandoned /\ exposed' = exposed
    BY EnvironmentLeaves DEF graphVars
  <1>3. /\ DOMAIN azure \subseteq Resources /\ \A r \in DOMAIN azure : azure[r] \in Contents
        /\ \A r \in DOMAIN azure' : azure'[r] \in Contents
    BY <1>0, PartialFacts DEF Typed
  <1>4. \A j \in Jobs : \A r \in DOMAIN asked[j] : asked[j][r] \in Contents
    BY <1>0, PartialFacts DEF Typed
  <1>5. \A j \in Jobs : \A r \in DOMAIN azure' \cap DOMAIN asked'[j] :
           NotOlder(azure'[r], asked'[j][r])
    <2> SUFFICES ASSUME NEW j \in Jobs, NEW r \in DOMAIN azure' \cap DOMAIN asked'[j]
                 PROVE  NotOlder(azure'[r], asked'[j][r])
      OBVIOUS
    <2>1. CASE asked'[j] = azure
      BY <1>1, <2>1
    <2>2. CASE asked'[j] = asked[j]
      <3>1. r \in DOMAIN azure /\ r \in DOMAIN asked[j]
        BY <1>1, <2>2
      <3>2. NotOlder(azure[r], asked[j][r]) /\ NotOlder(azure'[r], azure[r])
        BY <1>1, <3>1 DEF Forward
      <3>3. azure'[r] \in Contents /\ azure[r] \in Contents /\ asked[j][r] \in Contents
        BY <1>3, <1>4, <3>1
      <3> QED BY <2>2, <3>2, <3>3, NotOlderFacts
    <2> QED BY <1>1, <2>1, <2>2
  <1>6. Forward'
    BY <1>1, <1>5 DEF Forward
  <1>7. RowsWereShown'
    <2>1. DOMAIN row \subseteq Resources
      BY <1>0, PartialFacts DEF Typed
    <2> QED BY <1>1, <1>2, <2>1 DEF RowsWereShown
  <1>8. CompletedIsFresh'
    BY <1>1, <1>2 DEF CompletedIsFresh
  <1>9. ASSUME NEW w \in Workers, Good(w) PROVE Good(w)'
    <2>1. Upserts(w)' /\ Projects(w)'
      BY <1>2, <1>9 DEF Good, Upserts, Agrees, Projects, workerVars
    <2>2. Follows(w)' /\ Exposes(w)'
      BY <1>2, <1>9 DEF Good, Follows, Implied, Exposes, Covers, workerVars
    <2>3. Scans(w)'
      <3>1. DOMAIN scan[w] \subseteq Resources
        BY <1>0, Same, PartialFacts
      <3> QED BY <1>1, <1>2, <1>9, <3>1 DEF Good, Scans, workerVars
    <2> QED BY <2>1, <2>2, <2>3 DEF Good
  <1> QED BY <1>6, <1>7, <1>8, <1>9

\* At a commit, the rows of what was scanned are what was scanned.
LEMMA CommitShowsScan ==
    ASSUME TInv, NEW w \in Workers, Upserts(w), pc[w] = "upserting", todo[w] = {}
    PROVE  /\ DOMAIN pend[w] = DOMAIN scan[w]
           /\ \A r \in DOMAIN scan[w] : r \in DOMAIN Written(w) /\ Written(w)[r] = scan[w][r]
           /\ \A r \in DOMAIN Written(w) \ DOMAIN scan[w] :
                 r \in DOMAIN row /\ Written(w)[r] = row[r]
  <1>0. Typed /\ Held(w) /\ Whole(w)
    BY DEF TInv
  <1>1. DOMAIN pend[w] = DOMAIN scan[w]
    BY <1>0 DEF Held
  <1>2. /\ Written(w) \in Partial(Contents)
        /\ DOMAIN Written(w) = DOMAIN row \cup DOMAIN pend[w]
        /\ \A r \in DOMAIN pend[w] : \A c \in Columns :
              Written(w)[r][c] = IF c \in pend[w][r] THEN scan[w][r][c] ELSE row[r][c]
        /\ \A r \in DOMAIN row \ DOMAIN pend[w] : Written(w)[r] = row[r]
    BY <1>0, WrittenFacts
  <1>3. ASSUME NEW r \in DOMAIN scan[w] PROVE Written(w)[r] = scan[w][r]
    <2>1. \A c \in Columns : c \notin pend[w][r] => row[r][c] = scan[w][r][c]
      BY <1>1 DEF Upserts, Agrees
    <2>2. \A c \in Columns : Written(w)[r][c] = scan[w][r][c]
      BY <1>1, <1>2, <2>1
    <2>3. Written(w)[r] \in Contents /\ scan[w][r] \in Contents
      <3>1. scan[w] \in Partial(Contents)
        BY <1>0, Same
      <3> QED BY <1>1, <1>2, <3>1, PartialFacts
    <2> QED BY <2>2, <2>3 DEF Contents
  <1> QED BY <1>1, <1>2, <1>3

\* The steps of the worker on which neither the rows nor the freshness of a
\* completed job depend.
LEMMA RowsKept ==
    ASSUME RowsWereShown, CompletedIsFresh, NEW w \in Workers, Run(w) \/ Trouble(w),
           row' = row, \A j \in Jobs : status'[j] = "completed" => status[j] = "completed"
    PROVE  RowsWereShown' /\ CompletedIsFresh'
  BY WorkerLeaves DEF RowsWereShown, CompletedIsFresh

\* A worker with no open transaction that neither scans nor projects.
LEMMA GoodAtRest ==
    ASSUME NEW w \in Workers, read'[w] = Nothing, pend'[w] = Nothing,
           pc'[w] \in {"idle", "claiming", "listing", "failing"}
    PROVE  Good(w)'
  BY PartialNothing DEF Good, Upserts, Scans, Projects, Exposes, Follows

LEMMA CompleteGood ==
    ASSUME TInv, NEW w \in Workers, Owns(w), Good(w), RowsWereShown, CompletedIsFresh,
           Complete(w)
    PROVE  Good(w)' /\ RowsWereShown' /\ CompletedIsFresh'
  <1>0. Typed /\ Held(w) /\ Whole(w)
    BY DEF TInv
  <1>1. Becomes(w, "projecting", job[w], DOMAIN scan[w], scan[w], read[w], Nothing)
    BY <1>0, CompleteEffect
  <1>2. /\ pc[w] = "upserting" /\ todo[w] = {} /\ row' = Written(w)
        /\ status' = [status EXCEPT ![job[w]] = "completed"]
        /\ azure' = azure /\ asked' = asked /\ shown' = shown
        /\ exposed' = [exposed EXCEPT ![w] = UNION {Covers(q) : q \in abandoned}]
        /\ abandoned' = abandoned
    BY DEF Complete, graphVars
  <1>3. /\ \A r \in DOMAIN scan[w] : r \in DOMAIN row' /\ row'[r] = scan[w][r]
        /\ \A r \in DOMAIN row' \ DOMAIN scan[w] : r \in DOMAIN row /\ row'[r] = row[r]
    BY <1>2, CommitShowsScan DEF Good
  <1>4. read[w] = Nothing /\ DOMAIN Nothing = {}
    <2>1. DOMAIN read[w] = {}
      BY <1>0, <1>2 DEF Held
    <2> QED BY <1>0, <2>1, PartialEmpty, PartialNothing, Same
  <1>5. Upserts(w)' /\ Scans(w)' /\ Follows(w)'
    BY <1>1, <1>4 DEF Becomes, Upserts, Scans, Follows
  <1>6. Projects(w)' /\ Exposes(w)'
    <2>1. exposed'[w] = UNION {Covers(q) : q \in abandoned}
      BY <1>0, <1>2 DEF Typed
    <2>2. Exposes(w)'
      BY <1>2, <2>1 DEF Exposes, Covers
    <2> QED BY <1>1, <1>3, <2>2 DEF Becomes, Projects
  <1>7. /\ DOMAIN azure \subseteq DOMAIN scan[w]
        /\ \A r \in DOMAIN scan[w] : scan[w][r] \in shown[r]
        /\ \A r \in DOMAIN scan[w] : \A j \in Jobs :
              r \in DOMAIN asked[j] /\ status[j] \notin {"none", "queued"} =>
                 NotOlder(scan[w][r], asked[j][r])
    BY <1>2 DEF Good, Scans
  <1>8. RowsWereShown'
    BY <1>2, <1>3, <1>7 DEF RowsWereShown
  <1>9. CompletedIsFresh'
    <2> SUFFICES ASSUME NEW j \in Jobs, status'[j] = "completed",
                        NEW r \in DOMAIN asked[j] \cap DOMAIN azure
                 PROVE  r \in DOMAIN row' /\ NotOlder(row'[r], asked[j][r])
      BY <1>2 DEF CompletedIsFresh
    <2>1. status[j] \notin {"none", "queued"}
      <3>1. status[job[w]] = "running"
        BY <1>2 DEF Owns
      <3>2. j # job[w] => status'[j] = status[j]
        BY <1>0, <1>2 DEF Typed
      <3> QED BY <3>1, <3>2
    <2>2. r \in DOMAIN scan[w] /\ row'[r] = scan[w][r] /\ r \in DOMAIN row'
      BY <1>3, <1>7
    <2> QED BY <1>7, <2>1, <2>2
  <1> QED BY <1>5, <1>6, <1>8, <1>9 DEF Good

LEMMA RebuildGood ==
    ASSUME TInv, NEW w \in Workers, Good(w), Rebuild(w)
    PROVE  Good(w)'
  <1>0. Typed /\ Held(w)
    BY DEF TInv
  <1>1. Becomes(w, "done", job[w], todo[w], scan[w], read[w], pend[w])
    BY <1>0, RebuildEffect
  <1>2. /\ pc[w] = "projecting" /\ todo[w] = {} /\ Serve(Listed(RebuildRequest(w)))
        /\ row' = row /\ abandoned' = abandoned /\ exposed' = exposed
    BY DEF Rebuild, historyVars
  <1>3. read[w] = Nothing /\ pend[w] = Nothing /\ DOMAIN Nothing = {}
    BY <1>0, <1>2, PartialNothing DEF Held
  <1>4. Upserts(w)' /\ Scans(w)' /\ Projects(w)' /\ Exposes(w)'
    BY <1>1, <1>2, <1>3 DEF Becomes, Good, Upserts, Scans, Projects, Exposes, Covers
  <1>5. \A r \in DOMAIN scan[w] : /\ r \in DOMAIN row /\ r \in DOMAIN node
                                  /\ r \notin exposed[w] => node[r] = row[r]["properties"]
    BY <1>2 DEF Good, Projects
  <1>6. /\ DOMAIN node' = DOMAIN node /\ \A r \in DOMAIN node : node'[r] = node[r]
        /\ \A x, y : <<x, y>> \in edges' <=>
              \/ <<x, y>> \in edges /\ x \notin DOMAIN node
              \/ /\ x \in DOMAIN node /\ y \in DOMAIN node'
                 /\ y \in Refs[x][node[x]] /\ x # y
    <2> DEFINE q == Listed(RebuildRequest(w))
    <2>1. q \in Sent /\ q.target = {} /\ q.src = node
      BY <1>0, RequestFacts, ListedFacts
    <2> HIDE DEF q
    <2>2. Serve(q)
      BY <1>2 DEF q
    <2> QED BY <1>0, <2>1, <2>2, ServeFacts
  <1>7. ASSUME NEW r \in DOMAIN scan[w], r \notin exposed[w], NEW x \in DOMAIN scan[w]
        PROVE  <<r, x>> \in edges' <=> <<r, x>> \in Implied'
    <2>1. /\ r \in DOMAIN node /\ x \in DOMAIN node /\ r \in DOMAIN row /\ x \in DOMAIN row
          /\ node[r] = row[r]["properties"]
      BY <1>5, <1>7
    <2>2. <<r, x>> \in edges' <=> x \in Refs[r][node[r]] /\ r # x
      BY <1>6, <2>1
    <2>3. <<r, x>> \in Implied' <=> x \in Refs[r][row[r]["properties"]] /\ r # x
      BY <1>2, <2>1 DEF Implied
    <2> QED BY <2>1, <2>2, <2>3
  <1>8. Follows(w)'
    BY <1>1, <1>2, <1>5, <1>6, <1>7 DEF Becomes, Follows
  <1> QED BY <1>4, <1>8 DEF Good

\* The scan and the upserts of the worker.
LEMMA ScanGood ==
    ASSUME TInv, NEW w \in Workers, Good(w), Forward, NEW r \in Resources,
           QueryPage(w, r) \/ ReadRow(w, r) \/ Flush(w, r)
    PROVE  Good(w)' /\ row' = row /\ status' = status
  <1>0. Typed /\ Held(w)
    BY DEF TInv
  <1>a. DOMAIN Nothing = {}
    BY PartialNothing
  <1>b. /\ row' = row /\ status' = status /\ azure' = azure /\ asked' = asked /\ shown' = shown
    BY DEF QueryPage, ReadRow, Flush, apiVars, historyVars
  <1>1. CASE QueryPage(w, r)
    <2> DEFINE s == IF r \in DOMAIN azure THEN Put(scan[w], r, azure[r]) ELSE scan[w]
    <2>1. Becomes(w, pc[w], job[w], todo[w] \ {r}, s, read[w], pend[w])
      BY <1>0, <1>1, QueryPageEffect
    <2>2. pc[w] = "querying"
      BY <1>1 DEF QueryPage
    <2>3. read[w] = Nothing /\ pend[w] = Nothing
      BY <1>0, <2>2 DEF Held
    <2>4. /\ DOMAIN s \subseteq DOMAIN scan[w] \cup {r} /\ DOMAIN scan[w] \subseteq DOMAIN s
          /\ r \in DOMAIN azure => r \in DOMAIN s
          /\ \A t \in DOMAIN s : \/ t \in DOMAIN scan[w] /\ s[t] = scan[w][t]
                                 \/ t \in DOMAIN azure /\ s[t] = azure[t]
      BY DEF Put
    <2> HIDE DEF s
    <2>5. Upserts(w)' /\ Projects(w)' /\ Exposes(w)' /\ Follows(w)'
      BY <1>a, <2>1, <2>2, <2>3 DEF Becomes, Upserts, Projects, Exposes, Follows
    <2>6. ASSUME NEW t \in DOMAIN s
          PROVE  /\ s[t] \in shown[t]
                 /\ \A j \in Jobs : t \in DOMAIN asked[j] /\ status[j] \notin {"none", "queued"} =>
                       NotOlder(s[t], asked[j][t])
      <3>1. CASE t \in DOMAIN scan[w] /\ s[t] = scan[w][t]
        BY <2>2, <3>1 DEF Good, Scans
      <3>2. CASE t \in DOMAIN azure /\ s[t] = azure[t]
        BY <3>2 DEF Forward
      <3> QED BY <2>4, <3>1, <3>2
    <2>7. DOMAIN azure \subseteq (todo[w] \ {r}) \cup DOMAIN s
      BY <2>2, <2>4 DEF Good, Scans
    <2>8. Scans(w)'
      BY <1>b, <2>1, <2>2, <2>6, <2>7 DEF Becomes, Scans
    <2> QED BY <1>b, <2>5, <2>8 DEF Good
  <1>2. ASSUME pc[w] = "upserting", pc'[w] = pc[w], scan'[w] = scan[w], Upserts(w)'
        PROVE  Good(w)'
    <2>1. Scans(w)'
      BY <1>b, <1>2 DEF Good, Scans
    <2> QED BY <1>2, <2>1 DEF Good, Projects, Exposes, Follows
  <1>3. CASE ReadRow(w, r)
    <2>1. PICK x \in Reads :
             /\ x.cols = {c \in Columns : (r \in DOMAIN row /\ ~rls) => row[r][c] # scan[w][r][c]}
             /\ Becomes(w, pc[w], job[w], todo[w], scan[w], Put(read[w], r, x), pend[w])
      BY <1>0, <1>3, ReadRowEffect
    <2>2. pc[w] = "upserting" /\ read[w] = Nothing
      BY <1>3 DEF ReadRow
    <2>3. DOMAIN Put(read[w], r, x) = {r} /\ Put(read[w], r, x)[r] = x
      BY <1>a, <2>2 DEF Put
    <2>4. Agrees(w, r, x.cols)
      BY <2>1 DEF Agrees
    <2>5. Upserts(w)'
      BY <1>b, <2>1, <2>3, <2>4 DEF Good, Becomes, Upserts, Agrees
    <2> QED BY <1>2, <1>b, <2>1, <2>2, <2>5 DEF Becomes
  <1>4. CASE Flush(w, r)
    <2> DEFINE pe == Put(pend[w], r, read[w][r].cols)
    <2>1. Becomes(w, pc[w], job[w], todo[w] \ {r}, scan[w], Nothing, pe)
      BY <1>0, <1>4, FlushEffect
    <2>2. r \in DOMAIN read[w]
      BY <1>4 DEF Flush
    <2>3. pc[w] = "upserting"
      BY <1>0, <1>a, <2>2 DEF Held
    <2>4. /\ DOMAIN pe = DOMAIN pend[w] \cup {r} /\ pe[r] = read[w][r].cols
          /\ \A s \in DOMAIN pend[w] : s # r => pe[s] = pend[w][s]
      BY DEF Put
    <2> HIDE DEF pe
    <2>5. \A t \in DOMAIN pe : Agrees(w, t, pe[t])
      BY <2>2, <2>4 DEF Good, Upserts
    <2>6. Upserts(w)'
      BY <1>a, <1>b, <2>1, <2>5 DEF Becomes, Upserts, Agrees
    <2> QED BY <1>2, <1>b, <2>1, <2>3, <2>6 DEF Becomes
  <1> QED BY <1>1, <1>3, <1>4

\* The projections of the worker.
LEMMA ProjectGood ==
    ASSUME TInv, NEW w \in Workers, Good(w), NEW r \in Resources, Project(w, r)
    PROVE  Good(w)'
  <1>0. Typed /\ Held(w)
    BY DEF TInv
  <1>1. Becomes(w, pc[w], job[w], todo[w] \ {r}, scan[w], read[w], pend[w])
    BY <1>0, ProjectEffect
  <1>2. /\ pc[w] = "projecting" /\ row' = row /\ abandoned' = abandoned /\ exposed' = exposed
        /\ Serve(ProjectRequest(w, r)) /\ r \in DOMAIN scan[w]
    BY <1>0, ProjectEffect DEF Project, historyVars
  <1>3. /\ DOMAIN node' = DOMAIN node \cup {r} /\ node'[r] = scan[w][r]["properties"]
        /\ \A s \in DOMAIN node : s # r => node'[s] = node[s]
    <2> DEFINE q == ProjectRequest(w, r)
    <2>1. q \in Sent /\ q.target = {r} /\ q.src[r] = scan[w][r]["properties"]
      BY <1>0, <1>2, RequestFacts
    <2> HIDE DEF q
    <2>2. Serve(q)
      BY <1>2 DEF q
    <2> QED BY <1>0, <2>1, <2>2, ServeFacts
  <1>4. read[w] = Nothing /\ pend[w] = Nothing /\ DOMAIN Nothing = {}
    BY <1>0, <1>2, PartialNothing DEF Held
  <1>5. Upserts(w)' /\ Scans(w)' /\ Exposes(w)' /\ Follows(w)'
    BY <1>1, <1>2, <1>4 DEF Becomes, Good, Upserts, Scans, Exposes, Covers, Follows
  <1>6. Projects(w)'
    BY <1>1, <1>2, <1>3 DEF Good, Becomes, Projects
  <1> QED BY <1>5, <1>6 DEF Good

\* An abandoned request commits, or lists the nodes, while the worker projects
\* or after: it writes only what is exposed.
LEMMA LateGood ==
    ASSUME TInv, NEW w \in Workers, Good(w), NEW q \in abandoned, Late(q)
    PROVE  Good(w)'
  <1>0. Typed /\ q \in Sent
    BY DEF TInv, Typed
  <1>1. /\ UNCHANGED <<status, row, azure, pc, todo, scan, read, pend, shown, asked, exposed>>
        /\ UNCHANGED <<node, edges>> \/ Serve(q)
        /\ \A p \in abandoned' \ abandoned :
              /\ q.target = {} /\ q.src = Nothing
              /\ p.target = {} /\ p.src = node /\ p \in Sent
    BY <1>0, LateEffect DEF apiVars, workerVars, historyVars
  <1>2. Upserts(w)' /\ Scans(w)'
    BY <1>1 DEF Good, Upserts, Agrees, Scans
  <1>3. Exposes(w)'
    <2> SUFFICES ASSUME pc[w] \in {"projecting", "done"}, NEW p \in abandoned'
                 PROVE  Covers(p) \subseteq exposed[w]
      BY <1>1 DEF Exposes, Covers
    <2>1. CASE p \in abandoned
      BY <2>1 DEF Good, Exposes
    <2>2. CASE p \notin abandoned
      <3>1. Covers(q) = Resources /\ Covers(q) \subseteq exposed[w]
        BY <1>1, <2>2 DEF Good, Exposes, Covers
      <3>2. p \in Sent
        BY <1>1, <2>2
      <3> QED BY <3>1, <3>2, CoversFacts
    <2> QED BY <2>1, <2>2
  <1>4. ASSUME pc[w] \in {"projecting", "done"}
        PROVE  /\ DOMAIN node \subseteq DOMAIN node'
               /\ \A r \in DOMAIN node \ exposed[w] : node'[r] = node[r]
               /\ \A r \in DOMAIN node \ exposed[w] : \A x \in DOMAIN node :
                     <<r, x>> \in edges' <=> <<r, x>> \in edges
    <2>1. CASE UNCHANGED <<node, edges>>
      BY <2>1
    <2>2. CASE Serve(q)
      <3>1. q.target \subseteq exposed[w] /\ DOMAIN q.src \subseteq exposed[w]
        BY <1>0, <1>4, CoversFacts DEF Good, Exposes
      <3> QED BY <1>0, <2>2, <3>1, ServeFacts
    <2> QED BY <1>1, <2>1, <2>2
  <1>5. Projects(w)'
    BY <1>1, <1>4 DEF Good, Projects
  <1>6. Follows(w)'
    <2> SUFFICES ASSUME pc[w] = "done"
                 PROVE  /\ DOMAIN scan[w] \subseteq DOMAIN node'
                        /\ \A r \in DOMAIN scan[w] \ exposed[w] :
                              /\ node'[r] = row[r]["properties"]
                              /\ \A x \in DOMAIN scan[w] :
                                    <<r, x>> \in edges' <=> <<r, x>> \in Implied
      BY <1>1 DEF Follows, Implied
    <2>1. /\ DOMAIN scan[w] \subseteq DOMAIN node
          /\ \A r \in DOMAIN scan[w] \ exposed[w] :
                /\ node[r] = row[r]["properties"]
                /\ \A x \in DOMAIN scan[w] : <<r, x>> \in edges <=> <<r, x>> \in Implied
      BY DEF Good, Follows
    <2> QED BY <1>4, <2>1
  <1> QED BY <1>2, <1>3, <1>5, <1>6 DEF Good

LEMMA WorkerGood ==
    ASSUME TInv, NEW w \in Workers, Owns(w), Good(w), Forward, RowsWereShown,
           CompletedIsFresh, Run(w) \/ Trouble(w)
    PROVE  Good(w)' /\ RowsWereShown' /\ CompletedIsFresh'
  <1> DEFINE Goal == Good(w)' /\ RowsWereShown' /\ CompletedIsFresh'
  <1>0. Typed /\ Held(w) /\ status \in [Jobs -> Statuses]
    BY DEF TInv, Typed
  <1>1. CASE SelectJob(w)
    <2>1. PICK j \in Jobs : Becomes(w, "claiming", j, todo[w], scan[w], read[w], pend[w])
      BY <1>0, <1>1, SelectJobEffect
    <2>2. row' = row /\ status' = status /\ pc[w] \in {"idle", "done"}
      BY <1>1 DEF SelectJob, apiVars
    <2>3. read'[w] = Nothing /\ pend'[w] = Nothing /\ pc'[w] = "claiming"
      BY <1>0, <2>1, <2>2 DEF Held, Becomes
    <2> QED BY <2>2, <2>3, GoodAtRest, RowsKept
  <1>b. CASE Claim(w)
    <2>1. Becomes(w, "listing", job[w], todo[w], scan[w], read[w], pend[w])
      BY <1>0, <1>b, ClaimEffect
    <2>2. row' = row /\ status' = [status EXCEPT ![job[w]] = "running"] /\ pc[w] = "claiming"
      BY <1>b DEF Claim
    <2>3. read'[w] = Nothing /\ pend'[w] = Nothing /\ pc'[w] = "listing"
      BY <1>0, <2>1, <2>2 DEF Held, Becomes
    <2>4. \A k \in Jobs : status'[k] = "completed" => status[k] = "completed"
      BY <1>0, <2>2
    <2> QED BY <2>2, <2>3, <2>4, GoodAtRest, RowsKept
  <1>c. CASE Unclaim(w)
    <2>1. Becomes(w, "idle", 0, todo[w], scan[w], read[w], pend[w])
      BY <1>0, <1>c, UnclaimEffect
    <2>2. row' = row /\ status' = status /\ pc[w] = "claiming"
      BY <1>c DEF Unclaim, apiVars
    <2>3. read'[w] = Nothing /\ pend'[w] = Nothing /\ pc'[w] = "idle"
      BY <1>0, <2>1, <2>2 DEF Held, Becomes
    <2> QED BY <2>2, <2>3, GoodAtRest, RowsKept
  <1>2. CASE ListSubscriptions(w)
    <2>1. Becomes(w, "querying", job[w], Resources, Nothing, read[w], pend[w])
      BY <1>0, <1>2, ListSubscriptionsEffect
    <2>2. row' = row /\ status' = status /\ pc[w] = "listing" /\ azure' = azure
      BY <1>2 DEF ListSubscriptions
    <2>3. read[w] = Nothing /\ pend[w] = Nothing /\ DOMAIN Nothing = {}
      BY <1>0, <2>2, PartialNothing DEF Held
    <2>4. DOMAIN azure \subseteq Resources
      BY <1>0, PartialFacts DEF Typed
    <2>5. Good(w)'
      BY <2>1, <2>2, <2>3, <2>4 DEF Becomes, Good, Upserts, Scans, Projects, Exposes, Follows
    <2> QED BY <2>2, <2>5, RowsKept
  <1>3. CASE QueryEnds(w)
    <2>1. Becomes(w, "upserting", job[w], DOMAIN scan[w], scan[w], read[w], pend[w])
      BY <1>0, <1>3, QueryEndsEffect
    <2>2. /\ row' = row /\ status' = status /\ pc[w] = "querying" /\ azure' = azure
          /\ asked' = asked /\ shown' = shown /\ todo[w] = {}
      BY <1>3 DEF QueryEnds, apiVars, historyVars
    <2>3. read[w] = Nothing /\ pend[w] = Nothing /\ DOMAIN Nothing = {}
      BY <1>0, <2>2, PartialNothing DEF Held
    <2>4. Upserts(w)' /\ Projects(w)' /\ Exposes(w)' /\ Follows(w)'
      BY <2>1, <2>3 DEF Becomes, Upserts, Projects, Exposes, Follows
    <2>5. Scans(w)'
      BY <2>1, <2>2 DEF Becomes, Good, Scans
    <2> QED BY <2>2, <2>4, <2>5, RowsKept DEF Good
  <1>4. CASE Complete(w)
    BY <1>4, CompleteGood
  <1>5. CASE Rebuild(w)
    <2>1. row' = row /\ status' = status
      BY <1>5 DEF Rebuild, apiVars
    <2> QED BY <1>5, <2>1, RebuildGood, RowsKept
  <1>6. CASE MarkFailed(w)
    <2>1. Becomes(w, "idle", job[w], todo[w], scan[w], read[w], pend[w])
      BY <1>0, <1>6, MarkFailedEffect
    <2>2. row' = row /\ pc[w] = "failing" /\ status' = [status EXCEPT ![job[w]] = "failed"]
      BY <1>6 DEF MarkFailed
    <2>3. read'[w] = Nothing /\ pend'[w] = Nothing /\ pc'[w] = "idle"
      BY <1>0, <2>1, <2>2 DEF Held, Becomes
    <2>4. \A k \in Jobs : status'[k] = "completed" => status[k] = "completed"
      BY <1>0, <2>2
    <2> QED BY <2>2, <2>3, <2>4, GoodAtRest, RowsKept
  <1>7. CASE Abandons(w)
    <2> DEFINE p == IF Crash(w) THEN "idle" ELSE "failing"
    <2>1. /\ Becomes(w, p, job[w], {}, scan[w], Nothing, Nothing)
          /\ row' = row /\ status' = status
      BY <1>0, <1>7, AbandonsEffect DEF apiVars
    <2>2. read'[w] = Nothing /\ pend'[w] = Nothing /\ pc'[w] \in {"idle", "failing"}
      BY <2>1 DEF Becomes
    <2> QED BY <2>1, <2>2, GoodAtRest, RowsKept
  <1>8. ASSUME NEW r \in Resources, QueryPage(w, r) \/ ReadRow(w, r) \/ Flush(w, r) PROVE Goal
    BY <1>8, ScanGood, RowsKept
  <1>9. ASSUME NEW r \in Resources, Project(w, r) PROVE Goal
    <2>1. row' = row /\ status' = status
      BY <1>9 DEF Project, apiVars
    <2> QED BY <1>9, <2>1, ProjectGood, RowsKept
  <1> QED BY <1>1, <1>b, <1>c, <1>2, <1>3, <1>4, <1>5, <1>6, <1>7, <1>8, <1>9, WorkerSteps

LEMMA OInvInit ==
    ASSUME Init
    PROVE  OInv
  <1>1. JInv
    BY JInvInit
  <1>2. Forward
    <2>1. \A j \in Jobs : DOMAIN asked[j] = {}
      BY PartialNothing DEF Init
    <2>2. \A r \in DOMAIN azure : azure[r] \in shown[r]
      BY DEF Init
    <2> QED BY <2>1, <2>2 DEF Forward
  <1>3. \A w \in Workers : Good(w)
    <2>1. \A w \in Workers : pc[w] = "idle" /\ read[w] = Nothing /\ pend[w] = Nothing
      BY DEF Init
    <2> QED BY <2>1, PartialNothing DEF Good, Upserts, Scans, Projects, Exposes, Follows
  <1>4. RowsWereShown
    BY PartialNothing DEF Init, RowsWereShown
  <1>5. CompletedIsFresh
    BY DEF Init, CompletedIsFresh
  <1> QED BY <1>1, <1>2, <1>3, <1>4, <1>5 DEF OInv

LEMMA OInvStep ==
    ASSUME OneWorker, OInv, [Next]_vars
    PROVE  OInv'
  <1>1. JInv' /\ TInv' /\ TInv
    BY JInvStep DEF OInv, JInv
  <1>2. CASE Environment
    <2>1. /\ Forward' /\ RowsWereShown' /\ CompletedIsFresh'
          /\ \A w \in Workers : Good(w) => Good(w)'
      BY <1>1, <1>2, EnvironmentGood DEF OInv
    <2> QED BY <1>1, <2>1 DEF OInv
  <1>3. ASSUME NEW w \in Workers, Run(w) \/ Trouble(w) PROVE OInv'
    <2>1. Owns(w) /\ Good(w) /\ Forward /\ RowsWereShown /\ CompletedIsFresh
      BY OwnsMeans DEF OInv, JInv
    <2>2. Good(w)' /\ RowsWereShown' /\ CompletedIsFresh'
      BY <1>1, <1>3, <2>1, WorkerGood
    <2>3. \A v \in Workers : Good(v)'
      BY <2>2 DEF OneWorker
    <2>4. Forward'
      BY <1>3, <2>1, WorkerLeaves DEF Forward
    <2> QED BY <1>1, <2>2, <2>3, <2>4 DEF OInv
  <1>4. ASSUME NEW q \in abandoned, Late(q) PROVE OInv'
    <2>1. UNCHANGED <<azure, shown, asked, row, status>>
      BY <1>1, <1>4, LateEffect DEF TInv, apiVars, historyVars
    <2>2. Forward' /\ RowsWereShown' /\ CompletedIsFresh'
      BY <2>1 DEF OInv, Forward, RowsWereShown, CompletedIsFresh
    <2>3. \A w \in Workers : Good(w)'
      BY <1>1, <1>4, LateGood DEF OInv
    <2> QED BY <1>1, <2>2, <2>3 DEF OInv
  <1>5. CASE UNCHANGED vars
    <2>1. /\ UNCHANGED <<azure, shown, asked, row, status, node, edges, abandoned, exposed>>
          /\ UNCHANGED <<pc, todo, scan, read, pend>>
      BY <1>5 DEF vars, apiVars, graphVars, workerVars, historyVars
    <2>2. Forward' /\ RowsWereShown' /\ CompletedIsFresh'
      BY <2>1 DEF OInv, Forward, RowsWereShown, CompletedIsFresh
    <2>3. ASSUME NEW w \in Workers PROVE Good(w)'
      <3>1. Good(w)
        BY DEF OInv
      <3>2. Upserts(w)' /\ Projects(w)' /\ Scans(w)'
        BY <2>1, <3>1 DEF Good, Upserts, Agrees, Projects, Scans
      <3>3. Follows(w)' /\ Exposes(w)'
        BY <2>1, <3>1 DEF Good, Follows, Implied, Exposes, Covers
      <3> QED BY <3>2, <3>3 DEF Good
    <2> QED BY <1>1, <2>2, <2>3 DEF OInv
  <1> QED BY <1>2, <1>3, <1>4, <1>5 DEF Next

\* With one worker, whatever Azure does during the scan, however often calls
\* fail, answers are lost and the worker crashes: the columns of a row are of
\* one moment of Azure.  The run with two workers refutes it without OneWorker.
THEOREM RowsWereShownTheorem ==
    ASSUME OneWorker
    PROVE  Spec => []RowsWereShown
  <1>1. Init => OInv
    BY OInvInit
  <1>2. OInv /\ [Next]_vars => OInv'
    BY OInvStep
  <1>3. OInv => RowsWereShown
    BY DEF OInv
  <1> QED BY <1>1, <1>2, <1>3, PTL DEF Spec

\* With one worker, a row is at least as new, when the job is completed and for
\* ever after, as its resource was when the job was requested.
THEOREM CompletedIsFreshTheorem ==
    ASSUME OneWorker
    PROVE  Spec => []CompletedIsFresh
  <1>1. Init => OInv
    BY OInvInit
  <1>2. OInv /\ [Next]_vars => OInv'
    BY OInvStep
  <1>3. OInv => CompletedIsFresh
    BY DEF OInv
  <1> QED BY <1>1, <1>2, <1>3, PTL DEF Spec

\* With one worker, a run_once that succeeds leaves the relationship service
\* with the nodes and edges the inventory rows imply: the rebuild at the end
\* makes up for the order in which the resources were projected.  They stay so
\* while requests that earlier runs gave up waiting for commit late, except for
\* the sources of those that were outstanding when the job was completed.
THEOREM GraphFollowsInventoryTheorem ==
    ASSUME OneWorker
    PROVE  Spec => []GraphFollowsInventory
  <1>1. Init => OInv
    BY OInvInit
  <1>2. OInv /\ [Next]_vars => OInv'
    BY OInvStep
  <1>3. OInv => GraphFollowsInventory
    BY DEF OInv, Good, Follows, GraphFollowsInventory
  <1> QED BY <1>1, <1>2, <1>3, PTL DEF Spec

=============================================================================
