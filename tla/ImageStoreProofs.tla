--------------------------- MODULE ImageStoreProofs ---------------------------
(***************************************************************************)
(* Proofs about ImageStore.  The argument has three parts: the slots and   *)
(* the queue of image jobs are counted exactly; a job that makes a variant *)
(* is the one that its entry in the pending map leads to; and a job whose  *)
(* original has disappeared is awaited by a removal that has not yet       *)
(* swept, because an image that is removed was named before, and an upload *)
(* is not named before its job ends.  A removal that fails before its jobs *)
(* are awaited leaves the original in place, and one that fails later has  *)
(* awaited them: what stays then is noted in torn.                         *)
(***************************************************************************)
EXTENDS ImageStore, FiniteSetTheorems, TLAPS

Removing == {"collect", "drain", "sweep"}

QueueOK ==
  /\ IsFiniteSet(RunningJobs) /\ active = Cardinality(RunningJobs)
  /\ {queue[n] : n \in 1..Len(queue)} = {j \in Request : jobs[j].pc = "queued"}
  /\ \A m, n \in 1..Len(queue) : m # n => queue[m] # queue[n]
  /\ queue # <<>> => active = MaxActive

GateOK == IsFiniteSet(listening) /\ activeUploads = Cardinality(listening)

\* An entry leads to the job that makes its variant.
PendingOK ==
  \A k \in Keys : pending[k] # None => /\ Live(pending[k])
                                       /\ jobs[pending[k]].image = k[1]
                                       /\ jobs[pending[k]].variant = k[2]

\* The job of an upload that has stored its original.
Uploading(j) == jobs[j].pc \in {"variants", "written"} /\ jobs[j].variant = None

JobOK(j) ==
  /\ jobs[j].pc # "none" => req[j].pc \in {"wait", "done"}
  /\ Live(j) /\ jobs[j].variant # None =>
        jobs[j].image \in named /\ pending[<<jobs[j].image, jobs[j].variant>>] = j
  /\ jobs[j].pc = "render" => jobs[j].variant # None
  /\ jobs[j].pc = "variants" => jobs[j].variant = None
  /\ Uploading(j) => jobs[j].image \in sources /\ jobs[j].image \notin named

NamesDiffer ==
  \A j, k \in Request :
     Uploading(j) /\ Uploading(k) /\ jobs[j].image = jobs[k].image => j = k

HandlerOK(r) ==
  /\ req[r].pc \in {"lstat", "access"} => req[r].image \in named /\ req[r].variant \in Variant
  /\ req[r].pc \in Removing \cup {"unlink"} => req[r].image \in named
  /\ req[r].pc \in {"find", "save"} => req[r].food \in Food
  /\ req[r].replaced \subseteq named
  /\ \A x \in Field : req[r].form[x] \in named \cup {None}
  /\ r \in listening => req[r].pc \in {"receive", "wait", "done"}

RowsOK ==
  /\ \A f \in Food, x \in Field : refs[f][x] \in named \cup {None}
  /\ logo \in named \cup {None}

\* A removal that will still wait for job j.
Awaits(r, j) ==
  /\ req[r].image = jobs[j].image
  /\ req[r].pc = "collect" \/ (req[r].pc = "drain" /\ j \in req[r].waits)

\* A job may have read an original that is gone by now.
RenderOK ==
  \A j \in Request :
     jobs[j].pc = "render" /\ jobs[j].image \notin sources \cup torn =>
        \E r \in Request : Awaits(r, j)

IInv ==
  /\ TypeOK /\ QueueOK /\ GateOK /\ PendingOK /\ NamesDiffer
  /\ \A r \in Request : JobOK(r) /\ HandlerOK(r)
  /\ RowsOK /\ NoOrphanVariant /\ RenderOK

LEMMA InvSlots == IInv => SlotsAreUsed
BY DEF IInv, QueueOK, GateOK, SlotsAreUsed

LEMMA InvOneJob == IInv => OneJobPerVariant
<1> SUFFICES ASSUME IInv PROVE OneJobPerVariant
  OBVIOUS
<1>1. \A k \in Keys : pending[k] # None => Live(pending[k])
  BY DEF IInv, PendingOK
<1>2. ASSUME NEW j \in Request, NEW k \in Request, Live(j), Live(k),
             jobs[j].variant # None, jobs[j].image = jobs[k].image,
             jobs[j].variant = jobs[k].variant
      PROVE  j = k
  BY <1>2 DEF IInv, JobOK
<1> QED BY <1>1, <1>2 DEF OneJobPerVariant

-----------------------------------------------------------------------------
(* Slots and queue: a job starts, moves on or ends.                        *)

SlotTypes ==
  /\ jobs \in [Request -> JobState] /\ active \in 0..MaxActive
  /\ queue \in Seq(Request) /\ Len(queue) <= MaxQueue

LEMMA NoJobIs == NoJob \in JobState /\ NoJob.pc = "none"
BY DEF NoJob, JobState, Running, MaybeImage

LEMMA SettledIs ==
  ASSUME NEW pc \in {"made", "failed"}
  PROVE  Settled(pc) \in JobState /\ Settled(pc).pc = pc
BY NoJobIs DEF Settled, JobState

\* A job that moves on keeps its slot.
LEMMA MoveSlots ==
  ASSUME SlotTypes, QueueOK, NEW j \in Request, NEW s \in JobState,
         jobs[j].pc \in Running, s.pc \in Running, jobs' = [jobs EXCEPT ![j] = s],
         UNCHANGED <<active, queue>>
  PROVE  SlotTypes' /\ QueueOK'
<1>1. jobs'[j] = s /\ \A k \in Request \ {j} : jobs'[k] = jobs[k]
  BY DEF SlotTypes
<1>2. RunningJobs' = RunningJobs
  BY <1>1 DEF RunningJobs
<1>3. {k \in Request : jobs'[k].pc = "queued"} = {k \in Request : jobs[k].pc = "queued"}
  BY <1>1 DEF Running
<1> QED BY <1>1, <1>2, <1>3 DEF SlotTypes, QueueOK

LEMMA StartSlots ==
  ASSUME SlotTypes, QueueOK, NEW r \in Request, NEW i \in MaybeImage,
         NEW v \in Variant \cup {None}, jobs[r].pc = "none", runImageJob(r, i, v)
  PROVE  /\ SlotTypes' /\ QueueOK'
         /\ jobs'[r].pc \in {"start", "queued"} /\ jobs'[r].image = i /\ jobs'[r].variant = v
         /\ \A k \in Request \ {r} : jobs'[k] = jobs[k]
<1>1. CASE /\ SlotFree /\ active' = active + 1 /\ UNCHANGED queue
           /\ jobs' = [jobs EXCEPT ![r] = [pc |-> "start", image |-> i, variant |-> v]]
  <2> DEFINE s == [pc |-> "start", image |-> i, variant |-> v]
  <2>1. s \in JobState /\ s.pc = "start" /\ s.image = i /\ s.variant = v
    BY DEF JobState, Running
  <2> HIDE DEF s
  <2>2. jobs'[r] = s /\ \A k \in Request \ {r} : jobs'[k] = jobs[k]
    BY <1>1 DEF SlotTypes, s
  <2>3. RunningJobs' = RunningJobs \cup {r} /\ r \notin RunningJobs
    BY <2>1, <2>2 DEF RunningJobs, Running
  <2>4. IsFiniteSet(RunningJobs') /\ Cardinality(RunningJobs') = Cardinality(RunningJobs) + 1
    BY <2>3, FS_AddElement DEF QueueOK
  <2>5. {k \in Request : jobs'[k].pc = "queued"} = {k \in Request : jobs[k].pc = "queued"}
    BY <2>1, <2>2
  <2>6. active' \in 0..MaxActive /\ active' = Cardinality(RunningJobs') /\ queue = <<>>
    BY <1>1, <2>4, ImageAssumption DEF SlotTypes, SlotFree, QueueOK
  <2>7. QueueOK'
    BY <1>1, <2>4, <2>5, <2>6 DEF QueueOK
  <2>8. SlotTypes'
    BY <1>1, <2>1, <2>6 DEF SlotTypes, s
  <2> QED BY <2>1, <2>2, <2>7, <2>8
<1>2. CASE /\ ~SlotFree /\ Len(queue) < MaxQueue /\ queue' = Append(queue, r)
           /\ jobs' = [jobs EXCEPT ![r] = [pc |-> "queued", image |-> i, variant |-> v]]
           /\ UNCHANGED active
  <2> DEFINE s == [pc |-> "queued", image |-> i, variant |-> v]
             n == Len(queue)
  <2>1. s \in JobState /\ s.pc = "queued" /\ s.image = i /\ s.variant = v
    BY DEF JobState, Running
  <2> HIDE DEF s
  <2>2. jobs'[r] = s /\ \A k \in Request \ {r} : jobs'[k] = jobs[k]
    BY <1>2 DEF SlotTypes, s
  <2>3. RunningJobs' = RunningJobs
    BY <2>1, <2>2 DEF RunningJobs, Running
  <2>4. n \in Nat /\ Len(queue') = n + 1 /\ queue'[n + 1] = r
        /\ \A m \in 1..n : queue'[m] = queue[m]
    BY <1>2 DEF SlotTypes
  <2>5. \A m \in 1..n : queue[m] # r
    BY DEF QueueOK
  <2>6. {k \in Request : jobs'[k].pc = "queued"}
          = {k \in Request : jobs[k].pc = "queued"} \cup {r}
    BY <2>1, <2>2
  <2>7. {queue'[m] : m \in 1..Len(queue')} = {queue[m] : m \in 1..n} \cup {r}
    BY <2>4
  <2>8. \A l, m \in 1..Len(queue') : l # m => queue'[l] # queue'[m]
    BY <2>4, <2>5 DEF QueueOK
  <2>9. active = MaxActive
    BY <1>2, ImageAssumption DEF SlotTypes, SlotFree
  <2>10. QueueOK'
    BY <1>2, <2>3, <2>6, <2>7, <2>8, <2>9 DEF QueueOK
  <2>11. SlotTypes'
    <3>1. Len(queue') <= MaxQueue
      BY <1>2, <2>4, ImageAssumption
    <3>2. queue' \in Seq(Request)
      BY <1>2 DEF SlotTypes
    <3> QED BY <1>2, <2>1, <3>1, <3>2 DEF SlotTypes, s
  <2> QED BY <2>1, <2>2, <2>10, <2>11
<1> QED BY <1>1, <1>2 DEF runImageJob

\* What an ended job leaves to the others: one that waited may start.
Unmoved(k) ==
  /\ jobs'[k].image = jobs[k].image /\ jobs'[k].variant = jobs[k].variant
  /\ jobs'[k].pc = jobs[k].pc \/ (jobs[k].pc = "queued" /\ jobs'[k].pc = "start")

LEMMA EndSlots ==
  ASSUME SlotTypes, QueueOK, NEW j \in Request, jobs[j].pc \in Running,
         NEW pc \in {"made", "failed"}, EndJob(j, pc)
  PROVE  /\ SlotTypes' /\ QueueOK' /\ jobs'[j] = Settled(pc)
         /\ \A k \in Request \ {j} : Unmoved(k)
<1>1. IsFiniteSet(RunningJobs) /\ j \in RunningJobs /\ active = Cardinality(RunningJobs)
  BY DEF QueueOK, RunningJobs
<1>2. /\ IsFiniteSet(RunningJobs \ {j}) /\ Cardinality(RunningJobs \ {j}) \in Nat
      /\ Cardinality(RunningJobs \ {j}) = active - 1
  BY <1>1, FS_RemoveElement, FS_CardinalityType
<1>3. active \in Nat /\ MaxActive \in Nat
  BY ImageAssumption DEF SlotTypes
<1>4. CASE queue = <<>>
  <2>1. Started = {} /\ Cardinality(Started) = 0
    BY <1>4, FS_EmptySet DEF Started
  <2>2. /\ jobs' = [k \in Request |-> IF k = j THEN Settled(pc) ELSE jobs[k]]
        /\ active' = active - 1 /\ queue' = queue
    BY <1>3, <2>1 DEF EndJob
  <2>3. jobs'[j] = Settled(pc) /\ \A k \in Request \ {j} : jobs'[k] = jobs[k]
    BY <2>2
  <2>4. RunningJobs' = RunningJobs \ {j}
    BY <2>3, SettledIs DEF RunningJobs, Running
  <2>5. {k \in Request : jobs'[k].pc = "queued"} = {k \in Request : jobs[k].pc = "queued"}
    BY <2>3, SettledIs DEF Running
  <2>6. QueueOK'
    BY <1>2, <1>4, <2>2, <2>4, <2>5 DEF QueueOK
  <2>7. SlotTypes'
    <3>1. active' \in 0..MaxActive
      BY <1>2, <1>3, <2>2 DEF SlotTypes
    <3>2. jobs' \in [Request -> JobState]
      BY <2>2, SettledIs DEF SlotTypes
    <3> QED BY <2>2, <3>1, <3>2 DEF SlotTypes
  <2> QED BY <2>3, <2>6, <2>7 DEF Unmoved
<1>5. CASE queue # <<>>
  <2> DEFINE h == Head(queue)
             n == Len(queue)
             s == [jobs[h] EXCEPT !.pc = "start"]
  <2>1. Started = {h} /\ Cardinality(Started) = 1
    BY <1>5, FS_Singleton DEF Started
  <2>2. n \in Nat \ {0} /\ h = queue[1] /\ h \in Request
    BY <1>5 DEF SlotTypes
  <2>3. jobs[h].pc = "queued" /\ h # j
    BY <2>2 DEF QueueOK, Running
  <2>4. jobs' = [k \in Request |-> IF k = j THEN Settled(pc) ELSE IF k = h THEN s ELSE jobs[k]]
        /\ active' = (active - 1) + 1 /\ queue' = Tail(queue)
    BY <2>1 DEF EndJob
  <2>5. s \in JobState /\ s.pc = "start" /\ s.image = jobs[h].image
        /\ s.variant = jobs[h].variant
    BY <2>2 DEF SlotTypes, JobState, Running
  <2> HIDE DEF s
  <2>6. /\ jobs'[j] = Settled(pc) /\ jobs'[h] = s
        /\ \A k \in Request \ {j, h} : jobs'[k] = jobs[k]
    BY <2>2, <2>3, <2>4
  <2>7. RunningJobs' = (RunningJobs \ {j}) \cup {h} /\ h \notin RunningJobs
    BY <2>2, <2>3, <2>5, <2>6, SettledIs DEF RunningJobs, Running
  <2>8. IsFiniteSet(RunningJobs') /\ Cardinality(RunningJobs') = (active - 1) + 1
    BY <1>2, <2>7, FS_AddElement
  <2>9. active' = active /\ active = MaxActive
    BY <1>3, <1>5, <2>4 DEF QueueOK
  <2>10. /\ Len(queue') = n - 1 /\ queue' \in Seq(Request)
         /\ \A m \in 1..(n - 1) : queue'[m] = queue[m + 1]
    BY <1>5, <2>2, <2>4 DEF SlotTypes
  <2>11. {k \in Request : jobs'[k].pc = "queued"}
           = {k \in Request : jobs[k].pc = "queued"} \ {h}
    BY <2>3, <2>5, <2>6, SettledIs DEF Running
  <2>12. {queue'[m] : m \in 1..Len(queue')} = {queue[m] : m \in 1..n} \ {h}
    <3>1. \A m \in 1..(n - 1) : m + 1 \in 1..n /\ queue[m + 1] # h
      BY <2>2 DEF QueueOK
    <3>2. \A m \in 1..n : queue[m] # h => m - 1 \in 1..(n - 1) /\ queue'[m - 1] = queue[m]
      BY <2>2, <2>10
    <3> HIDE DEF n, h
    <3>3. ASSUME NEW m \in 1..Len(queue')
          PROVE  queue'[m] \in {queue[l] : l \in 1..n} \ {h}
      <4>1. m \in 1..(n - 1)
        BY <2>10, <3>3
      <4>2. m + 1 \in 1..n /\ queue'[m] = queue[m + 1] /\ queue[m + 1] # h
        BY <2>10, <3>1, <4>1
      <4> QED BY <4>2
    <3>4. ASSUME NEW m \in 1..n, queue[m] # h
          PROVE  queue[m] \in {queue'[l] : l \in 1..Len(queue')}
      <4>1. m - 1 \in 1..Len(queue') /\ queue'[m - 1] = queue[m]
        BY <2>10, <3>2, <3>4
      <4> QED BY <4>1
    <3> QED BY <3>3, <3>4
  <2>13. \A l, m \in 1..Len(queue') : l # m => queue'[l] # queue'[m]
    <3>1. \A m \in 1..(n - 1) : m + 1 \in 1..n
      BY <2>2
    <3> QED BY <2>2, <2>10, <3>1 DEF QueueOK
  <2>14. QueueOK'
    BY <1>3, <2>4, <2>8, <2>9, <2>11, <2>12, <2>13 DEF QueueOK
  <2>15. SlotTypes'
    <3>1. jobs' \in [Request -> JobState]
      BY <2>4, <2>5, SettledIs DEF SlotTypes
    <3>2. Len(queue') <= MaxQueue
      BY <2>2, <2>10, ImageAssumption DEF SlotTypes
    <3> QED BY <2>9, <2>10, <3>1, <3>2 DEF SlotTypes
  <2>16. \A k \in Request \ {j} : Unmoved(k)
    BY <2>3, <2>5, <2>6 DEF Unmoved
  <2> QED BY <2>6, <2>14, <2>15, <2>16
<1> QED BY <1>4, <1>5

-----------------------------------------------------------------------------
(* A step that moves one handler and leaves files and jobs alone.          *)

RowTypes == refs \in [Food -> [Field -> MaybeImage]] /\ logo \in MaybeImage
GateTypes == activeUploads \in 0..MaxUploads /\ listening \subseteq Request

\* A removal at work stays one, a job in progress keeps its caller, and what a job
\* is awaited by goes on awaiting it.
Harmless(r, s) ==
  /\ jobs[r].pc # "none" => s.pc \in {"wait", "done"}
  /\ req[r].pc \in Removing => s.pc \in Removing /\ s.image = req[r].image
  /\ \A j \in Request : jobs[j].pc = "render" /\ Awaits(r, j) =>
                           \/ s.pc = "collect"
                           \/ s.pc = "drain" /\ j \in s.waits

LEMMA ReqStep ==
  ASSUME IInv, NEW r \in Request, NEW s \in HandlerState, req' = [req EXCEPT ![r] = s],
         UNCHANGED <<files, named, slots, torn>>, Harmless(r, s), HandlerOK(r)',
         RowsOK', RowTypes', GateOK', GateTypes', listening' \subseteq listening \cup {r}
  PROVE  IInv'
<1>1. UNCHANGED <<sources, derived, named, jobs, active, queue, pending, torn>>
  BY DEF files, slots
<1>2. req \in [Request -> HandlerState]
  BY DEF IInv, TypeOK
<1>3. req'[r] = s /\ \A q \in Request \ {r} : req'[q] = req[q]
  BY <1>2
<1>4. TypeOK'
  <2>1. req' \in [Request -> HandlerState]
    BY <1>2
  <2> QED BY <1>1, <2>1 DEF IInv, TypeOK, RowTypes, GateTypes
<1>5. QueueOK' /\ PendingOK' /\ NamesDiffer'
  BY <1>1 DEF IInv, QueueOK, PendingOK, NamesDiffer, RunningJobs, Live, Uploading
<1>6. ASSUME NEW q \in Request PROVE JobOK(q)' /\ HandlerOK(q)'
  <2>1. JobOK(q)'
    BY <1>1, <1>3 DEF IInv, JobOK, Uploading, Live, Harmless
  <2>2. HandlerOK(q)'
    BY <1>1, <1>3 DEF IInv, HandlerOK
  <2> QED BY <2>1, <2>2
<1>7. NoOrphanVariant'
  <2>1. \A q \in Request : req[q].pc \in Removing =>
           req'[q].pc \in Removing /\ req'[q].image = req[q].image
    BY <1>3 DEF Harmless
  <2> QED BY <1>1, <2>1 DEF IInv, NoOrphanVariant, Removing
<1>8. RenderOK'
  <2>1. ASSUME NEW j \in Request, NEW q \in Request, jobs[j].pc = "render", Awaits(q, j)
        PROVE  Awaits(q, j)'
    <3>1. CASE q = r
      <4>1. s.image = req[r].image
        BY <2>1, <3>1 DEF Awaits, Harmless, Removing
      <4> QED BY <1>1, <1>3, <2>1, <3>1, <4>1 DEF Awaits, Harmless
    <3>2. CASE q # r
      BY <1>1, <1>3, <2>1, <3>2 DEF Awaits
    <3> QED BY <3>1, <3>2
  <2> QED BY <1>1, <2>1 DEF IInv, RenderOK
<1> QED BY <1>4, <1>5, <1>6, <1>7, <1>8 DEF IInv

\* ... and the rows and the gate as well.
LEMMA QuietStep ==
  ASSUME IInv, NEW r \in Request, NEW s \in HandlerState, req' = [req EXCEPT ![r] = s],
         UNCHANGED <<files, rows, named, slots, gate, torn>>, Harmless(r, s), HandlerOK(r)'
  PROVE  IInv'
<1>1. UNCHANGED <<refs, logo, activeUploads, listening, torn, named>>
  BY DEF rows, gate
<1>2. RowsOK' /\ RowTypes'
  BY <1>1 DEF IInv, TypeOK, RowsOK, RowTypes
<1>3. GateOK' /\ GateTypes'
  BY <1>1 DEF IInv, TypeOK, GateOK, GateTypes
<1>4. listening' \subseteq listening \cup {r}
  BY <1>1
<1> QED BY <1>2, <1>3, <1>4, ReqStep

LEMMA IdleIs ==
  /\ Idle \in HandlerState /\ Idle.pc = "idle" /\ Idle.replaced = {}
  /\ \A x \in Field : Idle.form[x] = None
BY DEF Idle, HandlerState, MaybeImage

LEMMA AnsweredIs ==
  /\ Answered \in HandlerState /\ Answered.pc = "done" /\ Answered.replaced = {}
  /\ \A x \in Field : Answered.form[x] = None
BY IdleIs DEF Answered, HandlerState

LEMMA AnsweredOK ==
  ASSUME NEW r \in Request, req'[r] = Answered
  PROVE  HandlerOK(r)'
BY AnsweredIs DEF HandlerOK, Removing

LEMMA AnswerStep ==
  ASSUME IInv, NEW r \in Request, Answer(r), req[r].pc \notin Removing,
         UNCHANGED <<files, rows, named, slots, gate, torn>>
  PROVE  IInv'
<1>1. req' = [req EXCEPT ![r] = Answered]
  BY DEF Answer
<1>2. req'[r] = Answered
  BY <1>1 DEF IInv, TypeOK
<1>3. Harmless(r, Answered)
  BY AnsweredIs DEF Harmless, Awaits, Removing
<1> QED BY <1>1, <1>2, <1>3, AnsweredIs, AnsweredOK, QuietStep

\* A handler goes on to its next step with what it has.
LEMMA GotoIs ==
  ASSUME IInv, NEW r \in Request, NEW s, NEW pc \in {"access", "receive", "collect", "sweep"},
         s = [req[r] EXCEPT !.pc = pc]
  PROVE  /\ s \in HandlerState /\ s.pc = pc /\ s.image = req[r].image
         /\ s.variant = req[r].variant /\ s.food = req[r].food /\ s.form = req[r].form
         /\ s.replaced = req[r].replaced /\ s.waits = req[r].waits
         /\ Goto(r, pc) => req' = [req EXCEPT ![r] = s] /\ req'[r] = s
<1>1. req[r] \in HandlerState /\ req \in [Request -> HandlerState]
  BY DEF IInv, TypeOK
<1>2. s \in HandlerState
  BY <1>1 DEF HandlerState
<1>3. /\ s.pc = pc /\ s.image = req[r].image
      /\ s.variant = req[r].variant /\ s.food = req[r].food /\ s.form = req[r].form
      /\ s.replaced = req[r].replaced /\ s.waits = req[r].waits
  BY <1>1 DEF HandlerState
<1>4. Goto(r, pc) => req' = [req EXCEPT ![r] = s] /\ req'[r] = s
  BY <1>1 DEF Goto
<1> QED BY <1>2, <1>3, <1>4

-----------------------------------------------------------------------------
(* Requests for a variant and uploads, where no job starts.                *)

LEMMA GetVariantInv ==
  ASSUME IInv, NEW r \in Request, NEW i \in Image, NEW v \in Variant, GetVariant(r, i, v),
         UNCHANGED <<rows, named, gate, torn>>
  PROVE  IInv'
<1> DEFINE s == [Idle EXCEPT !.pc = "lstat", !.image = i, !.variant = v]
<1>1. /\ s \in HandlerState /\ s.pc = "lstat" /\ s.image = i /\ s.variant = v
      /\ s.replaced = {} /\ \A x \in Field : s.form[x] = None
  BY IdleIs DEF HandlerState, MaybeImage
<1>2. req' = [req EXCEPT ![r] = s] /\ UNCHANGED <<files, slots>> /\ i \in named
      /\ req[r].pc = "idle"
  BY DEF GetVariant
<1> HIDE DEF s
<1>3. req'[r] = s /\ UNCHANGED <<named, listening>>
  BY <1>2 DEF IInv, TypeOK, gate
<1>4. HandlerOK(r)'
  BY <1>1, <1>2, <1>3 DEF IInv, HandlerOK, Removing
<1>5. Harmless(r, s)
  BY <1>2 DEF IInv, JobOK, Harmless, Awaits, Removing
<1> QED BY <1>1, <1>2, <1>4, <1>5, QuietStep

LEMMA GiveUpInv ==
  ASSUME IInv, NEW r \in Request, GiveUp(r), UNCHANGED <<rows, named, gate, torn>>
  PROVE  IInv'
BY AnswerStep DEF GiveUp, Removing

LEMMA LstatInv ==
  ASSUME IInv, NEW r \in Request, Lstat(r), UNCHANGED <<rows, named, gate, torn>>
  PROVE  IInv'
<1>1. req[r].pc = "lstat" /\ UNCHANGED <<files, slots>>
  BY DEF Lstat
<1>2. CASE Answer(r)
  BY <1>1, <1>2, AnswerStep DEF Removing
<1>3. CASE Goto(r, "access")
  <2> DEFINE s == [req[r] EXCEPT !.pc = "access"]
  <2>1. /\ s \in HandlerState /\ s.pc = "access" /\ s.image = req[r].image
        /\ s.variant = req[r].variant /\ s.replaced = req[r].replaced
        /\ s.form = req[r].form /\ req' = [req EXCEPT ![r] = s] /\ req'[r] = s
    BY <1>3, GotoIs
  <2> HIDE DEF s
  <2>2. HandlerOK(r)'
    BY <1>1, <2>1 DEF IInv, HandlerOK, Removing, gate
  <2>3. Harmless(r, s)
    BY <1>1 DEF IInv, JobOK, Harmless, Awaits, Removing
  <2> QED BY <1>1, <2>1, <2>2, <2>3, QuietStep
<1> QED BY <1>2, <1>3 DEF Lstat

\* A request waits for the job of another one.
LEMMA JoinInv ==
  ASSUME IInv, NEW r \in Request, NEW j \in Request, req[r].pc = "access",
         req' = [req EXCEPT ![r].pc = "wait", ![r].job = j],
         UNCHANGED <<files, slots, rows, named, gate, torn>>
  PROVE  IInv'
<1> DEFINE s == [req[r] EXCEPT !.pc = "wait", !.job = j]
<1>1. req[r] \in HandlerState /\ req \in [Request -> HandlerState]
  BY DEF IInv, TypeOK
<1>2. s \in HandlerState
  BY <1>1 DEF HandlerState
<1>3. s.pc = "wait" /\ s.replaced = req[r].replaced /\ s.form = req[r].form
  BY <1>1 DEF HandlerState
<1>4. req' = [req EXCEPT ![r] = s]
  BY <1>1
<1> HIDE DEF s
<1>5. req'[r] = s
  BY <1>1, <1>4
<1>6. HandlerOK(r)'
  BY <1>3, <1>5 DEF IInv, HandlerOK, Removing, gate
<1>7. Harmless(r, s)
  BY <1>3 DEF Harmless, Awaits, Removing
<1> QED BY <1>2, <1>4, <1>6, <1>7, QuietStep

LEMMA UploadInv ==
  ASSUME IInv, NEW r \in Request, Upload(r), UNCHANGED <<files, rows, named, torn>>
  PROVE  IInv'
<1>1. req[r].pc = "idle" /\ UNCHANGED slots
  BY DEF Upload
<1>2. CASE Answer(r) /\ UNCHANGED gate
  BY <1>1, <1>2, AnswerStep DEF Removing
<1>3. CASE /\ ~GateFull /\ Goto(r, "receive")
           /\ activeUploads' = activeUploads + 1 /\ listening' = listening \cup {r}
  <2> DEFINE s == [req[r] EXCEPT !.pc = "receive"]
  <2>1. /\ s \in HandlerState /\ s.pc = "receive" /\ s.replaced = req[r].replaced
        /\ s.form = req[r].form /\ req' = [req EXCEPT ![r] = s] /\ req'[r] = s
    BY <1>3, GotoIs
  <2> HIDE DEF s
  <2>2. HandlerOK(r)'
    BY <1>1, <2>1 DEF IInv, HandlerOK, Removing
  <2>3. Harmless(r, s)
    BY <1>1 DEF IInv, JobOK, Harmless, Awaits, Removing
  <2>4. r \notin listening
    BY <1>1 DEF IInv, HandlerOK
  <2>5. GateOK' /\ GateTypes'
    <3>1. /\ IsFiniteSet(listening \cup {r})
          /\ Cardinality(listening \cup {r}) = Cardinality(listening) + 1
      BY <2>4, FS_AddElement DEF IInv, GateOK
    <3>2. activeUploads + 1 \in 0..MaxUploads
      BY <1>3, ImageAssumption DEF IInv, TypeOK, GateFull
    <3> QED BY <1>3, <3>1, <3>2 DEF IInv, TypeOK, GateOK, GateTypes
  <2>6. RowsOK' /\ RowTypes'
    BY DEF rows, IInv, TypeOK, RowsOK, RowTypes
  <2> QED BY <1>1, <1>3, <2>1, <2>2, <2>3, <2>5, <2>6, ReqStep
<1> QED BY <1>2, <1>3 DEF Upload

LEMMA ReleaseGate ==
  ASSUME IInv, NEW r \in Request, r \in listening, release(r)
  PROVE  GateOK' /\ GateTypes' /\ listening' \subseteq listening \cup {r}
<1>1. /\ IsFiniteSet(listening \ {r}) /\ Cardinality(listening \ {r}) \in Nat
      /\ Cardinality(listening \ {r}) = Cardinality(listening) - 1
  BY FS_RemoveElement, FS_CardinalityType DEF IInv, GateOK
<1>2. activeUploads - 1 \in 0..MaxUploads
  BY <1>1, ImageAssumption DEF IInv, TypeOK, GateOK
<1> QED BY <1>1, <1>2 DEF IInv, TypeOK, GateOK, GateTypes, release

LEMMA RespondedInv ==
  ASSUME IInv, NEW r \in Request, Responded(r), UNCHANGED <<files, rows, named, torn>>
  PROVE  IInv'
<1>1. /\ r \in listening /\ req[r].pc = "done" /\ release(r)
      /\ UNCHANGED <<req, slots>>
  BY DEF Responded
<1>2. GateOK' /\ GateTypes' /\ listening' \subseteq listening
  BY <1>1, ReleaseGate DEF release
<1>3. RowsOK' /\ RowTypes'
  BY DEF rows, IInv, TypeOK, RowsOK, RowTypes
<1>4. req[r] \in HandlerState /\ req' = [req EXCEPT ![r] = req[r]]
  BY <1>1 DEF IInv, TypeOK
<1>5. HandlerOK(r)'
  BY <1>1, <1>2 DEF IInv, HandlerOK
<1>6. Harmless(r, req[r])
  BY <1>1 DEF Harmless, Awaits, Removing
<1> QED BY <1>1, <1>2, <1>3, <1>4, <1>5, <1>6, ReqStep

LEMMA CloseInv ==
  ASSUME IInv, NEW r \in Request, onClose(r), UNCHANGED <<files, rows, named, torn>>
  PROVE  IInv'
<1>1. /\ r \in listening /\ req[r].pc \in {"receive", "wait"} /\ release(r)
      /\ UNCHANGED slots
  BY DEF onClose
<1>2. GateOK' /\ GateTypes' /\ listening' \subseteq listening \cup {r}
  BY <1>1, ReleaseGate
<1>3. RowsOK' /\ RowTypes'
  BY DEF rows, IInv, TypeOK, RowsOK, RowTypes
<1>4. CASE Answer(r)
  <2>1. req' = [req EXCEPT ![r] = Answered] /\ req'[r] = Answered
    BY <1>4 DEF Answer, IInv, TypeOK
  <2>2. Harmless(r, Answered)
    BY <1>1, AnsweredIs DEF Harmless, Awaits, Removing
  <2> QED BY <1>1, <1>2, <1>3, <2>1, <2>2, AnsweredIs, AnsweredOK, ReqStep
<1>5. CASE UNCHANGED req
  <2>1. req[r] \in HandlerState /\ req' = [req EXCEPT ![r] = req[r]]
    BY <1>5 DEF IInv, TypeOK
  <2>2. HandlerOK(r)'
    BY <1>1, <1>5 DEF IInv, HandlerOK
  <2>3. Harmless(r, req[r])
    BY <1>1 DEF IInv, JobOK, Harmless, Awaits, Removing
  <2> QED BY <1>1, <1>2, <1>3, <2>1, <2>2, <2>3, ReqStep
<1> QED BY <1>4, <1>5 DEF onClose

-----------------------------------------------------------------------------
(* Saving rows, and removing what they named before.                       *)

LEMMA SaveFoodInv ==
  ASSUME IInv, NEW r \in Request, NEW f \in Food, NEW form \in [Field -> MaybeImage],
         SaveFood(r, f, form), UNCHANGED <<files, named, slots, gate, torn>>
  PROVE  IInv'
<1> DEFINE s == [Idle EXCEPT !.pc = "find", !.food = f, !.form = form]
<1>1. /\ s \in HandlerState /\ s.pc = "find" /\ s.food = f
      /\ s.replaced = {} /\ s.form = form
  BY IdleIs DEF HandlerState
<1>2. req' = [req EXCEPT ![r] = s] /\ UNCHANGED rows /\ req[r].pc = "idle"
      /\ \A x \in Field : form[x] \in named \cup {None}
  BY DEF SaveFood
<1> HIDE DEF s
<1>3. req'[r] = s /\ UNCHANGED listening
  BY <1>2 DEF IInv, TypeOK, gate
<1>4. HandlerOK(r)'
  BY <1>1, <1>2, <1>3 DEF IInv, HandlerOK, Removing
<1>5. Harmless(r, s)
  BY <1>2 DEF IInv, JobOK, Harmless, Awaits, Removing
<1> QED BY <1>1, <1>2, <1>4, <1>5, QuietStep

LEMMA FindFoodInv ==
  ASSUME IInv, NEW r \in Request, FindFood(r), UNCHANGED <<files, named, slots, gate, torn>>
  PROVE  IInv'
<1> DEFINE old == {refs[req[r].food][x] : x \in Field} \ {None}
           s == [req[r] EXCEPT !.pc = "save", !.replaced = old]
<1>1. /\ req[r] \in HandlerState /\ req \in [Request -> HandlerState] /\ HandlerOK(r)
      /\ req[r].pc = "find" /\ named \subseteq Image
  BY DEF IInv, TypeOK, FindFood
<1>2. old \subseteq named
  BY <1>1 DEF IInv, RowsOK, HandlerOK
<1>3. req' = [req EXCEPT ![r] = s]
  BY <1>1 DEF FindFood
<1> HIDE DEF old
<1>4. s \in HandlerState
  BY <1>1, <1>2 DEF HandlerState
<1>5. s.pc = "save" /\ s.replaced = old /\ s.form = req[r].form /\ s.food = req[r].food
  BY <1>1 DEF HandlerState
<1> HIDE DEF s
<1>6. req'[r] = s /\ UNCHANGED listening
  BY <1>1, <1>3 DEF gate
<1>7. HandlerOK(r)'
  BY <1>1, <1>2, <1>5, <1>6 DEF HandlerOK, Removing
<1>8. Harmless(r, s)
  BY <1>1 DEF IInv, JobOK, Harmless, Awaits, Removing
<1>9. UNCHANGED rows
  BY DEF FindFood
<1> QED BY <1>3, <1>4, <1>7, <1>8, <1>9, QuietStep

\* The handler cleans up the next image, or answers.
LEMMA ContinueIs ==
  ASSUME IInv, NEW r \in Request, NEW left, left \subseteq named, Continue(r, left)
  PROVE  \E s \in HandlerState :
            /\ req' = [req EXCEPT ![r] = s] /\ req'[r] = s
            /\ s.pc \in {"count", "done"} /\ s.replaced \subseteq named
            /\ \A x \in Field : s.form[x] = None
<1>1. req[r] \in HandlerState /\ req \in [Request -> HandlerState] /\ left \subseteq Image
  BY DEF IInv, TypeOK
<1>2. CASE left = {}
  BY <1>1, <1>2, AnsweredIs DEF Continue
<1>3. CASE left # {}
  <2> DEFINE s == [Idle EXCEPT !.pc = "count", !.food = req[r].food, !.replaced = left]
  <2>1. req[r].food \in Food \cup {None}
    BY <1>1 DEF HandlerState
  <2>2. /\ s \in HandlerState /\ s.pc = "count" /\ s.replaced = left
        /\ \A x \in Field : s.form[x] = None
    BY <1>1, <2>1, IdleIs DEF HandlerState
  <2>3. req' = [req EXCEPT ![r] = s]
    BY <1>3 DEF Continue
  <2> HIDE DEF s
  <2>4. req'[r] = s
    BY <1>1, <2>3
  <2> QED BY <2>2, <2>3, <2>4
<1> QED BY <1>2, <1>3

LEMMA UpdateFoodInv ==
  ASSUME IInv, NEW r \in Request, UpdateFood(r), UNCHANGED <<files, named, slots, gate, torn>>
  PROVE  IInv'
<1>1. /\ req[r].pc = "save" /\ req[r].food \in Food /\ req[r].replaced \subseteq named
      /\ \A x \in Field : req[r].form[x] \in named \cup {None}
      /\ req[r].form \in [Field -> MaybeImage]
      /\ r \notin listening /\ jobs[r].pc = "none"
  BY DEF UpdateFood, IInv, TypeOK, HandlerOK, HandlerState, JobOK
<1>2. PICK s \in HandlerState :
            /\ req' = [req EXCEPT ![r] = s] /\ req'[r] = s
            /\ s.pc \in {"count", "done"} /\ s.replaced \subseteq named
            /\ \A x \in Field : s.form[x] = None
  BY <1>1, ContinueIs DEF UpdateFood
<1>3. HandlerOK(r)'
  BY <1>1, <1>2 DEF HandlerOK, Removing, gate
<1>4. Harmless(r, s)
  BY <1>1 DEF Harmless, Awaits, Removing
<1>5. refs' = [refs EXCEPT ![req[r].food] = req[r].form] /\ logo' = logo
  BY DEF UpdateFood
<1>6. RowsOK' /\ RowTypes'
  BY <1>1, <1>5 DEF IInv, TypeOK, RowsOK, RowTypes
<1>7. GateOK' /\ GateTypes' /\ listening' \subseteq listening \cup {r}
  BY DEF gate, IInv, TypeOK, GateOK, GateTypes
<1> QED BY <1>2, <1>3, <1>4, <1>6, <1>7, ReqStep

LEMMA SaveLogoInv ==
  ASSUME IInv, NEW r \in Request, NEW i \in MaybeImage, SaveLogo(r, i),
         UNCHANGED <<files, named, slots, gate, torn>>
  PROVE  IInv'
<1>1. /\ req[r].pc = "idle" /\ i \in named \cup {None} /\ logo' \in {i, logo} /\ refs' = refs
      /\ r \notin listening /\ jobs[r].pc = "none" /\ named \subseteq Image
      /\ req \in [Request -> HandlerState]
  BY DEF SaveLogo, IInv, TypeOK, HandlerOK, JobOK
<1>2. RowsOK' /\ RowTypes'
  BY <1>1 DEF IInv, TypeOK, RowsOK, RowTypes, MaybeImage
<1>3. GateOK' /\ GateTypes' /\ listening' \subseteq listening \cup {r}
  BY DEF gate, IInv, TypeOK, GateOK, GateTypes
<1>4. ASSUME NEW s \in HandlerState, req' = [req EXCEPT ![r] = s], HandlerOK(r)'
      PROVE  IInv'
  <2>1. Harmless(r, s)
    BY <1>1 DEF Harmless, Awaits, Removing
  <2> QED BY <1>2, <1>3, <1>4, <2>1, ReqStep
<1>5. CASE req' = [req EXCEPT ![r] = Answered]
  <2>1. req' = [req EXCEPT ![r] = Answered]
    BY <1>5
  <2>2. req'[r] = Answered
    BY <1>1, <2>1
  <2> QED BY <1>4, <2>1, <2>2, AnsweredIs, AnsweredOK
<1>6. CASE /\ logo \notin {None, i}
           /\ req' = [req EXCEPT ![r] = [Idle EXCEPT !.pc = "unlink", !.image = logo,
                                                     !.replaced = {logo}]]
  <2> DEFINE s == [Idle EXCEPT !.pc = "unlink", !.image = logo, !.replaced = {logo}]
  <2>1. logo \in named
    BY <1>6 DEF IInv, RowsOK
  <2>2. s \in HandlerState
    BY <1>1, <2>1, IdleIs DEF HandlerState, MaybeImage
  <2>3. /\ s.pc = "unlink" /\ s.image = logo /\ s.replaced = {logo}
        /\ \A x \in Field : s.form[x] = None
    BY IdleIs DEF HandlerState
  <2>4. req' = [req EXCEPT ![r] = s]
    BY <1>6
  <2> HIDE DEF s
  <2>5. req'[r] = s
    BY <1>1, <2>4
  <2>6. HandlerOK(r)'
    BY <1>1, <2>1, <2>3, <2>5 DEF HandlerOK, Removing, gate
  <2> QED BY <1>4, <2>2, <2>4, <2>6
<1> QED BY <1>5, <1>6 DEF SaveLogo, Answer

LEMMA CountInv ==
  ASSUME IInv, NEW r \in Request, CountReferences(r),
         UNCHANGED <<rows, named, slots, gate, torn>>
  PROVE  IInv'
<1>1. /\ req[r].pc = "count" /\ req[r].replaced \subseteq named /\ r \notin listening
      /\ jobs[r].pc = "none" /\ req[r] \in HandlerState
      /\ \A x \in Field : req[r].form[x] \in named \cup {None}
      /\ req \in [Request -> HandlerState] /\ named \subseteq Image
  BY DEF CountReferences, IInv, TypeOK, HandlerOK, JobOK
<1>2. UNCHANGED files
  BY DEF CountReferences
<1>3. PICK i \in req[r].replaced :
        \/ Continue(r, req[r].replaced \ {i})
        \/ req' = [req EXCEPT ![r].pc = "unlink", ![r].image = i]
  BY DEF CountReferences
<1>4. CASE Continue(r, req[r].replaced \ {i})
  <2>1. PICK s \in HandlerState :
            /\ req' = [req EXCEPT ![r] = s] /\ req'[r] = s
            /\ s.pc \in {"count", "done"} /\ s.replaced \subseteq named
            /\ \A x \in Field : s.form[x] = None
    BY <1>1, <1>4, ContinueIs
  <2>2. HandlerOK(r)'
    BY <1>1, <2>1 DEF HandlerOK, Removing, gate
  <2>3. Harmless(r, s)
    BY <1>1 DEF Harmless, Awaits, Removing
  <2> QED BY <1>2, <2>1, <2>2, <2>3, QuietStep
<1>5. CASE req' = [req EXCEPT ![r].pc = "unlink", ![r].image = i]
  <2> DEFINE s == [req[r] EXCEPT !.pc = "unlink", !.image = i]
  <2>1. i \in named /\ i \in MaybeImage
    BY <1>1 DEF MaybeImage
  <2>2. s \in HandlerState
    BY <1>1, <2>1 DEF HandlerState
  <2>3. /\ s.pc = "unlink" /\ s.image = i /\ s.replaced = req[r].replaced
        /\ s.form = req[r].form
    BY <1>1 DEF HandlerState
  <2>4. req' = [req EXCEPT ![r] = s]
    BY <1>1, <1>5
  <2> HIDE DEF s
  <2>5. req'[r] = s
    BY <1>1, <2>4
  <2>6. HandlerOK(r)'
    BY <1>1, <2>1, <2>3, <2>5 DEF HandlerOK, Removing, gate
  <2>7. Harmless(r, s)
    BY <1>1 DEF Harmless, Awaits, Removing
  <2> QED BY <1>2, <2>2, <2>4, <2>6, <2>7, QuietStep
<1> QED BY <1>3, <1>4, <1>5

LEMMA CleanupFailsInv ==
  ASSUME IInv, NEW r \in Request, CleanupFails(r),
         UNCHANGED <<rows, named, slots, gate, torn>>
  PROVE  IInv'
<1>1. /\ req[r].pc \in {"count", "unlink"} /\ req[r].replaced \subseteq named
      /\ r \notin listening /\ jobs[r].pc = "none" /\ UNCHANGED files
  BY DEF CleanupFails, IInv, HandlerOK, JobOK
<1>2. PICK i \in req[r].replaced : Continue(r, req[r].replaced \ {i})
  BY DEF CleanupFails
<1>3. PICK s \in HandlerState :
          /\ req' = [req EXCEPT ![r] = s] /\ req'[r] = s
          /\ s.pc \in {"count", "done"} /\ s.replaced \subseteq named
          /\ \A x \in Field : s.form[x] = None
  BY <1>1, <1>2, ContinueIs
<1>4. HandlerOK(r)'
  BY <1>1, <1>3 DEF HandlerOK, Removing, gate
<1>5. Harmless(r, s)
  BY <1>1 DEF Harmless, Awaits, Removing
<1> QED BY <1>1, <1>3, <1>4, <1>5, QuietStep

\* The jobs that a removal waits for include each one that may have read the original.
LEMMA CollectInv ==
  ASSUME IInv, NEW r \in Request, Collect(r), UNCHANGED <<rows, named, slots, gate, torn>>
  PROVE  IInv'
<1> DEFINE w == PendingJobs(req[r].image)
           s == [req[r] EXCEPT !.pc = "drain", !.waits = w]
<1>1. /\ req[r].pc = "collect" /\ req[r] \in HandlerState /\ HandlerOK(r)
      /\ req \in [Request -> HandlerState] /\ jobs[r].pc = "none"
      /\ named \subseteq Image /\ pending \in [Keys -> Request \cup {None}]
      /\ UNCHANGED files
  BY DEF Collect, IInv, TypeOK, JobOK
<1>2. req[r].image \in named
  BY <1>1 DEF HandlerOK, Removing
<1>3. w \subseteq Request
  BY <1>1, <1>2 DEF PendingJobs, Keys
<1>4. s \in HandlerState
  BY <1>1, <1>3 DEF HandlerState
<1>5. /\ s.pc = "drain" /\ s.waits = w /\ s.image = req[r].image
      /\ s.replaced = req[r].replaced /\ s.form = req[r].form
  BY <1>1 DEF HandlerState
<1>6. req' = [req EXCEPT ![r] = s]
  BY <1>1 DEF Collect
<1>7. ASSUME NEW j \in Request, jobs[j].pc = "render", jobs[j].image = req[r].image
      PROVE  j \in w
  <2>1. /\ jobs[j].variant # None /\ Live(j) /\ jobs[j].variant \in Variant \cup {None}
        /\ pending[<<jobs[j].image, jobs[j].variant>>] = j
    BY <1>7 DEF IInv, TypeOK, JobState, JobOK, Live, Running
  <2>2. j # None
    BY ImageAssumption
  <2> QED BY <1>7, <2>1, <2>2 DEF PendingJobs
<1> HIDE DEF s, w
<1>8. req'[r] = s
  BY <1>1, <1>6
<1>9. HandlerOK(r)'
  BY <1>1, <1>5, <1>8 DEF HandlerOK, Removing, gate
<1>10. Harmless(r, s)
  BY <1>1, <1>5, <1>7 DEF Harmless, Awaits, Removing
<1> QED BY <1>1, <1>4, <1>6, <1>9, <1>10, QuietStep

LEMMA DrainInv ==
  ASSUME IInv, NEW r \in Request, Drain(r), UNCHANGED <<rows, named, slots, gate, torn>>
  PROVE  IInv'
<1>1. /\ req[r].pc = "drain" /\ HandlerOK(r) /\ jobs[r].pc = "none" /\ UNCHANGED files
      /\ \A j \in req[r].waits : JobOver(j)
      /\ Goto(r, "sweep")
  BY DEF Drain, IInv, JobOK
<1> DEFINE s == [req[r] EXCEPT !.pc = "sweep"]
<1>2. /\ s \in HandlerState /\ s.pc = "sweep" /\ s.image = req[r].image
      /\ s.replaced = req[r].replaced /\ s.form = req[r].form
      /\ req' = [req EXCEPT ![r] = s] /\ req'[r] = s
  BY <1>1, GotoIs
<1> HIDE DEF s
<1>3. HandlerOK(r)'
  BY <1>1, <1>2 DEF HandlerOK, Removing, gate
<1>4. Harmless(r, s)
  BY <1>1, <1>2 DEF Harmless, Awaits, Removing, JobOver
<1> QED BY <1>1, <1>2, <1>3, <1>4, QuietStep

\* The original goes; who was reading it is awaited by this removal.
LEMMA UnlinkInv ==
  ASSUME IInv, NEW r \in Request, UnlinkSource(r),
         UNCHANGED <<rows, named, slots, gate, torn>>
  PROVE  IInv'
<1> DEFINE i == req[r].image
           s == [req[r] EXCEPT !.pc = "collect"]
<1>1. /\ req[r].pc = "unlink" /\ HandlerOK(r) /\ jobs[r].pc = "none"
      /\ sources' = sources \ {i} /\ derived' = derived /\ Goto(r, "collect")
      /\ req \in [Request -> HandlerState]
  BY DEF UnlinkSource, IInv, TypeOK, JobOK
<1>2. /\ s \in HandlerState /\ s.pc = "collect" /\ s.image = i
      /\ s.replaced = req[r].replaced /\ s.form = req[r].form
      /\ req' = [req EXCEPT ![r] = s] /\ req'[r] = s
  BY <1>1, GotoIs
<1> HIDE DEF s
<1>3. /\ UNCHANGED <<derived, named, jobs, active, queue, pending, torn, refs, logo,
                     activeUploads, listening>>
      /\ i \in named /\ \A q \in Request \ {r} : req'[q] = req[q]
  BY <1>1, <1>2 DEF rows, slots, gate, HandlerOK
<1>4. PICK gone \in named : gone = i
  BY <1>3
<1> HIDE DEF i
<1>5. TypeOK'
  <2>1. req' \in [Request -> HandlerState]
    BY <1>1, <1>2
  <2> QED BY <1>1, <1>3, <2>1 DEF IInv, TypeOK
<1>6. QueueOK' /\ PendingOK' /\ NamesDiffer' /\ GateOK' /\ RowsOK'
  BY <1>3 DEF IInv, QueueOK, PendingOK, NamesDiffer, RunningJobs, Live, Uploading, GateOK,
              RowsOK
<1>7. ASSUME NEW q \in Request PROVE JobOK(q)' /\ HandlerOK(q)'
  <2>1. JobOK(q)'
    BY <1>1, <1>2, <1>3 DEF IInv, JobOK, Uploading, Live
  <2>2. HandlerOK(q)'
    BY <1>1, <1>2, <1>3 DEF IInv, HandlerOK, Removing, i
  <2> QED BY <2>1, <2>2
<1>8. NoOrphanVariant'
  <2>1. ASSUME NEW k \in derived PROVE
          k[1] \in sources' \cup torn \/ \E q \in Request : /\ req'[q].image = k[1]
                                                             /\ req'[q].pc \in Removing
    <3>1. CASE k[1] = gone
      BY <1>2, <1>4, <3>1 DEF Removing
    <3>2. CASE k[1] # gone
      BY <1>1, <1>3, <1>4, <2>1, <3>2 DEF IInv, NoOrphanVariant, Removing
    <3> QED BY <3>1, <3>2
  <2> QED BY <1>3, <2>1 DEF NoOrphanVariant, Removing
<1>9. RenderOK'
  <2>1. ASSUME NEW j \in Request, jobs[j].pc = "render",
               jobs[j].image \notin sources' \cup torn
        PROVE  \E q \in Request : Awaits(q, j)'
    <3>1. CASE jobs[j].image = gone
      BY <1>2, <1>3, <1>4, <3>1 DEF Awaits
    <3>2. CASE jobs[j].image # gone
      <4>1. PICK q \in Request : Awaits(q, j)
        BY <1>1, <1>4, <2>1, <3>2 DEF IInv, RenderOK
      <4>2. q # r
        BY <1>1, <4>1 DEF Awaits
      <4> QED BY <1>3, <4>1, <4>2 DEF Awaits
    <3> QED BY <3>1, <3>2
  <2> QED BY <1>3, <2>1 DEF RenderOK
<1> QED BY <1>5, <1>6, <1>7, <1>8, <1>9 DEF IInv

\* What the unlinks of the variants leave: those of other images, and some of this one,
\* which is noted as torn if any of them stays.
LEMMA VariantsGo ==
  ASSUME NEW i \in Image, UnlinkVariants(i), torn \subseteq Image
  PROVE  /\ derived' \subseteq derived /\ torn \subseteq torn' /\ torn' \subseteq Image
         /\ \A k \in derived' : k[1] = i => i \in torn'
<1>1. PICK left \in SUBSET {k \in derived : k[1] = i} :
        /\ derived' = {k \in derived : k[1] # i} \cup left
        /\ torn' = IF left = {} THEN torn ELSE torn \cup {i}
  BY DEF UnlinkVariants
<1>2. ASSUME NEW k \in derived', k[1] = i PROVE left # {}
  BY <1>1, <1>2
<1> QED BY <1>1, <1>2

\* The variants go, as far as they can; no job that may write another one is left.
LEMMA SweepInv ==
  ASSUME IInv, NEW r \in Request, Sweep(r), UNCHANGED <<rows, named, slots, gate>>
  PROVE  IInv'
<1>1. /\ req[r].pc = "sweep" /\ HandlerOK(r) /\ jobs[r].pc = "none" /\ sources' = sources
      /\ UnlinkVariants(req[r].image) /\ torn \subseteq Image
      /\ Continue(r, req[r].replaced \ {req[r].image})
      /\ req \in [Request -> HandlerState] /\ derived \subseteq Keys
  BY DEF Sweep, IInv, TypeOK, JobOK
<1>2. PICK s \in HandlerState :
         /\ req' = [req EXCEPT ![r] = s] /\ req'[r] = s
         /\ s.pc \in {"count", "done"} /\ s.replaced \subseteq named
         /\ \A x \in Field : s.form[x] = None
  BY <1>1, ContinueIs DEF HandlerOK
<1>3. /\ UNCHANGED <<sources, named, jobs, active, queue, pending, refs, logo,
                     activeUploads, listening>>
      /\ \A q \in Request \ {r} : req'[q] = req[q]
  BY <1>1, <1>2 DEF rows, slots, gate
<1>4. /\ derived' \subseteq derived /\ torn \subseteq torn' /\ torn' \subseteq Image
      /\ \A k \in derived' : k[1] = req[r].image => k[1] \in torn'
  <2>1. PICK i \in Image : i = req[r].image
    BY <1>1 DEF IInv, TypeOK, HandlerOK, Removing
  <2> QED BY <1>1, <2>1, VariantsGo
<1>5. TypeOK'
  <2>1. req' \in [Request -> HandlerState]
    BY <1>1, <1>2
  <2> QED BY <1>1, <1>3, <1>4, <2>1 DEF IInv, TypeOK
<1>6. QueueOK' /\ PendingOK' /\ NamesDiffer' /\ GateOK' /\ RowsOK'
  BY <1>3 DEF IInv, QueueOK, PendingOK, NamesDiffer, RunningJobs, Live, Uploading, GateOK,
              RowsOK
<1>7. ASSUME NEW q \in Request PROVE JobOK(q)' /\ HandlerOK(q)'
  <2>1. JobOK(q)'
    BY <1>1, <1>2, <1>3 DEF IInv, JobOK, Uploading, Live
  <2>2. HandlerOK(q)'
    BY <1>1, <1>2, <1>3 DEF IInv, HandlerOK, Removing
  <2> QED BY <2>1, <2>2
<1>8. NoOrphanVariant'
  <2>1. ASSUME NEW k \in derived', k[1] \notin sources \cup torn'
        PROVE  \E q \in Request : req'[q].image = k[1] /\ req'[q].pc \in Removing
    <3>1. k \in derived /\ k[1] # req[r].image /\ k[1] \notin sources \cup torn
      BY <1>4, <2>1
    <3> QED BY <1>3, <3>1 DEF IInv, NoOrphanVariant, Removing
  <2> QED BY <1>3, <2>1 DEF NoOrphanVariant, Removing
<1>9. RenderOK'
  <2>1. ASSUME NEW j \in Request, NEW q \in Request, Awaits(q, j) PROVE Awaits(q, j)'
    BY <1>1, <1>3, <2>1 DEF Awaits
  <2> QED BY <1>3, <1>4, <2>1 DEF IInv, RenderOK
<1> QED BY <1>5, <1>6, <1>7, <1>8, <1>9 DEF IInv

-----------------------------------------------------------------------------
(* A job starts.                                                           *)

LEMMA StartInv ==
  ASSUME IInv, NEW r \in Request, req[r].pc \in {"access", "receive"},
         NEW i \in MaybeImage, NEW v \in Variant \cup {None}, runImageJob(r, i, v),
         req' = [req EXCEPT ![r].pc = "wait", ![r].job = r],
         \/ v = None /\ pending' = pending
         \/ /\ v \in Variant /\ i \in named /\ pending[<<i, v>>] = None
            /\ pending' = [pending EXCEPT ![<<i, v>>] = r],
         UNCHANGED <<files, rows, named, gate, torn>>
  PROVE  IInv'
<1> DEFINE s == [req[r] EXCEPT !.pc = "wait", !.job = r]
<1>1. /\ req[r] \in HandlerState /\ req \in [Request -> HandlerState] /\ HandlerOK(r)
      /\ jobs[r].pc = "none" /\ named \subseteq Image
      /\ pending \in [Keys -> Request \cup {None}] /\ r # None
  BY ImageAssumption DEF IInv, TypeOK, JobOK
<1>2. s \in HandlerState
  BY <1>1 DEF HandlerState
<1>3. /\ s.pc = "wait" /\ s.replaced = req[r].replaced /\ s.form = req[r].form
  BY <1>1 DEF HandlerState
<1>4. req' = [req EXCEPT ![r] = s]
  BY <1>1
<1> HIDE DEF s
<1>5. req'[r] = s /\ \A q \in Request \ {r} : req'[q] = req[q]
  BY <1>1, <1>4
<1>6. UNCHANGED <<sources, derived, refs, logo, named, activeUploads, listening, torn>>
  BY DEF files, rows, gate
<1>7. /\ SlotTypes' /\ QueueOK'
      /\ jobs'[r].pc \in {"start", "queued"} /\ jobs'[r].image = i /\ jobs'[r].variant = v
      /\ \A k \in Request \ {r} : jobs'[k] = jobs[k]
  BY <1>1, StartSlots DEF IInv, TypeOK, SlotTypes
<1>8. TypeOK'
  <2>1. req' \in [Request -> HandlerState]
    BY <1>1, <1>2, <1>4
  <2>2. pending' \in [Keys -> Request \cup {None}]
    BY <1>1
  <2> QED BY <1>6, <1>7, <2>1, <2>2 DEF IInv, TypeOK, SlotTypes
<1>9. PendingOK'
  <2>1. ASSUME NEW k \in Keys, pending'[k] # None
        PROVE  /\ Live(pending[k])'
               /\ jobs'[pending'[k]].image = k[1] /\ jobs'[pending'[k]].variant = k[2]
    <3>1. CASE pending'[k] = pending[k]
      <4>1. pending[k] # r /\ Live(pending[k]) /\ pending[k] \in Request
        BY <1>1, <2>1, <3>1 DEF IInv, PendingOK, Live, Running
      <4> QED BY <1>7, <2>1, <3>1, <4>1 DEF IInv, PendingOK, Live
    <3>2. CASE pending'[k] # pending[k]
      <4>1. pending'[k] = r /\ k = <<i, v>>
        BY <1>1, <3>2
      <4> QED BY <1>7, <4>1 DEF Live, Running
    <3> QED BY <3>1, <3>2
  <2> QED BY <2>1 DEF PendingOK
<1>10. NamesDiffer'
  BY <1>7 DEF IInv, NamesDiffer, Uploading
<1>11. ASSUME NEW q \in Request PROVE JobOK(q)' /\ HandlerOK(q)'
  <2>1. HandlerOK(q)'
    BY <1>1, <1>3, <1>5, <1>6 DEF IInv, HandlerOK, Removing
  <2>2. CASE q = r
    BY <1>1, <1>3, <1>5, <1>6, <1>7, <2>1, <2>2 DEF JobOK, Uploading, Keys
  <2>3. CASE q # r
    <3>1. JobOK(q) /\ jobs'[q] = jobs[q] /\ req'[q] = req[q] /\ q # None
      BY <1>5, <1>7, <2>3, ImageAssumption DEF IInv
    <3>2. ASSUME Live(q), jobs[q].variant # None
          PROVE  pending'[<<jobs[q].image, jobs[q].variant>>] = q
      <4>1. pending[<<jobs[q].image, jobs[q].variant>>] = q
        BY <3>1, <3>2 DEF JobOK
      <4>2. <<jobs[q].image, jobs[q].variant>> \in Keys
        BY <1>1, <3>1, <3>2 DEF IInv, TypeOK, JobOK, JobState, Keys
      <4> QED BY <1>1, <3>1, <4>1, <4>2
    <3> QED BY <1>6, <2>1, <3>1, <3>2 DEF JobOK, Live, Uploading
  <2> QED BY <2>1, <2>2, <2>3
<1>12. RowsOK' /\ GateOK'
  BY <1>6 DEF IInv, RowsOK, GateOK
<1>13. NoOrphanVariant'
  <2>1. \A q \in Request : req[q].pc \in Removing =>
           req'[q].pc \in Removing /\ req'[q].image = req[q].image
    BY <1>5 DEF Removing
  <2>2. ASSUME NEW k \in derived, k[1] \notin sources \cup torn
        PROVE  \E q \in Request : req'[q].image = k[1] /\ req'[q].pc \in Removing
    <3>1. PICK q \in Request : req[q].image = k[1] /\ req[q].pc \in Removing
      BY <2>2 DEF IInv, NoOrphanVariant, Removing
    <3> QED BY <2>1, <3>1
  <2> QED BY <1>6, <2>2 DEF NoOrphanVariant, Removing
<1>14. RenderOK'
  <2>1. ASSUME NEW j \in Request, jobs'[j].pc = "render" PROVE jobs'[j] = jobs[j]
    BY <1>7, <2>1
  <2>2. ASSUME NEW j \in Request, NEW q \in Request, Awaits(q, j), jobs'[j] = jobs[j]
        PROVE  Awaits(q, j)'
    BY <1>5, <2>2 DEF Awaits
  <2> QED BY <1>6, <2>1, <2>2 DEF IInv, RenderOK
<1> QED BY <1>7, <1>8, <1>9, <1>10, <1>11, <1>12, <1>13, <1>14 DEF IInv

LEMMA AccessInv ==
  ASSUME IInv, NEW r \in Request, Access(r), UNCHANGED <<rows, named, gate, torn>>
  PROVE  IInv'
<1> DEFINE k == <<req[r].image, req[r].variant>>
<1>1. /\ req[r].pc = "access" /\ UNCHANGED files
      /\ req[r].image \in named /\ req[r].image \in MaybeImage /\ req[r].variant \in Variant
  BY DEF Access, IInv, TypeOK, HandlerOK, MaybeImage
<1>2. k \in Keys
  BY <1>1 DEF IInv, TypeOK, Keys
<1>3. CASE Answer(r) /\ UNCHANGED slots
  BY <1>1, <1>3, AnswerStep DEF Removing
<1>4. CASE /\ pending[k] # None /\ UNCHANGED slots
           /\ req' = [req EXCEPT ![r].pc = "wait", ![r].job = pending[k]]
  <2>1. pending[k] \in Request
    BY <1>2, <1>4 DEF IInv, TypeOK
  <2> QED BY <1>1, <1>4, <2>1, JoinInv
<1>5. CASE /\ pending[k] = None /\ runImageJob(r, req[r].image, req[r].variant)
           /\ pending' = [pending EXCEPT ![k] = r]
           /\ req' = [req EXCEPT ![r].pc = "wait", ![r].job = r]
  <2>1. PICK i \in MaybeImage, v \in Variant : i = req[r].image /\ v = req[r].variant
    BY <1>1
  <2>2. runImageJob(r, i, v) /\ i \in named /\ pending[<<i, v>>] = None
        /\ pending' = [pending EXCEPT ![<<i, v>>] = r] /\ v \in Variant \cup {None}
    BY <1>1, <1>5, <2>1
  <2> HIDE DEF k
  <2> QED BY <1>1, <1>5, <2>2, StartInv
<1> QED BY <1>3, <1>4, <1>5 DEF Access, Shared

LEMMA ReceivedInv ==
  ASSUME IInv, NEW r \in Request, Received(r), UNCHANGED <<files, rows, named, torn>>
  PROVE  IInv'
<1>1. req[r].pc = "receive" /\ UNCHANGED gate
  BY DEF Received
<1>2. CASE Answer(r) /\ UNCHANGED slots
  BY <1>1, <1>2, AnswerStep DEF Removing
<1>3. CASE /\ runImageJob(r, None, None) /\ UNCHANGED pending
           /\ req' = [req EXCEPT ![r].pc = "wait", ![r].job = r]
  <2>1. None \in MaybeImage /\ None \in Variant \cup {None}
    BY DEF MaybeImage
  <2> QED BY <1>1, <1>3, <2>1, StartInv
<1> QED BY <1>2, <1>3 DEF Received

-----------------------------------------------------------------------------
(* A job goes on.                                                          *)

\* What holds of jobs after one of them has moved on.
MayMove(j, s) ==
  /\ jobs[j].pc \in Running /\ s.pc \in Running /\ s.variant = jobs[j].variant
  /\ s.variant # None => s.image = jobs[j].image
  /\ s.pc = "render" => s.variant # None
  /\ s.pc = "variants" => s.variant = None
  /\ s.pc \in {"variants", "written"} /\ s.variant = None =>
        /\ s.image \in sources' /\ s.image \notin named
        /\ \A k \in Request \ {j} : Uploading(k) => jobs[k].image # s.image

LEMMA MoveJobs ==
  ASSUME IInv, NEW j \in Request, NEW s \in JobState, jobs' = [jobs EXCEPT ![j] = s],
         MayMove(j, s), sources \subseteq sources', sources' \subseteq Image,
         derived' \subseteq Keys,
         UNCHANGED <<active, queue, pending, named, rows, req, gate, torn>>
  PROVE  /\ TypeOK' /\ QueueOK' /\ GateOK' /\ PendingOK' /\ NamesDiffer' /\ RowsOK'
         /\ \A r \in Request : JobOK(r)' /\ HandlerOK(r)'
         /\ jobs'[j] = s /\ \A k \in Request \ {j} : jobs'[k] = jobs[k]
<1>1. jobs \in [Request -> JobState] /\ pending \in [Keys -> Request \cup {None}]
  BY DEF IInv, TypeOK
<1>2. jobs'[j] = s /\ \A k \in Request \ {j} : jobs'[k] = jobs[k]
  BY <1>1
<1>3. UNCHANGED <<active, queue, pending, named, refs, logo, req, activeUploads, listening,
                  torn>>
  BY DEF rows, gate
<1>4. SlotTypes' /\ QueueOK'
  BY MoveSlots DEF IInv, TypeOK, SlotTypes, MayMove
<1>5. TypeOK' /\ GateOK' /\ RowsOK'
  BY <1>3, <1>4 DEF IInv, TypeOK, SlotTypes, GateOK, RowsOK
<1>6. PendingOK'
  <2>1. ASSUME NEW k \in Keys, pending[k] # None
        PROVE  /\ Live(pending[k])'
               /\ jobs'[pending[k]].image = k[1] /\ jobs'[pending[k]].variant = k[2]
    <3>1. /\ Live(pending[k]) /\ jobs[pending[k]].image = k[1] /\ pending[k] \in Request
          /\ jobs[pending[k]].variant = k[2]
      BY <1>1, <2>1 DEF IInv, PendingOK
    <3>2. k[2] # None
      BY ImageAssumption DEF Keys
    <3>3. CASE pending[k] = j
      BY <1>2, <1>3, <3>1, <3>2, <3>3 DEF Live, MayMove
    <3>4. CASE pending[k] # j
      BY <1>2, <1>3, <3>1, <3>4 DEF Live
    <3> QED BY <3>3, <3>4
  <2> QED BY <1>3, <2>1 DEF PendingOK
<1>7. NamesDiffer'
  BY <1>2 DEF IInv, NamesDiffer, Uploading, MayMove
<1>8. ASSUME NEW r \in Request PROVE JobOK(r)' /\ HandlerOK(r)'
  <2>1. HandlerOK(r)'
    BY <1>3 DEF IInv, HandlerOK
  <2>2. JobOK(r)'
    <3>1. CASE r = j
      <4>1. JobOK(j) /\ jobs'[j] = s /\ req'[j] = req[j]
        BY <1>2, <1>3 DEF IInv
      <4>2. Live(j) /\ jobs[j].pc # "none"
        BY DEF MayMove, Live, Running
      <4>3. req'[j].pc \in {"wait", "done"}
        BY <4>1, <4>2 DEF JobOK
      <4>4. s.variant # None => s.image \in named' /\ pending'[<<s.image, s.variant>>] = j
        BY <1>3, <4>1, <4>2 DEF JobOK, MayMove
      <4>5. Uploading(j)' => s.image \in sources' /\ s.image \notin named'
        BY <1>3, <4>1 DEF Uploading, MayMove
      <4> QED BY <3>1, <4>1, <4>3, <4>4, <4>5 DEF JobOK, MayMove
    <3>2. CASE r # j
      BY <1>2, <1>3, <3>2 DEF IInv, JobOK, Uploading, Live
    <3> QED BY <3>1, <3>2
  <2> QED BY <2>1, <2>2
<1> QED BY <1>2, <1>4, <1>5, <1>6, <1>7, <1>8

\* A removal awaits the jobs that it awaited.
LEMMA StillAwaited ==
  ASSUME RenderOK, NEW j \in Request, jobs'[j].pc # "render",
         \A k \in Request \ {j} : jobs'[k] = jobs[k],
         sources \subseteq sources', UNCHANGED <<req, torn>>
  PROVE  RenderOK'
<1>1. ASSUME NEW k \in Request \ {j}, NEW r \in Request, Awaits(r, k) PROVE Awaits(r, k)'
  BY <1>1 DEF Awaits
<1>2. ASSUME NEW k \in Request, jobs'[k].pc = "render", jobs'[k].image \notin sources' \cup torn
      PROVE  \E r \in Request : Awaits(r, k)'
  <2>1. k # j /\ jobs'[k] = jobs[k]
    BY <1>2
  <2>2. PICK r \in Request : Awaits(r, k)
    BY <1>2, <2>1 DEF RenderOK
  <2> QED BY <1>1, <2>1, <2>2
<1> QED BY <1>2 DEF RenderOK

\* The original is there, so nobody needs to await the job yet.
LEMMA ReadMove ==
  ASSUME IInv, NEW j \in Request, jobs[j].pc = "start", jobs[j].variant # None,
         jobs[j].image \in sources, jobs' = [jobs EXCEPT ![j].pc = "render"],
         UNCHANGED <<active, queue, pending, files, named, rows, req, gate, torn>>
  PROVE  IInv'
<1> DEFINE s == [jobs[j] EXCEPT !.pc = "render"]
<1>1. jobs[j] \in JobState /\ jobs \in [Request -> JobState]
  BY DEF IInv, TypeOK
<1>2. /\ s \in JobState /\ s.pc = "render" /\ s.image = jobs[j].image
      /\ s.variant = jobs[j].variant
  BY <1>1 DEF JobState, Running
<1>3. jobs' = [jobs EXCEPT ![j] = s]
  BY <1>1
<1> HIDE DEF s
<1>4. UNCHANGED <<sources, derived, torn, req>> /\ sources \subseteq Image /\ derived \subseteq Keys
  BY DEF files, IInv, TypeOK
<1>5. /\ TypeOK' /\ QueueOK' /\ GateOK' /\ PendingOK' /\ NamesDiffer' /\ RowsOK'
      /\ \A r \in Request : JobOK(r)' /\ HandlerOK(r)'
      /\ jobs'[j] = s /\ \A k \in Request \ {j} : jobs'[k] = jobs[k]
  <2>1. MayMove(j, s)
    BY <1>2, <1>4 DEF MayMove, Running
  <2> QED BY <1>2, <1>3, <1>4, <2>1, MoveJobs
<1>6. NoOrphanVariant'
  BY <1>4 DEF IInv, NoOrphanVariant
<1>7. RenderOK'
  <2>1. ASSUME NEW k \in Request \ {j}, NEW r \in Request, Awaits(r, k) PROVE Awaits(r, k)'
    BY <1>4, <1>5, <2>1 DEF Awaits
  <2>2. ASSUME NEW k \in Request, jobs'[k].pc = "render",
               jobs'[k].image \notin sources \cup torn
        PROVE  \E r \in Request : Awaits(r, k)'
    <3>1. k # j /\ jobs'[k] = jobs[k]
      BY <1>2, <1>5, <2>2
    <3>2. PICK r \in Request : Awaits(r, k)
      BY <2>2, <3>1 DEF IInv, RenderOK
    <3> QED BY <2>1, <3>1, <3>2
  <2> QED BY <1>4, <2>2 DEF RenderOK
<1> QED BY <1>5, <1>6, <1>7 DEF IInv

\* A variant that appears without its original will be swept.
LEMMA PublishMove ==
  ASSUME IInv, NEW j \in Request, jobs[j].pc = "render",
         derived' = derived \cup {<<jobs[j].image, jobs[j].variant>>},
         jobs' = [jobs EXCEPT ![j].pc = "written"],
         UNCHANGED <<sources, active, queue, pending, named, rows, req, gate, torn>>
  PROVE  IInv'
<1> DEFINE s == [jobs[j] EXCEPT !.pc = "written"]
<1>1. jobs[j] \in JobState /\ jobs \in [Request -> JobState]
  BY DEF IInv, TypeOK
<1>2. /\ s \in JobState /\ s.pc = "written" /\ s.image = jobs[j].image
      /\ s.variant = jobs[j].variant
  BY <1>1 DEF JobState, Running
<1>3. jobs' = [jobs EXCEPT ![j] = s]
  BY <1>1
<1> HIDE DEF s
<1>4. /\ jobs[j].variant # None /\ jobs[j].variant \in Variant /\ jobs[j].image \in Image
      /\ sources \subseteq Image /\ derived' \subseteq Keys
  <2>1. JobOK(j) /\ Live(j) /\ jobs[j].variant \in Variant \cup {None}
    BY <1>1 DEF IInv, JobState, Live, Running
  <2>2. jobs[j].variant \in Variant /\ jobs[j].variant # None /\ jobs[j].image \in named
    BY <2>1 DEF JobOK
  <2> QED BY <2>2 DEF IInv, TypeOK, Keys
<1>5. /\ TypeOK' /\ QueueOK' /\ GateOK' /\ PendingOK' /\ NamesDiffer' /\ RowsOK'
      /\ \A r \in Request : JobOK(r)' /\ HandlerOK(r)'
      /\ jobs'[j] = s /\ \A k \in Request \ {j} : jobs'[k] = jobs[k]
  <2>1. MayMove(j, s)
    BY <1>2, <1>4 DEF MayMove, Running
  <2> QED BY <1>2, <1>3, <1>4, <2>1, MoveJobs
<1>6. NoOrphanVariant'
  <2>1. ASSUME jobs[j].image \notin sources \cup torn
        PROVE  \E r \in Request : req[r].image = jobs[j].image /\ req[r].pc \in Removing
    BY <2>1 DEF IInv, RenderOK, Awaits, Removing
  <2>2. ASSUME NEW k \in derived', k[1] \notin sources \cup torn
        PROVE  \E r \in Request : req[r].image = k[1] /\ req[r].pc \in Removing
    BY <2>1, <2>2 DEF IInv, NoOrphanVariant, Removing
  <2> QED BY <2>2 DEF NoOrphanVariant, Removing
<1>7. RenderOK'
  BY <1>2, <1>4, <1>5, StillAwaited DEF IInv
<1> QED BY <1>5, <1>6, <1>7 DEF IInv

\* A new original has a name that nobody knows or uses.
LEMMA OriginalMove ==
  ASSUME IInv, NEW j \in Request, jobs[j].pc = "start", jobs[j].variant = None,
         NEW i \in Image \ (named \cup sources), sources' = sources \cup {i},
         jobs' = [jobs EXCEPT ![j].pc = "variants", ![j].image = i],
         UNCHANGED <<derived, active, queue, pending, named, rows, req, gate, torn>>
  PROVE  IInv'
<1> DEFINE s == [jobs[j] EXCEPT !.pc = "variants", !.image = i]
<1>1. jobs[j] \in JobState /\ jobs \in [Request -> JobState] /\ i \in MaybeImage
  BY DEF IInv, TypeOK, MaybeImage
<1>2. /\ s \in JobState /\ s.pc = "variants" /\ s.image = i
      /\ s.variant = jobs[j].variant
  BY <1>1 DEF JobState, Running
<1>3. jobs' = [jobs EXCEPT ![j] = s]
  BY <1>1
<1> HIDE DEF s
<1>4. /\ sources' \subseteq Image /\ derived' \subseteq Keys
      /\ \A k \in Request \ {j} : Uploading(k) => jobs[k].image # i
  BY DEF IInv, TypeOK, JobOK
<1>5. /\ TypeOK' /\ QueueOK' /\ GateOK' /\ PendingOK' /\ NamesDiffer' /\ RowsOK'
      /\ \A r \in Request : JobOK(r)' /\ HandlerOK(r)'
      /\ jobs'[j] = s /\ \A k \in Request \ {j} : jobs'[k] = jobs[k]
  <2>1. MayMove(j, s)
    BY <1>2, <1>4 DEF MayMove, Running
  <2> QED BY <1>2, <1>3, <1>4, <2>1, MoveJobs
<1>6. NoOrphanVariant'
  BY DEF IInv, NoOrphanVariant
<1>7. RenderOK'
  BY <1>2, <1>4, <1>5, StillAwaited DEF IInv
<1> QED BY <1>5, <1>6, <1>7 DEF IInv

LEMMA VariantsMove ==
  ASSUME IInv, NEW j \in Request, jobs[j].pc = "variants", NEW v \in Variant,
         NEW pc \in {"variants", "written"},
         derived' = derived \cup {<<jobs[j].image, v>>},
         jobs' = [jobs EXCEPT ![j].pc = pc],
         UNCHANGED <<sources, active, queue, pending, named, rows, req, gate, torn>>
  PROVE  IInv'
<1> DEFINE s == [jobs[j] EXCEPT !.pc = pc]
<1>1. jobs[j] \in JobState /\ jobs \in [Request -> JobState]
  BY DEF IInv, TypeOK
<1>2. /\ s \in JobState /\ s.pc = pc /\ s.image = jobs[j].image
      /\ s.variant = jobs[j].variant
  BY <1>1 DEF JobState, Running
<1>3. jobs' = [jobs EXCEPT ![j] = s]
  BY <1>1
<1> HIDE DEF s
<1>4. /\ jobs[j].variant = None /\ jobs[j].image \in sources /\ jobs[j].image \notin named
      /\ sources \subseteq Image /\ derived' \subseteq Keys
      /\ \A k \in Request \ {j} : Uploading(k) => jobs[k].image # jobs[j].image
  <2>1. JobOK(j) /\ NamesDiffer /\ sources \subseteq Image /\ derived \subseteq Keys
    BY DEF IInv, TypeOK
  <2>2. Uploading(j) /\ jobs[j].variant = None
    BY <2>1 DEF JobOK, Uploading
  <2>3. jobs[j].image \in sources /\ jobs[j].image \notin named
    BY <2>1, <2>2 DEF JobOK
  <2>4. \A k \in Request \ {j} : Uploading(k) => jobs[k].image # jobs[j].image
    BY <2>1, <2>2 DEF NamesDiffer
  <2>5. derived' \subseteq Keys
    BY <2>1, <2>3 DEF Keys
  <2> QED BY <2>1, <2>2, <2>3, <2>4, <2>5
<1>5. /\ TypeOK' /\ QueueOK' /\ GateOK' /\ PendingOK' /\ NamesDiffer' /\ RowsOK'
      /\ \A r \in Request : JobOK(r)' /\ HandlerOK(r)'
      /\ jobs'[j] = s /\ \A k \in Request \ {j} : jobs'[k] = jobs[k]
  <2>1. MayMove(j, s)
    BY <1>2, <1>4 DEF MayMove, Running
  <2> QED BY <1>2, <1>3, <1>4, <2>1, MoveJobs
<1>6. NoOrphanVariant'
  BY <1>4 DEF IInv, NoOrphanVariant
<1>7. RenderOK'
  BY <1>2, <1>4, <1>5, StillAwaited DEF IInv
<1> QED BY <1>5, <1>6, <1>7 DEF IInv

-----------------------------------------------------------------------------
(* A job ends.                                                             *)

LEMMA ReplyInv ==
  ASSUME IInv, NEW r \in Request, Reply(r), UNCHANGED <<rows, named, gate, torn>>
  PROVE  IInv'
BY AnswerStep DEF Reply, Removing

\* What the end of a job does to files and names: nothing, or an upload is named, or
\* it takes back what it has written, as far as it can.
EndLeaves(j) ==
  \/ UNCHANGED <<sources, derived, named, torn>>
  \/ /\ jobs[j].pc = "written" /\ UNCHANGED <<sources, derived>>
     /\ named' = named \cup {jobs[j].image} /\ UNCHANGED torn
  \/ Uploading(j) /\ UnlinkAll(jobs[j].image) /\ UNCHANGED named

\* Only what an upload alone knew is named now or gone; if a variant stayed, the image is
\* noted as torn.
OwnOnly(j) ==
  /\ named \subseteq named' /\ named' \subseteq Image
  /\ sources' \subseteq sources /\ derived' \subseteq derived
  /\ \A i \in named' \ named : i = jobs[j].image /\ Uploading(j)
  /\ \A i \in sources \ sources' : /\ i = jobs[j].image /\ Uploading(j)
                                   /\ \A k \in derived' : k[1] = i => i \in torn'
  /\ torn \subseteq torn' /\ torn' \subseteq Image

LEMMA EndIsOwn ==
  ASSUME IInv, NEW j \in Request, EndLeaves(j), jobs[j].pc \in Running
  PROVE  OwnOnly(j)
<1>1. /\ JobOK(j) /\ jobs[j] \in JobState /\ sources \subseteq Image /\ named \subseteq Image
      /\ derived \subseteq Image \X Variant /\ torn \subseteq Image
  BY DEF IInv, TypeOK, Keys
<1>2. CASE UNCHANGED <<sources, derived, named, torn>>
  BY <1>1, <1>2 DEF OwnOnly
<1>3. CASE /\ jobs[j].pc = "written" /\ UNCHANGED <<sources, derived, torn>>
           /\ named' = named \cup {jobs[j].image}
  <2>1. CASE jobs[j].variant = None
    BY <1>1, <1>3, <2>1 DEF OwnOnly, JobOK, Uploading
  <2>2. CASE jobs[j].variant # None
    <3>1. jobs[j].image \in named
      BY <1>1, <1>3, <2>2 DEF JobOK, Live, Running
    <3> QED BY <1>1, <1>3, <3>1 DEF OwnOnly
  <2> QED BY <2>1, <2>2
<1>4. CASE Uploading(j) /\ UnlinkAll(jobs[j].image) /\ UNCHANGED named
  <2>1. PICK i \in Image : i = jobs[j].image
    BY <1>1, <1>4 DEF JobOK
  <2>2. UnlinkVariants(i) /\ sources' \in {sources, sources \ {i}}
    BY <1>4, <2>1 DEF UnlinkAll
  <2>3. /\ derived' \subseteq derived /\ torn \subseteq torn' /\ torn' \subseteq Image
        /\ \A k \in derived' : k[1] = i => i \in torn'
    BY <1>1, <2>2, VariantsGo
  <2> QED BY <1>1, <1>4, <2>1, <2>2, <2>3 DEF OwnOnly
<1> QED BY <1>2, <1>3, <1>4 DEF EndLeaves

\* Entries of other jobs stay, those of the one that ended do not.
LEMMA EntriesAfter ==
  ASSUME IInv, NEW j \in Request, NEW pc, EndJob(j, pc)
  PROVE  /\ pending' \in [Keys -> Request \cup {None}]
         /\ \A k \in Keys : pending[k] # j => pending'[k] = pending[k]
         /\ \A k \in Keys : pending'[k] # None => pending'[k] = pending[k] /\ pending[k] # j
<1>1. pending \in [Keys -> Request \cup {None}]
  BY DEF IInv, TypeOK
<1>2. pending' = [k \in Keys |-> IF pending[k] = j THEN None ELSE pending[k]]
  BY DEF EndJob, EntryAfter
<1> QED BY <1>1, <1>2

LEMMA EndStep ==
  ASSUME IInv, NEW j \in Request, jobs[j].pc \in Running, NEW pc \in {"made", "failed"},
         EndJob(j, pc), EndLeaves(j), UNCHANGED <<rows, req, gate>>
  PROVE  IInv'
<1>1. UNCHANGED <<refs, logo, req, activeUploads, listening>>
  BY DEF rows, gate
<1>2. OwnOnly(j)
  BY EndIsOwn
<1>3. /\ SlotTypes' /\ QueueOK' /\ jobs'[j] = Settled(pc)
      /\ \A k \in Request \ {j} : Unmoved(k)
  BY EndSlots DEF IInv, TypeOK, SlotTypes
<1>4. jobs'[j].pc = pc
  BY <1>3, SettledIs
<1>5. /\ pending' \in [Keys -> Request \cup {None}]
      /\ \A k \in Keys : pending[k] # j => pending'[k] = pending[k]
      /\ \A k \in Keys : pending'[k] # None => pending'[k] = pending[k] /\ pending[k] # j
  BY EntriesAfter
<1>6. TypeOK'
  <2>1. /\ sources' \subseteq Image /\ named' \subseteq Image /\ derived' \subseteq Keys
        /\ torn' \subseteq Image
    BY <1>2 DEF OwnOnly, IInv, TypeOK
  <2> QED BY <1>1, <1>3, <1>5, <2>1 DEF IInv, TypeOK, SlotTypes
<1>7. GateOK' /\ RowsOK'
  BY <1>1, <1>2 DEF IInv, GateOK, RowsOK, OwnOnly
<1>8. PendingOK'
  <2>1. ASSUME NEW k \in Keys, pending'[k] # None
        PROVE  /\ Live(pending[k])'
               /\ jobs'[pending'[k]].image = k[1] /\ jobs'[pending'[k]].variant = k[2]
    <3>1. PICK l \in Request : l = pending'[k] /\ l = pending[k] /\ l # j
      BY <1>5, <2>1
    <3>2. Live(l) /\ jobs[l].image = k[1] /\ jobs[l].variant = k[2] /\ Unmoved(l)
      BY <1>3, <1>5, <2>1, <3>1 DEF IInv, PendingOK
    <3>3. Live(l)' /\ jobs'[l].image = k[1] /\ jobs'[l].variant = k[2]
      BY <3>2 DEF Live, Unmoved, Running
    <3> QED BY <3>1, <3>3 DEF Live
  <2> QED BY <2>1 DEF PendingOK, Live
<1>9. \A k \in Request : Uploading(k)' => k # j /\ Uploading(k) /\ jobs'[k].image = jobs[k].image
  BY <1>3, <1>4 DEF Uploading, Unmoved
<1>10. NamesDiffer'
  <2>1. ASSUME NEW k \in Request, NEW l \in Request, Uploading(k)', Uploading(l)',
               jobs'[k].image = jobs'[l].image
        PROVE  k = l
    BY <1>9, <2>1 DEF IInv, NamesDiffer
  <2> QED BY <2>1 DEF NamesDiffer, Uploading
<1>11. ASSUME NEW k \in Request PROVE JobOK(k)' /\ HandlerOK(k)'
  <2>1. HandlerOK(k)'
    BY <1>1, <1>2 DEF IInv, HandlerOK, OwnOnly
  <2>2. CASE k = j
    <3>1. jobs[j].pc # "none" /\ JobOK(j) /\ req' = req
      BY <1>1 DEF IInv, Running
    <3>2. req'[j].pc \in {"wait", "done"}
      BY <3>1 DEF JobOK
    <3> QED BY <1>4, <2>1, <2>2, <3>2 DEF JobOK, Live, Uploading, Running
  <2>3. CASE k # j
    <3>1. JobOK(k) /\ Unmoved(k) /\ req'[k] = req[k]
      BY <1>1, <1>3, <2>3 DEF IInv
    <3>2. ASSUME Live(k)', jobs'[k].variant # None
          PROVE  jobs'[k].image \in named' /\ pending'[<<jobs'[k].image, jobs'[k].variant>>] = k
      <4>1. Live(k) /\ jobs[k].variant # None
        BY <3>1, <3>2 DEF Unmoved, Live, Running
      <4>2. jobs[k].image \in named /\ pending[<<jobs[k].image, jobs[k].variant>>] = k
        BY <3>1, <4>1 DEF JobOK
      <4>3. <<jobs[k].image, jobs[k].variant>> \in Keys
        BY <4>1, <4>2 DEF IInv, TypeOK, JobState, Keys
      <4>4. pending'[<<jobs[k].image, jobs[k].variant>>] = k
        BY <1>5, <2>3, <4>2, <4>3
      <4> QED BY <1>2, <3>1, <4>2, <4>4 DEF Unmoved, OwnOnly
    <3>3. ASSUME Uploading(k)'
          PROVE  jobs'[k].image \in sources' /\ jobs'[k].image \notin named'
      <4>1. Uploading(k) /\ jobs'[k].image = jobs[k].image
        BY <1>9, <3>3
      <4>2. jobs[k].image \in sources /\ jobs[k].image \notin named
        BY <3>1, <4>1 DEF JobOK
      <4>3. Uploading(j) => jobs[k].image # jobs[j].image
        BY <2>3, <4>1 DEF IInv, NamesDiffer
      <4> QED BY <1>2, <4>1, <4>2, <4>3 DEF OwnOnly
    <3>4. /\ jobs'[k].pc # "none" => req'[k].pc \in {"wait", "done"}
          /\ jobs'[k].pc = "render" => jobs'[k].variant # None
          /\ jobs'[k].pc = "variants" => jobs'[k].variant = None
      BY <3>1 DEF JobOK, Unmoved
    <3> QED BY <2>1, <3>2, <3>3, <3>4 DEF JobOK
  <2> QED BY <2>1, <2>2, <2>3
<1>12. NoOrphanVariant'
  <2>1. ASSUME NEW k \in derived', k[1] \notin sources' \cup torn'
        PROVE  \E r \in Request : req[r].image = k[1] /\ req[r].pc \in Removing
    <3>1. k \in derived /\ k[1] \notin sources \cup torn
      BY <1>2, <2>1 DEF OwnOnly
    <3> QED BY <2>1, <3>1 DEF IInv, NoOrphanVariant, Removing
  <2> QED BY <1>1, <2>1 DEF NoOrphanVariant, Removing
<1>13. RenderOK'
  <2>1. ASSUME NEW k \in Request, jobs'[k].pc = "render", jobs'[k].image \notin sources' \cup torn'
        PROVE  \E r \in Request : Awaits(r, k)'
    <3>1. k # j /\ jobs[k].pc = "render" /\ jobs'[k].image = jobs[k].image
      BY <1>3, <1>4, <2>1 DEF Unmoved
    <3>2. jobs[k].image \in named
      BY <3>1 DEF IInv, JobOK, Live, Running
    <3>3. jobs[k].image \notin sources \cup torn
      <4>1. Uploading(j) => jobs[j].image \notin named
        BY DEF IInv, JobOK
      <4>2. torn \subseteq torn' /\ jobs[k].image \notin torn'
        BY <1>2, <2>1, <3>1 DEF OwnOnly
      <4> QED BY <1>2, <2>1, <3>1, <3>2, <4>1, <4>2 DEF OwnOnly
    <3>4. PICK r \in Request : Awaits(r, k)
      BY <2>1, <3>1, <3>3 DEF IInv, RenderOK
    <3> QED BY <1>1, <3>1, <3>4 DEF Awaits
  <2> QED BY <1>1, <2>1 DEF RenderOK
<1> QED BY <1>6, <1>3, <1>7, <1>8, <1>10, <1>11, <1>12, <1>13 DEF IInv

LEMMA WorkInv ==
  ASSUME IInv, NEW j \in Request, Work(j)
  PROVE  IInv'
<1>1. UNCHANGED <<rows, req, gate>> /\ jobs[j] \in JobState
  BY DEF Work, IInv, TypeOK
<1>2. CASE ReadSource(j) /\ UNCHANGED <<named, torn>>
  <2>1. /\ jobs[j].pc = "start" /\ jobs[j].variant # None
        /\ UNCHANGED files /\ UNCHANGED <<sources, derived>>
    BY <1>2 DEF ReadSource, files
  <2>2. CASE EndJob(j, "failed")
    BY <1>1, <1>2, <2>1, <2>2, EndStep DEF EndLeaves, Running
  <2>3. CASE /\ jobs[j].image \in sources
             /\ jobs' = [jobs EXCEPT ![j].pc = "render"] /\ UNCHANGED <<active, queue, pending>>
    BY <1>1, <1>2, <2>1, <2>3, ReadMove
  <2> QED BY <1>2, <2>2, <2>3 DEF ReadSource
<1>3. CASE Publish(j) /\ UNCHANGED <<named, torn>>
  <2>1. jobs[j].pc = "render"
    BY <1>3 DEF Publish
  <2>2. CASE EndJob(j, "failed") /\ UNCHANGED files
    BY <1>1, <1>3, <2>1, <2>2, EndStep DEF EndLeaves, Running, files
  <2>3. CASE /\ derived' = derived \cup {<<jobs[j].image, jobs[j].variant>>}
             /\ jobs' = [jobs EXCEPT ![j].pc = "written"]
             /\ UNCHANGED <<sources, active, queue, pending>>
    BY <1>1, <1>3, <2>1, <2>3, PublishMove
  <2> QED BY <1>3, <2>2, <2>3 DEF Publish
<1>4. CASE WriteOriginal(j) /\ UNCHANGED <<named, torn>>
  <2>1. jobs[j].pc = "start" /\ jobs[j].variant = None
    BY <1>4 DEF WriteOriginal
  <2>2. CASE EndJob(j, "failed") /\ UNCHANGED files
    BY <1>1, <1>4, <2>1, <2>2, EndStep DEF EndLeaves, Running, files
  <2>3. ASSUME NEW i \in Image \ (named \cup sources \cup torn), sources' = sources \cup {i},
               jobs' = [jobs EXCEPT ![j].pc = "variants", ![j].image = i],
               UNCHANGED <<derived, active, queue, pending>>
        PROVE  IInv'
    BY <1>1, <1>4, <2>1, <2>3, OriginalMove
  <2> QED BY <1>4, <2>2, <2>3 DEF WriteOriginal
<1>5. CASE WriteVariants(j) /\ UNCHANGED named
  <2>1. jobs[j].pc = "variants"
    BY <1>5 DEF WriteVariants
  <2>2. CASE UnlinkAll(jobs[j].image) /\ EndJob(j, "failed")
    <3>1. Uploading(j)
      BY <2>1 DEF IInv, JobOK, Uploading
    <3> QED BY <1>1, <1>5, <2>1, <2>2, <3>1, EndStep DEF EndLeaves, Running
  <2>3. ASSUME NEW v \in Variant, NEW pc \in {"variants", "written"},
               derived' = derived \cup {<<jobs[j].image, v>>},
               jobs' = [jobs EXCEPT ![j].pc = pc],
               UNCHANGED <<sources, torn, active, queue, pending>>
        PROVE  IInv'
    BY <1>1, <1>5, <2>1, <2>3, VariantsMove
  <2>4. ASSUME NEW v \in {v \in Variant : <<jobs[j].image, v>> \notin derived},
               derived' = derived \cup {<<jobs[j].image, v>>},
               jobs' = [jobs EXCEPT ![j].pc =
                          IF {w \in Variant : <<jobs[j].image, w>> \notin derived} = {v}
                          THEN "written" ELSE "variants"],
               UNCHANGED <<sources, torn, active, queue, pending>>
        PROVE  IInv'
    <3>1. CASE {w \in Variant : <<jobs[j].image, w>> \notin derived} = {v}
      BY <2>3, <2>4, <3>1
    <3>2. CASE {w \in Variant : <<jobs[j].image, w>> \notin derived} # {v}
      BY <2>3, <2>4, <3>2
    <3> QED BY <3>1, <3>2
  <2> QED BY <1>5, <2>2, <2>4 DEF WriteVariants
<1>6. CASE Finish(j)
  <2>1. jobs[j].pc = "written"
    BY <1>6 DEF Finish
  <2>2. CASE /\ EndJob(j, "made") /\ named' = named \cup {jobs[j].image}
             /\ UNCHANGED <<files, torn>>
    BY <1>1, <2>1, <2>2, EndStep DEF EndLeaves, Running, files
  <2>3. CASE /\ EndJob(j, "failed") /\ UNCHANGED named
             /\ IF jobs[j].variant = None THEN UnlinkAll(jobs[j].image)
                ELSE UNCHANGED <<files, torn>>
    <3>1. EndLeaves(j)
      BY <2>1, <2>3 DEF EndLeaves, Uploading, files
    <3> QED BY <1>1, <2>1, <2>3, <3>1, EndStep DEF Running
  <2> QED BY <1>6, <2>2, <2>3 DEF Finish
<1> QED BY <1>2, <1>3, <1>4, <1>5, <1>6 DEF Work

-----------------------------------------------------------------------------
(* A restart, and the theorems.                                            *)

LEMMA RestartInv ==
  ASSUME IInv, Restart
  PROVE  IInv'
<1>1. /\ torn' = torn \cup {i \in {k[1] : k \in derived} :
                              \E r \in Request : req[r].image = i /\ req[r].pc \in Removing}
      /\ req' = [r \in Request |-> IF req[r].pc = "idle" THEN Idle ELSE Answered]
      /\ jobs' = [r \in Request |-> NoJob]
      /\ active' = 0 /\ queue' = <<>> /\ pending' = [k \in Keys |-> None]
      /\ activeUploads' = 0 /\ listening' = {}
      /\ UNCHANGED <<sources, derived, refs, logo, named>>
  BY DEF Restart, Removing, files, rows
<1>2. \A r \in Request : jobs'[r] = NoJob /\ jobs'[r].pc = "none"
  BY <1>1, NoJobIs
<1>3. \A r \in Request : req'[r] \in {Idle, Answered}
  BY <1>1
<1>4. torn' \subseteq Image
  <2>1. \A k \in derived : k[1] \in Image
    BY DEF IInv, TypeOK, Keys
  <2> QED BY <1>1, <2>1 DEF IInv, TypeOK
<1>5. TypeOK'
  <2>1. req' \in [Request -> HandlerState] /\ jobs' \in [Request -> JobState]
    BY <1>1, IdleIs, AnsweredIs, NoJobIs
  <2>2. torn' \subseteq Image
    BY <1>4
  <2>3. queue' \in Seq(Request) /\ Len(queue') <= MaxQueue
    BY <1>1, ImageAssumption
  <2>4. active' \in 0..MaxActive /\ activeUploads' \in 0..MaxUploads
    BY <1>1, ImageAssumption
  <2>5. pending' \in [Keys -> Request \cup {None}] /\ listening' \subseteq Request
    BY <1>1
  <2> QED BY <1>1, <2>1, <2>2, <2>3, <2>4, <2>5 DEF IInv, TypeOK
<1>6. QueueOK' /\ GateOK'
  <2>1. RunningJobs' = {} /\ {j \in Request : jobs'[j].pc = "queued"} = {}
    BY <1>2 DEF RunningJobs, Running
  <2>2. Len(queue') = 0 /\ {queue'[n] : n \in 1..Len(queue')} = {}
    BY <1>1
  <2> QED BY <1>1, <2>1, <2>2, FS_EmptySet DEF QueueOK, GateOK
<1>7. PendingOK' /\ NamesDiffer' /\ RenderOK'
  <2>1. PendingOK'
    BY <1>1 DEF PendingOK
  <2>2. NamesDiffer' /\ RenderOK'
    BY <1>2 DEF NamesDiffer, Uploading, RenderOK
  <2> QED BY <2>1, <2>2
<1>8. ASSUME NEW r \in Request PROVE JobOK(r)' /\ HandlerOK(r)'
  BY <1>1, <1>2, <1>3, IdleIs, AnsweredIs DEF JobOK, HandlerOK, Live, Running, Uploading, Removing
<1>9. RowsOK'
  BY <1>1 DEF IInv, RowsOK
<1>10. NoOrphanVariant'
  BY <1>1 DEF IInv, NoOrphanVariant, Removing
<1> QED BY <1>5, <1>6, <1>7, <1>8, <1>9, <1>10 DEF IInv

LEMMA InitInv == Init => IInv
<1> SUFFICES ASSUME Init PROVE IInv
  OBVIOUS
<1>1. /\ sources = Stored /\ derived = {} /\ named = Stored /\ torn = {}
      /\ refs \in [Food -> [Field -> Stored \cup {None}]] /\ logo \in Stored \cup {None}
      /\ req = [r \in Request |-> Idle] /\ jobs = [r \in Request |-> NoJob]
      /\ active = 0 /\ queue = <<>> /\ pending = [k \in Keys |-> None]
      /\ activeUploads = 0 /\ listening = {}
  BY DEF Init
<1>2. \A r \in Request : jobs[r].pc = "none"
  BY <1>1, NoJobIs
<1>3. TypeOK
  <2>1. req \in [Request -> HandlerState] /\ jobs \in [Request -> JobState]
    BY <1>1, IdleIs, NoJobIs
  <2>2. refs \in [Food -> [Field -> MaybeImage]] /\ logo \in MaybeImage
    BY <1>1, ImageAssumption DEF MaybeImage
  <2>3. queue \in Seq(Request) /\ Len(queue) <= MaxQueue
    BY <1>1, ImageAssumption
  <2>4. active \in 0..MaxActive /\ activeUploads \in 0..MaxUploads
    BY <1>1, ImageAssumption
  <2> QED BY <1>1, <2>1, <2>2, <2>3, <2>4, ImageAssumption DEF TypeOK
<1>4. QueueOK /\ GateOK
  <2>1. RunningJobs = {} /\ {j \in Request : jobs[j].pc = "queued"} = {}
    BY <1>2 DEF RunningJobs, Running
  <2>2. Len(queue) = 0 /\ {queue[n] : n \in 1..Len(queue)} = {}
    BY <1>1
  <2> QED BY <1>1, <2>1, <2>2, FS_EmptySet DEF QueueOK, GateOK
<1>5. PendingOK /\ NamesDiffer /\ RenderOK
  <2>1. PendingOK
    BY <1>1 DEF PendingOK
  <2>2. NamesDiffer /\ RenderOK
    BY <1>2 DEF NamesDiffer, Uploading, RenderOK
  <2> QED BY <2>1, <2>2
<1>6. ASSUME NEW r \in Request PROVE JobOK(r) /\ HandlerOK(r)
  BY <1>1, <1>2, IdleIs DEF JobOK, HandlerOK, Live, Running, Uploading, Removing
<1>7. RowsOK /\ NoOrphanVariant
  BY <1>1 DEF RowsOK, NoOrphanVariant
<1> QED BY <1>3, <1>4, <1>5, <1>6, <1>7 DEF IInv

LEMMA HandleInv ==
  ASSUME IInv, NEW r \in Request, Handle(r)
  PROVE  IInv'
BY GiveUpInv, LstatInv, AccessInv, ReplyInv, ReceivedInv, RespondedInv, FindFoodInv, UpdateFoodInv,
   CountInv, UnlinkInv, CleanupFailsInv, CollectInv, DrainInv, SweepInv DEF Handle

LEMMA CallInv ==
  ASSUME IInv, NEW r \in Request, Call(r)
  PROVE  IInv'
BY UploadInv, CloseInv, GetVariantInv, SaveFoodInv, SaveLogoInv DEF Call

LEMMA StutterInv ==
  ASSUME IInv, UNCHANGED vars
  PROVE  IInv'
<1>1. UNCHANGED <<sources, derived, refs, logo, named, req, jobs, active, queue, pending,
                  activeUploads, listening, torn>>
  BY DEF vars, files, rows, slots, gate
<1> QED BY <1>1 DEF IInv, TypeOK, QueueOK, GateOK, PendingOK, NamesDiffer, JobOK, HandlerOK,
                    RowsOK, NoOrphanVariant, RenderOK, RunningJobs, Live, Uploading, Awaits

LEMMA NextInv == IInv /\ [Next]_vars => IInv'
BY HandleInv, CallInv, WorkInv, RestartInv, StutterInv DEF Next

LEMMA AlwaysInv == Spec => []IInv
<1>1. Init => IInv
  BY InitInv
<1>2. IInv /\ [Next]_vars => IInv'
  BY NextInv
<1> QED BY <1>1, <1>2, PTL DEF Spec

\* Files, rows, handlers, jobs and the gate keep their types, the slots and the queue
\* their limits, whatever the limits are (image-variants.js, image-upload.js).
THEOREM TypeCorrect == Spec => []TypeOK
<1>1. IInv => TypeOK
  BY DEF IInv
<1> QED BY <1>1, AlwaysInv, PTL

\* removeImageArtifacts: no variant outlives its original, unless a removal is still
\* at work or was cut short: a restart interrupted it, or its own unlink of a variant
\* failed, which cleanupAfterSave logs and nobody repeats.
THEOREM NoOrphans == Spec => []NoOrphanVariant
<1>1. IInv => NoOrphanVariant
  BY DEF IInv
<1> QED BY <1>1, AlwaysInv, PTL

\* ensureImageVariant: at most one job at a time makes a variant, and whoever joins
\* a job joins one that is not over.
THEOREM OneJob == Spec => []OneJobPerVariant
BY InvOneJob, AlwaysInv, PTL

\* runImageJob and parseImageUpload: the counters of slots and of uploads are exact,
\* and no job waits beside a free slot.
THEOREM SlotsUsed == Spec => []SlotsAreUsed
BY InvSlots, AlwaysInv, PTL
=============================================================================
