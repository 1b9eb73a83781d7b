------------------------------ MODULE ImageStore ------------------------------
(***************************************************************************)
(* The uploaded images: original files, the two derived WebP variants of   *)
(* each, and the Food rows and the Organization row that name them.  Every *)
(* await of a handler ends a step, so other requests run in between; what  *)
(* the code does between two awaits is one step.  Image jobs (variants of  *)
(* older images and whole uploads) share a few slots and a short queue in  *)
(* the memory of the server, which a restart loses, and so does the        *)
(* counter of the uploads whose bodies are in memory.                      *)
(*                                                                         *)
(* Temporary files, pixels and the parts of a multipart body are left out; *)
(* writeVariant renames a finished file, so a variant appears in one step. *)
(* Any query or file operation may fail; the clean-up after a save logs    *)
(* that and is not repeated.                                               *)
(***************************************************************************)
EXTENDS Naturals, Sequences, FiniteSets

CONSTANTS
  Request,    \* HTTP requests
  Image,      \* file names; the name of an upload is a new one
  Stored,     \* images from before the variants were introduced
  Food,       \* Food ids
  Field,      \* image fields of a Food row: img and detailImg in the code
  Variant,    \* "card" and "detail" in the code
  MaxActive,  \* 2 in the code
  MaxQueue,   \* 8 in the code
  MaxUploads, \* MAX_CONCURRENT_UPLOADS: 4 in the code
  None

ASSUME ImageAssumption ==
  /\ MaxActive \in Nat \ {0} /\ MaxQueue \in Nat /\ MaxUploads \in Nat
  /\ Stored \subseteq Image
  /\ None \notin Request \cup Image \cup Food \cup Variant

VARIABLES
  sources,   \* original files in uploads/
  derived,   \* variant files in uploads/.variants/
  refs,      \* Food -> the images its row names
  logo,      \* the image that the Organization row names
  named,     \* file names that clients have been told
  req,       \* Request -> the state of its handler
  jobs,      \* Request -> the image job it started
  active,    \* jobs that hold a slot
  queue,     \* jobs that wait for one
  pending,   \* <<image, variant>> -> the request whose job makes it
  activeUploads, \* uploads that the gate has let in and not released
  listening, \* the uploads that still listen to the end of their response
  torn       \* history: images whose removal was cut short, by a restart or because a
             \* variant could not be unlinked

files == <<sources, derived>>
rows == <<refs, logo>>
slots == <<jobs, active, queue, pending>>
gate == <<activeUploads, listening>>
vars == <<files, rows, named, req, slots, gate, torn>>

-----------------------------------------------------------------------------
MaybeImage == Image \cup {None}
Keys == Image \X Variant

HandlerState ==
  [pc : {"idle", "lstat", "access", "receive", "wait", "find", "save", "count", "unlink",
         "collect", "drain", "sweep", "done"},
   image : MaybeImage, variant : Variant \cup {None}, job : Request \cup {None},
   food : Food \cup {None}, form : [Field -> MaybeImage],
   replaced : SUBSET Image, waits : SUBSET Request]

Idle == [pc |-> "idle", image |-> None, variant |-> None, job |-> None, food |-> None,
         form |-> [x \in Field |-> None], replaced |-> {}, waits |-> {}]

Running == {"start", "render", "variants", "written"}
JobState == [pc : {"none", "queued", "made", "failed"} \cup Running,
             image : MaybeImage, variant : Variant \cup {None}]
NoJob == [pc |-> "none", image |-> None, variant |-> None]
Settled(pc) == [NoJob EXCEPT !.pc = pc]

\* Which answer it is, a path, 404, 429 or an error, no other step depends on.
Answered == [Idle EXCEPT !.pc = "done"]
Answer(r) == req' = [req EXCEPT ![r] = Answered]
Goto(r, pc) == req' = [req EXCEPT ![r].pc = pc]

-----------------------------------------------------------------------------
(* Image jobs.                                                             *)

OneTooMany == active <= MaxActive    \* Variation
SlotFree == active < MaxActive
Busy == ~SlotFree /\ Len(queue) >= MaxQueue

\* runImageJob: a slot or a place in the queue; the caller answers 429 if Busy.
runImageJob(r, i, v) ==
  LET job(pc) == [pc |-> pc, image |-> i, variant |-> v] IN
  \/ /\ SlotFree
     /\ active' = active + 1 /\ jobs' = [jobs EXCEPT ![r] = job("start")]
     /\ UNCHANGED queue
  \/ /\ ~SlotFree /\ Len(queue) < MaxQueue
     /\ queue' = Append(queue, r) /\ jobs' = [jobs EXCEPT ![r] = job("queued")]
     /\ UNCHANGED active

\* The finally of runImageJob: the slot goes to the job that waited longest.
Started == IF queue # <<>> THEN {Head(queue)} ELSE {}

EntryKept(k, j) == pending[k]       \* Variation: the entry outlives its job
EntryAfter(k, j) == IF pending[k] = j THEN None ELSE pending[k]

EndJob(j, pc) ==
  LET next == Started IN
  /\ jobs' = [k \in Request |->
                IF k = j THEN Settled(pc)
                ELSE IF k \in next THEN [jobs[k] EXCEPT !.pc = "start"] ELSE jobs[k]]
  /\ active' = (active - 1) + Cardinality(next)
  /\ queue' = IF next = {} THEN queue ELSE Tail(queue)
  /\ pending' = [k \in Keys |-> EntryAfter(k, j)]

\* The job of ensureImageVariant.
ReadSource(j) ==
  /\ jobs[j].pc = "start" /\ jobs[j].variant # None
  /\ \/ /\ jobs[j].image \in sources
        /\ jobs' = [jobs EXCEPT ![j].pc = "render"] /\ UNCHANGED <<active, queue, pending>>
     \/ EndJob(j, "failed")          \* gone, too large or unreadable
  /\ UNCHANGED files

\* A broken image, the render timeout and a failed write end the job.
Publish(j) ==
  /\ jobs[j].pc = "render"
  /\ \/ /\ derived' = derived \cup {<<jobs[j].image, jobs[j].variant>>}
        /\ jobs' = [jobs EXCEPT ![j].pc = "written"]
        /\ UNCHANGED <<sources, active, queue, pending>>
     \/ EndJob(j, "failed") /\ UNCHANGED files

\* The job of storeImageWithVariants: a new name, which nobody is told before the
\* job ends, then the original and the variants.
WriteOriginal(j) ==
  /\ jobs[j].pc = "start" /\ jobs[j].variant = None
  /\ \/ \E i \in Image \ (named \cup sources \cup torn) :
          /\ sources' = sources \cup {i}
          /\ jobs' = [jobs EXCEPT ![j].pc = "variants", ![j].image = i]
          /\ UNCHANGED <<derived, active, queue, pending>>
     \/ EndJob(j, "failed") /\ UNCHANGED files

\* The variants are unlinked side by side (Promise.all).  Each of these may fail, for
\* another reason than a missing file, and leaves its variant behind.
UnlinkVariants(i) ==
  \E left \in SUBSET {k \in derived : k[1] = i} :
    /\ derived' = {k \in derived : k[1] # i} \cup left
    /\ torn' = IF left = {} THEN torn ELSE torn \cup {i}
UnlinkAll(i) == sources' \in {sources, sources \ {i}} /\ UnlinkVariants(i)

WriteVariants(j) ==
  LET i == jobs[j].image
      missing == {v \in Variant : <<i, v>> \notin derived}
  IN
  /\ jobs[j].pc = "variants"
  /\ \/ \E v \in missing :
          /\ derived' = derived \cup {<<i, v>>}
          /\ jobs' = [jobs EXCEPT ![j].pc = IF missing = {v} THEN "written" ELSE "variants"]
          /\ UNCHANGED <<sources, torn, active, queue, pending>>
     \/ UnlinkAll(i) /\ EndJob(j, "failed")

\* The last variant has its name; the job fails if its temporary file stays.
Finish(j) ==
  /\ jobs[j].pc = "written"
  /\ \/ /\ EndJob(j, "made")
        /\ named' = named \cup {jobs[j].image} /\ UNCHANGED <<files, torn>>
     \/ /\ EndJob(j, "failed") /\ UNCHANGED named
        /\ IF jobs[j].variant = None THEN UnlinkAll(jobs[j].image)
           ELSE UNCHANGED <<files, torn>>

Work(j) ==
  /\ \/ (ReadSource(j) \/ Publish(j) \/ WriteOriginal(j)) /\ UNCHANGED <<named, torn>>
     \/ WriteVariants(j) /\ UNCHANGED named
     \/ Finish(j)
  /\ UNCHANGED <<rows, req, gate>>

-----------------------------------------------------------------------------
(* ensureImageVariant.                                                     *)

GetVariant(r, i, v) ==
  /\ req[r].pc = "idle" /\ i \in named
  /\ req' = [req EXCEPT ![r] = [Idle EXCEPT !.pc = "lstat", !.image = i, !.variant = v]]
  /\ UNCHANGED <<files, slots>>

Lstat(r) ==
  /\ req[r].pc = "lstat"
  /\ IF req[r].image \in sources THEN Goto(r, "access") ELSE Answer(r)
  /\ UNCHANGED <<files, slots>>

NeverShared(k) == FALSE                        \* Variation: one job per request
Shared(k) == pending[k] # None

\* The variant exists, or its job is shared, or a new job starts.
Access(r) ==
  LET k == <<req[r].image, req[r].variant>>
      waitFor(j) == req' = [req EXCEPT ![r].pc = "wait", ![r].job = j]
  IN
  /\ req[r].pc = "access"
  /\ \/ k \in derived /\ Answer(r) /\ UNCHANGED slots
     \/ k \notin derived /\ Shared(k) /\ waitFor(pending[k]) /\ UNCHANGED slots
     \/ /\ k \notin derived /\ ~Shared(k) /\ ~Busy
        /\ runImageJob(r, req[r].image, req[r].variant)
        /\ pending' = [pending EXCEPT ![k] = r]
        /\ waitFor(r)
     \/ /\ k \notin derived /\ ~Shared(k) /\ Busy
        /\ Answer(r) /\ UNCHANGED slots
  /\ UNCHANGED files

NeverRejects(j) == jobs[j].pc = "made"         \* Variation: failures are not passed on
JobOver(j) == jobs[j].pc \in {"made", "failed"}

Reply(r) ==
  /\ req[r].pc = "wait" /\ JobOver(req[r].job)
  /\ Answer(r)
  /\ UNCHANGED <<files, slots>>

-----------------------------------------------------------------------------
(* Uploads: parseImageUpload lets a few bodies into memory at a time.       *)

\* (What announces no image or too many bytes is refused and leaves no trace.)
GateFull == activeUploads >= MaxUploads

Upload(r) ==
  /\ req[r].pc = "idle"
  /\ \/ GateFull /\ Answer(r) /\ UNCHANGED gate
     \/ /\ ~GateFull /\ Goto(r, "receive")
        /\ activeUploads' = activeUploads + 1 /\ listening' = listening \cup {r}
  /\ UNCHANGED slots

\* The whole body is there and an image, or it is malformed, too large or late.
Received(r) ==
  /\ req[r].pc = "receive"
  /\ \/ /\ ~Busy /\ runImageJob(r, None, None)
        /\ req' = [req EXCEPT ![r].pc = "wait", ![r].job = r]
        /\ UNCHANGED pending
     \/ Answer(r) /\ UNCHANGED slots
  /\ UNCHANGED gate

ReleaseAgain(r) ==                  \* Variation: finish and close both release
  activeUploads' = activeUploads - 1 /\ UNCHANGED listening
release(r) == activeUploads' = activeUploads - 1 /\ listening' = listening \ {r}

Responded(r) == r \in listening /\ req[r].pc = "done" /\ release(r) /\ UNCHANGED <<req, slots>>

\* The client hangs up: what is not parsed is dropped, a handler at work goes on.
onClose(r) ==
  /\ r \in listening /\ req[r].pc \in {"receive", "wait"}
  /\ release(r)
  /\ IF req[r].pc = "receive" THEN Answer(r) ELSE UNCHANGED req
  /\ UNCHANGED slots

-----------------------------------------------------------------------------
(* Saving a food or the organization, and removing what it replaced.       *)

\* Clean up the next replaced image, or answer.
Continue(r, left) ==
  req' = [req EXCEPT ![r] = IF left = {} THEN Answered
                            ELSE [Idle EXCEPT !.pc = "count", !.food = req[r].food,
                                              !.replaced = left]]

\* An edit form names images that exist or once existed.
SaveFood(r, f, form) ==
  /\ req[r].pc = "idle"
  /\ \A x \in Field : form[x] \in named \cup {None}
  /\ req' = [req EXCEPT ![r] = [Idle EXCEPT !.pc = "find", !.food = f, !.form = form]]
  /\ UNCHANGED rows

FindFood(r) ==
  /\ req[r].pc = "find"
  /\ req' = [req EXCEPT ![r].pc = "save",
                        ![r].replaced = {refs[req[r].food][x] : x \in Field} \ {None}]
  /\ UNCHANGED rows

UpdateFood(r) ==
  /\ req[r].pc = "save"
  /\ refs' = [refs EXCEPT ![req[r].food] = req[r].form]
  /\ Continue(r, req[r].replaced)
  /\ UNCHANGED logo

\* One Serializable transaction, which may conflict; the caller counts no references.
SaveLogo(r, i) ==
  /\ req[r].pc = "idle" /\ i \in named \cup {None}
  /\ \/ Answer(r) /\ UNCHANGED logo
     \/ /\ logo' = i
        /\ req' = [req EXCEPT ![r] =
             IF logo \in {None, i} THEN Answered
             ELSE [Idle EXCEPT !.pc = "unlink", !.image = logo, !.replaced = {logo}]]
  /\ UNCHANGED refs

Referenced(i) == \E f \in Food, x \in Field : refs[f][x] = i

\* removeUnreferencedImage: the count.
CountReferences(r) ==
  /\ req[r].pc = "count"
  /\ \E i \in req[r].replaced :
       \/ Referenced(i) /\ Continue(r, req[r].replaced \ {i})
       \/ ~Referenced(i) /\ req' = [req EXCEPT ![r].pc = "unlink", ![r].image = i]
  /\ UNCHANGED files

\* removeImageArtifacts: the source first, then the jobs that may have read it,
\* then the variants.
UnlinkSource(r) ==
  /\ req[r].pc = "unlink"
  /\ sources' = sources \ {req[r].image}
  /\ Goto(r, "collect")
  /\ UNCHANGED derived

\* cleanupAfterSave: a count or an unlink of the source that fails ends the clean-up of
\* this image, for good, and of no other.
CleanupFails(r) ==
  /\ \E i \in req[r].replaced :
       /\ req[r].pc = "count" \/ (req[r].pc = "unlink" /\ req[r].image = i)
       /\ Continue(r, req[r].replaced \ {i})
  /\ UNCHANGED files

NoJobs(i) == {}                                \* Variation: the jobs are not awaited
PendingJobs(i) == {pending[<<i, v>>] : v \in Variant} \ {None}

Collect(r) ==
  /\ req[r].pc = "collect"
  /\ req' = [req EXCEPT ![r].pc = "drain", ![r].waits = PendingJobs(req[r].image)]
  /\ UNCHANGED files

Drain(r) ==
  /\ req[r].pc = "drain"
  /\ \A j \in req[r].waits : JobOver(j)
  /\ Goto(r, "sweep")
  /\ UNCHANGED files

\* It ends the same way if an unlink fails: the error is logged and that is all.
Sweep(r) ==
  /\ req[r].pc = "sweep"
  /\ UnlinkVariants(req[r].image)
  /\ Continue(r, req[r].replaced \ {req[r].image})
  /\ UNCHANGED sources

\* A handler gives up: the file or row is not what it should be, or cannot be read or
\* written.
GiveUp(r) ==
  /\ req[r].pc \in {"lstat", "access", "find", "save"}
  /\ Answer(r)
  /\ UNCHANGED <<files, slots>>

Handle(r) ==
  \/ (GiveUp(r) \/ Lstat(r) \/ Access(r) \/ Reply(r)) /\ UNCHANGED <<rows, named, gate, torn>>
  \/ (Received(r) \/ Responded(r)) /\ UNCHANGED <<files, rows, named, torn>>
  \/ (FindFood(r) \/ UpdateFood(r)) /\ UNCHANGED <<files, named, slots, gate, torn>>
  \/ /\ \/ Sweep(r)
        \/ /\ CountReferences(r) \/ UnlinkSource(r) \/ CleanupFails(r) \/ Collect(r) \/ Drain(r)
           /\ UNCHANGED torn
     /\ UNCHANGED <<rows, named, slots, gate>>

Call(r) ==
  \/ (Upload(r) \/ onClose(r)) /\ UNCHANGED <<files, rows, named, torn>>
  \/ /\ \E i \in Image, v \in Variant : GetVariant(r, i, v)
     /\ UNCHANGED <<rows, named, gate, torn>>
  \/ /\ \/ \E f \in Food, form \in [Field -> MaybeImage] : SaveFood(r, f, form)
        \/ \E i \in MaybeImage : SaveLogo(r, i)
     /\ UNCHANGED <<files, named, slots, gate, torn>>

-----------------------------------------------------------------------------
\* The process ends: handlers, jobs and the queue are gone, files and rows stay.
Restart ==
  /\ \E r \in Request : req[r].pc \notin {"idle", "done"}
  /\ torn' = torn \cup {i \in {k[1] : k \in derived} :
                          \E r \in Request : /\ req[r].image = i
                                             /\ req[r].pc \in {"collect", "drain", "sweep"}}
  /\ req' = [r \in Request |->
               IF req[r].pc = "idle" THEN Idle ELSE Answered]
  /\ jobs' = [r \in Request |-> NoJob]
  /\ active' = 0 /\ queue' = <<>> /\ pending' = [k \in Keys |-> None]
  /\ activeUploads' = 0 /\ listening' = {}
  /\ UNCHANGED <<files, rows, named>>

Init ==
  /\ sources = Stored
  /\ derived = {}
  /\ named = sources
  /\ refs \in [Food -> [Field -> sources \cup {None}]]
  /\ logo \in sources \cup {None}
  /\ req = [r \in Request |-> Idle]
  /\ jobs = [r \in Request |-> NoJob]
  /\ active = 0 /\ queue = <<>> /\ pending = [k \in Keys |-> None]
  /\ activeUploads = 0 /\ listening = {}
  /\ torn = {}

Next == (\E r \in Request : Call(r) \/ Handle(r) \/ Work(r)) \/ Restart

\* The event loop runs every continuation and every image job makes progress.
Spec ==
  /\ Init /\ [][Next]_vars
  /\ \A r \in Request : WF_vars(Handle(r)) /\ WF_vars(Work(r))

-----------------------------------------------------------------------------
RunningJobs == {j \in Request : jobs[j].pc \in Running}
Live(j) == jobs[j].pc \in Running \cup {"queued"}

\* Files, rows, handlers and jobs keep their types, and slots and queue their limits.
TypeOK ==
  /\ sources \subseteq Image /\ named \subseteq Image /\ derived \subseteq Keys
  /\ refs \in [Food -> [Field -> MaybeImage]] /\ logo \in MaybeImage
  /\ req \in [Request -> HandlerState] /\ jobs \in [Request -> JobState]
  /\ active \in 0..MaxActive /\ queue \in Seq(Request) /\ Len(queue) <= MaxQueue
  /\ pending \in [Keys -> Request \cup {None}]
  /\ activeUploads \in 0..MaxUploads /\ listening \subseteq Request
  /\ torn \subseteq Image

\* Removing an image races with requests that are just making a variant of it: no
\* variant outlives its original, except while a removal is still at work, or if one was
\* cut short: by a restart, or as its own unlink of a variant failed.
NoOrphanVariant ==
  \A k \in derived : k[1] \in sources \cup torn
     \/ \E r \in Request : /\ req[r].image = k[1]
                           /\ req[r].pc \in {"collect", "drain", "sweep"}

\* However many requests ask for a missing variant, one job makes it, and nobody
\* can join a job that is over.
OneJobPerVariant ==
  /\ \A j, k \in Request : /\ Live(j) /\ Live(k) /\ jobs[j].variant # None
                           /\ jobs[j].image = jobs[k].image
                           /\ jobs[j].variant = jobs[k].variant
                           => j = k
  /\ \A k \in Keys : pending[k] # None => Live(pending[k])

\* The counters of slots and of uploads are exact, the queue holds the jobs that
\* wait, and none of them waits beside a free slot.
SlotsAreUsed ==
  /\ active = Cardinality(RunningJobs)
  /\ {queue[n] : n \in 1..Len(queue)} = {j \in Request : jobs[j].pc = "queued"}
  /\ queue # <<>> => active = MaxActive
  /\ activeUploads = Cardinality(listening)

\* What food-write-service.js says of its cleanup: a replaced upload is deleted only
\* when neither image field of any food still references it.
DeletedIsUnreferenced ==
  [][\A r \in Request : /\ req[r].food # None
                        /\ req[r].pc = "unlink" /\ req'[r].pc = "collect"
                        => ~Referenced(req[r].image)]_vars

\* Every request is answered, whatever fails and whoever waits for whose job, and an
\* upload gives its place back, whether it ends well, badly or unheard.  (A request that
\* was answered stays so: again and again all are means that each one is in the end.)
EveryRequestAnswered ==
  []<>(\A r \in Request :
         req[r].pc = "idle" \/ (req[r].pc = "done" /\ r \notin listening))
=============================================================================
