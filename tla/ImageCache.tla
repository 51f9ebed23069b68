----------------------------- MODULE ImageCache -----------------------------
(***************************************************************************)
(* The agent's image cache (crates/intar-agent/src/image_cache): the one   *)
(* background pass that warms the guest tools disk, prepares the pinned    *)
(* images, scrubs what is cached and evicts what is not pinned; the VM     *)
(* launches that wait for it, park it with their boot window, and take the *)
(* tools disk from it; and jailerd's template store, which the pass fills  *)
(* and jailerd's own garbage collection empties.                           *)
(***************************************************************************)
EXTENDS FiniteSets, Naturals

CONSTANTS
    Images,        \* pinned image revisions the registry advertises
    Chunks,        \* compressed chunks
    ChunksOf,      \* Images -> SUBSET Chunks: what each manifest lists
    Vms,           \* VMs the control plane may ask for
    ImageOf,       \* Vms -> Images
    MaxFiles,      \* ImageCacheConfig.max_bytes, in files
    MaxTemplates,  \* jailerd's template_budget_bytes, in templates
    Rounds,        \* REQUEUE_ROUNDS_PER_PASS
    BatchLimit,    \* SCRUB_ITEMS_PER_BATCH
    MaxFaults,     \* bound: damaged files, failed transfers and agent restarts
    MaxChanges,    \* bound: desired states delivered
    MaxHours       \* bound: times the grace and the ok age run out

ImageCacheConstants ==
    /\ ChunksOf \in [Images -> SUBSET Chunks] /\ ImageOf \in [Vms -> Images]
    /\ {MaxFiles, MaxTemplates, Rounds, BatchLimit, MaxFaults, MaxChanges, MaxHours} \subseteq Nat
    /\ Rounds > 0

Manifest(i) == <<"manifest", i>>
BootArtifacts(i) == <<"boot", i>>
Chunk(c) == <<"chunk", c>>
Ready(i) == <<"ready", i>>
Tools == <<"tools", "disk">>

\* The files of the cache root: manifests, boot artifacts, chunks, launch
\* descriptors and the guest tools disk.
Files == {Manifest(i) : i \in Images} \union {BootArtifacts(i) : i \in Images}
             \union {Chunk(c) : c \in Chunks} \union {Ready(i) : i \in Images}
             \union {Tools}

\* The downloaded files behind one image.
FilesOf(i) == {Manifest(i), BootArtifacts(i)} \union {Chunk(c) : c \in ChunksOf[i]}

VARIABLES
    content,    \* Files -> what the path holds
    unused,     \* files past the eviction grace
    verified,   \* Files -> age of the completed verification of that content
    toolsRec,   \* CacheEntryState.verified_tools_disk against the file's identity
    wanted,     \* the desired state in sqlite: [cached, running]
    rows,       \* VMs with a local row
    launch,     \* Vms -> where create_scenario_vm and run_create are
    wake,       \* CACHE_REFRESH_WAKE's stored permit
    pass,       \* the background pass
    templates,  \* jailerd's published image templates
    aged,       \* templates past jailerd's grace
    faults, changes, hours

cacheVars == <<content, unused, verified, toolsRec, wanted, rows, launch, wake, pass,
          templates, aged, faults, changes, hours>>
passVars == <<pass, wake>>
clock    == <<faults, changes, hours>>
store    == <<templates, aged>>
asked    == <<wanted, rows, launch>>

Scopes == {"MissingOnly", "Scrub"}
Idle == [pc |-> "idle", scope |-> "MissingOnly", pins |-> {}, todo |-> {},
         requeued |-> {}, rounds |-> 0, items |-> {}, batch |-> {},
         attempted |-> {}, changed |-> FALSE, keep |-> {}, keepTools |-> FALSE,
         wait |-> "start", woken |-> FALSE]

CacheInit == /\ content = [f \in Files |-> "absent"]
             /\ unused = {}
             /\ verified = [f \in Files |-> "none"]
             /\ toolsRec = "none"
             /\ wanted = [cached |-> {}, running |-> {}]
             /\ rows = {}
             /\ launch = [v \in Vms |-> "none"]
             /\ wake = TRUE          \* the startup pass
             /\ pass = Idle
             /\ templates = {} /\ aged = {}
             /\ faults = 0 /\ changes = 0 /\ hours = 0

-----------------------------------------------------------------------------
\* RequiredPins: the desired cache and the images of the running VMs.
Pins(d) == d.cached \union {ImageOf[v] : v \in d.running}

\* validate_chunked_launch_descriptor: the manifest is read and hashed, the
\* boot artifacts need only exist; the chunks and the template are not looked at.
DescriptorValid(i) == /\ content[Ready(i)] = "good"
                      /\ content[Manifest(i)] = "good"
                      /\ content[BootArtifacts(i)] # "absent"

\* BootPriority: a window is live from the API entry of an admitted create to
\* the terminal-ready commit or an error.
InWindow(at) == at \in {"waiting", "asked", "tools", "staging", "booting"}
Critical(l) == \E v \in Vms : InWindow(l[v])
\* jailerd's own boot window, opened by the launch admission.
JailerdBoot == \E v \in Vms : launch[v] = "booting"

\* A waiter that notify_waiters reaches: `enable` registers it before the
\* counter is read.
Registered(w) == w \in {"registered", "checked", "parked"}
\* BootCriticalGuard::drop: the last window wakes every registered waiter.
GuardDropped(l) ==
    pass' = [pass EXCEPT !.woken = @ \/ (Critical(launch) /\ ~Critical(l)
                                           /\ Registered(pass.wait)),
                         !.changed = @ \/ (pass.pc = "hash" /\ Tools \in pass.batch
                                             /\ toolsRec' # toolsRec)]

\* A file changed: every identity taken of it before no longer matches.
Disturbed(f) ==
    /\ toolsRec' = IF f = Tools /\ toolsRec = "current" THEN "stale" ELSE toolsRec
    /\ pass' = [pass EXCEPT !.changed = @ \/ (pass.pc = "hash" /\ f \in pass.batch)]

-----------------------------------------------------------------------------
(* The control plane, the disk and the clock *)

\* handle_server_message(DesiredState): the row is replaced, and changed pins
\* leave one wake permit.
DesiredState(cached, running) ==
    /\ changes < MaxChanges
    /\ [cached |-> cached, running |-> running] # wanted
    /\ wanted' = [cached |-> cached, running |-> running]
    /\ wake' = (wake \/ Pins(wanted') # Pins(wanted))
    /\ changes' = changes + 1
    /\ UNCHANGED <<content, unused, verified, toolsRec, rows, launch, pass, store,
                   faults, hours>>

\* A cached file is damaged in place.
Corrupt(f) ==
    /\ faults < MaxFaults
    /\ content[f] = "good"
    /\ content' = [content EXCEPT ![f] = "bad"]
    /\ Disturbed(f)
    /\ faults' = faults + 1
    /\ UNCHANGED <<unused, verified, asked, wake, store, changes, hours>>

\* Time passes: the eviction grace, the scrub's ok age and jailerd's grace end.
Hours ==
    /\ hours < MaxHours
    /\ hours' = hours + 1
    /\ unused' = {f \in Files : content[f] # "absent"}
    /\ verified' = [f \in Files |-> IF verified[f] = "young" THEN "old" ELSE verified[f]]
    /\ aged' = templates
    /\ UNCHANGED <<content, toolsRec, asked, passVars, templates, faults, changes>>

\* The agent restarts: the pass and every create in flight end, the record of
\* the tools disk is forgotten, and the startup pass runs.
AgentRestart ==
    /\ faults < MaxFaults
    /\ faults' = faults + 1
    /\ pass' = Idle /\ wake' = TRUE /\ toolsRec' = "none"
    /\ launch' = [v \in Vms |-> IF InWindow(launch[v]) THEN "failed" ELSE launch[v]]
    /\ UNCHANGED <<content, unused, verified, wanted, rows, store, changes, hours>>

\* gc_root_stores: over budget, a template no live VM uses and nobody touched
\* within the grace is removed. The agent is not told.
GcTemplate(i) ==
    /\ i \in templates \intersect aged
    /\ Cardinality(templates) > MaxTemplates
    /\ \A v \in Vms : launch[v] \in {"booting", "up"} => ImageOf[v] # i
    /\ templates' = templates \ {i} /\ aged' = aged \ {i}
    /\ UNCHANGED <<content, unused, verified, toolsRec, asked, passVars, clock>>

-----------------------------------------------------------------------------
(* The guest tools disk: ensure_cached_tools_disk, under its entry lock *)

\* probe_cached_tools_disk: a recorded identity that still matches is reused,
\* otherwise the whole file is read.
ProbeReuses == toolsRec = "current"
Probe(full) == \/ ~full /\ ProbeReuses
               \/ content[Tools] = "good"

\* The disk is served as it is, or removed, downloaded, decoded and published,
\* or the download fails and leaves none.
EnsureTools(full, ok) ==
    \/ /\ Probe(full) /\ ok
       /\ toolsRec' = "current"
       /\ UNCHANGED <<content, unused, faults>>
    \/ /\ ~Probe(full) /\ ok
       /\ content' = [content EXCEPT ![Tools] = "good"]
       /\ unused' = unused \ {Tools}
       /\ toolsRec' = "current"
       /\ UNCHANGED faults
    \/ /\ ~Probe(full) /\ ~ok /\ faults < MaxFaults
       /\ content' = [content EXCEPT ![Tools] = "absent"]
       /\ unused' = unused \ {Tools}
       /\ toolsRec' = "none"
       /\ faults' = faults + 1

-----------------------------------------------------------------------------
(* A launch: create_scenario_vm and run_create *)

\* An admitted create opens the boot window and writes the row.
Create(v) ==
    /\ v \in wanted.running /\ launch[v] = "none"
    /\ \A w \in Vms : ~InWindow(launch[w])          \* create_sem
    /\ launch' = [launch EXCEPT ![v] = "waiting"]
    /\ rows' = rows \union {v}
    /\ UNCHANGED <<content, unused, verified, toolsRec, wanted, passVars, store, clock>>

\* The wait for the descriptor asks once for a pass.
LaunchAsk(v) ==
    /\ launch[v] = "waiting" /\ ~DescriptorValid(ImageOf[v])
    /\ launch' = [launch EXCEPT ![v] = "asked"]
    /\ wake' = TRUE
    /\ UNCHANGED <<content, unused, verified, toolsRec, wanted, rows, pass, store, clock>>

LaunchReady(v) ==
    /\ launch[v] \in {"waiting", "asked"} /\ DescriptorValid(ImageOf[v])
    /\ launch' = [launch EXCEPT ![v] = "tools"]
    /\ UNCHANGED <<content, unused, verified, toolsRec, wanted, rows, passVars, store, clock>>

\* 60 seconds without a descriptor.
LaunchTimeout(v) ==
    /\ launch[v] = "asked" /\ ~DescriptorValid(ImageOf[v])
    /\ launch' = [launch EXCEPT ![v] = "failed"]
    /\ UNCHANGED <<content, unused, verified, toolsRec, wanted, rows, wake, store, clock>>
    /\ GuardDropped(launch')

LaunchTools(v, ok) ==
    /\ launch[v] = "tools"
    /\ EnsureTools(FALSE, ok)
    /\ launch' = [launch EXCEPT ![v] = IF ok THEN "staging" ELSE "failed"]
    /\ GuardDropped(launch')
    /\ UNCHANGED <<verified, wanted, rows, wake, store, changes, hours>>

\* jailerd admits the launch: the template must still be there and the staged
\* tools disk is hashed again; the template's last use is renewed.
LaunchStage(v) ==
    /\ launch[v] = "staging"
    /\ LET ok == ImageOf[v] \in templates /\ content[Tools] = "good"
       IN  /\ launch' = [launch EXCEPT ![v] = IF ok THEN "booting" ELSE "failed"]
           /\ aged' = IF ok THEN aged \ {ImageOf[v]} ELSE aged
    /\ UNCHANGED <<content, unused, verified, toolsRec, wanted, rows, wake, templates, clock>>
    /\ GuardDropped(launch')

\* The terminal-ready commit drops the guard.
LaunchUp(v) ==
    /\ launch[v] = "booting"
    /\ launch' = [launch EXCEPT ![v] = "up"]
    /\ UNCHANGED <<content, unused, verified, toolsRec, wanted, rows, wake, store, clock>>
    /\ GuardDropped(launch')

\* A VM that is no longer wanted is archived and its row removed.
Remove(v) ==
    /\ v \in rows \ wanted.running /\ ~InWindow(launch[v])
    /\ rows' = rows \ {v}
    /\ launch' = [launch EXCEPT ![v] = "none"]
    /\ UNCHANGED <<content, unused, verified, toolsRec, wanted, passVars, store, clock>>

-----------------------------------------------------------------------------
(* wait_for_vm_boot_idle: before the tools disk, each image and each item *)

Parks == {"warmPark", "imagePark", "itemPark"}
AfterPark(at) == CASE at = "warmPark" -> "warm"
                   [] at = "imagePark" -> "fetch"
                   [] OTHER -> "hash"
Waiting(w) == pass.pc \in Parks /\ pass.wait = w
PassOnly == /\ UNCHANGED <<content, unused, verified, toolsRec, asked, wake, store, clock>>

ParkRegister ==
    /\ Waiting("start")
    /\ pass' = [pass EXCEPT !.wait = "registered", !.woken = FALSE]
    /\ PassOnly

\* The item a scrub read works on is opened when the park ends.
ParkRead ==
    /\ Waiting("registered")
    /\ IF Critical(launch)
       THEN pass' = [pass EXCEPT !.wait = "checked"]
       ELSE LET next == AfterPark(pass.pc) IN
            \E img \in IF next = "fetch" THEN pass.todo ELSE {"-"} :
            \E f \in IF next = "hash" THEN pass.items ELSE {"-"} :
               pass' = [pass EXCEPT
                          !.pc = next, !.wait = "start", !.woken = FALSE,
                          !.changed = FALSE,
                          !.todo = @ \ {img},
                          !.batch = CASE next = "fetch" -> {img}
                                      [] next = "hash" -> {f}
                                      [] OTHER -> @]
    /\ PassOnly

ParkAwait ==
    /\ \/ Waiting("checked") /\ pass' = [pass EXCEPT !.wait = IF pass.woken THEN "start" ELSE "parked"]
       \/ Waiting("parked") /\ pass.woken /\ pass' = [pass EXCEPT !.wait = "start"]
    /\ PassOnly

-----------------------------------------------------------------------------
(* run_cache_refresh_cycle *)

\* The timer starts a scrub pass, a permit a pass over the missing entries.
\* Without pins, and when the registry cannot be listed, the pass ends.
PassStart(scope, listed) ==
    /\ pass.pc = "idle"
    /\ scope = "MissingOnly" => wake
    /\ wake' = IF scope = "MissingOnly" THEN FALSE ELSE wake
    /\ listed \/ faults < MaxFaults
    /\ faults' = IF listed THEN faults ELSE faults + 1
    /\ pass' = IF Pins(wanted) = {} \/ ~listed THEN Idle
               ELSE [Idle EXCEPT !.pc = "warmPark", !.scope = scope, !.pins = Pins(wanted)]
    /\ UNCHANGED <<content, unused, verified, toolsRec, asked, store, changes, hours>>

PassWarm(ok) ==
    /\ pass.pc = "warm"
    /\ EnsureTools(FALSE, ok)
    /\ pass' = [pass EXCEPT !.pc = "round"]
    /\ UNCHANGED <<verified, asked, wake, store, changes, hours>>

\* One round over the pinned images whose descriptor is not valid.
Missing(pins) == {i \in pins : ~DescriptorValid(i)}
PassRound ==
    /\ pass.pc = "round"
    /\ pass' = IF Missing(pass.pins) = {} THEN [pass EXCEPT !.pc = "after"]
               ELSE [pass EXCEPT !.pc = "imagePark", !.todo = Missing(pass.pins),
                                 !.requeued = {}, !.rounds = @ + 1]
    /\ PassOnly

\* The image in hand.
Img == CHOOSE i \in Images : i \in pass.batch

\* What follows an image: the next one, another round for what jailerd gave
\* back, or the rest of the pass.
NextImage(requeued) ==
    pass' = [pass EXCEPT
               !.batch = {},
               !.requeued = requeued,
               !.pc = IF pass.todo # {} THEN "imagePark"
                      ELSE IF requeued = {} \/ pass.rounds >= Rounds THEN "after"
                      ELSE "round"]

\* ensure_cached_chunked_image_entry: every file is verified, and what is
\* missing or damaged is downloaded, verified and renamed into place. A failed
\* transfer keeps the files that arrived.
Lacking(i) == {f \in FilesOf(i) : content[f] # "good"}
Fetched(done) == /\ content' = [f \in Files |-> IF f \in done THEN "good" ELSE content[f]]
                 /\ unused' = unused \ done
                 /\ UNCHANGED <<verified, toolsRec, asked, wake, store, changes, hours>>
PassFetch ==
    /\ pass.pc = "fetch"
    /\ Fetched(Lacking(Img))
    /\ pass' = [pass EXCEPT !.pc = "import"]
    /\ UNCHANGED faults
PassFetchFails ==
    /\ pass.pc = "fetch" /\ faults < MaxFaults
    /\ \E done \in SUBSET Lacking(Img) : done # Lacking(Img) /\ Fetched(done)
    /\ NextImage(pass.requeued)
    /\ faults' = faults + 1

\* mark_template_ready: the descriptor is written and renamed into place.
MarkReady(i) ==
    /\ content' = [content EXCEPT ![Ready(i)] = "good"]
    /\ unused' = unused \ {Ready(i)}
    /\ aged' = aged \ {i}

\* PrepareChunkedImageV3 claims jailerd's background lane. A live boot window
\* gives the work back; an existing template answers at once.
PassImport ==
    /\ pass.pc = "import"
    /\ \/ /\ JailerdBoot
          /\ NextImage(pass.requeued \union {Img})
          /\ UNCHANGED <<content, unused, aged>>
       \/ /\ ~JailerdBoot /\ Img \in templates
          /\ MarkReady(Img)
          /\ NextImage(pass.requeued)
       \/ /\ ~JailerdBoot /\ Img \notin templates
          /\ pass' = [pass EXCEPT !.pc = "importing"]
          /\ UNCHANGED <<content, unused, aged>>
    /\ UNCHANGED <<verified, toolsRec, asked, wake, templates, clock>>

\* The import reads every file again. A boot that starts in the middle defers
\* it at a block boundary, but the answer of that is image_prepare_failed.
PassImported ==
    /\ pass.pc = "importing"
    /\ NextImage(pass.requeued)
    /\ IF ~JailerdBoot /\ Lacking(Img) = {}
       THEN templates' = templates \union {Img} /\ MarkReady(Img)
       ELSE UNCHANGED <<content, unused, templates, aged>>
    /\ UNCHANGED <<verified, toolsRec, asked, wake, clock>>

PassAfter ==
    /\ pass.pc = "after"
    /\ pass' = [pass EXCEPT !.pc = IF pass.scope = "Scrub" THEN "plan" ELSE "evict",
                            !.rounds = 0, !.requeued = {}]
    /\ PassOnly

-----------------------------------------------------------------------------
(* scrub_retained_content *)

\* scrub_items: the files of every pinned image with a valid descriptor, and
\* the tools disk.
ScrubItems(pins) == UNION {FilesOf(i) : i \in {j \in pins : DescriptorValid(j)}}
                       \union {Tools}

\* plan_scrub_batch: what this pass has not tried and has no young
\* verification, oldest verification first, never verified last.
Due(f) == f \notin pass.attempted /\ verified[f] # "young"
PassPlan ==
    /\ pass.pc = "plan"
    /\ LET due == {f \in ScrubItems(pass.pins) : Due(f)}
       IN \/ /\ due = {}
             /\ pass' = [pass EXCEPT !.pc = "evict", !.attempted = {}]
          \/ /\ due # {}
             /\ \E b \in SUBSET due :
                   /\ Cardinality(b) = IF Cardinality(due) < BatchLimit
                                       THEN Cardinality(due) ELSE BatchLimit
                   /\ \A f \in b, g \in due \ b :
                         ~(verified[f] = "none" /\ verified[g] = "old")
                   /\ pass' = [pass EXCEPT !.pc = "itemPark", !.items = b]
    /\ PassOnly

Item == CHOOSE f \in Files : f \in pass.batch

NextItem(items) == IF items = {} THEN "plan" ELSE "itemPark"
Tried == [pass EXCEPT !.items = @ \ {Item}, !.attempted = @ \union {Item},
                      !.changed = FALSE]

\* verify_scrub_item: a matching digest of a read whose identity did not change
\* is recorded; a mismatch or a changed file goes to repair; a file that cannot
\* be opened is only logged.
HashMatches(f) == content[f] = "good" /\ ~pass.changed
PassHash ==
    /\ pass.pc = "hash" /\ ~Critical(launch)     \* park_while_boot_critical
    /\ verified' = IF HashMatches(Item) THEN [verified EXCEPT ![Item] = "young"] ELSE verified
    /\ pass' = IF ~HashMatches(Item) /\ content[Item] # "absent"
               THEN [Tried EXCEPT !.pc = "repair"]
               ELSE [Tried EXCEPT !.pc = NextItem(pass.items \ {Item}), !.batch = {}]
    /\ UNCHANGED <<content, unused, toolsRec, asked, wake, store, clock>>

\* The digests repair_scrub_item compares: the image's own, and the file's.
ImageId(i) == <<"root", i>>
ExpectedSha(f) == f

\* repair_scrub_item: a tools disk is rebuilt from the registry; an image is
\* prepared again only when the image's digest is the digest of the failed file.
PassRepair(ok) ==
    /\ pass.pc = "repair"
    /\ pass' = [pass EXCEPT !.pc = NextItem(pass.items), !.batch = {}]
    /\ IF Item = Tools
       THEN EnsureTools(TRUE, ok)
       ELSE /\ ok
            /\ content' = [f \in Files |->
                  IF \E i \in pass.pins : /\ Item \in FilesOf(i) /\ f \in FilesOf(i)
                                          /\ ImageId(i) = ExpectedSha(Item)
                  THEN "good" ELSE content[f]]
            /\ UNCHANGED <<unused, toolsRec, faults>>
    /\ UNCHANGED <<verified, asked, wake, store, changes, hours>>

-----------------------------------------------------------------------------
(* evict_cache_if_needed *)

\* protected_cache_entries: local rows, then the desired state.
PassProtect ==
    /\ pass.pc = "evict"
    /\ pass' = [pass EXCEPT !.pc = "drop",
                            !.keep = Pins(wanted) \union {ImageOf[v] : v \in rows},
                            !.keepTools = Pins(wanted) # {} \/ rows # {}]
    /\ PassOnly


\* The paths behind the protected descriptors, and the protected tools disk.
ProtectedPaths ==
    LET kept == {i \in pass.keep : content[Ready(i)] = "good"}
    IN  {Ready(i) : i \in kept} \union UNION {FilesOf(i) : i \in kept}
           \union (IF pass.keepTools THEN {Tools} ELSE {})
OverBudget == Cardinality({f \in Files : content[f] # "absent"}) > MaxFiles
Evictable == {f \in unused : content[f] # "absent" /\ f \notin ProtectedPaths}

\* evict_chunk_cache_files: while over budget, old unprotected files go.
PassEvict(f) ==
    /\ pass.pc = "drop" /\ OverBudget
    /\ f \in Evictable
    /\ content' = [content EXCEPT ![f] = "absent"]
    /\ unused' = unused \ {f}
    /\ toolsRec' = IF f = Tools /\ toolsRec = "current" THEN "stale" ELSE toolsRec
    /\ UNCHANGED <<verified, asked, passVars, store, clock>>

PassDone ==
    /\ pass.pc = "drop" /\ (~OverBudget \/ Evictable = {})
    /\ pass' = Idle
    /\ PassOnly

-----------------------------------------------------------------------------
PassStep == \/ ParkRegister \/ ParkRead \/ ParkAwait
            \/ PassWarm(TRUE) \/ PassRound \/ PassFetch \/ PassImport
            \/ PassImported \/ PassAfter
            \/ PassPlan \/ PassHash \/ PassRepair(TRUE) \/ PassProtect \/ PassDone
            \/ \E f \in Files : PassEvict(f)

PassFails == PassWarm(FALSE) \/ PassRepair(FALSE) \/ PassFetchFails

LaunchSteps(v) == \/ Create(v) \/ LaunchAsk(v) \/ LaunchReady(v) \/ LaunchTimeout(v)
                  \/ LaunchTools(v, TRUE) \/ LaunchStage(v) \/ LaunchUp(v) \/ Remove(v)

CacheNext == \/ \E cached \in SUBSET Images, running \in SUBSET Vms : DesiredState(cached, running)
             \/ \E f \in Files : Corrupt(f)
             \/ Hours \/ AgentRestart
             \/ \E i \in Images : GcTemplate(i)
             \/ \E v \in Vms : LaunchSteps(v) \/ LaunchTools(v, FALSE)
             \/ \E scope \in Scopes, listed \in BOOLEAN : PassStart(scope, listed)
             \/ PassStep \/ PassFails

CacheSpec == CacheInit /\ [][CacheNext]_cacheVars

\* The worker task loops, its timer ticks, and a launch runs to its end: every
\* wait inside one is bounded by its own deadline.
CacheFairness ==
    /\ WF_cacheVars(PassStep)
    /\ WF_cacheVars(PassStart("Scrub", TRUE))
    /\ WF_cacheVars(PassStart("MissingOnly", TRUE))
    /\ \A v \in Vms : WF_cacheVars(LaunchSteps(v))
FairCacheSpec == CacheSpec /\ CacheFairness

-----------------------------------------------------------------------------
LaunchPcs == {"none", "waiting", "asked", "tools", "staging", "booting", "up", "failed"}
PassPcs == Parks \union {"idle", "warm", "round", "fetch", "import", "importing", "after", "plan",
                         "hash", "repair", "evict", "drop"}
\* Every variable has its type.
CacheTypes ==
    /\ content \in [Files -> {"absent", "good", "bad"}]
    /\ unused \subseteq {f \in Files : content[f] # "absent"}
    /\ verified \in [Files -> {"none", "young", "old"}]
    /\ toolsRec \in {"none", "current", "stale"}
    /\ wanted.cached \subseteq Images /\ wanted.running \subseteq Vms
    /\ rows \subseteq Vms /\ launch \in [Vms -> LaunchPcs]
    /\ \A v \in Vms : InWindow(launch[v]) => v \in rows
    /\ pass.pc \in PassPcs /\ pass.rounds \in 0..Rounds
    /\ templates \subseteq Images /\ aged \subseteq templates

\* ensure_cached_tools_disk never hands a launch a disk that is not the pinned
\* one, although it skips the hash while the recorded identity still matches:
\* whatever damaged the file since, the identity no longer matches.
ToolsServedStep ==
    \A v \in Vms : launch[v] = "tools" /\ launch'[v] = "staging"
                       => content'[Tools] = "good"
ToolsServed == [][ToolsServedStep]_cacheVars

\* A verification record is written only while the file really holds its
\* content: a file that changed under the read is not recorded.
VerifiedIsWholeStep ==
    \A f \in Files : verified[f] # "young" /\ verified'[f] = "young"
                         => content'[f] = "good"
VerifiedIsWhole == [][VerifiedIsWholeStep]_cacheVars

\* An eviction never takes a file away from an image it loaded as protected,
\* chunks shared with an unprotected image included.
EvictionSparesProtectedStep ==
    \A i \in pass.keep : pass.pc = "drop" /\ content[Ready(i)] = "good" =>
        \A f \in FilesOf(i) \union {Ready(i)} :
           content[f] # "absent" => content'[f] # "absent"
EvictionSparesProtected == [][EvictionSparesProtectedStep]_cacheVars

\* An image that stays pinned ends up with a valid launch descriptor, whatever
\* boots park the pass and however often jailerd gives its import back.
PinnedGetsReady ==
    \A i \in Images : i \in Pins(wanted) ~> (DescriptorValid(i) \/ i \notin Pins(wanted))

-----------------------------------------------------------------------------
(* Statements of the source that the code does not keep *)

\* "A desired-state change or a launch that needs a missing descriptor": the
\* pass a waiting launch asked for is never parked by the windows of launches
\* that wait for the images the pass has still to prepare.
WaitedPassRuns ==
    ~ /\ pass.pc = "imagePark" /\ pass.wait = "parked"
      /\ Critical(launch)
      /\ \A v \in Vms : InWindow(launch[v]) =>
            launch[v] = "asked" /\ ImageOf[v] \in pass.todo

\* "A requeue is not a failure": a pass without faults stops before its round
\* budget only when every pinned image is ready.
DeferredIsRetried ==
    (pass.pc = "after" /\ pass.rounds < Rounds /\ faults = 0)
        => \A i \in pass.pins : DescriptorValid(i)

\* "Missing or corrupt compressed objects are revalidated and repaired": a
\* damaged file of a ready image that stays pinned is good again some day.
DamageRepaired ==
    \A i \in Images : \A f \in FilesOf(i) :
        (content[f] = "bad" /\ i \in Pins(wanted))
            ~> (content[f] = "good" \/ i \notin Pins(wanted))

\* "A ready descriptor is bound to the root-owned prepared template": a pinned
\* image whose descriptor is valid has its template, or gets it back.
ReadyCanLaunch ==
    \A i \in Images : (DescriptorValid(i) /\ i \in Pins(wanted))
            ~> (i \in templates \/ i \notin Pins(wanted))
=============================================================================
