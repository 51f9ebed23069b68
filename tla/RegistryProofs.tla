--------------------------- MODULE RegistryProofs ---------------------------
(***************************************************************************)
(* The registry, for any manifests, chunks, uploaders, starts, collector   *)
(* passes and failures.  Nothing in the bucket says that an image is whole *)
(* while it is only published: a bulk delete may remove the chunks of a    *)
(* manifest and fail before the manifest.  What keeps the references whole *)
(* is the gate.  While it is closed no writer is admitted and no session   *)
(* is open, so the plan of the pass that holds it stays good; and a pass   *)
(* that lost the gate deletes nothing.  The archive of a VM, the build     *)
(* queue, the scenario source and the catalog follow.                      *)
(***************************************************************************)
EXTENDS Registry, ArchiveUpload, BuildScheduler, ScenarioSource, Catalog, WellFoundedInduction, TLAPS

(* A closed gate has one holder and keeps every writer and session out. *)
GateShut ==
  gate.state = "sweeping" => gate.token \in Sweepers /\ ~Busy /\ OpenSessions = {}

(* A request is made under a session that was opened for it. *)
SessionKnown(u) ==
  /\ up[u].stage \in {"probe", "chunks", "manifest", "publish", "commit", "close"} =>
       up[u].sid \in Sessions /\ sess[up[u].sid].state # "none"
  /\ up[u].busy => up[u].stage \in {"probe", "chunks", "manifest", "publish", "commit"}

(* An upload that its session, or the request it runs, protects. *)
Protected(u) == up[u].busy \/ (up[u].sid \in Sessions /\ sess[up[u].sid].state = "open")

(* What a protected upload has found or put stays in the bucket. *)
UploadSound(u) ==
  Protected(u) =>
    /\ up[u].stage = "chunks" => ChunksOf[ImageOf[u]] \ up[u].missing \subseteq bucket
    /\ up[u].stage \in {"manifest", "publish", "commit"} => ChunksOf[ImageOf[u]] \subseteq bucket
    /\ up[u].stage = "commit" => up[u].busy /\ ImageOf[u] \in bucket

Planned(s) == sw[s].pc \in {"beat", "assert", "delete"}

(* A plan splits what was listed; one whose pass holds the gate spares what *)
(* is referenced now.                                                       *)
PlanSound(s) ==
  /\ sw[s].pc \in {"acquired", "scan", "plan"} => sw[s].claimed = {}
  /\ Planned(s) \/ (sw[s].pc \in {"post", "finish"} /\ ~sw[s].error) =>
       /\ sw[s].keep \subseteq sw[s].baseline
       /\ sw[s].claimed \cup sw[s].todo = sw[s].baseline \ sw[s].keep
  /\ Planned(s) /\ HoldsGate(s) => Retained \subseteq sw[s].keep
  /\ sw[s].pc \in {"assert", "delete"} => sw[s].batch \subseteq sw[s].todo /\ sw[s].budget > 0
  /\ sw[s].pc = "delete" => HoldsGate(s) /\ ~stalled

(* The inductive invariant. *)
RegistryInv ==
  /\ TypeOK /\ GateShut /\ ReferencedIsWhole /\ CompletedIsClean
  /\ \A u \in Uploaders : SessionKnown(u) /\ UploadSound(u)
  /\ \A s \in Sweepers : PlanSound(s)

Uploads ==
  [stage : {"start", "probe", "chunks", "manifest", "publish", "commit", "close", "done",
            "failed"},
   sid : Sessions \cup {None}, tries : Nat, missing : SUBSET Chunks, busy : BOOLEAN,
   lost : {"no", "superseded", "fatal"}, again : BOOLEAN]

SweepStates ==
  [pc : {"idle", "acquired", "scan", "plan", "beat", "assert", "delete", "post", "finish"},
   baseline : SUBSET Objects, todo : SUBSET Objects, keep : SUBSET Objects,
   batch : SUBSET Objects, claimed : SUBSET Objects, budget : Nat, error : BOOLEAN,
   completed : BOOLEAN]

SessionStates == [state : {"none", "open", "closed", "reaped"}, lapsed : BOOLEAN]

StartStates ==
  [pc : {"new", "admitted", "read", "running", "ended"}, image : Manifests \cup {None}]

-----------------------------------------------------------------------------
(* Nothing is under way, and the live image is whole. *)
LEMMA InitRegistry == ASSUME RegistryConstants PROVE Init => RegistryInv
<1> SUFFICES ASSUME Init PROVE RegistryInv
  OBVIOUS
<1> USE DEF RegistryConstants, Init
<1>1. TypeOK
  <2>1. NewUpload \in Uploads /\ IdleSweep \in SweepStates /\ Fresh \in SessionStates
    BY DEF NewUpload, Uploads, IdleSweep, SweepStates, Fresh, SessionStates
  <2>2. up \in [Uploaders -> Uploads] /\ sw \in [Sweepers -> SweepStates]
        /\ sess \in [Sessions -> SessionStates] /\ start \in [Starts -> StartStates]
    BY <2>1 DEF StartStates
  <2>3. QED
    BY <2>2 DEF TypeOK, Uploads, SweepStates, SessionStates, StartStates, Objects
<1>2. GateShut /\ CompletedIsClean
  BY DEF GateShut, CompletedIsClean, IdleSweep
<1>3. ReferencedIsWhole
  BY DEF ReferencedIsWhole, Roots, Whole
<1>4. \A u \in Uploaders : SessionKnown(u) /\ UploadSound(u)
  BY DEF SessionKnown, UploadSound, NewUpload
<1>5. \A s \in Sweepers : PlanSound(s)
  BY DEF PlanSound, Planned, IdleSweep
<1>6. QED
  BY <1>1, <1>2, <1>3, <1>4, <1>5 DEF RegistryInv

(* A step outside the collector adds to the bucket, and to neither the      *)
(* writers nor the references while the gate is closed.                     *)
LEMMA WriterStep ==
  ASSUME RegistryConstants, RegistryInv, TypeOK', UNCHANGED <<gate, stalled, running, sw>>,
         gate.state = "sweeping" =>
           ~Busy' /\ OpenSessions' = {} /\ bucket' = bucket /\ Roots' \subseteq Roots,
         ReferencedIsWhole', \A u \in Uploaders : SessionKnown(u)' /\ UploadSound(u)'
  PROVE  RegistryInv'
<1>1. GateShut'
  BY DEF RegistryInv, GateShut
<1>2. \A s \in Sweepers : HoldsGate(s)' <=> HoldsGate(s)
  BY DEF HoldsGate
<1>3. CompletedIsClean'
  BY <1>2 DEF RegistryInv, CompletedIsClean, HoldsGate
<1>4. ASSUME NEW s \in Sweepers PROVE PlanSound(s)'
  <2>1. HoldsGate(s) => Retained' \subseteq Retained
    BY DEF HoldsGate, Retained, Whole
  <2>2. PlanSound(s)
    BY DEF RegistryInv
  <2>3. QED
    BY <1>2, <2>1, <2>2 DEF PlanSound, Planned
<1>5. QED
  BY <1>1, <1>3, <1>4 DEF RegistryInv

(* The same of a step of one upload. *)
LEMMA UploadStep ==
  ASSUME RegistryConstants, RegistryInv, NEW u \in Uploaders, NEW x \in Uploads,
         up' = [up EXCEPT ![u] = x], UNCHANGED <<gate, stalled, running, sw, start>>,
         holds' \in BOOLEAN, sess' \in [Sessions -> SessionStates],
         \A k \in Sessions : sess[k].state # "none" => sess'[k].state # "none",
         \A k \in Sessions : sess'[k].state = "open" =>
           sess[k].state = "open" \/ (sess[k].state = "none" /\ gate.state = "open"),
         bucket \subseteq bucket', bucket' \subseteq Objects,
         live' \in Manifests \cup {None}, rollback' \in Manifests \cup {None},
         gate.state = "sweeping" => UNCHANGED <<bucket, live, rollback>> /\ ~x.busy,
         ReferencedIsWhole', SessionKnown(u)', UploadSound(u)'
  PROVE  RegistryInv'
<1>1. up' \in [Uploaders -> Uploads] /\ up'[u] = x /\ \A v \in Uploaders \ {u} : up'[v] = up[v]
  BY DEF RegistryInv, TypeOK, Uploads
<1>2. TypeOK'
  BY <1>1 DEF RegistryInv, TypeOK, Uploads, SessionStates
<1>3. gate.state = "sweeping" =>
        ~Busy' /\ OpenSessions' = {} /\ bucket' = bucket /\ Roots' \subseteq Roots
  <2> SUFFICES ASSUME gate.state = "sweeping"
               PROVE  ~Busy' /\ OpenSessions' = {} /\ bucket' = bucket /\ Roots' \subseteq Roots
    OBVIOUS
  <2>1. ~Busy /\ OpenSessions = {}
    BY DEF RegistryInv, GateShut
  <2>2. ~Busy'
    BY <1>1, <2>1 DEF Busy
  <2>3. OpenSessions' = {}
    BY <2>1 DEF OpenSessions
  <2>4. Roots' \subseteq Roots
    BY DEF Roots
  <2>5. QED
    BY <2>2, <2>3, <2>4
<1>4. ASSUME NEW v \in Uploaders \ {u} PROVE SessionKnown(v)' /\ UploadSound(v)'
  <2>1. SessionKnown(v) /\ UploadSound(v)
    BY DEF RegistryInv
  <2>2. SessionKnown(v)'
    BY <1>1, <2>1 DEF SessionKnown
  <2>3. up[v].stage \in {"chunks", "manifest", "publish", "commit"} /\ Protected(v)' => Protected(v)
    BY <1>1, <2>1 DEF SessionKnown, Protected
  <2>4. UploadSound(v)'
    BY <1>1, <2>1, <2>3 DEF UploadSound
  <2>5. QED
    BY <2>2, <2>4
<1>5. QED
  BY <1>2, <1>3, <1>4, WriterStep

(* An upload that changes nothing but itself and its hold. *)
LEMMA UploadAside ==
  ASSUME RegistryConstants, RegistryInv, NEW u \in Uploaders, NEW x \in Uploads,
         up' = [up EXCEPT ![u] = x],
         UNCHANGED <<gate, stalled, running, sw, start, sess, bucket, live, rollback>>,
         holds' \in BOOLEAN, gate.state = "sweeping" => ~x.busy,
         SessionKnown(u)', UploadSound(u)'
  PROVE  RegistryInv'
<1>1. ReferencedIsWhole'
  BY DEF RegistryInv, ReferencedIsWhole, Roots
<1>2. sess \in [Sessions -> SessionStates] /\ bucket \subseteq Objects
      /\ live \in Manifests \cup {None} /\ rollback \in Manifests \cup {None}
  BY DEF RegistryInv, TypeOK, SessionStates
<1>3. QED
  BY <1>1, <1>2, UploadStep

-----------------------------------------------------------------------------
(* A new session is opened while the gate is open, and not a second time. *)
LEMMA OpenSessionRegistry ==
  ASSUME RegistryConstants, RegistryInv, NEW u \in Uploaders, OpenSession(u)
  PROVE  RegistryInv'
<1>1. PICK k \in Sessions :
        /\ sess[k].state = "none" /\ sess' = [sess EXCEPT ![k].state = "open"]
        /\ SetUp(u, [up[u] EXCEPT !.stage = "probe", !.sid = k, !.lost = "no", !.again = FALSE])
  BY DEF OpenSession
<1> DEFINE x == [up[u] EXCEPT !.stage = "probe", !.sid = k, !.lost = "no", !.again = FALSE]
<1>2. /\ up' = [up EXCEPT ![u] = x] /\ gate.state = "open" /\ up[u].stage = "start"
      /\ UNCHANGED <<gate, stalled, running, holds, bucket, live, rollback, start, sw>>
  BY <1>1 DEF OpenSession, SetUp, gateVars, pointers
<1>3. up[u] \in Uploads /\ sess \in [Sessions -> SessionStates]
  BY DEF RegistryInv, TypeOK, Uploads, SessionStates
<1>4. x \in Uploads /\ x.stage = "probe" /\ x.sid = k /\ x.busy = up[u].busy
  BY <1>3 DEF Uploads
<1>5. ~up[u].busy
  BY <1>2 DEF RegistryInv, SessionKnown
<1> HIDE DEF x
<1>6. up'[u] = x
  BY <1>2 DEF RegistryInv, TypeOK
<1>7. /\ sess' \in [Sessions -> SessionStates] /\ sess'[k].state = "open"
      /\ \A j \in Sessions \ {k} : sess'[j] = sess[j]
  BY <1>1, <1>3 DEF SessionStates
<1>8. SessionKnown(u)' /\ UploadSound(u)'
  BY <1>4, <1>5, <1>6, <1>7 DEF SessionKnown, UploadSound
<1>9. ReferencedIsWhole'
  BY <1>2 DEF RegistryInv, ReferencedIsWhole, Roots
<1>10. holds' \in BOOLEAN /\ bucket' \subseteq Objects
       /\ live' \in Manifests \cup {None} /\ rollback' \in Manifests \cup {None}
  BY <1>2 DEF RegistryInv, TypeOK
<1>11. \A j \in Sessions : sess[j].state # "none" => sess'[j].state # "none"
  BY <1>7
<1>12. \A j \in Sessions : sess'[j].state = "open" =>
          sess[j].state = "open" \/ (sess[j].state = "none" /\ gate.state = "open")
  BY <1>1, <1>2, <1>7
<1>13. QED
  BY <1>2, <1>4, <1>7, <1>8, <1>9, <1>10, <1>11, <1>12, UploadStep

(* An admission needs an open gate; a refusal and a lost heartbeat take     *)
(* nothing from the upload's protection.                                    *)
LEMMA AdmitRegistry ==
  ASSUME RegistryConstants, RegistryInv, NEW u \in Uploaders, Admit(u)
  PROVE  RegistryInv'
<1> DEFINE x == [up[u] EXCEPT !.busy = TRUE]
<1>1. /\ up' = [up EXCEPT ![u] = x] /\ gate.state = "open"
      /\ up[u].stage \in {"probe", "chunks", "manifest", "publish"} /\ SessionValid(up[u].sid)
      /\ UNCHANGED <<gate, stalled, running, sess, holds, bucket, live, rollback, start, sw>>
  BY DEF Admit, Requesting, GateAdmits, SetUp, gateVars, pointers
<1>2. up[u] \in Uploads /\ SessionKnown(u) /\ UploadSound(u) /\ holds \in BOOLEAN
  BY DEF RegistryInv, TypeOK, Uploads
<1>3. x \in Uploads /\ x.stage = up[u].stage /\ x.sid = up[u].sid /\ x.missing = up[u].missing
  BY <1>2 DEF Uploads
<1> HIDE DEF x
<1>4. up'[u] = x
  BY <1>1 DEF RegistryInv, TypeOK
<1>5. Protected(u)
  BY <1>1, <1>2 DEF Protected, SessionKnown, SessionValid
<1>6. SessionKnown(u)' /\ UploadSound(u)'
  BY <1>1, <1>2, <1>3, <1>4, <1>5 DEF SessionKnown, UploadSound
<1>7. QED
  BY <1>1, <1>2, <1>3, <1>6, UploadAside

(* A refusal or the death of the client ends an upload that has no request. *)
LEMMA IdleUploadRegistry ==
  ASSUME RegistryConstants, RegistryInv, NEW u \in Uploaders,
         OpenRefused(u) \/ AdmitRefused(u) \/ UploaderDies(u)
  PROVE  RegistryInv'
<1>1. ~up[u].busy
  BY DEF OpenRefused, AdmitRefused, Requesting, UploaderDies, RegistryInv, SessionKnown
<1>2. PICK b \in BOOLEAN, w \in {"failed", "close"} :
        /\ up' = [up EXCEPT ![u] = [up[u] EXCEPT !.stage = w, !.again = b]]
        /\ w = "close" => Requesting(u)
  <2>1. up[u] \in Uploads
    BY DEF RegistryInv, TypeOK, Uploads
  <2>2. CASE OpenRefused(u) \/ UploaderDies(u)
    <3>1. up' = [up EXCEPT ![u] = [up[u] EXCEPT !.stage = "failed"]]
      BY <2>2 DEF OpenRefused, UploaderDies, SetUp
    <3>2. [up[u] EXCEPT !.stage = "failed"] = [up[u] EXCEPT !.stage = "failed", !.again = up[u].again]
      BY <2>1 DEF Uploads
    <3>3. up[u].again \in BOOLEAN
      BY <2>1 DEF Uploads
    <3>4. QED
      BY <3>1, <3>2, <3>3
  <2>3. CASE AdmitRefused(u)
    <3>1. PICK b : /\ b \in BOOLEAN
                   /\ up' = [up EXCEPT ![u] = [up[u] EXCEPT !.stage = "close", !.again = b]]
      BY <2>3 DEF AdmitRefused, SetUp, SessionValid
    <3>2. QED
      BY <2>3, <3>1 DEF AdmitRefused
  <2>4. QED
    BY <2>2, <2>3
<1> DEFINE x == [up[u] EXCEPT !.stage = w, !.again = b]
<1>3. UNCHANGED <<gate, stalled, running, sess, holds, bucket, live, rollback, start, sw>>
  BY DEF OpenRefused, AdmitRefused, UploaderDies, gateVars, pointers
<1>4. up[u] \in Uploads /\ SessionKnown(u) /\ holds \in BOOLEAN
  BY DEF RegistryInv, TypeOK, Uploads
<1>5. x \in Uploads /\ x.stage = w /\ x.sid = up[u].sid /\ x.busy = up[u].busy
  BY <1>4 DEF Uploads
<1> HIDE DEF x
<1>6. up' = [up EXCEPT ![u] = x] /\ up'[u] = x
  BY <1>2 DEF RegistryInv, TypeOK, x
<1>7. SessionKnown(u)' /\ UploadSound(u)'
  BY <1>1, <1>2, <1>3, <1>4, <1>5, <1>6 DEF SessionKnown, UploadSound, Requesting
<1>8. QED
  BY <1>1, <1>3, <1>4, <1>5, <1>6, <1>7, UploadAside

(* A lost heartbeat is remembered, and takes no protection away. *)
LEMMA BeatFailsRegistry ==
  ASSUME RegistryConstants, RegistryInv, NEW u \in Uploaders, BeatFails(u)
  PROVE  RegistryInv'
<1>1. PICK l \in {"superseded", "fatal"} : up' = [up EXCEPT ![u] = [up[u] EXCEPT !.lost = l]]
  BY DEF BeatFails, SetUp
<1> DEFINE x == [up[u] EXCEPT !.lost = l]
<1>2. UNCHANGED <<gate, stalled, running, sess, holds, bucket, live, rollback, start, sw>>
  BY DEF BeatFails, gateVars, pointers
<1>3. up[u] \in Uploads /\ SessionKnown(u) /\ UploadSound(u) /\ holds \in BOOLEAN
  BY DEF RegistryInv, TypeOK, Uploads
<1>4. x \in Uploads /\ x.stage = up[u].stage /\ x.sid = up[u].sid /\ x.busy = up[u].busy
      /\ x.missing = up[u].missing
  BY <1>3 DEF Uploads
<1>5. up' = [up EXCEPT ![u] = x]
  BY <1>1
<1> HIDE DEF x
<1>6. up'[u] = x
  BY <1>5 DEF RegistryInv, TypeOK
<1>7. SessionKnown(u)' /\ UploadSound(u)'
  BY <1>2, <1>3, <1>4, <1>6 DEF SessionKnown, UploadSound, Protected
<1>8. gate.state = "sweeping" => ~x.busy
  BY <1>4 DEF RegistryInv, GateShut, Busy
<1>9. QED
  BY <1>2, <1>3, <1>4, <1>5, <1>7, <1>8, UploadAside

-----------------------------------------------------------------------------
(* A request that runs keeps the gate open to writers. *)
LEMMA ServedWhileOpen ==
  ASSUME RegistryInv, NEW u \in Uploaders, up[u].busy
  PROVE  gate.state = "open"
BY DEF RegistryInv, GateShut, Busy, TypeOK

(* A writer row is settled or stays as a hold. *)
LEMMA ReleaseTyped == ASSUME RegistryInv, Release PROVE holds' \in BOOLEAN
BY DEF RegistryInv, TypeOK, Release

(* The probe records what is missing now, and nothing leaves meanwhile. *)
LEMMA ProbeRegistry ==
  ASSUME RegistryConstants, RegistryInv, NEW u \in Uploaders, Probe(u)
  PROVE  RegistryInv'
<1> DEFINE gone == ChunksOf[ImageOf[u]] \ bucket
           x == [up[u] EXCEPT !.busy = FALSE, !.missing = gone,
                              !.stage = IF gone = {} THEN "manifest" ELSE "chunks"]
<1>1. /\ up' = [up EXCEPT ![u] = x] /\ up[u].busy /\ up[u].stage = "probe" /\ Release
      /\ UNCHANGED <<gate, stalled, running, sess, bucket, live, rollback, start, sw>>
  BY DEF Probe, Serving, SetUp, gateVars, pointers
<1>2. up[u] \in Uploads /\ SessionKnown(u) /\ gone \subseteq Chunks
  BY DEF RegistryInv, TypeOK, Uploads, RegistryConstants
<1>3. /\ x \in Uploads /\ x.sid = up[u].sid /\ ~x.busy /\ x.missing = gone
      /\ x.stage = IF gone = {} THEN "manifest" ELSE "chunks"
  BY <1>2 DEF Uploads
<1>4. up'[u] = x
  BY <1>1 DEF RegistryInv, TypeOK
<1> HIDE DEF x
<1>5. SessionKnown(u)'
  BY <1>1, <1>2, <1>3, <1>4 DEF SessionKnown
<1>6. UploadSound(u)'
  BY <1>1, <1>3, <1>4 DEF UploadSound
<1>7. holds' \in BOOLEAN
  BY <1>1, ReleaseTyped
<1>8. QED
  BY <1>1, <1>3, <1>5, <1>6, <1>7, UploadAside

(* A chunk that was missing is put. *)
LEMMA PutChunkRegistry ==
  ASSUME RegistryConstants, RegistryInv, NEW u \in Uploaders, PutChunk(u)
  PROVE  RegistryInv'
<1>1. PICK c \in up[u].missing :
        /\ bucket' = bucket \cup {c}
        /\ SetUp(u, [up[u] EXCEPT !.busy = FALSE, !.missing = @ \ {c},
                                  !.stage = IF up[u].missing = {c} THEN "manifest" ELSE "chunks"])
  BY DEF PutChunk
<1> DEFINE x == [up[u] EXCEPT !.busy = FALSE, !.missing = @ \ {c},
                              !.stage = IF up[u].missing = {c} THEN "manifest" ELSE "chunks"]
<1>2. /\ up' = [up EXCEPT ![u] = x] /\ up[u].busy /\ up[u].stage = "chunks" /\ Release
      /\ UNCHANGED <<gate, stalled, running, sess, live, rollback, start, sw>>
  BY <1>1 DEF PutChunk, Serving, SetUp, gateVars, pointers
<1>3. up[u] \in Uploads /\ SessionKnown(u) /\ UploadSound(u)
  BY DEF RegistryInv, TypeOK, Uploads
<1>4. /\ x \in Uploads /\ x.sid = up[u].sid /\ ~x.busy /\ x.missing = up[u].missing \ {c}
      /\ x.stage = IF up[u].missing = {c} THEN "manifest" ELSE "chunks"
  BY <1>3 DEF Uploads
<1>5. up'[u] = x
  BY <1>2 DEF RegistryInv, TypeOK
<1> HIDE DEF x
<1>6. SessionKnown(u)'
  BY <1>2, <1>3, <1>4, <1>5 DEF SessionKnown
<1>7. ChunksOf[ImageOf[u]] \ up[u].missing \subseteq bucket
  BY <1>2, <1>3 DEF UploadSound, Protected
<1>8. UploadSound(u)'
  BY <1>1, <1>4, <1>5, <1>7 DEF UploadSound
<1>9. holds' \in BOOLEAN /\ gate.state = "open"
  BY <1>2, ReleaseTyped, ServedWhileOpen
<1>10. ReferencedIsWhole'
  BY <1>1, <1>2 DEF RegistryInv, ReferencedIsWhole, Roots, Whole
<1>11. /\ bucket \subseteq bucket' /\ bucket' \subseteq Objects
       /\ live' \in Manifests \cup {None} /\ rollback' \in Manifests \cup {None}
       /\ sess' \in [Sessions -> SessionStates]
  BY <1>1, <1>2, <1>3 DEF RegistryInv, TypeOK, Objects, Uploads, SessionStates
<1>12. QED
  BY <1>2, <1>4, <1>6, <1>8, <1>9, <1>10, <1>11, UploadStep

(* The manifest is put once all its chunks are found. *)
LEMMA PutManifestRegistry ==
  ASSUME RegistryConstants, RegistryInv, NEW u \in Uploaders, PutManifest(u)
  PROVE  RegistryInv'
<1>1. PICK w \in {"publish", "close"} :
        /\ up' = [up EXCEPT ![u] = [up[u] EXCEPT !.busy = FALSE, !.stage = w]]
        /\ w = "publish" => ChunksOf[ImageOf[u]] \subseteq bucket
  BY DEF PutManifest, SetUp
<1> DEFINE x == [up[u] EXCEPT !.busy = FALSE, !.stage = w]
<1>2. /\ up' = [up EXCEPT ![u] = x] /\ up[u].busy /\ up[u].stage = "manifest" /\ Release
      /\ UNCHANGED <<gate, stalled, running, sess, live, rollback, start, sw>>
      /\ bucket' \in {bucket, bucket \cup {ImageOf[u]}}
  BY <1>1 DEF PutManifest, Serving, SetUp, gateVars, pointers
<1>3. up[u] \in Uploads /\ SessionKnown(u)
  BY DEF RegistryInv, TypeOK, Uploads
<1>4. x \in Uploads /\ x.sid = up[u].sid /\ ~x.busy /\ x.stage = w
  BY <1>3 DEF Uploads
<1>5. up'[u] = x
  BY <1>2 DEF RegistryInv, TypeOK
<1> HIDE DEF x
<1>6. SessionKnown(u)'
  BY <1>2, <1>3, <1>4, <1>5 DEF SessionKnown
<1>7. UploadSound(u)'
  BY <1>1, <1>2, <1>4, <1>5 DEF UploadSound
<1>8. holds' \in BOOLEAN /\ gate.state = "open"
  BY <1>2, ReleaseTyped, ServedWhileOpen
<1>9. ReferencedIsWhole'
  BY <1>2 DEF RegistryInv, ReferencedIsWhole, Roots, Whole
<1>10. /\ bucket \subseteq bucket' /\ bucket' \subseteq Objects
       /\ live' \in Manifests \cup {None} /\ rollback' \in Manifests \cup {None}
       /\ sess' \in [Sessions -> SessionStates]
  BY <1>2 DEF RegistryInv, TypeOK, Objects, SessionStates, RegistryConstants
<1>11. QED
  BY <1>2, <1>4, <1>6, <1>7, <1>8, <1>9, <1>10, UploadStep

(* The lookup of the manifest alone is enough: its chunks were found or put *)
(* under the same session, and the request now running keeps them.          *)
LEMMA PublishCheckRegistry ==
  ASSUME RegistryConstants, RegistryInv, NEW u \in Uploaders, PublishCheck(u)
  PROVE  RegistryInv'
<1>1. /\ up[u].busy /\ up[u].stage = "publish"
      /\ UNCHANGED <<gate, stalled, running, sess, bucket, live, rollback, start, sw>>
  BY DEF PublishCheck, Serving, gateVars, pointers
<1>2. up[u] \in Uploads /\ SessionKnown(u) /\ UploadSound(u) /\ gate.state = "open"
      /\ holds \in BOOLEAN
  BY <1>1, ServedWhileOpen DEF RegistryInv, TypeOK, Uploads
<1>3. ChunksOf[ImageOf[u]] \subseteq bucket
  BY <1>1, <1>2 DEF UploadSound, Protected
<1>4. CASE ImageOf[u] \in bucket
  <2> DEFINE x == [up[u] EXCEPT !.stage = "commit"]
  <2>1. up' = [up EXCEPT ![u] = x] /\ holds' = holds
    BY <1>4 DEF PublishCheck, SetUp
  <2>2. x \in Uploads /\ x.sid = up[u].sid /\ x.busy /\ x.stage = "commit"
    BY <1>1, <1>2 DEF Uploads
  <2>3. up'[u] = x
    BY <2>1 DEF RegistryInv, TypeOK
  <2> HIDE DEF x
  <2>4. SessionKnown(u)' /\ UploadSound(u)'
    BY <1>1, <1>2, <1>3, <1>4, <2>2, <2>3 DEF SessionKnown, UploadSound
  <2>5. QED
    BY <1>1, <1>2, <2>1, <2>2, <2>4, UploadAside
<1>5. CASE ImageOf[u] \notin bucket
  <2> DEFINE x == [up[u] EXCEPT !.busy = FALSE, !.stage = "close"]
  <2>1. up' = [up EXCEPT ![u] = x] /\ Release
    BY <1>5 DEF PublishCheck, SetUp
  <2>2. x \in Uploads /\ x.sid = up[u].sid /\ ~x.busy /\ x.stage = "close"
    BY <1>1, <1>2 DEF Uploads
  <2>3. up'[u] = x
    BY <2>1 DEF RegistryInv, TypeOK
  <2> HIDE DEF x
  <2>4. SessionKnown(u)' /\ UploadSound(u)' /\ holds' \in BOOLEAN
    BY <1>1, <1>2, <2>1, <2>2, <2>3, ReleaseTyped DEF SessionKnown, UploadSound
  <2>5. QED
    BY <1>1, <1>2, <2>1, <2>2, <2>4, UploadAside
<1>6. QED
  BY <1>4, <1>5

(* The published image is whole, and what it replaced was. *)
LEMMA PublishCommitRegistry ==
  ASSUME RegistryConstants, RegistryInv, NEW u \in Uploaders, PublishCommit(u)
  PROVE  RegistryInv'
<1> DEFINE x == [up[u] EXCEPT !.busy = FALSE, !.stage = "close"]
<1>1. /\ up' = [up EXCEPT ![u] = x] /\ up[u].busy /\ up[u].stage = "commit" /\ Release
      /\ UNCHANGED <<gate, stalled, running, sess, bucket, start, sw>>
      /\ \/ live' = ImageOf[u] /\ rollback' = (IF live = ImageOf[u] THEN rollback ELSE live)
         \/ UNCHANGED <<live, rollback>>
  BY DEF PublishCommit, Serving, SetUp, gateVars, pointers
<1>2. up[u] \in Uploads /\ SessionKnown(u) /\ UploadSound(u)
  BY DEF RegistryInv, TypeOK, Uploads
<1>3. x \in Uploads /\ x.sid = up[u].sid /\ ~x.busy /\ x.stage = "close"
  BY <1>2 DEF Uploads
<1>4. up'[u] = x
  BY <1>1 DEF RegistryInv, TypeOK
<1> HIDE DEF x
<1>5. SessionKnown(u)' /\ UploadSound(u)'
  BY <1>1, <1>2, <1>3, <1>4 DEF SessionKnown, UploadSound
<1>6. Whole(ImageOf[u]) \subseteq bucket
  BY <1>1, <1>2 DEF UploadSound, Protected, Whole
<1>7. Roots' \subseteq Roots \cup {ImageOf[u]}
  BY <1>1 DEF Roots
<1>8. ReferencedIsWhole'
  BY <1>1, <1>6, <1>7 DEF RegistryInv, ReferencedIsWhole, Whole
<1>9. holds' \in BOOLEAN /\ gate.state = "open"
  BY <1>1, ReleaseTyped, ServedWhileOpen
<1>10. /\ bucket' \subseteq Objects /\ sess' \in [Sessions -> SessionStates]
       /\ live' \in Manifests \cup {None} /\ rollback' \in Manifests \cup {None}
  BY <1>1 DEF RegistryInv, TypeOK, SessionStates, RegistryConstants
<1>11. QED
  BY <1>1, <1>3, <1>5, <1>8, <1>9, <1>10, UploadStep

(* A request that dies leaves a hold and ends the upload. *)
LEMMA ServerErrorRegistry ==
  ASSUME RegistryConstants, RegistryInv, NEW u \in Uploaders, ServerError(u)
  PROVE  RegistryInv'
<1> DEFINE x == [up[u] EXCEPT !.busy = FALSE, !.stage = "close"]
<1>1. /\ up' = [up EXCEPT ![u] = x] /\ up[u].busy /\ holds' \in BOOLEAN
      /\ UNCHANGED <<gate, stalled, running, sess, bucket, live, rollback, start, sw>>
  BY DEF ServerError, SetUp, gateVars, pointers
<1>2. up[u] \in Uploads /\ SessionKnown(u)
  BY DEF RegistryInv, TypeOK, Uploads
<1>3. x \in Uploads /\ x.sid = up[u].sid /\ ~x.busy /\ x.stage = "close"
  BY <1>2 DEF Uploads
<1>4. up'[u] = x
  BY <1>1 DEF RegistryInv, TypeOK
<1> HIDE DEF x
<1>5. SessionKnown(u)' /\ UploadSound(u)'
  BY <1>1, <1>2, <1>3, <1>4 DEF SessionKnown, UploadSound
<1>6. QED
  BY <1>1, <1>3, <1>5, UploadAside

(* A session is closed for good, and a new upload starts over. *)
LEMMA CloseSessionRegistry ==
  ASSUME RegistryConstants, RegistryInv, NEW u \in Uploaders, CloseSession(u)
  PROVE  RegistryInv'
<1> DEFINE x == IF up[u].again THEN [NewUpload EXCEPT !.tries = up[u].tries + 1]
                               ELSE [up[u] EXCEPT !.stage = "done"]
<1>1. /\ up' = [up EXCEPT ![u] = x] /\ up[u].stage = "close"
      /\ UNCHANGED <<gate, stalled, running, holds, bucket, live, rollback, start, sw>>
      /\ \/ sess' = [sess EXCEPT ![up[u].sid].state = IF @ = "open" THEN "closed" ELSE @]
         \/ sess' = sess
  BY DEF CloseSession, SetUp, gateVars, pointers
<1>2. /\ up[u] \in Uploads /\ up[u].sid \in Sessions /\ ~up[u].busy
      /\ sess \in [Sessions -> SessionStates]
  BY <1>1 DEF RegistryInv, TypeOK, Uploads, SessionStates, SessionKnown
<1>3. x \in Uploads /\ ~x.busy /\ x.stage \in {"start", "done"}
  <2> DEFINE a == [NewUpload EXCEPT !.tries = up[u].tries + 1]
             d == [up[u] EXCEPT !.stage = "done"]
  <2>1. a \in Uploads /\ ~a.busy /\ a.stage = "start"
    <3>1. up[u].tries + 1 \in Nat
      BY <1>2 DEF Uploads
    <3>2. NewUpload \in Uploads /\ ~NewUpload.busy /\ NewUpload.stage = "start"
      BY DEF Uploads, NewUpload
    <3>3. QED
      BY <3>1, <3>2 DEF Uploads
  <2>2. d \in Uploads /\ ~d.busy /\ d.stage = "done"
    BY <1>2 DEF Uploads
  <2>3. x \in {a, d}
    OBVIOUS
  <2> HIDE DEF a, d, x
  <2>4. QED
    BY <2>1, <2>2, <2>3
<1>4. up'[u] = x
  BY <1>1 DEF RegistryInv, TypeOK
<1> HIDE DEF x
<1>5. /\ sess' \in [Sessions -> SessionStates]
      /\ \A k \in Sessions : sess[k].state # "none" => sess'[k].state # "none"
      /\ \A k \in Sessions : sess'[k].state = "open" => sess[k].state = "open"
  <2> DEFINE i == up[u].sid
             y == [sess[i] EXCEPT !.state = IF @ = "open" THEN "closed" ELSE @]
  <2>1. y \in SessionStates /\ y.state # "open" /\ (sess[i].state # "none" => y.state # "none")
    BY <1>2 DEF SessionStates
  <2>2. sess' \in {[sess EXCEPT ![i] = y], sess}
    BY <1>1
  <2> HIDE DEF y, i
  <2>3. i \in Sessions
    BY <1>2 DEF i
  <2>4. QED
    BY <1>2, <2>1, <2>2, <2>3
<1>6. SessionKnown(u)' /\ UploadSound(u)'
  BY <1>3, <1>4 DEF SessionKnown, UploadSound
<1>7. ReferencedIsWhole'
  BY <1>1 DEF RegistryInv, ReferencedIsWhole, Roots
<1>8. /\ holds' \in BOOLEAN /\ bucket' \subseteq Objects
      /\ live' \in Manifests \cup {None} /\ rollback' \in Manifests \cup {None}
  BY <1>1 DEF RegistryInv, TypeOK
<1>9. QED
  BY <1>1, <1>3, <1>5, <1>6, <1>7, <1>8, UploadStep

-----------------------------------------------------------------------------
(* A start holds a writer while it reads the pointer; what it commits is    *)
(* the live image, and a run that ends names nothing more.                  *)
LEMMA StartRegistry ==
  ASSUME RegistryConstants, RegistryInv, NEW r \in Starts,
         RunAdmit(r) \/ RunRead(r) \/ RunCommit(r) \/ RunEnds(r)
  PROVE  RegistryInv'
<1>1. /\ UNCHANGED <<gate, stalled, running, sess, bucket, live, rollback, up, sw>>
      /\ holds' \in BOOLEAN
  BY ReleaseTyped DEF RunAdmit, RunRead, RunCommit, RunEnds, gateVars, pointers, RegistryInv, TypeOK
<1>2. PICK x \in StartStates :
        /\ start' = [start EXCEPT ![r] = x]
        /\ x.pc = "running" => x.image = live
        /\ gate.state = "sweeping" => x.pc = "ended"
  <2>0. gate.state = "sweeping" => start[r].pc \notin {"admitted", "read"}
    BY DEF RegistryInv, GateShut, Busy
  <2>1. live \in Manifests \cup {None}
    BY DEF RegistryInv, TypeOK
  <2>2. CASE RunAdmit(r)
    BY <2>2 DEF RunAdmit, SetStart, GateAdmits, StartStates
  <2>3. CASE RunRead(r)
    <3>1. start' = [start EXCEPT ![r] = [pc |-> "read", image |-> live]]
          /\ gate.state # "sweeping"
      BY <2>0, <2>3 DEF RunRead, SetStart
    <3>2. [pc |-> "read", image |-> live] \in StartStates
      BY <2>1 DEF StartStates
    <3>3. QED
      BY <3>1, <3>2
  <2>4. CASE RunCommit(r)
    <3>1. /\ gate.state # "sweeping"
          /\ \/ start' = [start EXCEPT ![r] = [pc |-> "running", image |-> live]]
             \/ start' = [start EXCEPT ![r] = [pc |-> "ended", image |-> None]]
      BY <2>0, <2>4 DEF RunCommit, SetStart
    <3>2. [pc |-> "running", image |-> live] \in StartStates
          /\ [pc |-> "ended", image |-> None] \in StartStates
      BY <2>1 DEF StartStates
    <3>3. CASE start' = [start EXCEPT ![r] = [pc |-> "running", image |-> live]]
      BY <3>1, <3>2, <3>3
    <3>4. CASE start' = [start EXCEPT ![r] = [pc |-> "ended", image |-> None]]
      BY <3>1, <3>2, <3>4
    <3>5. QED
      BY <3>1, <3>3, <3>4
  <2>5. CASE RunEnds(r)
    <3>1. start' = [start EXCEPT ![r] = [pc |-> "ended", image |-> None]]
      BY <2>5 DEF RunEnds, SetStart
    <3>2. [pc |-> "ended", image |-> None] \in StartStates
      BY DEF StartStates
    <3>3. QED
      BY <3>1, <3>2
  <2>6. QED
    BY <2>2, <2>3, <2>4, <2>5
<1>3. /\ start' \in [Starts -> StartStates] /\ start'[r] = x
      /\ \A q \in Starts \ {r} : start'[q] = start[q]
  BY <1>2 DEF RegistryInv, TypeOK, StartStates
<1>4. TypeOK'
  BY <1>1, <1>3 DEF RegistryInv, TypeOK, StartStates
<1>5. Roots' \subseteq Roots
  BY <1>1, <1>2, <1>3 DEF Roots
<1>6. ReferencedIsWhole'
  BY <1>1, <1>5 DEF RegistryInv, ReferencedIsWhole, Whole
<1>7. gate.state = "sweeping" => ~Busy' /\ OpenSessions' = {}
  BY <1>1, <1>2, <1>3 DEF RegistryInv, GateShut, Busy, OpenSessions
<1>8. \A u \in Uploaders : SessionKnown(u)' /\ UploadSound(u)'
  BY <1>1 DEF RegistryInv, SessionKnown, UploadSound, Protected
<1>9. QED
  BY <1>1, <1>4, <1>5, <1>6, <1>7, <1>8, WriterStep

(* A lapse and a reap only end sessions; a reap may also open the gate, of  *)
(* a pass that is not deleting.                                             *)
LEMMA TimeRegistry ==
  ASSUME RegistryConstants, RegistryInv,
         SessionLapses \/ SweepStalls \/ SetPause \/ SetEnforcement
           \/ (\E resolve \in BOOLEAN : Reap(resolve))
  PROVE  RegistryInv'
<1>1. /\ UNCHANGED <<bucket, live, rollback, up, start, sw>> /\ holds' \in BOOLEAN
      /\ running' \subseteq Sweepers /\ stalled' \in BOOLEAN
  BY DEF SessionLapses, SweepStalls, SetPause, SetEnforcement, Reap, gateVars, pointers,
         RegistryInv, TypeOK
<1>2. /\ sess' \in [Sessions -> SessionStates]
      /\ \A k \in Sessions : sess[k].state # "none" => sess'[k].state # "none"
      /\ \A k \in Sessions : sess'[k].state = "open" => sess[k].state = "open"
  <2>1. sess \in [Sessions -> SessionStates]
    BY DEF RegistryInv, TypeOK, SessionStates
  <2>2. CASE SessionLapses
    <3>1. PICK k \in Sessions : sess' = [sess EXCEPT ![k].lapsed = TRUE]
      BY <2>2 DEF SessionLapses, OpenSessions
    <3>2. QED
      BY <2>1, <3>1 DEF SessionStates
  <2>3. CASE \E resolve \in BOOLEAN : Reap(resolve)
    <3>1. sess' = [s \in Sessions |-> IF sess[s].state = "open" /\ sess[s].lapsed
                                      THEN [sess[s] EXCEPT !.state = "reaped"] ELSE sess[s]]
      BY <2>3 DEF Reap
    <3>2. \A s \in Sessions : [sess[s] EXCEPT !.state = "reaped"] \in SessionStates
                              /\ [sess[s] EXCEPT !.state = "reaped"].state = "reaped"
      BY <2>1 DEF SessionStates
    <3>3. QED
      BY <2>1, <3>1, <3>2
  <2>4. CASE SweepStalls \/ SetPause \/ SetEnforcement
    BY <2>1, <2>4 DEF SweepStalls, SetPause, SetEnforcement
  <2>5. QED
    BY <2>2, <2>3, <2>4
<1>3. /\ gate' \in [state : {"open", "sweeping"}, token : Sweepers \cup {None}, paused : BOOLEAN,
                    enforce : BOOLEAN]
      /\ gate'.state = "sweeping" => gate.state = "sweeping" /\ gate'.token = gate.token
  BY DEF SessionLapses, SweepStalls, SetPause, SetEnforcement, Reap, gateVars, RegistryInv, TypeOK
<1>4. \A s \in Sweepers : sw[s].pc = "delete" =>
        ~stalled' /\ gate'.state = gate.state /\ gate'.token = gate.token
  BY DEF SessionLapses, SweepStalls, SetPause, SetEnforcement, Reap, gateVars, RegistryInv,
         TypeOK, PlanSound
<1>5. TypeOK'
  BY <1>1, <1>2, <1>3 DEF RegistryInv, TypeOK, SessionStates
<1>6. \A s \in Sweepers : HoldsGate(s)' => HoldsGate(s)
  BY <1>3 DEF HoldsGate
<1>7. GateShut'
  BY <1>1, <1>2, <1>3 DEF RegistryInv, GateShut, Busy, OpenSessions
<1>8. ReferencedIsWhole' /\ CompletedIsClean'
  BY <1>1, <1>6 DEF RegistryInv, ReferencedIsWhole, Roots, CompletedIsClean
<1>9. ASSUME NEW u \in Uploaders PROVE SessionKnown(u)' /\ UploadSound(u)'
  <2>1. SessionKnown(u) /\ UploadSound(u)
    BY DEF RegistryInv
  <2>2. Protected(u)' => Protected(u)
    BY <1>1, <1>2 DEF Protected
  <2>3. QED
    BY <1>1, <1>2, <2>1, <2>2 DEF SessionKnown, UploadSound
<1>10. ASSUME NEW s \in Sweepers PROVE PlanSound(s)'
  <2>1. PlanSound(s)
    BY DEF RegistryInv
  <2>2. Retained' = Retained
    BY <1>1 DEF Retained, Roots
  <2>3. sw[s].pc = "delete" => HoldsGate(s)' /\ ~stalled'
    BY <1>4, <2>1 DEF PlanSound, HoldsGate
  <2>4. QED
    BY <1>1, <1>6, <2>1, <2>2, <2>3 DEF PlanSound, Planned
<1>11. QED
  BY <1>5, <1>7, <1>8, <1>9, <1>10 DEF RegistryInv

-----------------------------------------------------------------------------
(* A step of one pass that is not a delete. *)
LEMMA PassStep ==
  ASSUME RegistryConstants, RegistryInv, NEW s \in Sweepers, NEW x \in SweepStates,
         sw' = [sw EXCEPT ![s] = x],
         UNCHANGED <<sess, holds, live, rollback, up, start>>,
         bucket' \subseteq bucket,
         \A b \in bucket \ bucket' : b \notin Retained,
         bucket' = bucket \/ (HoldsGate(s) /\ sw[s].pc = "delete"),
         gate' \in [state : {"open", "sweeping"}, token : Sweepers \cup {None}, paused : BOOLEAN,
                    enforce : BOOLEAN],
         stalled' \in BOOLEAN, running' \subseteq Sweepers, GateShut',
         \A t \in Sweepers \ {s} : (HoldsGate(t)' => HoldsGate(t)) /\
           (sw[t].pc = "delete" => HoldsGate(t)' /\ ~stalled'),
         PlanSound(s)',
         x.pc = "finish" /\ x.completed /\ HoldsGate(s)' => bucket' = x.keep
  PROVE  RegistryInv'
<1>1. sw' \in [Sweepers -> SweepStates] /\ sw'[s] = x /\ \A t \in Sweepers \ {s} : sw'[t] = sw[t]
  BY DEF RegistryInv, TypeOK, SweepStates
<1>2. TypeOK'
  BY <1>1 DEF RegistryInv, TypeOK, SweepStates
<1>3. Roots' = Roots /\ Retained' = Retained
  BY DEF Roots, Retained
<1>4. ReferencedIsWhole'
  <2>1. \A m \in Roots : Whole(m) \subseteq bucket /\ Whole(m) \subseteq Retained
    BY DEF RegistryInv, ReferencedIsWhole, Retained
  <2>2. QED
    BY <1>3, <2>1 DEF ReferencedIsWhole
<1>5. CompletedIsClean'
  <2>1. ASSUME NEW t \in Sweepers \ {s}, sw'[t].pc = "finish", sw'[t].completed, HoldsGate(t)'
        PROVE  bucket' = sw'[t].keep
    <3>1. HoldsGate(t) /\ ~HoldsGate(s) /\ sw'[t] = sw[t]
      BY <1>1, <2>1 DEF HoldsGate
    <3>2. QED
      BY <2>1, <3>1 DEF RegistryInv, CompletedIsClean
  <2>2. QED
    BY <1>1, <2>1 DEF CompletedIsClean
<1>6. ASSUME NEW t \in Sweepers \ {s} PROVE PlanSound(t)'
  <2>1. PlanSound(t) /\ sw'[t] = sw[t]
    BY <1>1 DEF RegistryInv
  <2>2. QED
    BY <1>3, <2>1 DEF PlanSound, Planned
<1>7. ASSUME NEW u \in Uploaders PROVE SessionKnown(u)' /\ UploadSound(u)'
  <2>1. SessionKnown(u) /\ UploadSound(u)
    BY DEF RegistryInv
  <2>2. CASE bucket' = bucket
    BY <2>1, <2>2 DEF SessionKnown, UploadSound, Protected
  <2>3. CASE HoldsGate(s)
    <3>1. ~Protected(u)
      BY <2>3 DEF RegistryInv, GateShut, HoldsGate, Busy, OpenSessions, Protected
    <3>2. ~Protected(u)'
      BY <3>1 DEF Protected
    <3>3. QED
      BY <2>1, <3>2 DEF SessionKnown, UploadSound
  <2>4. QED
    BY <2>2, <2>3
<1>8. QED
  BY <1>2, <1>4, <1>5, <1>6, <1>7 DEF RegistryInv

(* A step of one pass that touches neither the gate nor the bucket. *)
LEMMA PassAside ==
  ASSUME RegistryConstants, RegistryInv, NEW s \in Sweepers, NEW x \in SweepStates,
         sw' = [sw EXCEPT ![s] = x],
         UNCHANGED <<gate, running, sess, holds, bucket, live, rollback, up, start>>,
         stalled' \in {stalled, FALSE}, PlanSound(s)',
         x.pc = "finish" /\ x.completed /\ HoldsGate(s) => bucket = x.keep
  PROVE  RegistryInv'
<1>1. GateShut'
  BY DEF RegistryInv, GateShut, Busy, OpenSessions
<1>2. \A t \in Sweepers : (HoldsGate(t)' <=> HoldsGate(t))
         /\ (sw[t].pc = "delete" => HoldsGate(t)' /\ ~stalled')
  BY DEF HoldsGate, RegistryInv, PlanSound
<1>3. /\ gate' \in [state : {"open", "sweeping"}, token : Sweepers \cup {None}, paused : BOOLEAN,
                    enforce : BOOLEAN]
      /\ stalled' \in BOOLEAN /\ running' \subseteq Sweepers
  BY DEF RegistryInv, TypeOK
<1>4. QED
  BY <1>1, <1>2, <1>3, PassStep

(* The gate closes when nothing holds it off. *)
LEMMA AcquireRegistry ==
  ASSUME RegistryConstants, RegistryInv, NEW s \in Sweepers, AcquireSweep(s)
  PROVE  RegistryInv'
<1> DEFINE x == [IdleSweep EXCEPT !.pc = "acquired", !.budget = MaxBatches]
<1>1. /\ sw' = [sw EXCEPT ![s] = x] /\ ~Blocked /\ gate.state = "open"
      /\ gate' = [gate EXCEPT !.state = "sweeping", !.token = s]
      /\ running' = {s} /\ stalled' = FALSE
      /\ UNCHANGED <<sess, holds, bucket, live, rollback, up, start>>
  BY DEF AcquireSweep, SetSweep, pointers
<1>2. IdleSweep \in SweepStates
  BY DEF IdleSweep, SweepStates
<1>3. x \in SweepStates /\ x.pc = "acquired" /\ x.claimed = {}
  BY <1>2 DEF SweepStates, RegistryConstants, IdleSweep
<1>4. /\ gate' \in [state : {"open", "sweeping"}, token : Sweepers \cup {None}, paused : BOOLEAN,
                    enforce : BOOLEAN]
      /\ gate'.state = "sweeping" /\ gate'.token = s
  BY <1>1 DEF RegistryInv, TypeOK
<1>5. GateShut'
  BY <1>1, <1>4 DEF GateShut, Blocked, Busy, OpenSessions
<1> HIDE DEF x
<1>6. sw'[s] = x
  BY <1>1 DEF RegistryInv, TypeOK
<1>7. PlanSound(s)'
  BY <1>3, <1>6 DEF PlanSound, Planned
<1>8. \A t \in Sweepers : ~HoldsGate(t) /\ sw[t].pc # "delete"
  BY <1>1 DEF HoldsGate, RegistryInv, PlanSound
<1>9. \A t \in Sweepers \ {s} : ~HoldsGate(t)'
  BY <1>4 DEF HoldsGate
<1>10. QED
  BY <1>1, <1>3, <1>4, <1>5, <1>7, <1>8, <1>9, PassStep

(* A pass that gives up, crashes, lists the bucket or finds its worklist    *)
(* done claims nothing about the bucket.                                    *)
LEMMA EarlyPassRegistry ==
  ASSUME RegistryConstants, RegistryInv, NEW s \in Sweepers,
         CheckEnforcement(s) \/ ScanBucket(s) \/ SweepCrash(s) \/ SweepThrows(s)
  PROVE  RegistryInv'
<1>1. UNCHANGED <<gate, stalled, running, sess, holds, bucket, live, rollback, up, start>>
  BY DEF CheckEnforcement, ScanBucket, SweepCrash, SweepThrows, Withheld, gateVars, pointers
<1>2. sw[s] \in SweepStates /\ IdleSweep \in SweepStates /\ IdleSweep.pc = "idle" /\ bucket \subseteq Objects
      /\ PlanSound(s)
  BY DEF RegistryInv, TypeOK, IdleSweep, SweepStates
<1>3. PICK x \in SweepStates :
        /\ sw' = [sw EXCEPT ![s] = x]
        /\ \/ x.pc = "idle"
           \/ x.pc \in {"scan", "plan"} /\ x.claimed = {}
           \/ x.pc = "finish" /\ x.error /\ ~x.completed
  <2>1. CASE sw' = [sw EXCEPT ![s] = IdleSweep]
    BY <1>2, <2>1
  <2>2. CASE CheckEnforcement(s) /\ sw' # [sw EXCEPT ![s] = IdleSweep]
    <3> DEFINE y == [sw[s] EXCEPT !.pc = "scan"]
    <3>1. sw' = [sw EXCEPT ![s] = y]
      BY <2>2 DEF CheckEnforcement, SetSweep, Withheld
    <3>2. y \in SweepStates /\ y.pc = "scan" /\ y.claimed = {}
      BY <1>2, <2>2 DEF SweepStates, PlanSound, CheckEnforcement
    <3>3. QED
      BY <3>1, <3>2
  <2>3. CASE ScanBucket(s)
    <3> DEFINE y == [sw[s] EXCEPT !.pc = "plan", !.baseline = bucket]
    <3>1. sw' = [sw EXCEPT ![s] = y]
      BY <2>3 DEF ScanBucket, SetSweep
    <3>2. y \in SweepStates /\ y.pc = "plan" /\ y.claimed = {}
      BY <1>2, <2>3 DEF SweepStates, PlanSound, ScanBucket
    <3>3. QED
      BY <3>1, <3>2
  <2>4. CASE SweepThrows(s)
    <3> DEFINE y == [sw[s] EXCEPT !.pc = "finish", !.error = TRUE, !.completed = FALSE]
    <3>1. sw' = [sw EXCEPT ![s] = y]
      BY <2>4 DEF SweepThrows, SetSweep
    <3>2. y \in SweepStates /\ y.pc = "finish" /\ y.error /\ ~y.completed
      BY <1>2 DEF SweepStates
    <3>3. QED
      BY <3>1, <3>2
  <2>5. QED
    BY <2>1, <2>2, <2>3, <2>4 DEF SweepCrash, SetSweep
<1>4. sw'[s] = x
  BY <1>3 DEF RegistryInv, TypeOK
<1>5. PlanSound(s)'
  BY <1>3, <1>4 DEF PlanSound, Planned
<1>6. QED
  BY <1>1, <1>3, <1>5, PassAside

(* The plan keeps what is referenced when it is made. *)
LEMMA PlanRegistry ==
  ASSUME RegistryConstants, RegistryInv, NEW s \in Sweepers, BuildPlan(s)
  PROVE  RegistryInv'
<1>1. /\ sw[s].pc = "plan"
      /\ UNCHANGED <<gate, stalled, running, sess, holds, bucket, live, rollback, up, start>>
  BY DEF BuildPlan, Withheld, gateVars, pointers
<1>2. sw[s] \in SweepStates /\ IdleSweep \in SweepStates /\ IdleSweep.pc = "idle" /\ PlanSound(s)
  BY DEF RegistryInv, TypeOK, IdleSweep, SweepStates
<1>3. CASE Withheld(s)
  <2>1. sw' = [sw EXCEPT ![s] = IdleSweep] /\ sw'[s] = IdleSweep
    BY <1>3 DEF Withheld, SetSweep, RegistryInv, TypeOK
  <2>2. PlanSound(s)'
    BY <1>2, <2>1 DEF PlanSound, Planned
  <2>3. QED
    BY <1>1, <1>2, <2>1, <2>2, PassAside
<1>4. CASE ~Withheld(s)
  <2> DEFINE x == [sw[s] EXCEPT !.pc = "beat", !.keep = Retained, !.todo = Candidates(s)]
  <2>1. Retained \subseteq sw[s].baseline /\ sw' = [sw EXCEPT ![s] = x]
    BY <1>4 DEF BuildPlan, SetSweep
  <2>2. sw[s].baseline \subseteq Objects /\ Candidates(s) = sw[s].baseline \ Retained
    BY <1>2 DEF SweepStates, Candidates
  <2>3. /\ x \in SweepStates /\ x.pc = "beat" /\ x.keep = Retained /\ x.baseline = sw[s].baseline
        /\ x.todo = sw[s].baseline \ Retained /\ x.claimed = sw[s].claimed
    BY <1>2, <2>1, <2>2 DEF SweepStates
  <2>4. sw[s].claimed = {}
    BY <1>1, <1>2 DEF PlanSound
  <2> HIDE DEF x
  <2>5. sw'[s] = x /\ Retained' = Retained
    BY <1>1, <2>1 DEF RegistryInv, TypeOK, Retained, Roots
  <2>6. PlanSound(s)'
    BY <2>1, <2>3, <2>4, <2>5 DEF PlanSound, Planned
  <2>7. QED
    BY <1>1, <2>1, <2>3, <2>6, PassAside
<1>5. QED
  BY <1>3, <1>4

(* A heartbeat takes the next keys of the plan; a worklist that is done or  *)
(* out of budget, or a gate that is lost, ends the deletes.                 *)
LEMMA BeatRegistry ==
  ASSUME RegistryConstants, RegistryInv, NEW s \in Sweepers,
         HeartbeatSweep(s) \/ BatchesDone(s) \/ AssertDeletable(s)
  PROVE  RegistryInv'
<1>1. /\ UNCHANGED <<gate, running, sess, holds, bucket, live, rollback, up, start>>
      /\ stalled' \in {stalled, FALSE} /\ Planned(s)
  BY DEF HeartbeatSweep, BatchesDone, AssertDeletable, Planned, gateVars, pointers
<1>2. sw[s] \in SweepStates /\ PlanSound(s)
  BY DEF RegistryInv, TypeOK, SweepStates
<1>3. Retained' = Retained /\ (HoldsGate(s)' <=> HoldsGate(s))
  BY <1>1 DEF Retained, Roots, HoldsGate
<1>4. ASSUME NEW b \in BOOLEAN, sw' = [sw EXCEPT ![s] = [sw[s] EXCEPT !.pc = "post", !.error = b]]
      PROVE  RegistryInv'
  <2> DEFINE x == [sw[s] EXCEPT !.pc = "post", !.error = b]
  <2>1. /\ x \in SweepStates /\ x.pc = "post" /\ x.keep = sw[s].keep /\ x.baseline = sw[s].baseline
        /\ x.todo = sw[s].todo /\ x.claimed = sw[s].claimed
    BY <1>2 DEF SweepStates
  <2>2. sw' = [sw EXCEPT ![s] = x]
    BY <1>4
  <2> HIDE DEF x
  <2>3. sw'[s] = x
    BY <2>2 DEF RegistryInv, TypeOK
  <2>4. PlanSound(s)'
    BY <1>1, <1>2, <2>1, <2>3 DEF PlanSound, Planned
  <2>5. QED
    BY <1>1, <2>1, <2>2, <2>4, PassAside
<1>5. CASE BatchesDone(s)
  <2>1. [sw[s] EXCEPT !.pc = "post"] = [sw[s] EXCEPT !.pc = "post", !.error = sw[s].error]
        /\ sw[s].error \in BOOLEAN
    BY <1>2 DEF SweepStates
  <2>2. QED
    BY <1>4, <1>5, <2>1 DEF BatchesDone, SetSweep
<1>6. CASE HeartbeatSweep(s)
  <2>1. CASE sw' = [sw EXCEPT ![s] = [sw[s] EXCEPT !.pc = "post", !.error = TRUE]]
    BY <1>4, <2>1
  <2>2. CASE sw' # [sw EXCEPT ![s] = [sw[s] EXCEPT !.pc = "post", !.error = TRUE]]
    <3>1. sw[s].pc = "beat" /\ sw[s].budget > 0
      BY <1>6 DEF HeartbeatSweep
    <3>2. PICK b \in SUBSET sw[s].todo :
            sw' = [sw EXCEPT ![s] = [sw[s] EXCEPT !.pc = "assert", !.batch = b]]
      BY <1>6, <2>2 DEF HeartbeatSweep, SetSweep, Batches
    <3> DEFINE x == [sw[s] EXCEPT !.pc = "assert", !.batch = b]
    <3>3. /\ x \in SweepStates /\ x.pc = "assert" /\ x.keep = sw[s].keep /\ x.batch = b
          /\ x.baseline = sw[s].baseline /\ x.todo = sw[s].todo /\ x.claimed = sw[s].claimed
          /\ x.budget = sw[s].budget
      BY <1>2 DEF SweepStates
    <3>4. sw' = [sw EXCEPT ![s] = x]
      BY <3>2
    <3> HIDE DEF x
    <3>5. sw'[s] = x
      BY <3>4 DEF RegistryInv, TypeOK
    <3>6. PlanSound(s)'
      BY <1>1, <1>2, <1>3, <3>1, <3>3, <3>5 DEF PlanSound, Planned
    <3>7. QED
      BY <1>1, <3>3, <3>4, <3>6, PassAside
  <2>3. QED
    BY <2>1, <2>2
<1>7. CASE AssertDeletable(s)
  <2>1. CASE ~Deletable(s)
    BY <1>4, <1>7, <2>1 DEF AssertDeletable, SetSweep
  <2>2. CASE Deletable(s)
    <3> DEFINE x == [sw[s] EXCEPT !.pc = "delete"]
    <3>1. /\ sw' = [sw EXCEPT ![s] = x] /\ sw[s].pc = "assert" /\ HoldsGate(s) /\ ~stalled
          /\ stalled' = stalled
      BY <1>7, <2>2 DEF AssertDeletable, SetSweep, Deletable, gateVars
    <3>2. /\ x \in SweepStates /\ x.pc = "delete" /\ x.keep = sw[s].keep /\ x.batch = sw[s].batch
          /\ x.baseline = sw[s].baseline /\ x.todo = sw[s].todo /\ x.claimed = sw[s].claimed
          /\ x.budget = sw[s].budget
      BY <1>2 DEF SweepStates
    <3> HIDE DEF x
    <3>3. sw'[s] = x
      BY <3>1 DEF RegistryInv, TypeOK
    <3>4. PlanSound(s)'
      BY <1>1, <1>2, <1>3, <3>1, <3>2, <3>3 DEF PlanSound, Planned
    <3>5. QED
      BY <1>1, <3>1, <3>2, <3>4, PassAside
  <2>3. QED
    BY <2>1, <2>2
<1>8. QED
  BY <1>5, <1>6, <1>7

(* A bulk delete removes some of its keys, none of them referenced. *)
LEMMA DeleteRegistry ==
  ASSUME RegistryConstants, RegistryInv, NEW s \in Sweepers, DeleteBatch(s)
  PROVE  RegistryInv'
<1>1. /\ UNCHANGED <<gate, stalled, running, sess, holds, live, rollback, up, start>>
      /\ sw[s].pc = "delete"
  BY DEF DeleteBatch, gateVars, pointers
<1>2. sw[s] \in SweepStates /\ PlanSound(s)
  BY DEF RegistryInv, TypeOK, SweepStates
<1>3. /\ HoldsGate(s) /\ Retained \subseteq sw[s].keep /\ sw[s].batch \subseteq sw[s].todo
      /\ sw[s].keep \subseteq sw[s].baseline /\ sw[s].budget > 0
      /\ sw[s].claimed \cup sw[s].todo = sw[s].baseline \ sw[s].keep
  BY <1>1, <1>2 DEF PlanSound, Planned
<1>4. PICK gone \in SUBSET sw[s].batch : bucket' = bucket \ gone
  BY DEF DeleteBatch
<1>5. \A b \in bucket \ bucket' : b \notin Retained
  BY <1>3, <1>4
<1>6. GateShut' /\ Retained' = Retained
  BY <1>1 DEF RegistryInv, GateShut, Busy, OpenSessions, Retained, Roots
<1>7. \A t \in Sweepers : (HoldsGate(t)' <=> HoldsGate(t))
         /\ (sw[t].pc = "delete" => HoldsGate(t)' /\ ~stalled')
  BY <1>1 DEF HoldsGate, RegistryInv, PlanSound
<1>8. /\ gate' \in [state : {"open", "sweeping"}, token : Sweepers \cup {None}, paused : BOOLEAN,
                    enforce : BOOLEAN]
      /\ stalled' \in BOOLEAN /\ running' \subseteq Sweepers
  BY <1>1 DEF RegistryInv, TypeOK
<1> DEFINE x == [sw[s] EXCEPT !.pc = "beat", !.claimed = @ \cup sw[s].batch,
                              !.todo = @ \ sw[s].batch, !.budget = @ - 1, !.batch = {}]
           y == [sw[s] EXCEPT !.pc = "post", !.error = TRUE, !.batch = {}]
<1>9. sw' = [sw EXCEPT ![s] = x] \/ sw' = [sw EXCEPT ![s] = y]
  BY DEF DeleteBatch, SetSweep
<1>10. /\ x \in SweepStates /\ x.pc = "beat" /\ x.keep = sw[s].keep /\ x.baseline = sw[s].baseline
       /\ x.todo = sw[s].todo \ sw[s].batch /\ x.claimed = sw[s].claimed \cup sw[s].batch
  <2>1. sw[s].budget - 1 \in Nat
    BY <1>2, <1>3 DEF SweepStates
  <2>2. sw[s].claimed \cup sw[s].batch \subseteq Objects /\ sw[s].todo \ sw[s].batch \subseteq Objects
    BY <1>2 DEF SweepStates
  <2>3. QED
    BY <1>2, <2>1, <2>2 DEF SweepStates
<1>11. y \in SweepStates /\ y.pc = "post" /\ y.error
  BY <1>2 DEF SweepStates
<1> HIDE DEF x, y
<1>12. CASE sw' = [sw EXCEPT ![s] = x]
  <2>1. sw'[s] = x
    BY <1>12 DEF RegistryInv, TypeOK
  <2>2. x.claimed \cup x.todo = x.baseline \ x.keep
    BY <1>3, <1>10
  <2>3. PlanSound(s)'
    BY <1>3, <1>6, <1>7, <1>10, <2>1, <2>2 DEF PlanSound, Planned
  <2>4. QED
    BY <1>1, <1>3, <1>4, <1>5, <1>6, <1>7, <1>8, <1>10, <1>12, <2>3, PassStep
<1>13. CASE sw' = [sw EXCEPT ![s] = y]
  <2>1. sw'[s] = y
    BY <1>13 DEF RegistryInv, TypeOK
  <2>2. PlanSound(s)'
    BY <1>11, <2>1 DEF PlanSound, Planned
  <2>3. QED
    BY <1>1, <1>3, <1>4, <1>5, <1>6, <1>7, <1>8, <1>11, <1>13, <2>2, PassStep
<1>14. QED
  BY <1>9, <1>12, <1>13

(* The second listing proves the plan carried out, or nothing. *)
LEMMA PostRegistry ==
  ASSUME RegistryConstants, RegistryInv, NEW s \in Sweepers, PostScan(s)
  PROVE  RegistryInv'
<1> DEFINE x == [sw[s] EXCEPT !.pc = "finish", !.completed = Proven(s)]
<1>1. /\ sw' = [sw EXCEPT ![s] = x] /\ sw[s].pc = "post"
      /\ UNCHANGED <<gate, stalled, running, sess, holds, bucket, live, rollback, up, start>>
  BY DEF PostScan, SetSweep, gateVars, pointers
<1>2. sw[s] \in SweepStates /\ PlanSound(s)
  BY DEF RegistryInv, TypeOK, SweepStates
<1>3. Proven(s) \in BOOLEAN
  BY DEF Proven
<1>4. /\ x \in SweepStates /\ x.pc = "finish" /\ x.keep = sw[s].keep /\ x.error = sw[s].error
      /\ x.baseline = sw[s].baseline /\ x.todo = sw[s].todo /\ x.claimed = sw[s].claimed
      /\ x.completed = Proven(s)
  BY <1>2, <1>3 DEF SweepStates
<1> HIDE DEF x
<1>5. sw'[s] = x
  BY <1>1 DEF RegistryInv, TypeOK
<1>6. PlanSound(s)'
  BY <1>1, <1>2, <1>4, <1>5 DEF PlanSound, Planned
<1>7. x.completed => bucket = x.keep
  BY <1>1, <1>2, <1>4 DEF Proven, PlanSound, Planned
<1>8. QED
  BY <1>1, <1>4, <1>6, <1>7, PassAside

(* A pass gives back only the gate it holds. *)
LEMMA FinishRegistry ==
  ASSUME RegistryConstants, RegistryInv, NEW s \in Sweepers, FinishSweep(s)
  PROVE  RegistryInv'
<1>1. /\ sw' = [sw EXCEPT ![s] = IdleSweep] /\ sw[s].pc = "finish" /\ running' = running \ {s}
      /\ UNCHANGED <<sess, holds, bucket, live, rollback, up, start>>
  BY DEF FinishSweep, SetSweep, pointers
<1>2. IdleSweep \in SweepStates /\ IdleSweep.pc = "idle"
  BY DEF IdleSweep, SweepStates
<1>3. sw'[s] = IdleSweep
  BY <1>1 DEF RegistryInv, TypeOK
<1>4. PlanSound(s)'
  BY <1>2, <1>3 DEF PlanSound, Planned
<1>5. \/ HoldsGate(s) /\ gate' = [gate EXCEPT !.state = "open", !.token = None] /\ stalled' = FALSE
      \/ UNCHANGED <<gate, stalled>>
  BY DEF FinishSweep
<1>6. /\ gate' \in [state : {"open", "sweeping"}, token : Sweepers \cup {None}, paused : BOOLEAN,
                    enforce : BOOLEAN]
      /\ stalled' \in BOOLEAN /\ running' \subseteq Sweepers
      /\ gate'.state = "sweeping" => gate' = gate
  BY <1>1, <1>5 DEF RegistryInv, TypeOK
<1>7. GateShut'
  BY <1>1, <1>6 DEF RegistryInv, GateShut, Busy, OpenSessions
<1>8. ASSUME NEW t \in Sweepers \ {s}
      PROVE  /\ HoldsGate(t)' => HoldsGate(t)
             /\ sw[t].pc = "delete" => HoldsGate(t)' /\ ~stalled'
  <2>1. PlanSound(t)
    BY DEF RegistryInv
  <2>2. HoldsGate(t) => ~HoldsGate(s)
    BY DEF HoldsGate
  <2>3. QED
    BY <1>5, <1>6, <2>1, <2>2 DEF PlanSound, HoldsGate
<1>9. QED
  BY <1>1, <1>2, <1>4, <1>6, <1>7, <1>8, PassStep

-----------------------------------------------------------------------------
(* Every step of the registry keeps the invariant. *)
LEMMA NextRegistry == ASSUME RegistryConstants PROVE RegistryInv /\ [Next]_vars => RegistryInv'
<1> SUFFICES ASSUME RegistryInv, [Next]_vars
             PROVE  RegistryInv'
  OBVIOUS
<1>1. CASE UNCHANGED vars
  BY <1>1 DEF vars, RegistryInv, TypeOK, GateShut, Busy, OpenSessions, ReferencedIsWhole, Roots,
              CompletedIsClean, HoldsGate, SessionKnown, UploadSound, Protected, PlanSound, Planned,
              Retained
<1>2. ASSUME NEW u \in Uploaders,
             UploaderStep(u) \/ BeatFails(u) \/ ServerError(u) \/ UploaderDies(u)
      PROVE  RegistryInv'
  BY <1>2, OpenSessionRegistry, AdmitRegistry, IdleUploadRegistry, BeatFailsRegistry,
     ProbeRegistry, PutChunkRegistry, PutManifestRegistry, PublishCheckRegistry,
     PublishCommitRegistry, ServerErrorRegistry, CloseSessionRegistry DEF UploaderStep
<1>3. ASSUME NEW s \in Sweepers, SweepStep(s) \/ SweepThrows(s) \/ SweepCrash(s)
      PROVE  RegistryInv'
  BY <1>3, AcquireRegistry, EarlyPassRegistry, PlanRegistry, BeatRegistry, DeleteRegistry,
     PostRegistry, FinishRegistry DEF SweepStep
<1>4. QED
  BY <1>1, <1>2, <1>3, StartRegistry, TimeRegistry DEF Next

(* What the invariant says of deletes, from the gate they need. *)
LEMMA RegistryImplied == RegistryInv => RegistryWhole
BY DEF RegistryInv, RegistryWhole, DeleteIsExclusive, PlanSound, GateShut, HoldsGate

(* For any manifests, chunks, uploads, starts, passes and failures: what    *)
(* the catalog, its rollback or an unfinished run names has all its         *)
(* objects, a bulk delete meets no writer, no session and no other pass,    *)
(* and a pass that completed left exactly what it retains.                  *)
THEOREM RegistryCorrect == ASSUME RegistryConstants PROVE Spec => []RegistryWhole
<1>1. Init => RegistryInv
  BY InitRegistry
<1>2. RegistryInv /\ [Next]_vars => RegistryInv'
  BY NextRegistry
<1>3. RegistryInv => RegistryWhole
  BY RegistryImplied
<1>4. QED
  BY <1>1, <1>2, <1>3, PTL DEF Spec

-----------------------------------------------------------------------------
(* The archive.  When no request outlives the retry delay, an artifact has  *)
(* one request at most, and the agent waits for it unless the attempt has   *)
(* failed.                                                                  *)
OneRequest == \A r, s \in req : r.a = s.a => r = s

Resting ==
  \A a \in Artifacts :
    (job.pc = "raw" /\ a \notin Raw) \/ (job.pc = "cast" /\ a \notin Cast) => uploader[a] = "idle"

AgentSound ==
  /\ Resting
  /\ \A r \in req : /\ r.k \in JobRequests <=> r.a = "job"
                    /\ ~r.live => job.pc = "due"
                    /\ r.live /\ r.a = "job" => job.pc = r.k
                    /\ r.live /\ r.a # "job" => uploader[r.a] = r.k
  /\ job.pc \notin {"raw", "cast"} => \A a \in Artifacts : uploader[a] = "idle"

(* Where the agent's guard of the order stands at each place of the job. *)
GuardAt(j) ==
  /\ j.ord # "bad"
  /\ ~j.prog /\ j.pc \notin {"due", "gone"} => j.ord = "none"
  /\ j.pc = "begin" => j.ord = "none"
  /\ j.pc = "raw" /\ j.prog => j.ord = "raw"
  /\ j.pc = "raw_stage" => j.prog /\ j.ord = "raw_stage"
  /\ j.pc \in {"render", "cast_begin"} /\ j.prog => j.ord = "cast_or_stage"
  /\ j.pc = "cast" /\ j.prog => j.ord = "cast"
  /\ j.pc = "timeline" /\ j.prog => j.ord = "timeline"
  /\ j.pc = "replay_stage" => j.prog /\ j.ord \in {"cast_or_stage", "stage_or_complete"}
  /\ j.pc = "complete" /\ j.prog => j.ord \in {"stage_or_complete", "complete"}
  /\ j.pc \in {"cast", "timeline"} /\ j.rprog => j.prog

(* What a handler knows of its artifact: one that is about to write the     *)
(* object found it not yet uploaded, one that is about to mark it has seen  *)
(* the whole object.                                                        *)
HandlerSound(r) ==
  /\ r.k = "part" => r.p \in 1..Parts[r.a]
  /\ r.pc \in {"send", "advance"} => r.k = "part" /\ r.p = r.n + 1
  /\ r.pc \in {"create", "init"} => r.k = "mbegin"
  /\ r.pc \in {"put", "head", "assemble", "check", "mark"} =>
       r.a \in Artifacts /\ (purge = "idle" => status[r.a] # "uploaded")
  /\ r.pc = "put" => Parts[r.a] = 0
  /\ r.pc \in {"head", "assemble"} => r.n \in 0..Parts[r.a]
  /\ r.pc = "mark" /\ purge = "idle" => obj[r.a] = Parts[r.a]

ArchiveInv ==
  /\ ArchiveTypes /\ OneRequest /\ AgentSound /\ GuardAt(job)
  /\ \A r \in req : HandlerSound(r)
  /\ UploadedIsWhole /\ SealedIsComplete

USE DEF Artifacts

LEMMA InitArchive == ASSUME ArchiveConstants PROVE ArchiveInit => ArchiveInv
<1> SUFFICES ASSUME ArchiveInit PROVE ArchiveInv
  OBVIOUS
<1> USE DEF ArchiveConstants, ArchiveInit
<1>1. ArchiveTypes
  <2>1. job \in [pc : JobPlaces, prog : BOOLEAN, rprog : BOOLEAN, ord : Orders]
    BY DEF JobPlaces, Orders
  <2>2. NoCursor \in [u : Nat, n : Nat] /\ NoCursor.n = 0
    BY DEF NoCursor
  <2>3. mp \in [Artifacts -> Seq(StoredUploads)]
    OBVIOUS
  <2>4. \A a \in Artifacts : obj[a] \in -1..Parts[a] /\ cursor[a].n \in 0..Parts[a]
    BY <2>2 DEF NoObject
  <2>5. QED
    <3>1. job \in [pc : JobPlaces, prog : BOOLEAN, rprog : BOOLEAN, ord : Orders]
      BY <2>1
    <3>2. obj \in [Artifacts -> Int] /\ cursor \in [Artifacts -> [u : Nat, n : Nat]]
      BY <2>2 DEF NoObject
    <3>3. budget \in [faults : 0..MaxFaults, renders : 0..MaxRenderFails]
      OBVIOUS
    <3>4. uploader \in [Artifacts -> UploaderRequests \cup {"idle", "done"}]
          /\ status \in [Artifacts -> {"none", "pending", "uploaded"}]
      OBVIOUS
    <3>5. sealed \in BOOLEAN /\ timeline \in BOOLEAN /\ purge \in {"idle", "objects", "rows", "done"}
      OBVIOUS
    <3>6. req \subseteq Requests /\ rank \in 0..4
      OBVIOUS
    <3>7. QED
      BY <2>3, <2>4, <3>1, <3>2, <3>3, <3>4, <3>5, <3>6 DEF ArchiveTypes
<1>2. OneRequest /\ AgentSound /\ \A r \in req : HandlerSound(r)
  BY DEF OneRequest, AgentSound, Resting
<1>3. GuardAt(job)
  BY DEF GuardAt
<1>4. UploadedIsWhole /\ SealedIsComplete
  BY DEF UploadedIsWhole, SealedIsComplete, AllUploaded
<1>5. QED
  BY <1>1, <1>2, <1>3, <1>4 DEF ArchiveInv

(* An answer to the job.  It had sent the only request there is. *)
LEMMA JobAlone ==
  ASSUME ArchiveInv, NEW r \in req, r.live, r.a = "job"
  PROVE  job.pc = r.k /\ req = {r}
<1> USE DEF ArchiveInv, AgentSound
<1>1. job.pc = r.k /\ r.k \in JobRequests
  OBVIOUS
<1>2. \A a \in Artifacts : uploader[a] = "idle"
  BY <1>1 DEF JobRequests
<1>3. ASSUME NEW s \in req PROVE s = r
  <2>1. s \in Requests
    BY DEF ArchiveTypes
  <2>2. s.live
    BY <1>1 DEF JobRequests
  <2>3. s.a = "job"
    <3> SUFFICES ASSUME s.a # "job" PROVE FALSE
      OBVIOUS
    <3>1. s.a \in Artifacts /\ uploader[s.a] = s.k
      BY <2>1, <2>2 DEF Requests
    <3>2. s.k \notin JobRequests /\ s.k \in UploaderRequests
      BY <2>1 DEF Requests
    <3>3. QED
      BY <1>2, <3>1, <3>2 DEF UploaderRequests
  <2>4. QED
    BY <2>3 DEF OneRequest
<1>4. QED
  BY <1>1, <1>3

(* The steps of the guard. *)
LEMMA GuardSteps ==
  /\ \A e : Observe("none", e) = "none"
  /\ Observe("raw", "raw_upload") = "raw_stage"
  /\ Observe("raw_stage", "raw_stage") = "cast_or_stage"
  /\ Observe("cast_or_stage", "cast_begin") = "cast"
  /\ Observe("cast", "cast_upload") = "timeline"
  /\ Observe("timeline", "timeline") = "stage_or_complete"
  /\ Observe("cast_or_stage", "replay_stage") = "complete"
  /\ Observe("stage_or_complete", "replay_stage") = "complete"
  /\ Observe("stage_or_complete", "complete") = "done"
  /\ Observe("complete", "complete") = "done"
BY DEF Observe

JobType == [pc : JobPlaces, prog : BOOLEAN, rprog : BOOLEAN, ord : Orders]

LEMMA ObservedJob ==
  ASSUME job \in JobType, NEW e, NEW pc \in JobPlaces, Observe(job.ord, e) \in Orders
  PROVE  /\ Observed(e, pc) \in JobType /\ Observed(e, pc).pc = pc
         /\ Observed(e, pc).ord = Observe(job.ord, e)
         /\ Observed(e, pc).prog = job.prog /\ Observed(e, pc).rprog = job.rprog
BY DEF Observed, JobType

LEMMA JobAnswered ==
  ASSUME ArchiveConstants, job \in JobType, GuardAt(job), NEW r, job.pc = r.k, r.k \in JobRequests,
         uploader \in [Artifacts -> UploaderRequests \cup {"idle", "done"}],
         \A a \in Artifacts : uploader[a] = "idle",
         NEW answer, JobReply(r, answer)
  PROVE  /\ job' \in JobType /\ GuardAt(job') /\ Resting'
         /\ uploader' \in [Artifacts -> UploaderRequests \cup {"idle", "done"}]
         /\ job'.pc \notin {"raw", "cast"} => \A a \in Artifacts : uploader'[a] = "idle"
<1> USE DEF JobRequests
<1>1. CASE answer = "purged" /\ r.k \in {"begin", "cast_begin"}
  <2>1. job' = [job EXCEPT !.pc = "gone"] /\ UNCHANGED uploader
    BY <1>1 DEF JobReply
  <2>2. QED
    BY <2>1 DEF JobType, GuardAt, JobPlaces, Resting
<1>2. CASE answer = "ok" /\ r.k = "begin"
  <2>1. /\ \E ack \in Acks : job' = AfterBegin(ack)
        /\ uploader' = [a \in Artifacts |-> IF a \in Raw THEN "mbegin" ELSE "idle"]
    BY <1>2 DEF JobReply
  <2>2. PICK ack \in BOOLEAN : job' = AfterBegin(ack)
    BY <2>1 DEF ArchiveConstants
  <2>3. job' \in JobType /\ job'.pc = "raw" /\ job'.prog = ack
        /\ job'.ord = IF ack THEN "raw" ELSE "none"
    BY <2>2 DEF JobType, AfterBegin, JobPlaces, Orders
  <2>4. QED
    BY <2>1, <2>3 DEF GuardAt, Resting, UploaderRequests
<1>3. CASE answer = "ok" /\ r.k = "raw_stage"
  <2>1. job' = Observed("raw_stage", "render") /\ UNCHANGED uploader
    BY <1>3 DEF JobReply
  <2>2. /\ job' \in JobType /\ job'.pc = "render" /\ job'.prog = job.prog
        /\ job'.ord = "cast_or_stage" /\ job.prog
    BY <1>3, <2>1, GuardSteps, ObservedJob DEF GuardAt, JobPlaces, Orders
  <2>3. QED
    BY <2>1, <2>2 DEF GuardAt, Resting
<1>4. CASE answer = "ok" /\ r.k = "cast_begin"
  <2>1. /\ \E ack \in Acks : job' = [Observed("cast_begin", "cast") EXCEPT !.rprog = job.prog /\ ack]
        /\ uploader' = [a \in Artifacts |-> IF a \in Cast THEN "mbegin" ELSE "idle"]
    BY <1>4 DEF JobReply
  <2>2. PICK ack \in BOOLEAN : job' = [Observed("cast_begin", "cast") EXCEPT !.rprog = job.prog /\ ack]
    BY <2>1 DEF ArchiveConstants
  <2>3. /\ Observed("cast_begin", "cast") \in JobType /\ Observed("cast_begin", "cast").pc = "cast"
        /\ Observed("cast_begin", "cast").prog = job.prog
        /\ Observed("cast_begin", "cast").ord = IF job.prog THEN "cast" ELSE "none"
    <3>1. Observe(job.ord, "cast_begin") = IF job.prog THEN "cast" ELSE "none"
      <4>1. CASE job.prog
        BY <1>4, <4>1, GuardSteps DEF GuardAt
      <4>2. CASE ~job.prog
        BY <1>4, <4>2, GuardSteps DEF GuardAt
      <4>3. QED
        BY <4>1, <4>2
    <3>2. QED
      BY <3>1, ObservedJob DEF JobPlaces, Orders
  <2>4. job' \in JobType /\ job'.pc = "cast" /\ job'.prog = job.prog /\ (job'.rprog => job.prog)
        /\ job'.ord = IF job.prog THEN "cast" ELSE "none"
    BY <2>2, <2>3 DEF JobType
  <2>5. QED
    BY <2>1, <2>4 DEF GuardAt, Resting, UploaderRequests, JobType
<1>5. CASE r.k = "timeline"
  <2>1. job' = Observed("timeline", IF job.rprog THEN "replay_stage" ELSE "complete") /\ UNCHANGED uploader
    BY <1>5 DEF JobReply
  <2>2. /\ job' \in JobType /\ job'.pc = IF job.rprog THEN "replay_stage" ELSE "complete"
        /\ job'.prog = job.prog /\ job'.ord = IF job.prog THEN "stage_or_complete" ELSE "none"
    <3>1. Observe(job.ord, "timeline") = IF job.prog THEN "stage_or_complete" ELSE "none"
      <4>1. CASE job.prog
        BY <1>5, <4>1, GuardSteps DEF GuardAt
      <4>2. CASE ~job.prog
        BY <1>5, <4>2, GuardSteps DEF GuardAt
      <4>3. QED
        BY <4>1, <4>2
    <3>2. QED
      BY <2>1, <3>1, ObservedJob DEF JobPlaces, Orders
  <2>3. job.rprog => job.prog
    BY <1>5 DEF GuardAt
  <2>4. QED
    BY <2>1, <2>2, <2>3 DEF GuardAt, Resting
<1>6. CASE answer = "ok" /\ r.k = "replay_stage"
  <2>1. job' = Observed("replay_stage", "complete") /\ UNCHANGED uploader
    BY <1>6 DEF JobReply
  <2>2. Observe(job.ord, "replay_stage") = "complete" /\ job.prog
    BY <1>6, GuardSteps DEF GuardAt
  <2>3. job' \in JobType /\ job'.pc = "complete" /\ job'.prog = job.prog /\ job'.ord = "complete"
    BY <2>1, <2>2, ObservedJob DEF JobPlaces, Orders
  <2>4. QED
    BY <2>1, <2>2, <2>3 DEF GuardAt, Resting
<1>7. CASE answer = "ok" /\ r.k = "complete"
  <2>1. job' = Observed("complete", "gone") /\ UNCHANGED uploader
    BY <1>7 DEF JobReply
  <2>2. Observe(job.ord, "complete") \in {"none", "done"}
    <3>1. CASE job.prog
      BY <1>7, <3>1, GuardSteps DEF GuardAt
    <3>2. CASE ~job.prog
      BY <1>7, <3>2, GuardSteps DEF GuardAt
    <3>3. QED
      BY <3>1, <3>2
  <2>3. job' \in JobType /\ job'.pc = "gone" /\ job'.ord \in {"none", "done"}
    BY <2>1, <2>2, ObservedJob DEF JobPlaces, Orders
  <2>4. QED
    BY <2>1, <2>3 DEF GuardAt, Resting
<1>8. CASE Fail
  BY <1>8 DEF Fail, JobType, GuardAt, JobPlaces, Resting
<1>9. QED
  BY <1>1, <1>2, <1>3, <1>4, <1>5, <1>6, <1>7, <1>8 DEF JobReply

UploaderType == [Artifacts -> UploaderRequests \cup {"idle", "done"}]

(* What a step of the agent's side keeps. *)
AgentKept ==
  /\ job' \in JobType /\ GuardAt(job') /\ uploader' \in UploaderType
  /\ req' \subseteq Requests /\ OneRequest' /\ AgentSound'

(* A request that is new has seen nothing yet; the others are as they were,  *)
(* but for the agent that may have given them up.                            *)
NewWork(s) == s.pc = "new" /\ s.live /\ (s.k = "part" => s.p \in 1..Parts[s.a])
SameWork(s, q) == s = [q EXCEPT !.live = s.live]

LEMMA JobReplyKept ==
  ASSUME ArchiveConstants, ArchiveInv, NEW r \in req, r.live, r.a = "job",
         NEW answer, NEW next, Reply(r, answer, next)
  PROVE  AgentKept /\ req' = {}
<1>1. job.pc = r.k /\ req = {r} /\ r.k \in JobRequests
  BY JobAlone DEF ArchiveInv, AgentSound
<1>2. \A a \in Artifacts : uploader[a] = "idle"
  BY <1>1 DEF ArchiveInv, AgentSound, JobRequests
<1>3. JobReply(r, answer) /\ job \in JobType /\ uploader \in UploaderType /\ GuardAt(job)
  BY <1>1 DEF Reply, ArchiveInv, ArchiveTypes, JobType, UploaderType
<1>4. req' = {}
  <2>1. req \ {r} = {}
    BY <1>1
  <2>2. {[x EXCEPT !.live = FALSE] : x \in {}} = {}
    OBVIOUS
  <2>3. QED
    BY <1>1, <2>1, <2>2 DEF Reply
<1>5. /\ job' \in JobType /\ GuardAt(job') /\ uploader' \in UploaderType /\ Resting'
      /\ job'.pc \notin {"raw", "cast"} => \A a \in Artifacts : uploader'[a] = "idle"
  BY <1>1, <1>2, <1>3, JobAnswered DEF UploaderType
<1>6. QED
  BY <1>4, <1>5 DEF AgentKept, OneRequest, AgentSound

(* The attempt fails, and leaves its requests behind. *)
LEMMA FailKept ==
  ASSUME ArchiveInv, Fail, NEW rest, rest \subseteq req,
         req' = {[x EXCEPT !.live = FALSE] : x \in rest}
  PROVE  AgentKept /\ \A s \in req' : \E q \in rest : SameWork(s, q)
<1>1. job \in JobType /\ req \subseteq Requests /\ GuardAt(job)
  BY DEF ArchiveInv, ArchiveTypes, JobType
<1>2. job' \in JobType /\ job'.pc = "due" /\ GuardAt(job') /\ uploader' \in UploaderType
      /\ \A a \in Artifacts : uploader'[a] = "idle"
  BY <1>1 DEF Fail, JobType, JobPlaces, GuardAt, UploaderType
<1>3. \A s \in req' : \E q \in rest : /\ s = [q EXCEPT !.live = FALSE] /\ q \in Requests /\ s \in Requests
                                      /\ s.a = q.a /\ s.k = q.k /\ s.live = FALSE
  BY <1>1 DEF Requests
<1>4. req' \subseteq Requests
  BY <1>3
<1>5. OneRequest'
  <2> SUFFICES ASSUME NEW s \in req', NEW t \in req', s.a = t.a PROVE s = t
    BY DEF OneRequest
  <2>1. PICK q \in rest : s = [q EXCEPT !.live = FALSE] /\ s.a = q.a
    BY <1>3
  <2>2. PICK p \in rest : t = [p EXCEPT !.live = FALSE] /\ t.a = p.a
    BY <1>3
  <2>3. QED
    BY <2>1, <2>2 DEF ArchiveInv, OneRequest
<1>6. AgentSound'
  <2> SUFFICES ASSUME NEW s \in req' PROVE (s.k \in JobRequests <=> s.a = "job") /\ ~s.live
    BY <1>2 DEF AgentSound, Resting
  <2>1. QED
    BY <1>3 DEF ArchiveInv, AgentSound
<1>7. \A s \in req' : \E q \in rest : SameWork(s, q)
  BY <1>3 DEF SameWork
<1>8. QED
  BY <1>2, <1>4, <1>5, <1>6, <1>7 DEF AgentKept

(* The answer to an uploader. *)
LEMMA UploadReplyKept ==
  ASSUME ArchiveConstants, ArchiveInv, NEW r \in req, r.live, r.a # "job", HandlerSound(r),
         NEW answer, NEW next \in 1..(Parts[r.a] + 1), Reply(r, answer, next)
  PROVE  /\ AgentKept
         /\ \A s \in req' : NewWork(s) \/ \E q \in req \ {r} : SameWork(s, q)
<1>1. /\ r \in Requests /\ r.a \in Artifacts /\ r.k \in UploaderRequests /\ r.k \notin JobRequests
      /\ uploader[r.a] = r.k
  BY DEF ArchiveInv, ArchiveTypes, Requests, AgentSound
<1>2. job.pc \in {"raw", "cast"}
  BY <1>1 DEF ArchiveInv, AgentSound, UploaderRequests
<1>3. UploadReply(r, answer, next)
  BY <1>1 DEF Reply
<1>4. CASE answer # "ok"
  <2>1. Fail /\ job'.pc = "due"
    BY <1>3, <1>4 DEF UploadReply, Fail, ArchiveInv, ArchiveTypes
  <2>2. req' = {[x EXCEPT !.live = FALSE] : x \in req \ {r}}
    <3> DEFINE gone == {[x EXCEPT !.live = FALSE] : x \in req \ {r}}
    <3>1. req' = CASE job'.pc = "due" -> gone
                   [] r.k \notin JobRequests /\ uploader'[r.a] = "part" ->
                        (req \ {r}) \cup {Request("part", r.a, IF r.k = "mbegin" THEN next ELSE r.p + 1)}
                   [] r.k \notin JobRequests /\ uploader'[r.a] = "acomplete" ->
                        (req \ {r}) \cup {Request("acomplete", r.a, 0)}
                   [] OTHER -> req \ {r}
      BY DEF Reply
    <3> HIDE DEF gone
    <3>2. uploader'[r.a] = "idle"
      BY <1>1, <2>1 DEF Fail
    <3>3. req' = gone
      BY <2>1, <3>1, <3>2
    <3>4. QED
      BY <3>3 DEF gone
  <2>3. QED
    BY <2>1, <2>2, FailKept
<1>5. CASE answer = "ok"
  <2> DEFINE place == CASE r.k = "mbegin" -> IF next > Parts[r.a] THEN "acomplete" ELSE "part"
                        [] r.k = "part" -> IF r.p = Parts[r.a] THEN "acomplete" ELSE "part"
                        [] OTHER -> "done"
             p == IF r.k = "mbegin" THEN next ELSE r.p + 1
  <2>1. job' = job /\ uploader' = [uploader EXCEPT ![r.a] = place]
    BY <1>3, <1>5 DEF UploadReply
  <2>2. place \in {"part", "acomplete", "done"} /\ Parts[r.a] \in Nat /\ r.p \in Nat
    BY <1>1 DEF ArchiveConstants, Requests
  <2>3. place = "part" => p \in 1..Parts[r.a]
    BY <1>1, <2>2 DEF HandlerSound, UploaderRequests
  <2>4. p \in Nat
    BY <2>2 DEF ArchiveConstants
  <2>5. uploader \in UploaderType /\ job \in JobType /\ GuardAt(job) /\ req \subseteq Requests
    BY DEF ArchiveInv, ArchiveTypes, UploaderType, JobType
  <2>6. uploader' \in UploaderType /\ uploader'[r.a] = place
        /\ \A a \in Artifacts : a # r.a => uploader'[a] = uploader[a]
    <3>1. place \in UploaderRequests \cup {"idle", "done"}
      BY <2>2 DEF UploaderRequests
    <3> HIDE DEF place
    <3>2. QED
      BY <1>1, <2>1, <2>5, <3>1 DEF UploaderType
  <2> DEFINE new == Request(place, r.a, IF place = "part" THEN p ELSE 0)
  <2>7. req' = IF place = "done" THEN req \ {r} ELSE (req \ {r}) \cup {new}
    <3>1. job'.pc # "due"
      BY <1>2, <2>1
    <3>2. CASE place = "part"
      BY <1>1, <2>6, <3>1, <3>2 DEF Reply
    <3>3. CASE place = "acomplete"
      BY <1>1, <2>6, <3>1, <3>3 DEF Reply
    <3>4. CASE place = "done"
      BY <1>1, <2>6, <3>1, <3>4 DEF Reply
    <3>5. QED
      BY <2>2, <3>2, <3>3, <3>4
  <2>8. place # "done" => new \in Requests /\ new.k = place /\ new.a = r.a /\ new.live = TRUE /\ NewWork(new)
    <3>1. budget.faults \in 0..MaxFaults
      BY DEF ArchiveInv, ArchiveTypes
    <3>2. QED
      BY <1>1, <2>2, <2>3, <2>4, <3>1 DEF Request, Requests, NewWork, UploaderRequests, HandlerPlaces
  <2> HIDE DEF place, p, new
  <2>9. req' \subseteq Requests
    BY <2>5, <2>7, <2>8
  <2>10. OneRequest'
    <3> SUFFICES ASSUME NEW s \in req', NEW t \in req', s.a = t.a PROVE s = t
      BY DEF OneRequest
    <3>1. \A x, y \in req : x.a = y.a => x = y
      BY DEF ArchiveInv, OneRequest
    <3>2. QED
      BY <2>7, <2>8, <3>1
  <2>11. AgentSound'
    <3>1. ASSUME NEW s \in req \ {r} PROVE /\ s.k \in JobRequests <=> s.a = "job"
                                           /\ s.live /\ s.a # "job"
                                           /\ s.a \in Artifacts /\ s.a # r.a /\ uploader[s.a] = s.k
      <4>1. s \in Requests /\ s.a # r.a
        BY <2>5 DEF ArchiveInv, OneRequest
      <4>2. s.live
        BY <1>2 DEF ArchiveInv, AgentSound
      <4>3. s.a # "job"
        BY <1>2, <4>2 DEF ArchiveInv, AgentSound, JobRequests
      <4>4. QED
        BY <4>1, <4>2, <4>3 DEF ArchiveInv, AgentSound, Requests
    <3>2. ASSUME NEW s \in req' PROVE /\ s.k \in JobRequests <=> s.a = "job"
                                      /\ s.live /\ s.a # "job" /\ uploader'[s.a] = s.k
      <4>1. CASE s \in req \ {r}
        BY <2>6, <3>1, <4>1
      <4>2. CASE place # "done" /\ s = new
        BY <1>1, <2>2, <2>6, <2>8, <4>2 DEF JobRequests, ArchiveConstants
      <4>3. QED
        BY <2>7, <4>1, <4>2
    <3>3. Resting'
      BY <1>1, <2>1, <2>6 DEF ArchiveInv, AgentSound, Resting, UploaderRequests
    <3>4. QED
      BY <1>2, <2>1, <3>2, <3>3 DEF AgentSound
  <2>12. \A s \in req' : NewWork(s) \/ \E q \in req \ {r} : SameWork(s, q)
    <3>1. \A s \in req : s = [s EXCEPT !.live = s.live]
      BY <2>5 DEF Requests
    <3>2. QED
      BY <2>7, <2>8, <3>1 DEF SameWork
  <2>13. QED
    BY <2>1, <2>5, <2>6, <2>9, <2>10, <2>11, <2>12 DEF AgentKept
<1>6. QED
  BY <1>4, <1>5

LEMMA ReplyKept ==
  ASSUME ArchiveConstants, ArchiveInv, NEW r \in req, NEW answer, NEW next,
         r.a # "job" => next \in 1..(Parts[r.a] + 1), Reply(r, answer, next)
  PROVE  /\ AgentKept
         /\ \A s \in req' : NewWork(s) \/ \E q \in req \ {r} : SameWork(s, q)
<1>1. CASE r.live /\ r.a = "job"
  BY <1>1, JobReplyKept
<1>2. CASE r.live /\ r.a # "job"
  BY <1>2, UploadReplyKept DEF ArchiveInv
<1>3. CASE ~r.live
  <2>1. req' = req \ {r} /\ job' = job /\ uploader' = uploader
    BY <1>3 DEF Reply, agent
  <2>2. \A s \in req : s = [s EXCEPT !.live = s.live]
    BY DEF ArchiveInv, ArchiveTypes, Requests
  <2>3. AgentKept
    BY <2>1 DEF AgentKept, ArchiveInv, ArchiveTypes, JobType, UploaderType, OneRequest, AgentSound, Resting
  <2>4. QED
    BY <2>1, <2>2, <2>3 DEF SameWork
<1>4. QED
  BY <1>1, <1>2, <1>3

LEMMA MoveKept ==
  ASSUME ArchiveInv, NEW r \in req, NEW t \in Requests, t.k = r.k, t.a = r.a, t.live = r.live,
         req' = (req \ {r}) \cup {t}, UNCHANGED agent
  PROVE  AgentKept
<1>1. job' = job /\ uploader' = uploader
  BY DEF agent
<1>2. OneRequest'
  BY DEF ArchiveInv, OneRequest
<1>3. AgentSound'
  BY <1>1 DEF ArchiveInv, AgentSound, Resting
<1>4. QED
  BY <1>1, <1>2, <1>3 DEF AgentKept, ArchiveInv, ArchiveTypes, JobType, UploaderType

(* What a handler may do to the ledgers and the store: it touches its own   *)
(* artifact.                                                                *)
LedgerTypes ==
  /\ status \in [Artifacts -> {"none", "pending", "uploaded"}]
  /\ cursor \in [Artifacts -> [u : Nat, n : Nat]] /\ mp \in [Artifacts -> Seq(StoredUploads)]
  /\ obj \in [Artifacts -> Int]
  /\ \A a \in Artifacts : obj[a] \in -1..Parts[a] /\ cursor[a].n \in 0..Parts[a]
  /\ rank \in 0..4 /\ sealed \in BOOLEAN /\ timeline \in BOOLEAN
  /\ purge \in {"idle", "objects", "rows", "done"}
  /\ budget \in [faults : 0..MaxFaults, renders : 0..MaxRenderFails]

LedgersKept(r) ==
  /\ LedgerTypes' /\ UploadedIsWhole' /\ SealedIsComplete' /\ purge' = purge
  /\ \A a \in Artifacts : a # r.a => /\ obj'[a] = obj[a]
                                     /\ status'[a] = "uploaded" => status[a] = "uploaded"

LEMMA IdleKept == ASSUME ArchiveInv, NEW r, Idle PROVE LedgersKept(r)
<1>1. UNCHANGED <<status, cursor, mp, obj, sealed, rank, timeline, purge, budget>>
  BY DEF Idle, ledger, store, vm
<1>2. LedgerTypes
  BY DEF ArchiveInv, ArchiveTypes, LedgerTypes
<1>3. LedgerTypes'
  BY <1>1, <1>2 DEF LedgerTypes
<1>4. UploadedIsWhole' /\ SealedIsComplete'
  BY <1>1 DEF ArchiveInv, UploadedIsWhole, SealedIsComplete, AllUploaded
<1>5. QED
  BY <1>1, <1>3, <1>4 DEF LedgersKept

LEMMA OthersSound ==
  ASSUME ArchiveInv, NEW r \in req, LedgersKept(r), NEW s,
         NewWork(s) \/ \E q \in req \ {r} : SameWork(s, q)
  PROVE  HandlerSound(s)'
<1>1. CASE NewWork(s)
  BY <1>1 DEF NewWork, HandlerSound
<1>2. ASSUME NEW q \in req \ {r}, SameWork(s, q) PROVE HandlerSound(s)'
  <2>1. q \in Requests /\ HandlerSound(q) /\ q.a # r.a
    BY DEF ArchiveInv, ArchiveTypes, OneRequest
  <2>2. s.k = q.k /\ s.a = q.a /\ s.p = q.p /\ s.pc = q.pc /\ s.n = q.n
    BY <1>2, <2>1 DEF SameWork, Requests
  <2>3. HandlerSound(q)'
    BY <2>1 DEF HandlerSound, LedgersKept
  <2>4. QED
    BY <2>2, <2>3 DEF HandlerSound
<1>3. QED
  BY <1>1, <1>2

LEMMA InvNext ==
  ASSUME AgentKept, LedgerTypes', UploadedIsWhole', SealedIsComplete',
         \A s \in req' : HandlerSound(s)'
  PROVE  ArchiveInv'
BY DEF ArchiveInv, ArchiveTypes, AgentKept, LedgerTypes, JobType, UploaderType

(* The two shapes of a handler's step: it answers, or it goes on. *)
LEMMA ReplyStep ==
  ASSUME ArchiveConstants, ArchiveInv, NEW r \in req, NEW answer, NEW next,
         r.a # "job" => next \in 1..(Parts[r.a] + 1), Reply(r, answer, next), LedgersKept(r)
  PROVE  ArchiveInv'
<1>1. AgentKept /\ \A s \in req' : NewWork(s) \/ \E q \in req \ {r} : SameWork(s, q)
  BY ReplyKept
<1>2. \A s \in req' : HandlerSound(s)'
  BY <1>1, OthersSound
<1>3. QED
  BY <1>1, <1>2, InvNext DEF LedgersKept

LEMMA MoveStep ==
  ASSUME ArchiveInv, NEW r \in req, NEW t \in Requests, t.k = r.k, t.a = r.a, t.live = r.live,
         req' = (req \ {r}) \cup {t}, UNCHANGED agent, LedgersKept(r), HandlerSound(t)'
  PROVE  ArchiveInv'
<1>1. AgentKept
  BY MoveKept
<1>2. \A s \in req \ {r} : s = [s EXCEPT !.live = s.live]
  BY DEF ArchiveInv, ArchiveTypes, Requests
<1>3. \A s \in req \ {r} : HandlerSound(s)'
  BY <1>2, OthersSound DEF SameWork
<1>4. \A s \in req' : HandlerSound(s)'
  BY <1>3
<1>5. QED
  BY <1>1, <1>4, InvNext DEF LedgersKept

LEMMA UpdatedSeq ==
  ASSUME NEW S, NEW s \in Seq(S), NEW u, NEW e, u \in DOMAIN s => e \in S
  PROVE  [s EXCEPT ![u] = e] \in Seq(S)
<1> DEFINE f == [s EXCEPT ![u] = e]
<1>1. Len(s) \in Nat /\ DOMAIN s = 1..Len(s) /\ \A i \in 1..Len(s) : s[i] \in S
  OBVIOUS
<1>2. f = [i \in DOMAIN s |-> IF i = u THEN e ELSE s[i]]
  BY Zenon
<1>3. f \in [1..Len(s) -> S]
  BY <1>1, <1>2
<1>4. QED
  BY <1>1, <1>3, \A n \in Nat : [1..n -> S] \subseteq Seq(S)

LEMMA StoreUpdated ==
  ASSUME mp \in [Artifacts -> Seq(StoredUploads)], NEW a \in Artifacts, NEW u, NEW e,
         u \in DOMAIN mp[a] => e \in StoredUploads,
         mp' = [mp EXCEPT ![a] = [mp[a] EXCEPT ![u] = e]]
  PROVE  mp' \in [Artifacts -> Seq(StoredUploads)]
<1>1. [mp[a] EXCEPT ![u] = e] \in Seq(StoredUploads)
  BY UpdatedSeq
<1>2. QED
  BY <1>1

LEMMA UploadAt ==
  ASSUME mp \in [Artifacts -> Seq(StoredUploads)], NEW a \in Artifacts, NEW u, u \in DOMAIN mp[a]
  PROVE  mp[a][u] \in StoredUploads
<1>1. mp[a] \in Seq(StoredUploads)
  OBVIOUS
<1>2. \A s \in Seq(StoredUploads) : \A i \in DOMAIN s : s[i] \in StoredUploads
  OBVIOUS
<1>3. QED
  BY <1>1, <1>2

LEMMA AbortedKept ==
  ASSUME mp \in [Artifacts -> Seq(StoredUploads)], NEW r, r.a \in Artifacts, Aborted(r)
  PROVE  mp' \in [Artifacts -> Seq(StoredUploads)]
<1> DEFINE held == mp[r.a][r.u]
           e == [held EXCEPT !.st = IF held.st = "open" THEN "aborted" ELSE held.st]
<1>1. mp' = [mp EXCEPT ![r.a] = [mp[r.a] EXCEPT ![r.u] = e]]
  BY DEF Aborted
<1>2. r.u \in DOMAIN mp[r.a] => e \in StoredUploads
  BY UploadAt DEF StoredUploads
<1>3. QED
  BY <1>1, <1>2, StoreUpdated

(* A handler that leaves the artifact's row and object alone. *)
LEMMA SideKept ==
  ASSUME ArchiveInv, NEW r, UNCHANGED <<status, obj, purge, budget>>,
         cursor' \in [Artifacts -> [u : Nat, n : Nat]],
         \A a \in Artifacts : cursor'[a].n \in 0..Parts[a],
         mp' \in [Artifacts -> Seq(StoredUploads)],
         rank' \in 0..4, timeline' \in BOOLEAN, sealed' \in BOOLEAN, sealed' => AllUploaded
  PROVE  LedgersKept(r)
<1>1. LedgerTypes
  BY DEF ArchiveInv, ArchiveTypes, LedgerTypes
<1>2. LedgerTypes'
  BY <1>1 DEF LedgerTypes
<1>3. UploadedIsWhole' /\ SealedIsComplete'
  BY DEF ArchiveInv, UploadedIsWhole, SealedIsComplete, AllUploaded
<1>4. QED
  BY <1>2, <1>3 DEF LedgersKept

LEMMA HandlerStep ==
  ASSUME ArchiveInv, NEW r \in req, NEW pc \in HandlerPlaces, Handler(r, pc), LedgersKept(r),
         HandlerSound([r EXCEPT !.pc = pc])'
  PROVE  ArchiveInv'
<1> DEFINE t == [r EXCEPT !.pc = pc]
<1>1. t \in Requests /\ t.k = r.k /\ t.a = r.a /\ t.live = r.live
  BY DEF ArchiveInv, ArchiveTypes, Requests
<1>2. req' = (req \ {r}) \cup {t} /\ UNCHANGED agent
  BY DEF Handler
<1> HIDE DEF t
<1>3. HandlerSound(t)'
  BY DEF t
<1>4. QED
  BY <1>1, <1>2, <1>3, MoveStep

(* A place that says nothing of the artifact. *)
LEMMA PlainStep ==
  ASSUME ArchiveInv, NEW r \in req, NEW pc \in {"ensure", "archiving", "publish", "seal"},
         Handler(r, pc), LedgersKept(r)
  PROVE  ArchiveInv'
<1> DEFINE t == [r EXCEPT !.pc = pc]
<1>1. t.k = r.k /\ t.a = r.a /\ t.p = r.p /\ t.pc = pc
  BY DEF ArchiveInv, ArchiveTypes, Requests
<1>2. r.k = "part" => r.p \in 1..Parts[r.a]
  BY DEF ArchiveInv, HandlerSound
<1>3. HandlerSound(t)'
  BY <1>1, <1>2 DEF HandlerSound
<1>4. pc \in HandlerPlaces
  BY DEF HandlerPlaces
<1>5. QED
  BY <1>3, <1>4, HandlerStep

LEMMA AnswerStep ==
  ASSUME ArchiveConstants, ArchiveInv, NEW r \in req, Ok(r) \/ Err(r), LedgersKept(r)
  PROVE  ArchiveInv'
<1>1. r.a # "job" => 1 \in 1..(Parts[r.a] + 1)
  BY DEF ArchiveInv, ArchiveTypes, Requests, ArchiveConstants
<1>2. QED
  BY <1>1, ReplyStep DEF Ok, Err

LEMMA OwnArtifact ==
  ASSUME ArchiveInv, NEW r \in req
  PROVE  /\ r \in Requests /\ HandlerSound(r)
         /\ r.k \in UploaderRequests => r.a \in Artifacts
BY DEF ArchiveInv, ArchiveTypes, Requests, AgentSound, UploaderRequests, JobRequests

(* One lemma per handler. *)
LEMMA BeginReadKept ==
  ASSUME ArchiveConstants, ArchiveInv, NEW r \in req, BeginRead(r) PROVE ArchiveInv'
<1>1. LedgersKept(r)
  BY IdleKept DEF BeginRead
<1>2. CASE Handler(r, "ensure")
  BY <1>1, <1>2, PlainStep
<1>3. CASE Ok(r) \/ Err(r)
  BY <1>1, <1>3, AnswerStep
<1>4. CASE Reply(r, "purged", 1)
  <2>1. r.a # "job" => 1 \in 1..(Parts[r.a] + 1)
    BY DEF ArchiveInv, ArchiveTypes, Requests, ArchiveConstants
  <2>2. QED
    BY <1>1, <1>4, <2>1, ReplyStep
<1>5. QED
  BY <1>2, <1>3, <1>4 DEF BeginRead

LEMMA EnsureKept ==
  ASSUME ArchiveConstants, ArchiveInv, NEW r \in req, EnsureArtifactStates(r) PROVE ArchiveInv'
<1>1. UNCHANGED <<cursor, mp, obj, sealed, rank, timeline, purge, budget>>
  BY DEF EnsureArtifactStates, store, vm
<1>2. CASE Writable
  <2>1. status' = Reserved(r) /\ Handler(r, "archiving") /\ ~sealed
    BY <1>2 DEF EnsureArtifactStates, Writable
  <2>2. LedgerTypes
    BY DEF ArchiveInv, ArchiveTypes, LedgerTypes
  <2>3. status' \in [Artifacts -> {"none", "pending", "uploaded"}]
        /\ \A a \in Artifacts : status'[a] = "uploaded" => status[a] = "uploaded"
    BY <2>1, <2>2 DEF Reserved, LedgerTypes
  <2>4. LedgerTypes'
    BY <1>1, <2>2, <2>3 DEF LedgerTypes
  <2>5. UploadedIsWhole' /\ SealedIsComplete'
    BY <1>1, <2>1, <2>3 DEF ArchiveInv, UploadedIsWhole, SealedIsComplete
  <2>6. LedgersKept(r)
    BY <1>1, <2>3, <2>4, <2>5 DEF LedgersKept
  <2>7. QED
    BY <2>1, <2>6, PlainStep
<1>3. CASE ~Writable
  <2>1. Err(r) /\ UNCHANGED status
    BY <1>3 DEF EnsureArtifactStates
  <2>2. Idle
    BY <1>1, <2>1 DEF Idle, ledger, store, vm
  <2>3. QED
    BY <2>1, <2>2, IdleKept, AnswerStep
<1>4. QED
  BY <1>2, <1>3

(* The handlers that only move the VM on: its rank, its timeline, its seal. *)
LEMMA VmKept ==
  ASSUME ArchiveInv, NEW r, UNCHANGED <<ledger, store, purge, budget>>,
         rank' \in 0..4, timeline' \in BOOLEAN, sealed' \in BOOLEAN, sealed' => sealed \/ AllUploaded
  PROVE  LedgersKept(r)
<1>1. UNCHANGED <<status, cursor, mp, obj>>
  BY DEF ledger, store
<1>2. sealed' => AllUploaded
  BY DEF ArchiveInv, SealedIsComplete
<1>3. LedgerTypes
  BY DEF ArchiveInv, ArchiveTypes, LedgerTypes
<1>4. QED
  BY <1>1, <1>2, <1>3, SideKept DEF LedgerTypes

LEMMA ArchivingKept ==
  ASSUME ArchiveConstants, ArchiveInv, NEW r \in req, TransitionToArchiving(r) PROVE ArchiveInv'
<1>1. rank \in 0..4 /\ sealed \in BOOLEAN /\ timeline \in BOOLEAN
  BY DEF ArchiveInv, ArchiveTypes
<1>2. UNCHANGED <<ledger, store, sealed, timeline, purge, budget>> /\ rank' \in 0..4
  BY <1>1 DEF TransitionToArchiving
<1>3. Ok(r) \/ Err(r)
  BY DEF TransitionToArchiving
<1>4. LedgersKept(r)
  BY <1>1, <1>2, VmKept
<1>5. QED
  BY <1>3, <1>4, AnswerStep

LEMMA StageKept ==
  ASSUME ArchiveConstants, ArchiveInv, NEW r \in req, ArchiveStage(r) PROVE ArchiveInv'
<1>1. rank \in 0..4 /\ sealed \in BOOLEAN /\ timeline \in BOOLEAN
  BY DEF ArchiveInv, ArchiveTypes
<1>2. UNCHANGED <<ledger, store, sealed, timeline, purge, budget>> /\ rank' \in 0..4
  BY <1>1 DEF ArchiveStage
<1>3. Ok(r) \/ Err(r)
  BY DEF ArchiveStage
<1>4. LedgersKept(r)
  BY <1>1, <1>2, VmKept
<1>5. QED
  BY <1>3, <1>4, AnswerStep

LEMMA TimelineKept ==
  ASSUME ArchiveConstants, ArchiveInv, NEW r \in req, TimelineRead(r) PROVE ArchiveInv'
<1>1. LedgersKept(r) /\ (Handler(r, "publish") \/ Err(r))
  BY IdleKept DEF TimelineRead
<1>2. QED
  BY <1>1, PlainStep, AnswerStep

LEMMA PublishKept ==
  ASSUME ArchiveConstants, ArchiveInv, NEW r \in req, PublishTimeline(r) PROVE ArchiveInv'
<1>1. rank \in 0..4 /\ sealed \in BOOLEAN /\ timeline \in BOOLEAN
  BY DEF ArchiveInv, ArchiveTypes
<1>2. UNCHANGED <<ledger, store, sealed, rank, purge, budget>> /\ timeline' \in BOOLEAN
  BY <1>1 DEF PublishTimeline
<1>3. Ok(r) \/ Err(r)
  BY DEF PublishTimeline
<1>4. LedgersKept(r)
  BY <1>1, <1>2, VmKept
<1>5. QED
  BY <1>3, <1>4, AnswerStep

LEMMA RunCompleteKept ==
  ASSUME ArchiveConstants, ArchiveInv, NEW r \in req, RunComplete(r) PROVE ArchiveInv'
<1>1. LedgersKept(r) /\ (Handler(r, "seal") \/ Err(r))
  BY IdleKept DEF RunComplete
<1>2. QED
  BY <1>1, PlainStep, AnswerStep

LEMMA SealKept ==
  ASSUME ArchiveConstants, ArchiveInv, NEW r \in req, Seal(r) PROVE ArchiveInv'
<1>1. rank \in 0..4 /\ sealed \in BOOLEAN /\ timeline \in BOOLEAN
  BY DEF ArchiveInv, ArchiveTypes
<1>2. UNCHANGED <<ledger, store, timeline, purge, budget>>
  BY DEF Seal
<1>3. rank' \in 0..4 /\ sealed' \in BOOLEAN /\ (sealed' => sealed \/ AllUploaded)
  <2>1. CASE ~Gone /\ AllUploaded
    BY <1>1, <2>1 DEF Seal
  <2>2. CASE ~(~Gone /\ AllUploaded)
    BY <1>1, <2>2 DEF Seal
  <2>3. QED
    BY <2>1, <2>2
<1>4. Ok(r) \/ Err(r)
  BY DEF Seal
<1>5. LedgersKept(r)
  BY <1>1, <1>2, <1>3, VmKept
<1>6. QED
  BY <1>4, <1>5, AnswerStep

(* The handlers of an uploader's requests. *)
LEMMA IdleMoved ==
  ASSUME ArchiveInv, NEW r \in req, NEW t \in Requests, t.k = r.k, t.a = r.a, t.live = r.live,
         req' = (req \ {r}) \cup {t}, UNCHANGED agent, Idle, HandlerSound(t)
  PROVE  ArchiveInv'
<1>1. HandlerSound(t)'
  BY DEF Idle, ledger, store, HandlerSound
<1>2. QED
  BY <1>1, IdleKept, MoveStep

LEMMA IdleHandler ==
  ASSUME ArchiveInv, NEW r \in req, NEW pc \in HandlerPlaces, Handler(r, pc), Idle,
         HandlerSound([r EXCEPT !.pc = pc])
  PROVE  ArchiveInv'
<1> DEFINE t == [r EXCEPT !.pc = pc]
<1>1. t \in Requests /\ t.k = r.k /\ t.a = r.a /\ t.live = r.live
  BY DEF ArchiveInv, ArchiveTypes, Requests
<1>2. req' = (req \ {r}) \cup {t} /\ UNCHANGED agent
  BY DEF Handler
<1> HIDE DEF t
<1>3. HandlerSound(t)
  BY DEF t
<1>4. QED
  BY <1>1, <1>2, <1>3, IdleMoved

LEMMA Placed ==
  ASSUME NEW r \in Requests, NEW pc
  PROVE  LET t == [r EXCEPT !.pc = pc]
         IN  t.k = r.k /\ t.a = r.a /\ t.p = r.p /\ t.u = r.u /\ t.n = r.n /\ t.pc = pc
BY DEF Requests

LEMMA MultipartBeginKept ==
  ASSUME ArchiveConstants, ArchiveInv, NEW r \in req, MultipartBegin(r) PROVE ArchiveInv'
<1>1. r \in Requests /\ r.a \in Artifacts /\ r.k = "mbegin" /\ Idle
  BY OwnArtifact DEF MultipartBegin, At, UploaderRequests
<1>2. LedgersKept(r)
  BY <1>1, IdleKept
<1>3. Parts[r.a] \in Nat /\ cursor[r.a].n \in 0..Parts[r.a]
  BY <1>1 DEF ArchiveConstants, ArchiveInv, ArchiveTypes
<1>4. CASE Err(r)
  BY <1>2, <1>4, AnswerStep
<1>5. CASE Reply(r, "ok", Parts[r.a] + 1)
  BY <1>2, <1>3, <1>5, ReplyStep
<1>6. CASE Reply(r, "ok", cursor[r.a].n + 1)
  BY <1>2, <1>3, <1>6, ReplyStep
<1>7. CASE status[r.a] # "uploaded" /\ Parts[r.a] = 0 /\ Handler(r, "put")
  <2>1. HandlerSound([r EXCEPT !.pc = "put"])
    BY <1>1, <1>7, Placed DEF HandlerSound
  <2>2. QED
    BY <1>1, <1>7, <2>1, IdleHandler DEF HandlerPlaces
<1>8. CASE Handler(r, "create")
  <2>1. HandlerSound([r EXCEPT !.pc = "create"])
    BY <1>1, Placed DEF HandlerSound
  <2>2. QED
    BY <1>1, <1>8, <2>1, IdleHandler DEF HandlerPlaces
<1>9. QED
  BY <1>4, <1>5, <1>6, <1>7, <1>8 DEF MultipartBegin

LEMMA CreateKept ==
  ASSUME ArchiveConstants, ArchiveInv, NEW r \in req, CreateMultipart(r) PROVE ArchiveInv'
<1> DEFINE moved == [r EXCEPT !.pc = "init", !.u = Len(mp[r.a]) + 1]
           open == [parts |-> {}, st |-> "open"]
<1>1. r \in Requests /\ r.a \in Artifacts /\ r.k = "mbegin"
  BY OwnArtifact DEF CreateMultipart, At, UploaderRequests
<1>2. UNCHANGED <<status, cursor, obj, sealed, rank, timeline, purge, budget>> /\ UNCHANGED agent
      /\ mp' = [mp EXCEPT ![r.a] = Append(mp[r.a], open)] /\ req' = (req \ {r}) \cup {moved}
  BY DEF CreateMultipart, ledger, vm
<1>3. LedgerTypes
  BY DEF ArchiveInv, ArchiveTypes, LedgerTypes
<1>4. mp' \in [Artifacts -> Seq(StoredUploads)]
  <2>1. open \in StoredUploads
    BY DEF StoredUploads
  <2> HIDE DEF open
  <2>2. Append(mp[r.a], open) \in Seq(StoredUploads)
    BY <1>1, <1>3, <2>1 DEF LedgerTypes
  <2>3. QED
    BY <1>2, <1>3, <2>2 DEF LedgerTypes
<1>5. LedgersKept(r)
  BY <1>2, <1>3, <1>4, SideKept DEF LedgerTypes, ArchiveInv, SealedIsComplete
<1>6. moved \in Requests /\ moved.k = "mbegin" /\ moved.a = r.a /\ moved.live = r.live
      /\ moved.pc = "init"
  <2>1. Len(mp[r.a]) + 1 \in Nat
    BY <1>1, <1>3 DEF LedgerTypes
  <2>2. QED
    BY <1>1, <2>1 DEF Requests, HandlerPlaces
<1> HIDE DEF moved
<1>7. PICK t : t = moved
  OBVIOUS
<1>8. HandlerSound(t)'
  BY <1>6, <1>7 DEF HandlerSound
<1>9. QED
  BY <1>1, <1>2, <1>5, <1>6, <1>7, <1>8, MoveStep

LEMMA InitializeKept ==
  ASSUME ArchiveConstants, ArchiveInv, NEW r \in req, InitializeUpload(r) PROVE ArchiveInv'
<1>1. r \in Requests /\ r.a \in Artifacts
  BY OwnArtifact DEF InitializeUpload, At, UploaderRequests
<1>2. UNCHANGED <<status, obj, sealed, rank, timeline, purge, budget>> /\ (Ok(r) \/ Err(r))
  BY DEF InitializeUpload, vm
<1>3. LedgerTypes /\ (sealed => AllUploaded)
  BY DEF ArchiveInv, ArchiveTypes, LedgerTypes, SealedIsComplete
<1>4. /\ cursor' \in [Artifacts -> [u : Nat, n : Nat]] /\ mp' \in [Artifacts -> Seq(StoredUploads)]
      /\ \A a \in Artifacts : cursor'[a].n \in 0..Parts[a]
  <2>1. CASE Writable
    <3> DEFINE c == [u |-> r.u, n |-> 0]
    <3>1. c \in [u : Nat, n : Nat] /\ c.n = 0
      BY <1>1 DEF Requests
    <3>2. cursor' = [cursor EXCEPT ![r.a] = c] /\ mp' = mp
      BY <2>1 DEF InitializeUpload
    <3> HIDE DEF c
    <3>3. \A a \in Artifacts : Parts[a] \in Nat
      BY DEF ArchiveConstants
    <3>4. QED
      BY <1>1, <1>3, <3>1, <3>2, <3>3 DEF LedgerTypes
  <2>2. CASE ~Writable
    BY <1>1, <1>3, <2>2, AbortedKept DEF InitializeUpload, LedgerTypes
  <2>3. QED
    BY <2>1, <2>2
<1>5. LedgersKept(r)
  BY <1>2, <1>3, <1>4, SideKept DEF LedgerTypes
<1>6. QED
  BY <1>2, <1>5, AnswerStep

LEMMA PartReadKept ==
  ASSUME ArchiveConstants, ArchiveInv, NEW r \in req, PartRead(r) PROVE ArchiveInv'
<1> DEFINE moved == [r EXCEPT !.pc = "send", !.u = cursor[r.a].u, !.n = cursor[r.a].n]
<1>1. r \in Requests /\ r.a \in Artifacts /\ r.k = "part" /\ HandlerSound(r) /\ Idle
  BY OwnArtifact DEF PartRead, At, UploaderRequests
<1>2. CASE Err(r)
  BY <1>1, <1>2, IdleKept, AnswerStep
<1>3. CASE r.p = cursor[r.a].n + 1 /\ req' = (req \ {r}) \cup {moved} /\ UNCHANGED agent
  <2>1. cursor[r.a].u \in Nat /\ cursor[r.a].n \in Nat
    BY <1>1 DEF ArchiveInv, ArchiveTypes
  <2>2. moved \in Requests /\ moved.k = r.k /\ moved.a = r.a /\ moved.live = r.live
        /\ moved.p = r.p /\ moved.pc = "send" /\ moved.n = cursor[r.a].n
    BY <1>1, <2>1 DEF Requests, HandlerPlaces
  <2> HIDE DEF moved
  <2>3. PICK t : t = moved
    OBVIOUS
  <2>4. HandlerSound(t)
    BY <1>1, <1>3, <2>2, <2>3 DEF HandlerSound
  <2>5. QED
    BY <1>1, <1>3, <2>2, <2>3, <2>4, IdleMoved
<1>4. QED
  BY <1>2, <1>3 DEF PartRead

LEMMA UploadPartKept ==
  ASSUME ArchiveConstants, ArchiveInv, NEW r \in req, UploadPart(r) PROVE ArchiveInv'
<1>1. r \in Requests /\ r.a \in Artifacts /\ r.k = "part" /\ r.pc = "send" /\ HandlerSound(r)
  BY OwnArtifact DEF UploadPart, At, UploaderRequests
<1>2. UNCHANGED <<status, cursor, obj, sealed, rank, timeline, purge, budget>>
  BY DEF UploadPart, ledger, vm
<1>3. LedgerTypes /\ (sealed => AllUploaded)
  BY DEF ArchiveInv, ArchiveTypes, LedgerTypes, SealedIsComplete
<1>4. CASE mp[r.a][r.u].st = "open"
  <2> DEFINE e == [mp[r.a][r.u] EXCEPT !.parts = mp[r.a][r.u].parts \cup {r.p}]
  <2>1. mp' = [mp EXCEPT ![r.a] = [mp[r.a] EXCEPT ![r.u] = e]] /\ Handler(r, "advance")
    BY <1>4 DEF UploadPart
  <2>2. r.u \in DOMAIN mp[r.a] => e \in StoredUploads
    <3>1. r.p \in Nat
      BY <1>1 DEF Requests
    <3>2. r.u \in DOMAIN mp[r.a] => mp[r.a][r.u] \in StoredUploads
      BY <1>1, <1>3, UploadAt DEF LedgerTypes
    <3>3. \A x \in StoredUploads : [x EXCEPT !.parts = x.parts \cup {r.p}] \in StoredUploads
      BY <3>1 DEF StoredUploads
    <3>4. QED
      BY <3>2, <3>3
  <2> HIDE DEF e
  <2>3. mp' \in [Artifacts -> Seq(StoredUploads)]
    BY <1>1, <1>3, <2>1, <2>2, StoreUpdated DEF LedgerTypes
  <2>4. LedgersKept(r)
    BY <1>2, <1>3, <2>3, SideKept DEF LedgerTypes
  <2>5. HandlerSound([r EXCEPT !.pc = "advance"])'
    BY <1>1, Placed DEF HandlerSound
  <2>6. QED
    BY <2>1, <2>4, <2>5, HandlerStep DEF HandlerPlaces
<1>5. CASE mp[r.a][r.u].st # "open"
  <2>1. Err(r) /\ Idle
    BY <1>2, <1>5 DEF UploadPart, Idle, ledger, store, vm
  <2>2. QED
    BY <2>1, IdleKept, AnswerStep
<1>6. QED
  BY <1>4, <1>5

LEMMA AdvanceKept ==
  ASSUME ArchiveConstants, ArchiveInv, NEW r \in req, AdvanceUpload(r) PROVE ArchiveInv'
<1>1. r \in Requests /\ r.a \in Artifacts /\ r.n + 1 \in 1..Parts[r.a]
  BY OwnArtifact DEF AdvanceUpload, At, UploaderRequests, HandlerSound
<1>2. UNCHANGED <<status, obj, sealed, rank, timeline, purge, budget>> /\ (Ok(r) \/ Err(r))
  BY DEF AdvanceUpload, vm
<1>3. LedgerTypes /\ (sealed => AllUploaded)
  BY DEF ArchiveInv, ArchiveTypes, LedgerTypes, SealedIsComplete
<1>4. /\ cursor' \in [Artifacts -> [u : Nat, n : Nat]] /\ mp' \in [Artifacts -> Seq(StoredUploads)]
      /\ \A a \in Artifacts : cursor'[a].n \in 0..Parts[a]
  <2>1. CASE Writable /\ cursor[r.a].u # 0
    <3> DEFINE c == [cursor[r.a] EXCEPT !.n = r.n + 1]
    <3>1. c \in [u : Nat, n : Nat] /\ c.n \in 0..Parts[r.a]
      <4>1. cursor[r.a] \in [u : Nat, n : Nat]
        BY <1>1, <1>3 DEF LedgerTypes
      <4>2. r.n + 1 \in Nat /\ r.n + 1 \in 0..Parts[r.a]
        BY <1>1 DEF Requests
      <4>3. c \in [u : Nat, n : Nat] /\ c.n = r.n + 1
        BY <4>1, <4>2
      <4>4. QED
        BY <4>2, <4>3
    <3>2. cursor' = [cursor EXCEPT ![r.a] = c] /\ mp' = mp
      BY <2>1 DEF AdvanceUpload
    <3> HIDE DEF c
    <3>3. QED
      BY <1>1, <1>3, <3>1, <3>2 DEF LedgerTypes
  <2>2. CASE Writable /\ cursor[r.a].u = 0
    BY <1>3, <2>2 DEF AdvanceUpload, LedgerTypes
  <2>3. CASE ~Writable
    BY <1>1, <1>3, <2>3, AbortedKept DEF AdvanceUpload, LedgerTypes
  <2>4. QED
    BY <2>1, <2>2, <2>3
<1>5. LedgersKept(r)
  BY <1>2, <1>3, <1>4, SideKept DEF LedgerTypes
<1>6. QED
  BY <1>2, <1>5, AnswerStep

LEMMA CompleteReadKept ==
  ASSUME ArchiveConstants, ArchiveInv, NEW r \in req, ArtifactComplete(r) PROVE ArchiveInv'
<1> DEFINE moved == [r EXCEPT !.pc = "head", !.u = cursor[r.a].u, !.n = cursor[r.a].n]
<1>1. r \in Requests /\ r.a \in Artifacts /\ r.k = "acomplete" /\ Idle
  BY OwnArtifact DEF ArtifactComplete, At, UploaderRequests
<1>2. LedgersKept(r)
  BY <1>1, IdleKept
<1>3. CASE Ok(r) \/ Err(r)
  BY <1>2, <1>3, AnswerStep
<1>4. CASE status[r.a] # "uploaded" /\ Parts[r.a] = 0 /\ Handler(r, "put")
  <2>1. HandlerSound([r EXCEPT !.pc = "put"])
    BY <1>1, <1>4, Placed DEF HandlerSound
  <2>2. QED
    BY <1>1, <1>4, <2>1, IdleHandler DEF HandlerPlaces
<1>5. CASE status[r.a] # "uploaded" /\ req' = (req \ {r}) \cup {moved} /\ UNCHANGED agent
  <2>1. cursor[r.a].u \in Nat /\ cursor[r.a].n \in Nat /\ cursor[r.a].n \in 0..Parts[r.a]
    BY <1>1 DEF ArchiveInv, ArchiveTypes
  <2>2. moved \in Requests /\ moved.k = r.k /\ moved.a = r.a /\ moved.live = r.live
        /\ moved.pc = "head" /\ moved.n = cursor[r.a].n
    BY <1>1, <2>1 DEF Requests, HandlerPlaces
  <2> HIDE DEF moved
  <2>3. PICK t : t = moved
    OBVIOUS
  <2>4. HandlerSound(t)
    BY <1>1, <1>5, <2>1, <2>2, <2>3 DEF HandlerSound
  <2>5. QED
    BY <1>1, <1>5, <2>2, <2>3, <2>4, IdleMoved
<1>6. QED
  BY <1>3, <1>4, <1>5 DEF ArtifactComplete

(* The object of the artifact is written while its row is not uploaded. *)
LEMMA ObjectKept ==
  ASSUME ArchiveInv, NEW r \in req, r.a \in Artifacts, purge = "idle" => status[r.a] # "uploaded",
         NEW n \in Int, n \in 0..Parts[r.a], obj' = [obj EXCEPT ![r.a] = n],
         mp' \in [Artifacts -> Seq(StoredUploads)], UNCHANGED <<ledger, vm, purge, budget>>
  PROVE  LedgersKept(r) /\ obj'[r.a] = n
<1>1. LedgerTypes
  BY DEF ArchiveInv, ArchiveTypes, LedgerTypes
<1>2. UNCHANGED <<status, cursor, sealed, rank, timeline, purge, budget>>
  BY DEF ledger, vm
<1>3. obj' \in [Artifacts -> Int] /\ obj'[r.a] = n /\ \A a \in Artifacts : a # r.a => obj'[a] = obj[a]
  BY <1>1 DEF LedgerTypes
<1>4. \A a \in Artifacts : obj'[a] \in -1..Parts[a]
  BY <1>1, <1>3 DEF LedgerTypes
<1>5. LedgerTypes'
  BY <1>1, <1>2, <1>3, <1>4 DEF LedgerTypes
<1>6. UploadedIsWhole' /\ SealedIsComplete'
  BY <1>2, <1>3 DEF ArchiveInv, UploadedIsWhole, SealedIsComplete, AllUploaded
<1>7. QED
  BY <1>2, <1>3, <1>5, <1>6 DEF LedgersKept

LEMMA PutEmptyKept ==
  ASSUME ArchiveConstants, ArchiveInv, NEW r \in req, PutEmpty(r) PROVE ArchiveInv'
<1>1. /\ r \in Requests /\ r.a \in Artifacts /\ HandlerSound(r) /\ Parts[r.a] = 0
      /\ purge = "idle" => status[r.a] # "uploaded"
  BY OwnArtifact DEF PutEmpty, HandlerSound
<1>2. obj' = [obj EXCEPT ![r.a] = 0] /\ Handler(r, "mark") /\ UNCHANGED <<ledger, mp, vm, purge, budget>>
  BY DEF PutEmpty
<1>3. LedgersKept(r) /\ obj'[r.a] = 0
  <2>1. mp' \in [Artifacts -> Seq(StoredUploads)] /\ UNCHANGED <<ledger, vm, purge, budget>>
    BY <1>2 DEF ArchiveInv, ArchiveTypes
  <2>2. 0 \in Int /\ 0 \in 0..Parts[r.a]
    BY <1>1
  <2>3. QED
    BY <1>1, <1>2, <2>1, <2>2, ObjectKept
<1>4. HandlerSound([r EXCEPT !.pc = "mark"])'
  BY <1>1, <1>2, <1>3, Placed DEF HandlerSound, ledger
<1>5. QED
  BY <1>2, <1>3, <1>4, HandlerStep DEF HandlerPlaces

LEMMA HeadKept ==
  ASSUME ArchiveConstants, ArchiveInv, NEW r \in req, HeadObject(r) PROVE ArchiveInv'
<1>1. r \in Requests /\ HandlerSound(r) /\ r.pc = "head" /\ Idle
  BY OwnArtifact DEF HeadObject
<1>2. CASE Err(r)
  BY <1>1, <1>2, IdleKept, AnswerStep
<1>3. CASE Handler(r, "assemble")
  <2>1. HandlerSound([r EXCEPT !.pc = "assemble"])
    BY <1>1, Placed DEF HandlerSound
  <2>2. QED
    BY <1>1, <1>3, <2>1, IdleHandler DEF HandlerPlaces
<1>4. CASE obj[r.a] = Parts[r.a] /\ Handler(r, "mark")
  <2>1. HandlerSound([r EXCEPT !.pc = "mark"])
    BY <1>1, <1>4, Placed DEF HandlerSound
  <2>2. QED
    BY <1>1, <1>4, <2>1, IdleHandler DEF HandlerPlaces
<1>5. QED
  BY <1>2, <1>3, <1>4 DEF HeadObject

LEMMA AssembleKept ==
  ASSUME ArchiveConstants, ArchiveInv, NEW r \in req, CompleteMultipart(r) PROVE ArchiveInv'
<1>1. /\ r \in Requests /\ r.a \in Artifacts /\ HandlerSound(r) /\ r.n \in 0..Parts[r.a]
      /\ r.pc = "assemble" /\ (purge = "idle" => status[r.a] # "uploaded")
  BY OwnArtifact DEF CompleteMultipart, HandlerSound
<1>2. UNCHANGED <<ledger, vm, purge, budget>>
  BY DEF CompleteMultipart
<1>3. mp \in [Artifacts -> Seq(StoredUploads)]
  BY DEF ArchiveInv, ArchiveTypes
<1>4. CASE mp[r.a][r.u].st = "open" /\ 1..r.n \subseteq mp[r.a][r.u].parts
  <2> DEFINE e == [mp[r.a][r.u] EXCEPT !.st = "done"]
  <2>1. mp' = [mp EXCEPT ![r.a] = [mp[r.a] EXCEPT ![r.u] = e]] /\ obj' = [obj EXCEPT ![r.a] = r.n]
        /\ Handler(r, "check")
    BY <1>4 DEF CompleteMultipart
  <2>2. r.u \in DOMAIN mp[r.a] => e \in StoredUploads
    BY <1>1, <1>3, UploadAt DEF StoredUploads
  <2> HIDE DEF e
  <2>3. mp' \in [Artifacts -> Seq(StoredUploads)]
    BY <1>1, <1>3, <2>1, <2>2, StoreUpdated
  <2>4. LedgersKept(r)
    <3>1. r.n \in Int
      BY <1>1 DEF Requests
    <3>2. QED
      BY <1>1, <1>2, <2>1, <2>3, <3>1, ObjectKept
  <2>5. HandlerSound([r EXCEPT !.pc = "check"])'
    BY <1>1, <1>2, Placed DEF HandlerSound, ledger
  <2>6. QED
    BY <2>1, <2>4, <2>5, HandlerStep DEF HandlerPlaces
<1>5. CASE ~(mp[r.a][r.u].st = "open" /\ 1..r.n \subseteq mp[r.a][r.u].parts)
  <2>1. Err(r) /\ Idle
    BY <1>2, <1>5 DEF CompleteMultipart, Idle
  <2>2. QED
    BY <2>1, IdleKept, AnswerStep
<1>6. QED
  BY <1>4, <1>5

LEMMA CheckKept ==
  ASSUME ArchiveConstants, ArchiveInv, NEW r \in req, CheckObject(r) PROVE ArchiveInv'
<1>1. r \in Requests /\ HandlerSound(r) /\ r.pc = "check" /\ Idle
  BY OwnArtifact DEF CheckObject
<1>2. CASE Err(r)
  BY <1>1, <1>2, IdleKept, AnswerStep
<1>3. CASE obj[r.a] = Parts[r.a] /\ Handler(r, "mark")
  <2>1. HandlerSound([r EXCEPT !.pc = "mark"])
    BY <1>1, <1>3, Placed DEF HandlerSound
  <2>2. QED
    BY <1>1, <1>3, <2>1, IdleHandler DEF HandlerPlaces
<1>4. QED
  BY <1>2, <1>3 DEF CheckObject

LEMMA MarkKept ==
  ASSUME ArchiveConstants, ArchiveInv, NEW r \in req, MarkUploaded(r) PROVE ArchiveInv'
<1>1. /\ r \in Requests /\ r.a \in Artifacts /\ Parts[r.a] \in Nat
      /\ purge = "idle" => obj[r.a] = Parts[r.a]
  BY OwnArtifact DEF MarkUploaded, HandlerSound, ArchiveConstants
<1>2. UNCHANGED <<obj, sealed, rank, timeline, purge, budget>>
  BY DEF MarkUploaded, vm
<1>3. LedgerTypes /\ (sealed => AllUploaded)
  BY DEF ArchiveInv, ArchiveTypes, LedgerTypes, SealedIsComplete
<1>4. CASE Writable
  <2>1. /\ status' = [status EXCEPT ![r.a] = "uploaded"] /\ cursor' = [cursor EXCEPT ![r.a] = NoCursor]
        /\ Reply(r, "ok", Parts[r.a] + 1) /\ mp' = mp /\ ~sealed
    BY <1>4 DEF MarkUploaded, Writable
  <2>2. NoCursor \in [u : Nat, n : Nat] /\ NoCursor.n \in 0..Parts[r.a]
    BY <1>1 DEF NoCursor
  <2>3. /\ cursor' \in [Artifacts -> [u : Nat, n : Nat]]
        /\ \A a \in Artifacts : cursor'[a].n \in 0..Parts[a]
    BY <1>1, <1>3, <2>1, <2>2 DEF LedgerTypes
  <2>4. /\ status' \in [Artifacts -> {"none", "pending", "uploaded"}] /\ status'[r.a] = "uploaded"
        /\ \A a \in Artifacts : a # r.a => status'[a] = status[a]
    BY <1>1, <1>3, <2>1 DEF LedgerTypes
  <2>5. LedgerTypes'
    BY <1>2, <1>3, <2>1, <2>3, <2>4 DEF LedgerTypes
  <2>6. UploadedIsWhole' /\ SealedIsComplete'
    BY <1>1, <1>2, <2>1, <2>4 DEF ArchiveInv, UploadedIsWhole, SealedIsComplete
  <2>7. LedgersKept(r)
    BY <1>2, <2>4, <2>5, <2>6 DEF LedgersKept
  <2>8. Parts[r.a] + 1 \in 1..(Parts[r.a] + 1)
    BY <1>1
  <2>9. QED
    BY <2>1, <2>7, <2>8, ReplyStep
<1>5. CASE ~Writable
  <2>1. Err(r) /\ UNCHANGED ledger /\ (mp' = mp \/ Aborted(r))
    BY <1>5 DEF MarkUploaded
  <2>2. mp' \in [Artifacts -> Seq(StoredUploads)] /\ UNCHANGED <<status, cursor>>
    BY <1>1, <1>3, <2>1, AbortedKept DEF LedgerTypes, ledger
  <2>3. LedgersKept(r)
    BY <1>2, <1>3, <2>2, SideKept DEF LedgerTypes
  <2>4. QED
    BY <2>1, <2>3, AnswerStep
<1>6. QED
  BY <1>4, <1>5

LEMMA HandleKept ==
  ASSUME ArchiveConstants, ArchiveInv, NEW r \in req, Handle(r) PROVE ArchiveInv'
BY BeginReadKept, EnsureKept, ArchivingKept, MultipartBeginKept, CreateKept, InitializeKept,
   PartReadKept, UploadPartKept, AdvanceKept, CompleteReadKept, PutEmptyKept, HeadKept, AssembleKept,
   CheckKept, MarkKept, StageKept, TimelineKept, PublishKept, RunCompleteKept, SealKept DEF Handle

(* The steps of the agent. *)
LEMMA AgentStep ==
  ASSUME ArchiveInv, AgentKept, UNCHANGED <<ledger, store, vm, purge>>,
         budget' \in [faults : 0..MaxFaults, renders : 0..MaxRenderFails],
         \A s \in req' : NewWork(s) \/ \E q \in req : SameWork(s, q)
  PROVE  ArchiveInv'
<1>1. UNCHANGED <<status, cursor, mp, obj, sealed, rank, timeline, purge>>
  BY DEF ledger, store, vm
<1>2. LedgerTypes
  BY DEF ArchiveInv, ArchiveTypes, LedgerTypes
<1>3. LedgerTypes'
  BY <1>1, <1>2 DEF LedgerTypes
<1>4. UploadedIsWhole' /\ SealedIsComplete'
  BY <1>1 DEF ArchiveInv, UploadedIsWhole, SealedIsComplete, AllUploaded
<1>5. ASSUME NEW s \in req' PROVE HandlerSound(s)'
  <2>1. CASE NewWork(s)
    BY <2>1 DEF NewWork, HandlerSound
  <2>2. ASSUME NEW q \in req, SameWork(s, q) PROVE HandlerSound(s)'
    <3>1. q \in Requests /\ HandlerSound(q)
      BY DEF ArchiveInv, ArchiveTypes
    <3>2. s.k = q.k /\ s.a = q.a /\ s.p = q.p /\ s.pc = q.pc /\ s.n = q.n
      BY <2>2, <3>1 DEF SameWork, Requests
    <3>3. QED
      BY <1>1, <3>1, <3>2 DEF HandlerSound
  <2>3. QED
    BY <2>1, <2>2
<1>6. QED
  BY <1>3, <1>4, <1>5, InvNext

LEMMA AttemptKept == ASSUME ArchiveConstants, ~Late, ArchiveInv, Attempt PROVE ArchiveInv'
<1>1. job \in JobType /\ job.pc = "due" /\ req = {} /\ GuardAt(job) /\ uploader \in UploaderType
  BY DEF Attempt, ArchiveInv, ArchiveTypes, JobType, UploaderType
<1>2. job' = [job EXCEPT !.pc = "begin", !.prog = FALSE, !.rprog = FALSE, !.ord = "none"]
      /\ req' = req /\ uploader' = uploader /\ budget' = budget /\ UNCHANGED <<ledger, store, vm, purge>>
  BY DEF Attempt
<1>3. job' \in JobType /\ job'.pc = "begin" /\ ~job'.prog /\ job'.ord = "none"
  BY <1>1, <1>2 DEF JobType, JobPlaces, JobRequests, Orders
<1>4. GuardAt(job')
  BY <1>3 DEF GuardAt
<1>5. AgentSound' /\ OneRequest' /\ req' \subseteq Requests
  BY <1>1, <1>2, <1>3 DEF AgentSound, OneRequest, Resting, ArchiveInv
<1>6. AgentKept
  BY <1>1, <1>2, <1>3, <1>4, <1>5 DEF AgentKept
<1>7. QED
  BY <1>1, <1>2, <1>6, AgentStep DEF ArchiveInv, ArchiveTypes

(* When its set is uploaded, the agent waits for nothing. *)
LEMMA UploadedAlone ==
  ASSUME ArchiveConstants, ArchiveInv,
         \/ job.pc = "raw" /\ \A a \in Raw : uploader[a] = "done"
         \/ job.pc = "cast" /\ \A a \in Cast : uploader[a] = "done"
  PROVE  req = {}
<1> SUFFICES ASSUME NEW s \in req PROVE FALSE
  OBVIOUS
<1>1. s \in Requests /\ s.live
  BY DEF ArchiveInv, ArchiveTypes, AgentSound
<1>2. s.a # "job"
  BY <1>1 DEF ArchiveInv, AgentSound, JobRequests
<1>3. s.a \in Artifacts /\ uploader[s.a] = s.k /\ s.k \in UploaderRequests
  BY <1>1, <1>2 DEF ArchiveInv, AgentSound, Requests
<1>4. uploader[s.a] \in {"done", "idle"}
  BY <1>3 DEF ArchiveInv, AgentSound, Resting
<1>5. QED
  BY <1>3, <1>4 DEF UploaderRequests

LEMMA SetUploadedKept == ASSUME ArchiveConstants, ArchiveInv, SetUploaded PROVE ArchiveInv'
<1>1. job \in JobType /\ GuardAt(job)
  BY DEF ArchiveInv, ArchiveTypes, JobType
<1>2. /\ req' = req /\ budget' = budget /\ UNCHANGED <<ledger, store, vm, purge>>
      /\ uploader' = [a \in Artifacts |-> "idle"]
  BY DEF SetUploaded
<1>3. req = {}
  BY UploadedAlone DEF SetUploaded
<1>4. job' \in JobType /\ GuardAt(job') /\ job'.pc \notin {"raw", "cast"}
  <2>1. CASE job.pc = "raw" /\ job' = Observed("raw_upload", IF job.prog THEN "raw_stage" ELSE "render")
    <3>1. CASE job.prog
      <4>1. Observe(job.ord, "raw_upload") = "raw_stage"
        BY <1>1, <2>1, <3>1, GuardSteps DEF GuardAt
      <4>2. job' \in JobType /\ job'.pc = "raw_stage" /\ job'.prog /\ job'.ord = "raw_stage"
        BY <1>1, <2>1, <3>1, <4>1, ObservedJob DEF JobPlaces, JobRequests, Orders
      <4>3. QED
        BY <4>2 DEF GuardAt
    <3>2. CASE ~job.prog
      <4>1. Observe(job.ord, "raw_upload") = "none"
        BY <1>1, <2>1, <3>2, GuardSteps DEF GuardAt
      <4>2. job' \in JobType /\ job'.pc = "render" /\ ~job'.prog /\ job'.ord = "none"
        BY <1>1, <2>1, <3>2, <4>1, ObservedJob DEF JobPlaces, Orders
      <4>3. QED
        BY <4>2 DEF GuardAt
    <3>3. QED
      BY <3>1, <3>2
  <2>2. CASE job.pc = "cast" /\ job' = Observed("cast_upload", "timeline")
    <3>1. Observe(job.ord, "cast_upload") = IF job.prog THEN "timeline" ELSE "none"
      <4>1. CASE job.prog
        BY <1>1, <2>2, <4>1, GuardSteps DEF GuardAt
      <4>2. CASE ~job.prog
        BY <1>1, <2>2, <4>2, GuardSteps DEF GuardAt
      <4>3. QED
        BY <4>1, <4>2
    <3>2. /\ job' \in JobType /\ job'.pc = "timeline" /\ job'.prog = job.prog /\ job'.rprog = job.rprog
          /\ job'.ord = IF job.prog THEN "timeline" ELSE "none"
      BY <1>1, <2>2, <3>1, ObservedJob DEF JobPlaces, JobRequests, Orders
    <3>3. job.rprog => job.prog
      BY <1>1, <2>2 DEF GuardAt
    <3>4. QED
      BY <3>2, <3>3 DEF GuardAt
  <2>3. QED
    BY <2>1, <2>2 DEF SetUploaded
<1>5. uploader' \in UploaderType /\ \A a \in Artifacts : uploader'[a] = "idle"
  BY <1>2 DEF UploaderType
<1>6. AgentSound' /\ OneRequest' /\ req' \subseteq Requests
  BY <1>2, <1>3, <1>5 DEF AgentSound, OneRequest, Resting
<1>7. AgentKept
  BY <1>4, <1>5, <1>6 DEF AgentKept
<1>8. QED
  BY <1>2, <1>3, <1>7, AgentStep DEF ArchiveInv, ArchiveTypes

LEMMA RenderKept == ASSUME ArchiveConstants, ArchiveInv, Render PROVE ArchiveInv'
<1>1. job \in JobType /\ GuardAt(job) /\ job.pc = "render" /\ uploader \in UploaderType /\ req \subseteq Requests
  BY DEF Render, ArchiveInv, ArchiveTypes, JobType, UploaderType
<1>2. /\ req' = req /\ uploader' = uploader /\ UNCHANGED <<ledger, store, vm, purge>>
  BY DEF Render
<1>3. \/ job' = [job EXCEPT !.pc = "cast_begin"]
      \/ job' = [job EXCEPT !.pc = IF job.prog THEN "replay_stage" ELSE "complete"]
  BY DEF Render
<1>4. job' \in JobType /\ GuardAt(job') /\ job'.pc \in {"cast_begin", "replay_stage", "complete"}
  <2>1. CASE job.prog
    <3>1. job.ord = "cast_or_stage"
      BY <1>1, <2>1 DEF GuardAt
    <3>2. job' \in JobType /\ job'.pc \in {"cast_begin", "replay_stage"} /\ job'.prog /\ job'.ord = job.ord
      BY <1>1, <1>3, <2>1 DEF JobType, JobPlaces, JobRequests
    <3>3. QED
      BY <3>1, <3>2 DEF GuardAt
  <2>2. CASE ~job.prog
    <3>1. job.ord = "none"
      BY <1>1, <2>2 DEF GuardAt
    <3>2. job' \in JobType /\ job'.pc \in {"cast_begin", "complete"} /\ ~job'.prog /\ job'.ord = job.ord
      BY <1>1, <1>3, <2>2 DEF JobType, JobPlaces, JobRequests
    <3>3. QED
      BY <3>1, <3>2 DEF GuardAt
  <2>3. QED
    BY <2>1, <2>2
<1>5. req = {}
  <2> SUFFICES ASSUME NEW s \in req PROVE FALSE
    OBVIOUS
  <2>1. s \in Requests /\ s.live /\ s.a # "job"
    BY <1>1 DEF ArchiveInv, AgentSound, JobRequests
  <2>2. QED
    BY <1>1, <2>1 DEF ArchiveInv, AgentSound, Requests, UploaderRequests, JobRequests
<1>6. AgentSound' /\ OneRequest'
  BY <1>1, <1>2, <1>4, <1>5 DEF AgentSound, OneRequest, Resting, ArchiveInv
<1>7. AgentKept
  BY <1>1, <1>2, <1>4, <1>6 DEF AgentKept
<1>8. budget' \in [faults : 0..MaxFaults, renders : 0..MaxRenderFails]
  <2>1. budget \in [faults : 0..MaxFaults, renders : 0..MaxRenderFails]
    BY DEF ArchiveInv, ArchiveTypes
  <2>2. CASE budget' = budget
    BY <2>1, <2>2
  <2>3. CASE budget.renders > 0 /\ budget' = [budget EXCEPT !.renders = budget.renders - 1]
    BY <2>1, <2>3 DEF ArchiveConstants
  <2>4. QED
    BY <2>2, <2>3 DEF Render
<1>9. QED
  BY <1>2, <1>5, <1>7, <1>8, AgentStep

LEMMA NewRequest ==
  ASSUME ArchiveInv, NEW k \in JobRequests \cup UploaderRequests, k # "part",
         NEW a \in Artifacts \cup {"job"}
  PROVE  LET t == Request(k, a, 0)
         IN  t \in Requests /\ t.k = k /\ t.a = a /\ t.live /\ NewWork(t)
<1>1. budget.faults \in 0..MaxFaults
  BY DEF ArchiveInv, ArchiveTypes
<1>2. QED
  BY <1>1 DEF Request, Requests, NewWork, HandlerPlaces

LEMMA SendKept == ASSUME ArchiveConstants, ArchiveInv, SendJobRequest PROVE ArchiveInv'
<1>1. job \in JobType /\ GuardAt(job) /\ uploader \in UploaderType /\ job.pc \in JobRequests
  BY DEF SendJobRequest, ArchiveInv, ArchiveTypes, JobType, UploaderType
<1> DEFINE t == Request(job.pc, "job", 0)
<1>2. job' = job /\ uploader' = uploader /\ budget' = budget /\ UNCHANGED <<ledger, store, vm, purge>>
      /\ req' = req \cup {t}
  BY DEF SendJobRequest, agent
<1>3. req = {}
  BY <1>1 DEF SendJobRequest, Live, ArchiveInv, AgentSound, JobRequests
<1>4. t \in Requests /\ t.k = job.pc /\ t.a = "job" /\ t.live /\ NewWork(t)
  BY <1>1, NewRequest DEF JobRequests
<1> HIDE DEF t
<1>5. OneRequest' /\ req' \subseteq Requests /\ \A s \in req' : NewWork(s)
  BY <1>2, <1>3, <1>4 DEF OneRequest
<1>6. AgentSound'
  BY <1>1, <1>2, <1>3, <1>4 DEF AgentSound, Resting, ArchiveInv
<1>7. AgentKept
  BY <1>1, <1>2, <1>5, <1>6 DEF AgentKept
<1>8. QED
  BY <1>2, <1>5, <1>7, AgentStep DEF ArchiveInv, ArchiveTypes

LEMMA StartKept ==
  ASSUME ArchiveConstants, ArchiveInv, NEW a \in Artifacts, StartUpload(a) PROVE ArchiveInv'
<1>1. job \in JobType /\ GuardAt(job) /\ uploader \in UploaderType /\ req \subseteq Requests
      /\ uploader[a] = "mbegin" /\ a # "job"
  BY DEF StartUpload, ArchiveInv, ArchiveTypes, JobType, UploaderType, ArchiveConstants
<1> DEFINE t == Request("mbegin", a, 0)
<1>2. job' = job /\ uploader' = uploader /\ budget' = budget /\ UNCHANGED <<ledger, store, vm, purge>>
      /\ req' = req \cup {t}
  BY DEF StartUpload, agent
<1>3. job.pc \in {"raw", "cast"}
  BY <1>1 DEF ArchiveInv, AgentSound
<1>4. \A s \in req : s.live /\ s.a # a
  BY <1>1, <1>3 DEF StartUpload, Live, ArchiveInv, AgentSound
<1>5. t \in Requests /\ t.k = "mbegin" /\ t.a = a /\ t.live /\ NewWork(t)
  BY NewRequest DEF UploaderRequests
<1> HIDE DEF t
<1>6. OneRequest' /\ req' \subseteq Requests
  BY <1>1, <1>2, <1>4, <1>5 DEF OneRequest, ArchiveInv
<1>7. AgentSound'
  BY <1>1, <1>2, <1>5 DEF AgentSound, Resting, ArchiveInv, JobRequests
<1>8. \A s \in req' : NewWork(s) \/ \E q \in req : SameWork(s, q)
  <2>1. \A s \in req : s = [s EXCEPT !.live = s.live]
    BY <1>1 DEF Requests
  <2>2. QED
    BY <1>2, <1>5, <2>1 DEF SameWork
<1>9. AgentKept
  BY <1>1, <1>2, <1>6, <1>7 DEF AgentKept
<1>10. QED
  BY <1>2, <1>8, <1>9, AgentStep DEF ArchiveInv, ArchiveTypes

LEMMA AbandonKept == ASSUME ArchiveConstants, ArchiveInv, Abandon PROVE ArchiveInv'
<1>1. Fail /\ UNCHANGED <<ledger, store, vm, purge>> /\ req' = {[x EXCEPT !.live = FALSE] : x \in req}
  BY DEF Abandon, Abandoned
<1>2. AgentKept /\ \A s \in req' : \E q \in req : SameWork(s, q)
  BY <1>1, FailKept
<1>3. budget' \in [faults : 0..MaxFaults, renders : 0..MaxRenderFails]
  <2>1. budget \in [faults : 0..MaxFaults, renders : 0..MaxRenderFails]
    BY DEF ArchiveInv, ArchiveTypes
  <2>2. budget.faults > 0 /\ budget' = [budget EXCEPT !.faults = budget.faults - 1]
    BY DEF Abandon
  <2>3. QED
    BY <2>1, <2>2 DEF ArchiveConstants
<1>4. QED
  BY <1>1, <1>2, <1>3, AgentStep

(* The deletion of the run.  Nothing is claimed of the objects once it has begun. *)
LEMMA DeleteRunKept == ASSUME ArchiveConstants, ArchiveInv, DeleteRun PROVE ArchiveInv'
<1>1. UNCHANGED <<job, uploader, req, sealed, rank, timeline, budget>> /\ purge' \in {"objects", "rows", "done"}
  BY DEF DeleteRun, agent, vm
<1>2. LedgerTypes /\ \A a \in Artifacts : Parts[a] \in Nat
  BY DEF ArchiveInv, ArchiveTypes, LedgerTypes, ArchiveConstants
<1>3. /\ obj' \in [Artifacts -> Int] /\ \A a \in Artifacts : obj'[a] \in -1..Parts[a]
      /\ cursor' \in [Artifacts -> [u : Nat, n : Nat]] /\ \A a \in Artifacts : cursor'[a].n \in 0..Parts[a]
      /\ status' \in [Artifacts -> {"none", "pending", "uploaded"}]
      /\ AllUploaded => AllUploaded'
  <2>1. CASE UNCHANGED <<ledger, store>>
    BY <1>2, <2>1 DEF ledger, store, LedgerTypes, AllUploaded
  <2>2. CASE UNCHANGED ledger /\ obj' = [a \in Artifacts |-> IF status[a] = "none" THEN obj[a] ELSE NoObject]
    BY <1>2, <2>2 DEF ledger, LedgerTypes, AllUploaded, NoObject
  <2>3. CASE UNCHANGED store /\ status' = [a \in Artifacts |-> "none"] /\ cursor' = [a \in Artifacts |-> NoCursor]
    <3>1. NoCursor \in [u : Nat, n : Nat] /\ NoCursor.n = 0
      BY DEF NoCursor
    <3>2. QED
      BY <1>2, <2>3, <3>1 DEF store, LedgerTypes, AllUploaded
  <2>4. QED
    BY <2>1, <2>2, <2>3 DEF DeleteRun
<1>4. mp' \in [Artifacts -> Seq(StoredUploads)]
  <2>1. CASE mp' = mp
    BY <1>2, <2>1 DEF LedgerTypes
  <2>2. CASE mp' = [a \in Artifacts |-> [u \in DOMAIN mp[a] |->
               IF u = cursor[a].u /\ mp[a][u].st = "open" THEN [mp[a][u] EXCEPT !.st = "aborted"] ELSE mp[a][u]]]
    <3>1. ASSUME NEW a \in Artifacts PROVE mp'[a] \in Seq(StoredUploads)
      <4> DEFINE e(u) == IF u = cursor[a].u /\ mp[a][u].st = "open"
                         THEN [mp[a][u] EXCEPT !.st = "aborted"] ELSE mp[a][u]
      <4>1. mp[a] \in Seq(StoredUploads)
        BY <1>2 DEF LedgerTypes
      <4>2. Len(mp[a]) \in Nat /\ DOMAIN mp[a] = 1..Len(mp[a])
        BY <4>1
      <4>3. \A u \in DOMAIN mp[a] : e(u) \in StoredUploads
        <5>1. \A u \in DOMAIN mp[a] : mp[a][u] \in StoredUploads
          BY <1>2, UploadAt DEF LedgerTypes
        <5>2. \A x \in StoredUploads : [x EXCEPT !.st = "aborted"] \in StoredUploads
          BY DEF StoredUploads
        <5>3. QED
          BY <5>1, <5>2
      <4>4. mp'[a] = [u \in DOMAIN mp[a] |-> e(u)]
        BY <2>2
      <4> HIDE DEF e
      <4>5. mp'[a] \in [1..Len(mp[a]) -> StoredUploads]
        BY <4>2, <4>3, <4>4
      <4>6. QED
        BY <4>2, <4>5, \A n \in Nat : [1..n -> StoredUploads] \subseteq Seq(StoredUploads)
    <3>2. DOMAIN mp' = Artifacts /\ mp' = [a \in Artifacts |-> mp'[a]]
      BY <2>2
    <3>3. QED
      BY <3>1, <3>2
  <2>3. QED
    BY <2>1, <2>2 DEF DeleteRun, store
<1>5. LedgerTypes'
  BY <1>1, <1>2, <1>3, <1>4 DEF LedgerTypes
<1>6. UploadedIsWhole' /\ SealedIsComplete'
  BY <1>1, <1>3 DEF ArchiveInv, UploadedIsWhole, SealedIsComplete
<1>7. AgentKept
  BY <1>1 DEF AgentKept, ArchiveInv, ArchiveTypes, JobType, UploaderType, OneRequest, AgentSound, Resting
<1>8. \A s \in req' : HandlerSound(s)'
  BY <1>1 DEF ArchiveInv, HandlerSound
<1>9. QED
  BY <1>5, <1>6, <1>7, <1>8, InvNext

LEMMA ArchiveStepKept ==
  ASSUME ArchiveConstants, ~Late, ArchiveInv, [ArchiveNext]_archiveVars PROVE ArchiveInv'
<1>1. CASE Agent
  BY <1>1, AttemptKept, SetUploadedKept, RenderKept, SendKept, StartKept DEF Agent
<1>2. CASE Control
  BY <1>2, HandleKept DEF Control
<1>3. CASE Abandon
  BY <1>3, AbandonKept
<1>4. CASE DeleteRun
  BY <1>4, DeleteRunKept
<1>5. CASE UNCHANGED archiveVars
  <2>1. AgentKept
    BY <1>5 DEF archiveVars, AgentKept, ArchiveInv, ArchiveTypes, JobType, UploaderType, OneRequest,
                AgentSound, Resting
  <2>2. UNCHANGED <<ledger, store, vm, purge>> /\ budget' = budget /\ req' = req
    BY <1>5 DEF archiveVars, ledger, store, vm
  <2>3. \A s \in req : s = [s EXCEPT !.live = s.live]
    BY DEF ArchiveInv, ArchiveTypes, Requests
  <2>4. QED
    BY <2>1, <2>2, <2>3, AgentStep DEF SameWork, ArchiveInv, ArchiveTypes
<1>6. QED
  BY <1>1, <1>2, <1>3, <1>4, <1>5 DEF ArchiveNext

(* The archive of a VM, with any number of artifacts, parts, faults and     *)
(* render failures, any mix of deployments and a deletion of the run: what  *)
(* counts as uploaded is whole, a sealed VM misses nothing and the agent's  *)
(* guard accepts every answer, if no request outlives the retry delay.      *)
THEOREM ArchiveCorrect == ASSUME ArchiveConstants, ~Late PROVE ArchiveSpec => []ArchiveWhole
<1>1. ArchiveInit => ArchiveInv
  BY InitArchive
<1>2. ArchiveInv /\ [ArchiveNext]_archiveVars => ArchiveInv'
  BY ArchiveStepKept
<1>3. ArchiveInv => ArchiveWhole
  BY DEF ArchiveInv, ArchiveWhole, GuardAt, OrderNeverBlocks
<1>4. QED
  BY <1>1, <1>2, <1>3, PTL DEF ArchiveSpec

-----------------------------------------------------------------------------
(* The milestones, under deployments that grant progress.  A place of the   *)
(* job is reached only after the milestones before it.                      *)
JobRank(j, n) ==
  /\ j.pc \notin {"due", "begin", "gone"} => j.prog /\ n >= 1
  /\ j.pc \in {"cast", "timeline"} => j.rprog
  /\ j.pc \in {"render", "cast_begin", "cast", "timeline", "replay_stage", "complete"} => n >= 2
  /\ j.pc = "complete" => n >= 3

RequestRank(r, n) ==
  /\ r.k = "complete" => n >= 3
  /\ r.pc \in {"ensure", "archiving"} => r.k \in {"begin", "cast_begin"}
  /\ r.pc = "publish" => r.k = "timeline"
  /\ r.pc = "seal" => r.k = "complete"
  /\ r.k \in {"raw_stage", "replay_stage"} => r.pc = "new"

RankInv ==
  /\ ArchiveInv /\ JobRank(job, rank) /\ (sealed => rank = 4)
  /\ \A r \in req : RequestRank(r, rank)

(* What a step shows of the milestones. *)
RankKept ==
  /\ MilestonesInOrderStep /\ JobRank(job', rank') /\ (sealed' => rank' = 4)
  /\ \A s \in req' : RequestRank(s, rank')

LEMMA RequestRanks ==
  ASSUME RankInv, AgentKept, rank \in 0..4, rank' \in 0..4, rank' >= rank, JobRank(job', rank'),
         \A s \in req' : NewWork(s) \/ \E q \in req : SameWork(s, q)
  PROVE  \A s \in req' : RequestRank(s, rank')
<1> SUFFICES ASSUME NEW s \in req' PROVE RequestRank(s, rank')
  OBVIOUS
<1>1. CASE NewWork(s)
  <2>1. s.k = "complete" => job'.pc = "complete"
    BY <1>1 DEF NewWork, AgentKept, AgentSound, JobRequests
  <2>2. QED
    BY <1>1, <2>1 DEF NewWork, RequestRank, JobRank
<1>2. ASSUME NEW q \in req, SameWork(s, q) PROVE RequestRank(s, rank')
  <2>1. q \in Requests /\ RequestRank(q, rank)
    BY DEF RankInv, ArchiveInv, ArchiveTypes
  <2>2. s.k = q.k /\ s.pc = q.pc
    BY <1>2, <2>1 DEF SameWork, Requests
  <2>3. QED
    BY <2>1, <2>2 DEF RequestRank
<1>3. QED
  BY <1>1, <1>2

(* What an answer that moves the job on needs of the rank. *)
Reached(r, n) ==
  /\ r.k = "begin" => n >= 1
  /\ r.k = "raw_stage" => n >= 2
  /\ r.k = "replay_stage" => n >= 3

LEMMA JobAnsweredRank ==
  ASSUME Acks \subseteq {TRUE}, job \in JobType, NEW r, job.pc = r.k, r.k \in JobRequests,
         GuardAt(job), rank \in 0..4, rank' \in 0..4, rank' >= rank, JobRank(job, rank),
         NEW answer, answer = "ok" => Reached(r, rank'), JobReply(r, answer)
  PROVE  JobRank(job', rank')
<1> USE DEF JobRequests
<1>1. CASE answer = "purged" /\ r.k \in {"begin", "cast_begin"}
  <2>1. job'.pc = "gone"
    BY <1>1 DEF JobReply, JobType
  <2>2. QED
    BY <2>1 DEF JobRank
<1>2. CASE answer = "ok" /\ r.k = "begin"
  <2>1. job' = AfterBegin(TRUE)
    BY <1>2 DEF JobReply
  <2>2. job'.pc = "raw" /\ job'.prog /\ rank' >= 1
    BY <1>2, <2>1 DEF AfterBegin, JobType, Reached
  <2>3. QED
    BY <2>2 DEF JobRank
<1>3. CASE answer = "ok" /\ r.k = "raw_stage"
  <2>1. job' = Observed("raw_stage", "render")
    BY <1>3 DEF JobReply
  <2>2. job'.pc = "render" /\ job'.prog = job.prog /\ job.prog /\ rank' >= 2
    BY <1>3, <2>1 DEF Observed, JobType, JobRank, Reached
  <2>3. QED
    BY <2>2 DEF JobRank
<1>4. CASE answer = "ok" /\ r.k = "cast_begin"
  <2>1. job' = [Observed("cast_begin", "cast") EXCEPT !.rprog = job.prog /\ TRUE]
    BY <1>4 DEF JobReply
  <2>2. job.prog /\ rank' >= 2
    BY <1>4 DEF JobRank
  <2>3. job'.pc = "cast" /\ job'.prog = job.prog /\ job'.rprog
    BY <2>1, <2>2 DEF Observed, JobType
  <2>4. QED
    BY <2>2, <2>3 DEF JobRank
<1>5. CASE r.k = "timeline"
  <2>1. job' = Observed("timeline", IF job.rprog THEN "replay_stage" ELSE "complete")
    BY <1>5 DEF JobReply
  <2>2. job.prog /\ job.rprog /\ rank' >= 2
    BY <1>5 DEF JobRank
  <2>3. job'.pc = "replay_stage" /\ job'.prog = job.prog
    BY <2>1, <2>2 DEF Observed, JobType
  <2>4. QED
    BY <2>2, <2>3 DEF JobRank
<1>6. CASE answer = "ok" /\ r.k = "replay_stage"
  <2>1. job' = Observed("replay_stage", "complete")
    BY <1>6 DEF JobReply
  <2>2. job'.pc = "complete" /\ job'.prog = job.prog /\ job.prog /\ rank' >= 3
    BY <1>6, <2>1 DEF Observed, JobType, JobRank, Reached
  <2>3. QED
    BY <2>2 DEF JobRank
<1>7. CASE answer = "ok" /\ r.k = "complete"
  <2>1. job'.pc = "gone"
    BY <1>7 DEF JobReply, Observed, JobType
  <2>2. QED
    BY <2>1 DEF JobRank
<1>8. CASE Fail
  <2>1. job'.pc = "due"
    BY <1>8 DEF Fail, JobType
  <2>2. QED
    BY <2>1 DEF JobRank
<1>9. QED
  BY <1>1, <1>2, <1>3, <1>4, <1>5, <1>6, <1>7, <1>8 DEF JobReply

LEMMA ReplyRank ==
  ASSUME ArchiveConstants, Acks \subseteq {TRUE}, RankInv, NEW r \in req, NEW answer, NEW next,
         r.a # "job" => next \in 1..(Parts[r.a] + 1), Reply(r, answer, next),
         rank' \in 0..4, rank' # rank => rank' = rank + 1, sealed' => rank' = 4,
         answer = "ok" => Reached(r, rank')
  PROVE  RankKept
<1>1. ArchiveInv /\ rank \in 0..4 /\ rank' >= rank /\ job \in JobType /\ GuardAt(job) /\ JobRank(job, rank)
  BY DEF RankInv, ArchiveInv, ArchiveTypes, JobType
<1>2. AgentKept /\ \A s \in req' : NewWork(s) \/ \E q \in req \ {r} : SameWork(s, q)
  BY <1>1, ReplyKept
<1>3. JobRank(job', rank')
  <2>1. CASE r.live /\ r.a = "job"
    <3>1. job.pc = r.k /\ r.k \in JobRequests
      BY <1>1, <2>1, JobAlone DEF ArchiveInv, AgentSound
    <3>2. JobReply(r, answer)
      BY <2>1, <3>1 DEF Reply
    <3>3. QED
      BY <1>1, <3>1, <3>2, JobAnsweredRank
  <2>2. CASE r.live /\ r.a # "job"
    <3>1. UploadReply(r, answer, next)
      BY <1>1, <2>2 DEF Reply, ArchiveInv, AgentSound
    <3>2. job' = job \/ job'.pc = "due"
      BY <1>1, <3>1 DEF UploadReply, Fail, JobType
    <3>3. QED
      BY <1>1, <3>2 DEF JobRank
  <2>3. CASE ~r.live
    <3>1. job' = job
      BY <2>3 DEF Reply, agent
    <3>2. QED
      BY <1>1, <3>1 DEF JobRank
  <2>4. QED
    BY <2>1, <2>2, <2>3
<1>4. \A s \in req' : RequestRank(s, rank')
  BY <1>1, <1>2, <1>3, RequestRanks
<1>5. QED
  BY <1>3, <1>4 DEF RankKept, MilestonesInOrderStep

(* A handler that goes on leaves the rank alone. *)
LEMMA MoveRank ==
  ASSUME RankInv, NEW r \in req, NEW t, RequestRank(t, rank),
         req' = (req \ {r}) \cup {t}, UNCHANGED agent, rank' = rank, sealed' = sealed
  PROVE  RankKept
<1>1. job' = job
  BY DEF agent
<1>2. QED
  BY <1>1 DEF RankKept, RankInv, MilestonesInOrderStep

LEMMA HandlerRank ==
  ASSUME RankInv, NEW r \in req, NEW pc, Handler(r, pc), rank' = rank, sealed' = sealed,
         r.k \notin {"raw_stage", "replay_stage"},
         pc \in {"ensure", "archiving"} => r.k \in {"begin", "cast_begin"},
         pc = "publish" => r.k = "timeline", pc = "seal" => r.k = "complete"
  PROVE  RankKept
<1> DEFINE t == [r EXCEPT !.pc = pc]
<1>1. t.k = r.k /\ t.pc = pc
  BY DEF RankInv, ArchiveInv, ArchiveTypes, Requests
<1>2. r.k = "complete" => rank >= 3
  BY DEF RankInv, RequestRank
<1>3. RequestRank(t, rank)
  BY <1>1, <1>2 DEF RequestRank
<1>4. QED
  BY <1>3, MoveRank DEF Handler

(* The handlers of an uploader's requests tell the job nothing of milestones. *)
LEMMA UploaderRank ==
  ASSUME ArchiveConstants, Acks \subseteq {TRUE}, RankInv, NEW r \in req, r.a \in Artifacts,
         rank' = rank, sealed' = sealed, NEW answer, NEW next \in 1..(Parts[r.a] + 1),
         Reply(r, answer, next)
  PROVE  RankKept
<1>1. r.k \notin JobRequests
  BY DEF RankInv, ArchiveInv, AgentSound, ArchiveConstants
<1>2. Reached(r, rank')
  BY <1>1 DEF Reached, JobRequests
<1>3. rank' \in 0..4 /\ (sealed' => rank' = 4)
  BY DEF RankInv, ArchiveInv, ArchiveTypes
<1>4. QED
  BY <1>2, <1>3, ReplyRank

LEMMA UploaderAnswerRank ==
  ASSUME ArchiveConstants, Acks \subseteq {TRUE}, RankInv, NEW r \in req, r.a \in Artifacts,
         rank' = rank, sealed' = sealed, Ok(r) \/ Err(r)
  PROVE  RankKept
<1>1. 1 \in 1..(Parts[r.a] + 1)
  BY DEF ArchiveConstants
<1>2. QED
  BY <1>1, UploaderRank DEF Ok, Err

LEMMA UploaderMoveRank ==
  ASSUME ArchiveConstants, RankInv, NEW r \in req, r.a \in Artifacts, rank' = rank, sealed' = sealed,
         NEW t, t.k = r.k, t.pc \notin {"ensure", "archiving", "publish", "seal"},
         req' = (req \ {r}) \cup {t}, UNCHANGED agent
  PROVE  RankKept
<1>1. r.k \notin JobRequests
  BY DEF RankInv, ArchiveInv, AgentSound, ArchiveConstants
<1>2. RequestRank(t, rank)
  BY <1>1 DEF RequestRank, JobRequests
<1>3. QED
  BY <1>2, MoveRank

LEMMA UploaderHandlerRank ==
  ASSUME ArchiveConstants, RankInv, NEW r \in req, r.a \in Artifacts, rank' = rank, sealed' = sealed,
         NEW pc, pc \notin {"ensure", "archiving", "publish", "seal"}, Handler(r, pc)
  PROVE  RankKept
<1>1. r.k \notin JobRequests
  BY DEF RankInv, ArchiveInv, AgentSound, ArchiveConstants
<1>2. QED
  BY <1>1, HandlerRank DEF JobRequests

LEMMA MultipartRank ==
  ASSUME ArchiveConstants, Acks \subseteq {TRUE}, RankInv, NEW r \in req,
         MultipartBegin(r) \/ CreateMultipart(r) \/ InitializeUpload(r)
  PROVE  RankKept
<1>1. r \in Requests /\ r.a \in Artifacts /\ Parts[r.a] \in Nat /\ cursor[r.a].n \in 0..Parts[r.a]
  <2>1. r.k = "mbegin" /\ ArchiveInv
    BY DEF MultipartBegin, CreateMultipart, InitializeUpload, At, RankInv
  <2>2. r \in Requests /\ r.a \in Artifacts
    BY <2>1, OwnArtifact DEF UploaderRequests
  <2>3. QED
    BY <2>1, <2>2 DEF ArchiveConstants, ArchiveInv, ArchiveTypes
<1>2. rank' = rank /\ sealed' = sealed
  BY DEF MultipartBegin, CreateMultipart, InitializeUpload, Idle, vm
<1>3. CASE MultipartBegin(r)
  <2>1. CASE Err(r)
    BY <1>1, <1>2, <2>1, UploaderAnswerRank
  <2>2. CASE Handler(r, "put") \/ Handler(r, "create")
    BY <1>1, <1>2, <2>2, UploaderHandlerRank
  <2>3. CASE Reply(r, "ok", Parts[r.a] + 1)
    <3>1. Parts[r.a] + 1 \in 1..(Parts[r.a] + 1)
      BY <1>1
    <3>2. QED
      BY <1>1, <1>2, <2>3, <3>1, UploaderRank
  <2>4. CASE Reply(r, "ok", cursor[r.a].n + 1)
    <3>1. cursor[r.a].n + 1 \in 1..(Parts[r.a] + 1)
      BY <1>1
    <3>2. QED
      BY <1>1, <1>2, <2>4, <3>1, UploaderRank
  <2>5. QED
    BY <1>3, <2>1, <2>2, <2>3, <2>4 DEF MultipartBegin
<1>4. CASE CreateMultipart(r)
  <2> DEFINE moved == [r EXCEPT !.pc = "init", !.u = Len(mp[r.a]) + 1]
  <2>1. moved.k = r.k /\ moved.pc = "init"
    BY <1>1 DEF Requests
  <2>2. req' = (req \ {r}) \cup {moved} /\ UNCHANGED agent
    BY <1>4 DEF CreateMultipart
  <2> HIDE DEF moved
  <2>3. PICK t : t = moved
    OBVIOUS
  <2>4. QED
    BY <1>1, <1>2, <2>1, <2>2, <2>3, UploaderMoveRank
<1>5. CASE InitializeUpload(r)
  <2>1. Ok(r) \/ Err(r)
    BY <1>5 DEF InitializeUpload
  <2>2. QED
    BY <1>1, <1>2, <2>1, UploaderAnswerRank
<1>6. QED
  BY <1>3, <1>4, <1>5

LEMMA PartRank ==
  ASSUME ArchiveConstants, Acks \subseteq {TRUE}, RankInv, NEW r \in req,
         PartRead(r) \/ UploadPart(r) \/ AdvanceUpload(r)
  PROVE  RankKept
<1>1. r \in Requests /\ r.a \in Artifacts
  <2>1. r.k = "part" /\ ArchiveInv
    BY DEF PartRead, UploadPart, AdvanceUpload, At, RankInv
  <2>2. QED
    BY <2>1, OwnArtifact DEF UploaderRequests
<1>2. rank' = rank /\ sealed' = sealed
  BY DEF PartRead, UploadPart, AdvanceUpload, Idle, vm
<1> DEFINE moved == [r EXCEPT !.pc = "send", !.u = cursor[r.a].u, !.n = cursor[r.a].n]
<1>3. Ok(r) \/ Err(r) \/ Handler(r, "advance") \/ (req' = (req \ {r}) \cup {moved} /\ UNCHANGED agent)
  BY DEF PartRead, UploadPart, AdvanceUpload
<1>4. moved.k = r.k /\ moved.pc = "send"
  BY <1>1 DEF Requests
<1> HIDE DEF moved
<1>5. PICK t : t = moved
  OBVIOUS
<1>6. QED
  BY <1>1, <1>2, <1>3, <1>4, <1>5, UploaderAnswerRank, UploaderHandlerRank, UploaderMoveRank

LEMMA ObjectRank ==
  ASSUME ArchiveConstants, Acks \subseteq {TRUE}, RankInv, NEW r \in req,
         \/ ArtifactComplete(r) \/ PutEmpty(r) \/ HeadObject(r) \/ CompleteMultipart(r)
         \/ CheckObject(r) \/ MarkUploaded(r)
  PROVE  RankKept
<1>1. r \in Requests /\ r.a \in Artifacts /\ Parts[r.a] \in Nat
  <2>1. HandlerSound(r) /\ r \in Requests /\ (r.k \in UploaderRequests => r.a \in Artifacts)
    BY OwnArtifact DEF RankInv
  <2>2. r.k = "acomplete" \/ r.pc \in {"put", "head", "assemble", "check", "mark"}
    BY DEF ArtifactComplete, At, PutEmpty, HeadObject, CompleteMultipart, CheckObject, MarkUploaded
  <2>3. QED
    BY <2>1, <2>2 DEF HandlerSound, UploaderRequests, ArchiveConstants
<1>2. rank' = rank /\ sealed' = sealed
  BY DEF ArtifactComplete, PutEmpty, HeadObject, CompleteMultipart, CheckObject, MarkUploaded, Idle, vm
<1> DEFINE moved == [r EXCEPT !.pc = "head", !.u = cursor[r.a].u, !.n = cursor[r.a].n]
<1>3. \/ Ok(r) \/ Err(r) \/ Reply(r, "ok", Parts[r.a] + 1)
      \/ \E pc \in {"put", "assemble", "mark", "check"} : Handler(r, pc)
      \/ req' = (req \ {r}) \cup {moved} /\ UNCHANGED agent
  <2>1. CASE ArtifactComplete(r)
    BY <2>1 DEF ArtifactComplete
  <2>2. CASE PutEmpty(r)
    BY <2>2 DEF PutEmpty
  <2>3. CASE HeadObject(r) \/ CheckObject(r)
    BY <2>3 DEF HeadObject, CheckObject
  <2>4. CASE CompleteMultipart(r)
    BY <2>4 DEF CompleteMultipart
  <2>5. CASE MarkUploaded(r)
    BY <2>5 DEF MarkUploaded
  <2>6. QED
    BY <2>1, <2>2, <2>3, <2>4, <2>5
<1>4. moved.k = r.k /\ moved.pc = "head"
  BY <1>1 DEF Requests
<1> HIDE DEF moved
<1>5. CASE Ok(r) \/ Err(r)
  BY <1>1, <1>2, <1>5, UploaderAnswerRank
<1>6. CASE Reply(r, "ok", Parts[r.a] + 1)
  <2>1. Parts[r.a] + 1 \in 1..(Parts[r.a] + 1)
    BY <1>1
  <2>2. QED
    BY <1>1, <1>2, <1>6, <2>1, UploaderRank
<1>7. CASE \E pc \in {"put", "assemble", "mark", "check"} : Handler(r, pc)
  BY <1>1, <1>2, <1>7, UploaderHandlerRank
<1>8. CASE req' = (req \ {r}) \cup {moved} /\ UNCHANGED agent
  <2>1. PICK t : t = moved
    OBVIOUS
  <2>2. QED
    BY <1>1, <1>2, <1>4, <1>8, <2>1, UploaderMoveRank
<1>9. QED
  BY <1>3, <1>5, <1>6, <1>7, <1>8

(* The handlers of the job's requests. *)
LEMMA JobAnswerRank ==
  ASSUME ArchiveConstants, Acks \subseteq {TRUE}, RankInv, NEW r \in req,
         rank' \in 0..4, rank' # rank => rank' = rank + 1, sealed' => rank' = 4,
         (Ok(r) /\ Reached(r, rank')) \/ Err(r)
  PROVE  RankKept
<1>1. r.a # "job" => 1 \in 1..(Parts[r.a] + 1)
  BY DEF RankInv, ArchiveInv, ArchiveTypes, Requests, ArchiveConstants
<1>2. CASE Ok(r) /\ Reached(r, rank')
  BY <1>1, <1>2, ReplyRank DEF Ok
<1>3. CASE Err(r)
  <2>1. Reply(r, "err", 1) /\ "err" # "ok"
    BY <1>3 DEF Err
  <2>2. QED
    BY <1>1, <2>1, ReplyRank
<1>4. QED
  BY <1>2, <1>3

LEMMA BeginRank ==
  ASSUME ArchiveConstants, Acks \subseteq {TRUE}, RankInv, NEW r \in req,
         BeginRead(r) \/ EnsureArtifactStates(r)
  PROVE  RankKept
<1>1. rank' = rank /\ sealed' = sealed /\ rank \in 0..4 /\ (sealed => rank = 4)
  BY DEF BeginRead, EnsureArtifactStates, Idle, vm, RankInv, ArchiveInv, ArchiveTypes
<1>2. r.k \in {"begin", "cast_begin"}
  BY DEF BeginRead, EnsureArtifactStates, RankInv, RequestRank
<1>3. CASE Handler(r, "ensure") \/ Handler(r, "archiving")
  BY <1>1, <1>2, <1>3, HandlerRank
<1>4. CASE Err(r)
  BY <1>1, <1>4, JobAnswerRank
<1>5. CASE sealed /\ Ok(r)
  <2>1. Reached(r, rank')
    BY <1>1, <1>2, <1>5 DEF Reached
  <2>2. QED
    BY <1>1, <1>5, <2>1, JobAnswerRank
<1>6. CASE Reply(r, "purged", 1)
  <2>1. r.a # "job" => 1 \in 1..(Parts[r.a] + 1)
    BY DEF RankInv, ArchiveInv, ArchiveTypes, Requests, ArchiveConstants
  <2>2. "purged" # "ok"
    OBVIOUS
  <2>3. QED
    BY <1>1, <1>6, <2>1, <2>2, ReplyRank
<1>7. QED
  BY <1>3, <1>4, <1>5, <1>6 DEF BeginRead, EnsureArtifactStates

LEMMA ArchivingRank ==
  ASSUME ArchiveConstants, Acks \subseteq {TRUE}, RankInv, NEW r \in req, TransitionToArchiving(r)
  PROVE  RankKept
<1>1. rank \in 0..4 /\ (sealed => rank = 4) /\ sealed' = sealed /\ r.k \in {"begin", "cast_begin"}
  BY DEF TransitionToArchiving, RankInv, RequestRank, ArchiveInv, ArchiveTypes
<1>2. rank' \in 0..4 /\ (rank' # rank => rank' = rank + 1) /\ (sealed' => rank' = 4)
  BY <1>1 DEF TransitionToArchiving
<1>3. (Ok(r) /\ rank' >= 1) \/ Err(r)
  BY <1>1 DEF TransitionToArchiving
<1>4. QED
  BY <1>1, <1>2, <1>3, JobAnswerRank DEF Reached

LEMMA StageRank ==
  ASSUME ArchiveConstants, Acks \subseteq {TRUE}, RankInv, NEW r \in req, ArchiveStage(r)
  PROVE  RankKept
<1>1. rank \in 0..4 /\ (sealed => rank = 4) /\ sealed' = sealed /\ r.k \in {"raw_stage", "replay_stage"}
  BY DEF ArchiveStage, RankInv, ArchiveInv, ArchiveTypes
<1>2. rank' \in 0..4 /\ (rank' # rank => rank' = rank + 1) /\ (sealed' => rank' = 4)
  BY <1>1 DEF ArchiveStage
<1>3. CASE Err(r)
  BY <1>2, <1>3, JobAnswerRank
<1>4. CASE Ok(r) /\ rank' = IF rank = (IF r.k = "raw_stage" THEN 2 ELSE 3) - 1
                            THEN (IF r.k = "raw_stage" THEN 2 ELSE 3) ELSE rank
  <2>1. CASE r.live
    <3>1. job.pc = r.k
      BY <1>1, <2>1 DEF RankInv, ArchiveInv, AgentSound, JobRequests
    <3>2. rank >= 1 /\ (r.k = "replay_stage" => rank >= 2)
      BY <1>1, <3>1 DEF RankInv, JobRank
    <3>3. Reached(r, rank')
      BY <1>1, <1>4, <3>2 DEF Reached
    <3>4. QED
      BY <1>2, <1>4, <3>3, JobAnswerRank
  <2>2. CASE ~r.live \* nobody waits for the answer
    <3>1. Reply(r, "err", 1)
      BY <1>4, <2>2 DEF Ok, Reply
    <3>2. QED
      BY <1>2, <3>1, JobAnswerRank DEF Err
  <2>3. QED
    BY <2>1, <2>2
<1>5. QED
  BY <1>3, <1>4 DEF ArchiveStage

LEMMA TimelineRank ==
  ASSUME ArchiveConstants, Acks \subseteq {TRUE}, RankInv, NEW r \in req,
         TimelineRead(r) \/ PublishTimeline(r)
  PROVE  RankKept
<1>1. rank' = rank /\ sealed' = sealed /\ rank \in 0..4 /\ (sealed => rank = 4)
  BY DEF TimelineRead, PublishTimeline, Idle, vm, RankInv, ArchiveInv, ArchiveTypes
<1>2. r.k = "timeline"
  BY DEF TimelineRead, PublishTimeline, At, RankInv, RequestRank
<1>3. Handler(r, "publish") \/ Ok(r) \/ Err(r)
  BY DEF TimelineRead, PublishTimeline
<1>4. QED
  BY <1>1, <1>2, <1>3, HandlerRank, JobAnswerRank DEF Reached

LEMMA CompletionRank ==
  ASSUME ArchiveConstants, Acks \subseteq {TRUE}, RankInv, NEW r \in req, RunComplete(r) \/ Seal(r)
  PROVE  RankKept
<1>1. rank \in 0..4 /\ (sealed => rank = 4) /\ r.k = "complete" /\ rank >= 3
  BY DEF RunComplete, Seal, At, RankInv, RequestRank, ArchiveInv, ArchiveTypes
<1>2. Reached(r, rank')
  BY <1>1 DEF Reached
<1>3. CASE RunComplete(r)
  <2>1. rank' = rank /\ sealed' = sealed /\ (Handler(r, "seal") \/ Err(r))
    BY <1>3 DEF RunComplete, Idle, vm
  <2>2. QED
    BY <1>1, <2>1, HandlerRank, JobAnswerRank
<1>4. CASE Seal(r)
  <2>1. rank' \in 0..4 /\ (rank' # rank => rank' = rank + 1) /\ (sealed' => rank' = 4)
    <3>1. CASE ~Gone /\ AllUploaded
      BY <1>1, <1>4, <3>1 DEF Seal
    <3>2. CASE ~(~Gone /\ AllUploaded)
      BY <1>1, <1>4, <3>2 DEF Seal
    <3>3. QED
      BY <3>1, <3>2
  <2>2. Ok(r) \/ Err(r)
    BY <1>4 DEF Seal
  <2>3. QED
    BY <1>2, <2>1, <2>2, JobAnswerRank
<1>5. QED
  BY <1>3, <1>4

(* The agent's own steps leave the rank alone. *)
LEMMA AgentRank == ASSUME ArchiveConstants, ~Late, RankInv, Agent PROVE RankKept
<1>1. /\ rank' = rank /\ sealed' = sealed /\ job \in JobType /\ JobRank(job, rank) /\ rank \in 0..4
      /\ (sealed => rank = 4) /\ \A s \in req : RequestRank(s, rank)
  BY DEF Agent, Attempt, SetUploaded, Render, SendJobRequest, StartUpload, vm, RankInv, ArchiveInv,
         ArchiveTypes, JobType
<1>2. CASE Attempt
  <2>1. job'.pc = "begin" /\ req' = req
    BY <1>1, <1>2 DEF Attempt, JobType
  <2>2. QED
    BY <1>1, <2>1 DEF RankKept, JobRank, MilestonesInOrderStep
<1>3. CASE SetUploaded
  <2>1. req' = req
    BY <1>3 DEF SetUploaded
  <2>2. \/ job.pc = "raw" /\ job'.pc = "raw_stage" /\ job'.prog = job.prog
        \/ job.pc = "cast" /\ job'.pc = "timeline" /\ job'.prog = job.prog /\ job'.rprog = job.rprog
    BY <1>1, <1>3 DEF SetUploaded, Observed, JobType, JobRank
  <2>3. JobRank(job', rank')
    BY <1>1, <2>2 DEF JobRank
  <2>4. QED
    BY <1>1, <2>1, <2>3 DEF RankKept, MilestonesInOrderStep
<1>4. CASE Render
  <2>1. req' = req
    BY <1>4 DEF Render
  <2>2. job.pc = "render" /\ job'.pc \in {"cast_begin", "replay_stage"} /\ job'.prog = job.prog
    BY <1>1, <1>4 DEF Render, JobType, JobRank
  <2>3. JobRank(job', rank')
    BY <1>1, <2>2 DEF JobRank
  <2>4. QED
    BY <1>1, <2>1, <2>3 DEF RankKept, MilestonesInOrderStep
<1>5. CASE SendJobRequest
  <2> DEFINE t == Request(job.pc, "job", 0)
  <2>1. job' = job /\ req' = req \cup {t} /\ t.k = job.pc /\ t.pc = "new"
    BY <1>5 DEF SendJobRequest, agent, Request
  <2>2. RequestRank(t, rank)
    BY <1>1, <2>1 DEF RequestRank, JobRank
  <2> HIDE DEF t
  <2>3. QED
    BY <1>1, <2>1, <2>2 DEF RankKept, MilestonesInOrderStep
<1>6. ASSUME NEW a \in Artifacts, StartUpload(a) PROVE RankKept
  <2> DEFINE t == Request("mbegin", a, 0)
  <2>1. job' = job /\ req' = req \cup {t} /\ t.k = "mbegin" /\ t.pc = "new"
    BY <1>6 DEF StartUpload, agent, Request
  <2>2. RequestRank(t, rank)
    BY <2>1 DEF RequestRank
  <2> HIDE DEF t
  <2>3. QED
    BY <1>1, <2>1, <2>2 DEF RankKept, MilestonesInOrderStep
<1>7. QED
  BY <1>2, <1>3, <1>4, <1>5, <1>6 DEF Agent

LEMMA AbandonRank == ASSUME RankInv, Abandon PROVE RankKept
<1>1. /\ rank' = rank /\ sealed' = sealed /\ job \in JobType /\ rank \in 0..4 /\ (sealed => rank = 4)
      /\ req \subseteq Requests /\ \A s \in req : RequestRank(s, rank)
  BY DEF Abandon, vm, RankInv, ArchiveInv, ArchiveTypes, JobType
<1>2. job'.pc = "due" /\ req' = {[x EXCEPT !.live = FALSE] : x \in req}
  BY <1>1 DEF Abandon, Fail, Abandoned, JobType
<1>3. \A s \in req' : \E x \in req : s.k = x.k /\ s.pc = x.pc
  BY <1>1, <1>2 DEF Requests
<1>4. \A s \in req' : RequestRank(s, rank)
  BY <1>1, <1>3 DEF RequestRank
<1>5. QED
  BY <1>1, <1>2, <1>4 DEF RankKept, JobRank, MilestonesInOrderStep

LEMMA RankStep ==
  ASSUME ArchiveConstants, ~Late, Acks \subseteq {TRUE}, RankInv, [ArchiveNext]_archiveVars
  PROVE  RankKept /\ RankInv'
<1>1. RankKept
  <2>1. CASE Agent
    BY <2>1, AgentRank
  <2>2. ASSUME NEW r \in req, Handle(r) PROVE RankKept
    BY <2>2, BeginRank, ArchivingRank, MultipartRank, PartRank, ObjectRank, StageRank, TimelineRank,
       CompletionRank DEF Handle
  <2>3. CASE Abandon
    BY <2>3, AbandonRank
  <2>4. CASE DeleteRun \/ UNCHANGED archiveVars
    <3>1. UNCHANGED <<job, req, rank, sealed>>
      BY <2>4 DEF DeleteRun, archiveVars, agent, vm
    <3>2. QED
      BY <3>1 DEF RankInv, RankKept, MilestonesInOrderStep
  <2>5. QED
    BY <2>1, <2>2, <2>3, <2>4 DEF ArchiveNext, Control
<1>2. ArchiveInv'
  BY ArchiveStepKept DEF RankInv
<1>3. QED
  BY <1>1, <1>2 DEF RankKept, RankInv

(* The milestones of a VM's archive, under a deployment that grants progress *)
(* and if no request outlives the retry delay: each report moves the rank by *)
(* one or not at all, through retries, restarts and the deletion of the run. *)
THEOREM MilestonesCorrect ==
  ASSUME ArchiveConstants, ~Late, Acks \subseteq {TRUE} PROVE ArchiveSpec => MilestonesInOrder
<1>1. ArchiveInit => RankInv
  <2>1. ArchiveInit => req = {} /\ rank = 0 /\ sealed = FALSE /\ job.pc = "due" /\ ~job.prog /\ ~job.rprog
    BY DEF ArchiveInit
  <2>2. QED
    BY <2>1, InitArchive DEF RankInv, JobRank
<1>2. RankInv /\ [ArchiveNext]_archiveVars => RankInv'
  BY RankStep
<1>3. RankInv /\ [ArchiveNext]_archiveVars => MilestonesInOrderStep
  BY RankStep DEF RankKept
<1>4. RankInv /\ [ArchiveNext]_archiveVars => [MilestonesInOrderStep]_archiveVars
  BY <1>3
<1>5. QED
  BY <1>1, <1>2, <1>4, PTL DEF ArchiveSpec, MilestonesInOrder

-----------------------------------------------------------------------------
(***************************************************************************)
(* The build queue of the control plane.                                   *)
(***************************************************************************)

RowSet == [status : Statuses, phase : Phases, host : Hosts \cup {NoHost},
           superseded : BOOLEAN, retired : BOOLEAN]

\* A bound is spent at most up to its constant.
LEMMA SpendKeeps ==
  ASSUME SchedulerConstants, SchedulerTypes, NEW k \in DOMAIN Bounds, Spend(k)
  PROVE  /\ used' \in [DOMAIN Bounds -> Nat]
         /\ \A j \in DOMAIN Bounds : used'[j] <= Bounds[j]
<1>1. /\ \A j \in DOMAIN Bounds : Bounds[j] \in Nat
  BY DEF SchedulerConstants, Bounds
<1>2. used \in [DOMAIN Bounds -> Nat] /\ \A j \in DOMAIN Bounds : used[j] <= Bounds[j]
  BY DEF SchedulerTypes
<1>3. DOMAIN Bounds # {} /\ used[k] < Bounds[k] /\ used' = [used EXCEPT ![k] = @ + 1]
  BY DEF Spend
<1>4. used[k] + 1 <= Bounds[k] BY <1>1, <1>2, <1>3
<1> HIDE DEF Bounds
<1> QED BY <1>1, <1>2, <1>3, <1>4

LEMMA BoundNames ==
  {"bundles", "outages", "damaged", "silent", "retries", "retired", "faults", "lost"} = DOMAIN Bounds
BY DEF Bounds

\* The kinds of the variables, by variable.
PassSet == {NoPass} \cup [at : {"claim", "publish", "recheck", "undo"}, build : Builds, host : Hosts]
OpSet == {NoOp} \cup [at : {"unretire", "requeue", "reassign", "remove"},
                      host : Hosts \cup {NoHost}, ids : SUBSET Builds]
RecSet == {NoOp} \cup [at : {"write", "check"}, host : Hosts, ids : SUBSET Builds]
OpOf(o, f) == /\ o \in OpSet
              /\ \A b \in o.ids : Family[b] = f
              /\ o.at \in {"reassign", "remove"} => o.host \in Hosts
RowPart == row \in [Builds -> RowSet]
DesiredPart == desired \in [Hosts -> [ids : SUBSET Builds, sent : BOOLEAN]]
ConnPart == conn \in [Hosts -> {"up", "down", "late"}]
PassPart == pass \in [Passes -> PassSet]
OpPart == op \in [Families -> OpSet] /\ \A f \in Families : OpOf(op[f], f)
RecPart == rec \in [Hosts -> RecSet]
TermPart == term \in [Hosts -> SUBSET Builds]
JobsPart == jobs \in [Hosts -> [Builds -> Phases \cup {"none"}]]
UsedPart == used \in [DOMAIN Bounds -> Nat] /\ \A k \in DOMAIN Bounds : used[k] <= Bounds[k]

LEMMA TypesByPart ==
  SchedulerTypes <=> /\ RowPart /\ DesiredPart /\ ConnPart /\ PassPart /\ OpPart
                     /\ RecPart /\ TermPart /\ JobsPart /\ UsedPart
BY DEF SchedulerTypes, RowPart, DesiredPart, ConnPart, PassPart, OpPart, RecPart, TermPart, JobsPart,
       UsedPart, RowSet, PassSet, OpSet, RecSet, OpOf

\* What is not idle is a record of its kind.
LEMMA PassAt ==
  ASSUME PassPart, NEW p \in Passes, pass[p].at # "idle"
  PROVE  /\ pass[p] \in [at : {"claim", "publish", "recheck", "undo"}, build : Builds, host : Hosts]
         /\ pass[p].build \in Builds /\ pass[p].host \in Hosts
BY DEF PassPart, PassSet, NoPass

LEMMA OpAt ==
  ASSUME OpPart, NEW f \in Families, op[f].at # "idle"
  PROVE  /\ op[f] \in [at : {"unretire", "requeue", "reassign", "remove"},
                       host : Hosts \cup {NoHost}, ids : SUBSET Builds]
         /\ op[f].ids \subseteq Builds /\ \A b \in op[f].ids : Family[b] = f
         /\ op[f].at \in {"reassign", "remove"} => op[f].host \in Hosts
BY DEF OpPart, OpSet, OpOf, NoOp

LEMMA RecAt ==
  ASSUME RecPart, NEW h \in Hosts
  PROVE  /\ rec[h].at # "idle" => rec[h] \in [at : {"write", "check"}, host : Hosts, ids : SUBSET Builds]
         /\ rec[h].ids \subseteq Builds
BY DEF RecPart, RecSet, NoOp

\* The edits of a row give rows.
LEMMA RowEdits ==
  ASSUME NEW r \in RowSet
  PROVE  /\ Requeued(r) \in RowSet
         /\ [Requeued(r) EXCEPT !.superseded = FALSE] \in RowSet
         /\ [r EXCEPT !.status = "stale", !.superseded = TRUE] \in RowSet
         /\ [r EXCEPT !.status = "stale", !.superseded = FALSE] \in RowSet
         /\ [r EXCEPT !.retired = FALSE] \in RowSet
         /\ [r EXCEPT !.retired = TRUE] \in RowSet
BY DEF RowSet, Requeued, Statuses, Phases

LEMMA RowMoves ==
  ASSUME NEW r \in RowSet
  PROVE  /\ \A h \in Hosts : [r EXCEPT !.status = "assigned", !.phase = "queued", !.host = h] \in RowSet
         /\ \A ph \in Phases : [r EXCEPT !.phase = ph, !.status = StatusOf(ph)] \in RowSet
BY DEF RowSet, Statuses, Phases, StatusOf

\* A document that a builder is told is a set of builds.
LEMMA RewriteKeeps ==
  ASSUME DesiredPart, NEW h \in Hosts, NEW ids \in SUBSET Builds
  PROVE  /\ Rewritten(h, ids) \in [ids : SUBSET Builds, sent : BOOLEAN]
         /\ Rewritten(h, ids).ids = ids
         /\ WriteDesired(h, ids) =>
              /\ desired' \in [Hosts -> [ids : SUBSET Builds, sent : BOOLEAN]]
              /\ desired'[h].ids = ids
              /\ \A g \in Hosts \ {h} : desired'[g] = desired[g]
<1>1. (desired[h].sent /\ ids = desired[h].ids) \in BOOLEAN
  OBVIOUS
<1>2. Rewritten(h, ids) \in [ids : SUBSET Builds, sent : BOOLEAN] /\ Rewritten(h, ids).ids = ids
  BY <1>1 DEF Rewritten
<1>3. ASSUME WriteDesired(h, ids)
      PROVE  /\ desired' \in [Hosts -> [ids : SUBSET Builds, sent : BOOLEAN]]
             /\ desired'[h].ids = ids
             /\ \A g \in Hosts \ {h} : desired'[g] = desired[g]
  BY <1>2, <1>3 DEF DesiredPart, WriteDesired
<1> QED BY <1>2, <1>3

\* Every action keeps the kinds of the variables.
LEMMA TypesStep ==
  ASSUME SchedulerConstants, SchedulerTypes, SchedulerNext
  PROVE  SchedulerTypes'
<1>a. /\ RowPart /\ DesiredPart /\ ConnPart /\ PassPart /\ OpPart
      /\ RecPart /\ TermPart /\ JobsPart /\ UsedPart
  BY TypesByPart
<1> DEFINE AllParts == /\ RowPart /\ DesiredPart /\ ConnPart /\ PassPart /\ OpPart
                   /\ RecPart /\ TermPart /\ JobsPart /\ UsedPart
<1>1. ASSUME NEW b \in Builds, QueueBundle(b) PROVE AllParts'
  <2>1. UsedPart'
    BY <1>a, <1>1, SpendKeeps, BoundNames DEF QueueBundle, UsedPart
  <2>2. DesiredPart'
    BY <1>a, <1>1, RewriteKeeps DEF QueueBundle, DesiredPart
  <2>3. RowPart'
    <3>1. \A c \in Builds : row[c] \in RowSet
      BY <1>a DEF RowPart
    <3>2. \A c \in Builds : row'[c] \in RowSet
      BY <1>a, <3>1, <1>1, RowEdits DEF QueueBundle
    <3> QED BY <1>a, <3>2, <1>1 DEF QueueBundle, RowPart
  <2>4. OpPart'
    BY <1>a, <1>1 DEF QueueBundle, OpPart, OpSet, OpOf, NoOp, Families
  <2>5. ConnPart' /\ PassPart' /\ RecPart' /\ TermPart' /\ JobsPart'
    BY <1>a, <1>1 DEF QueueBundle, ConnPart, PassPart, RecPart, TermPart, JobsPart
  <2> QED BY <2>1, <2>2, <2>3, <2>4, <2>5
<1>2. ASSUME NEW b \in Builds, Retire(b) PROVE AllParts'
  <2>1. UsedPart'
    BY <1>a, <1>2, SpendKeeps, BoundNames DEF Retire, UsedPart
  <2>2. RowPart'
    <3>1. row' = [row EXCEPT ![b] = [@ EXCEPT !.retired = TRUE]]
      BY <1>a, <1>2 DEF Retire
    <3> QED BY <1>a, <3>1, RowEdits DEF RowPart
  <2>3. DesiredPart' /\ ConnPart' /\ PassPart' /\ OpPart' /\ RecPart' /\ TermPart' /\ JobsPart'
    BY <1>a, <1>2 DEF Retire, DesiredPart, ConnPart, PassPart, OpPart, RecPart, TermPart, JobsPart
  <2> QED BY <2>1, <2>2, <2>3
<1>3. ASSUME NEW b \in Builds, RetryBuild(b) PROVE AllParts'
  <2>1. UsedPart'
    BY <1>a, <1>3, SpendKeeps, BoundNames DEF RetryBuild, UsedPart
  <2>2. DesiredPart'
    BY <1>a, <1>3, RewriteKeeps DEF RetryBuild, DesiredPart, RemoveDesired, RowPart, RowSet
  <2>3. OpPart'
    BY <1>a, <1>3 DEF RetryBuild, OpPart, OpSet, OpOf, NoOp, Families
  <2>4. RowPart' /\ ConnPart' /\ PassPart' /\ RecPart' /\ TermPart' /\ JobsPart'
    BY <1>a, <1>3 DEF RetryBuild, RowPart, ConnPart, PassPart, RecPart, TermPart, JobsPart
  <2> QED BY <2>1, <2>2, <2>3, <2>4
<1>4. ASSUME NEW f \in Families, ClearRetired(f) PROVE AllParts'
  <2>1. RowPart'
    <3>1. \A c \in Builds : row[c] \in RowSet
      BY <1>a DEF RowPart
    <3>2. \A c \in Builds : row'[c] \in RowSet
      BY <1>a, <3>1, <1>4, RowEdits DEF ClearRetired
    <3> QED BY <1>a, <3>2, <1>4 DEF ClearRetired, RowPart
  <2>2. OpPart'
    BY <1>a, <1>4 DEF ClearRetired, OpPart, OpSet, OpOf, NoOp, Families
  <2>3. DesiredPart' /\ ConnPart' /\ PassPart' /\ RecPart' /\ TermPart' /\ JobsPart' /\ UsedPart'
    BY <1>a, <1>4 DEF ClearRetired, DesiredPart, ConnPart, PassPart, RecPart, TermPart, JobsPart, UsedPart
  <2> QED BY <2>1, <2>2, <2>3
<1>5. ASSUME NEW f \in Families, CommitRetry(f) PROVE AllParts'
  <2>1. RowPart'
    <3>1. \A c \in Builds : row[c] \in RowSet
      BY <1>a DEF RowPart
    <3>2. \A c \in Builds : row'[c] \in RowSet
      BY <1>a, <3>1, <1>5, RowEdits DEF CommitRetry
    <3> QED BY <1>a, <3>2, <1>5 DEF CommitRetry, RowPart
  <2>2. OpPart'
    BY <1>a, <1>5 DEF CommitRetry, OpPart, OpSet, OpOf, NoOp, Families
  <2>3. DesiredPart' /\ ConnPart' /\ PassPart' /\ RecPart' /\ TermPart' /\ JobsPart' /\ UsedPart'
    BY <1>a, <1>5 DEF CommitRetry, DesiredPart, ConnPart, PassPart, RecPart, TermPart, JobsPart, UsedPart
  <2> QED BY <2>1, <2>2, <2>3
<1>6. ASSUME NEW f \in Families, CommitRequeue(f) PROVE AllParts'
  <2>1. RowPart'
    <3>1. \A c \in Builds : row[c] \in RowSet
      BY <1>a DEF RowPart
    <3>2. \A c \in Builds : row'[c] \in RowSet
      BY <1>a, <3>1, <1>6, RowEdits DEF CommitRequeue
    <3> QED BY <1>a, <3>2, <1>6 DEF CommitRequeue, RowPart
  <2>2. OpPart'
    <3>1. op[f].at = "reassign"
      BY <1>6 DEF CommitRequeue
    <3>2. /\ op[f] \in [at : {"unretire", "requeue", "reassign", "remove"},
                      host : Hosts \cup {NoHost}, ids : SUBSET Builds]
          /\ op[f].ids \subseteq Builds /\ \A b \in op[f].ids : Family[b] = f
          /\ op[f].host \in Hosts
      BY <1>a, <3>1, OpAt
    <3>3. PICK ids \in SUBSET op[f].ids : op' = [op EXCEPT ![f] = [@ EXCEPT !.at = "remove", !.ids = ids]]
      BY <1>6 DEF CommitRequeue
    <3>4. op \in [Families -> OpSet] /\ \A g \in Families : OpOf(op[g], g)
      BY <1>a DEF OpPart
    <3>5. op'[f] = [op[f] EXCEPT !.at = "remove", !.ids = ids] /\ \A g \in Families \ {f} : op'[g] = op[g]
      BY <3>3, <3>4
    <3>6. OpOf(op'[f], f)
      BY <3>2, <3>5 DEF OpOf, OpSet
    <3>7. \A g \in Families : OpOf(op'[g], g)
      BY <3>4, <3>5, <3>6
    <3>8. op' \in [Families -> OpSet]
      BY <3>3, <3>4, <3>6 DEF OpOf
    <3> QED BY <3>7, <3>8 DEF OpPart
  <2>3. DesiredPart' /\ ConnPart' /\ PassPart' /\ RecPart' /\ TermPart' /\ JobsPart' /\ UsedPart'
    BY <1>a, <1>6 DEF CommitRequeue, DesiredPart, ConnPart, PassPart, RecPart, TermPart, JobsPart, UsedPart
  <2> QED BY <2>1, <2>2, <2>3
<1>7. ASSUME NEW f \in Families, RemoveMoved(f) PROVE AllParts'
  <2>1. DesiredPart'
    BY <1>a, <1>7, OpAt, RewriteKeeps DEF RemoveMoved, DesiredPart, RemoveDesired
  <2>2. OpPart'
    BY <1>a, <1>7 DEF RemoveMoved, OpPart, OpSet, OpOf, NoOp, Families
  <2>3. RowPart' /\ ConnPart' /\ PassPart' /\ RecPart' /\ TermPart' /\ JobsPart' /\ UsedPart'
    BY <1>a, <1>7 DEF RemoveMoved, RowPart, ConnPart, PassPart, RecPart, TermPart, JobsPart, UsedPart
  <2> QED BY <2>1, <2>2, <2>3
<1>8. ASSUME NEW f \in Families, LoseOp(f) PROVE AllParts'
  <2>1. UsedPart'
    BY <1>a, <1>8, SpendKeeps, BoundNames DEF LoseOp, UsedPart
  <2>2. OpPart'
    BY <1>a, <1>8 DEF LoseOp, OpPart, OpSet, OpOf, NoOp, Families
  <2>3. RowPart' /\ DesiredPart' /\ ConnPart' /\ PassPart' /\ RecPart' /\ TermPart' /\ JobsPart'
    BY <1>a, <1>8 DEF LoseOp, RowPart, DesiredPart, ConnPart, PassPart, RecPart, TermPart, JobsPart
  <2> QED BY <2>1, <2>2, <2>3
<1>9. ASSUME NEW p \in Passes, ClaimBuild(p) PROVE AllParts'
  <2>1. RowPart'
    <3>1. pass[p].build \in Builds /\ pass[p].host \in Hosts
      BY <1>a, <1>9, PassAt DEF ClaimBuild
    <3>2. row[pass[p].build] \in RowSet
      BY <1>a, <3>1 DEF RowPart
    <3>3. CASE row' = row
      BY <1>a, <3>3 DEF RowPart
    <3>4. CASE row' = [row EXCEPT ![pass[p].build] = [@ EXCEPT !.status = "assigned", !.phase = "queued", !.host = pass[p].host]]
      BY <1>a, <3>1, <3>2, <3>4, RowMoves DEF RowPart
    <3> QED BY <1>a, <1>9, <3>3, <3>4 DEF ClaimBuild
  <2>2. PassPart'
    BY <1>a, <1>9, PassAt DEF ClaimBuild, PassPart, PassSet
  <2>3. DesiredPart' /\ ConnPart' /\ OpPart' /\ RecPart' /\ TermPart' /\ JobsPart' /\ UsedPart'
    BY <1>a, <1>9 DEF ClaimBuild, DesiredPart, ConnPart, OpPart, RecPart, TermPart, JobsPart, UsedPart
  <2> QED BY <2>1, <2>2, <2>3
<1>10. ASSUME NEW p \in Passes, PublishDesired(p) PROVE AllParts'
  <2>1. DesiredPart'
    BY <1>a, <1>10, PassAt, RewriteKeeps DEF PublishDesired, DesiredPart, RemoveDesired
  <2>2. PassPart'
    BY <1>a, <1>10, PassAt DEF PublishDesired, PassPart, PassSet
  <2>3. RowPart' /\ ConnPart' /\ OpPart' /\ RecPart' /\ TermPart' /\ JobsPart' /\ UsedPart'
    BY <1>a, <1>10 DEF PublishDesired, RowPart, ConnPart, OpPart, RecPart, TermPart, JobsPart, UsedPart
  <2> QED BY <2>1, <2>2, <2>3
<1>11. ASSUME NEW p \in Passes, DeferDesired(p) PROVE AllParts'
  <2>1. UsedPart'
    BY <1>a, <1>11, SpendKeeps, BoundNames DEF DeferDesired, UsedPart
  <2>2. PassPart'
    BY <1>a, <1>11, PassAt DEF DeferDesired, PassPart, PassSet
  <2>3. RowPart' /\ DesiredPart' /\ ConnPart' /\ OpPart' /\ RecPart' /\ TermPart' /\ JobsPart'
    BY <1>a, <1>11 DEF DeferDesired, RowPart, DesiredPart, ConnPart, OpPart, RecPart, TermPart, JobsPart
  <2> QED BY <2>1, <2>2, <2>3
<1>12. ASSUME NEW p \in Passes, RecheckAssignment(p) PROVE AllParts'
  <2>1. PassPart'
    BY <1>a, <1>12, PassAt DEF RecheckAssignment, PassPart, PassSet
  <2>2. RowPart' /\ DesiredPart' /\ ConnPart' /\ OpPart' /\ RecPart' /\ TermPart' /\ JobsPart' /\ UsedPart'
    BY <1>a, <1>12 DEF RecheckAssignment, RowPart, DesiredPart, ConnPart, OpPart, RecPart, TermPart, JobsPart, UsedPart
  <2> QED BY <2>1, <2>2
<1>13. ASSUME NEW p \in Passes, UndoDesired(p) PROVE AllParts'
  <2>1. DesiredPart'
    BY <1>a, <1>13, PassAt, RewriteKeeps DEF UndoDesired, DesiredPart, RemoveDesired
  <2>2. PassPart'
    BY <1>a, <1>13, PassAt DEF UndoDesired, PassPart, PassSet
  <2>3. RowPart' /\ ConnPart' /\ OpPart' /\ RecPart' /\ TermPart' /\ JobsPart' /\ UsedPart'
    BY <1>a, <1>13 DEF UndoDesired, RowPart, ConnPart, OpPart, RecPart, TermPart, JobsPart, UsedPart
  <2> QED BY <2>1, <2>2, <2>3
<1>14. ASSUME NEW p \in Passes, LosePass(p) PROVE AllParts'
  <2>1. UsedPart'
    BY <1>a, <1>14, SpendKeeps, BoundNames DEF LosePass, UsedPart
  <2>2. PassPart'
    BY <1>a, <1>14, PassAt DEF LosePass, PassPart, PassSet
  <2>3. RowPart' /\ DesiredPart' /\ ConnPart' /\ OpPart' /\ RecPart' /\ TermPart' /\ JobsPart'
    BY <1>a, <1>14 DEF LosePass, RowPart, DesiredPart, ConnPart, OpPart, RecPart, TermPart, JobsPart
  <2> QED BY <2>1, <2>2, <2>3
<1>15. ASSUME NEW p \in Passes, NEW b \in Builds, NEW h \in Hosts, ReadQueue(p, b, h) PROVE AllParts'
  <2>1. PassPart'
    BY <1>a, <1>15, PassAt DEF ReadQueue, PassPart, PassSet
  <2>2. RowPart' /\ DesiredPart' /\ ConnPart' /\ OpPart' /\ RecPart' /\ TermPart' /\ JobsPart' /\ UsedPart'
    BY <1>a, <1>15 DEF ReadQueue, RowPart, DesiredPart, ConnPart, OpPart, RecPart, TermPart, JobsPart, UsedPart
  <2> QED BY <2>1, <2>2
<1>16. ASSUME NEW h \in Hosts, NEW f \in Families, RequeueAssigned(h, f) PROVE AllParts'
  <2>1. OpPart'
    BY <1>a, <1>16 DEF RequeueAssigned, OpPart, OpSet, OpOf, NoOp, Families, ActiveOn
  <2>2. RowPart' /\ DesiredPart' /\ ConnPart' /\ PassPart' /\ RecPart' /\ TermPart' /\ JobsPart' /\ UsedPart'
    BY <1>a, <1>16 DEF RequeueAssigned, RowPart, DesiredPart, ConnPart, PassPart, RecPart, TermPart, JobsPart, UsedPart
  <2> QED BY <2>1, <2>2
<1>17. ASSUME NEW h \in Hosts, NEW f \in Families, MarkStale(h, f) PROVE AllParts'
  <2>1. UsedPart'
    BY <1>a, <1>17, SpendKeeps, BoundNames DEF MarkStale, UsedPart
  <2>2. RowPart'
    <3>1. \A c \in Builds : row[c] \in RowSet
      BY <1>a DEF RowPart
    <3>2. \A c \in Builds : row'[c] \in RowSet
      BY <1>a, <3>1, <1>17, RowEdits DEF MarkStale
    <3> QED BY <1>a, <3>2, <1>17 DEF MarkStale, RowPart
  <2>3. OpPart'
    BY <1>a, <1>17 DEF MarkStale, OpPart, OpSet, OpOf, NoOp, Families, ActiveOn
  <2>4. DesiredPart' /\ ConnPart' /\ PassPart' /\ RecPart' /\ TermPart' /\ JobsPart'
    BY <1>a, <1>17 DEF MarkStale, DesiredPart, ConnPart, PassPart, RecPart, TermPart, JobsPart
  <2> QED BY <2>1, <2>2, <2>3, <2>4
<1>18. ASSUME NEW h \in Hosts, ReadAssignments(h) PROVE AllParts'
  <2>1. RecPart'
    BY <1>a, <1>18, RecAt DEF ReadAssignments, RecPart, RecSet, ActiveOn
  <2>2. RowPart' /\ DesiredPart' /\ ConnPart' /\ PassPart' /\ OpPart' /\ TermPart' /\ JobsPart' /\ UsedPart'
    BY <1>a, <1>18 DEF ReadAssignments, RowPart, DesiredPart, ConnPart, PassPart, OpPart, TermPart, JobsPart, UsedPart
  <2> QED BY <2>1, <2>2
<1>19. ASSUME NEW h \in Hosts, WriteAssignments(h) PROVE AllParts'
  <2>1. DesiredPart'
    BY <1>a, <1>19, RecAt, RewriteKeeps DEF WriteAssignments, DesiredPart, RemoveDesired, TermPart
  <2>2. RecPart'
    BY <1>a, <1>19, RecAt DEF WriteAssignments, RecPart, RecSet, ActiveOn
  <2>3. RowPart' /\ ConnPart' /\ PassPart' /\ OpPart' /\ TermPart' /\ JobsPart' /\ UsedPart'
    BY <1>a, <1>19 DEF WriteAssignments, RowPart, ConnPart, PassPart, OpPart, TermPart, JobsPart, UsedPart
  <2> QED BY <2>1, <2>2, <2>3
<1>20. ASSUME NEW h \in Hosts, DropSuperseded(h) PROVE AllParts'
  <2>1. DesiredPart'
    BY <1>a, <1>20, RecAt, RewriteKeeps DEF DropSuperseded, DesiredPart, RemoveDesired, TermPart
  <2>2. RecPart'
    BY <1>a, <1>20, RecAt DEF DropSuperseded, RecPart, RecSet, ActiveOn
  <2>3. RowPart' /\ ConnPart' /\ PassPart' /\ OpPart' /\ TermPart' /\ JobsPart' /\ UsedPart'
    BY <1>a, <1>20 DEF DropSuperseded, RowPart, ConnPart, PassPart, OpPart, TermPart, JobsPart, UsedPart
  <2> QED BY <2>1, <2>2, <2>3
<1>21. ASSUME NEW h \in Hosts, ApplyDesired(h) PROVE AllParts'
  <2>1. DesiredPart'
    BY <1>a, <1>21 DEF ApplyDesired, DesiredPart
  <2>2. JobsPart'
    BY <1>a, <1>21 DEF ApplyDesired, JobsPart, Phases
  <2>3. RowPart' /\ ConnPart' /\ PassPart' /\ OpPart' /\ RecPart' /\ TermPart' /\ UsedPart'
    BY <1>a, <1>21 DEF ApplyDesired, RowPart, ConnPart, PassPart, OpPart, RecPart, TermPart, UsedPart
  <2> QED BY <2>1, <2>2, <2>3
<1>22. ASSUME NEW h \in Hosts, RemoveTerminal(h) PROVE AllParts'
  <2>1. DesiredPart'
    BY <1>a, <1>22, RecAt, RewriteKeeps DEF RemoveTerminal, DesiredPart, RemoveDesired, TermPart
  <2>2. TermPart'
    BY <1>a, <1>22 DEF RemoveTerminal, TermPart
  <2>3. RowPart' /\ ConnPart' /\ PassPart' /\ OpPart' /\ RecPart' /\ JobsPart' /\ UsedPart'
    BY <1>a, <1>22 DEF RemoveTerminal, RowPart, ConnPart, PassPart, OpPart, RecPart, JobsPart, UsedPart
  <2> QED BY <2>1, <2>2, <2>3
<1>23. ASSUME NEW h \in Hosts, Disconnect(h) PROVE AllParts'
  <2>1. UsedPart'
    BY <1>a, <1>23, SpendKeeps, BoundNames DEF Disconnect, UsedPart
  <2>2. ConnPart'
    BY <1>a, <1>23 DEF Disconnect, ConnPart
  <2>3. RowPart' /\ DesiredPart' /\ PassPart' /\ OpPart' /\ RecPart' /\ TermPart' /\ JobsPart'
    BY <1>a, <1>23 DEF Disconnect, RowPart, DesiredPart, PassPart, OpPart, RecPart, TermPart, JobsPart
  <2> QED BY <2>1, <2>2, <2>3
<1>24. ASSUME NEW h \in Hosts, PassDeadline(h) PROVE AllParts'
  <2>1. ConnPart'
    BY <1>a, <1>24 DEF PassDeadline, ConnPart
  <2>2. RowPart' /\ DesiredPart' /\ PassPart' /\ OpPart' /\ RecPart' /\ TermPart' /\ JobsPart' /\ UsedPart'
    BY <1>a, <1>24 DEF PassDeadline, RowPart, DesiredPart, PassPart, OpPart, RecPart, TermPart, JobsPart, UsedPart
  <2> QED BY <2>1, <2>2
<1>25. ASSUME NEW h \in Hosts, Reconnect(h) PROVE AllParts'
  <2>1. ConnPart'
    BY <1>a, <1>25 DEF Reconnect, ConnPart
  <2>2. RowPart' /\ DesiredPart' /\ PassPart' /\ OpPart' /\ RecPart' /\ TermPart' /\ JobsPart' /\ UsedPart'
    BY <1>a, <1>25 DEF Reconnect, RowPart, DesiredPart, PassPart, OpPart, RecPart, TermPart, JobsPart, UsedPart
  <2> QED BY <2>1, <2>2
<1>26. ASSUME NEW h \in Hosts, LoseRuntime(h) PROVE AllParts'
  <2>1. UsedPart'
    BY <1>a, <1>26, SpendKeeps, BoundNames DEF LoseRuntime, UsedPart
  <2>2. RecPart'
    BY <1>a, <1>26, RecAt DEF LoseRuntime, RecPart, RecSet, ActiveOn
  <2>3. TermPart'
    BY <1>a, <1>26 DEF LoseRuntime, TermPart
  <2>4. RowPart' /\ DesiredPart' /\ ConnPart' /\ PassPart' /\ OpPart' /\ JobsPart'
    BY <1>a, <1>26 DEF LoseRuntime, RowPart, DesiredPart, ConnPart, PassPart, OpPart, JobsPart
  <2> QED BY <2>1, <2>2, <2>3, <2>4
<1>27. ASSUME NEW h \in Hosts, NEW b \in Builds, Work(h, b) PROVE AllParts'
  <2>1. JobsPart'
    BY <1>a, <1>27 DEF Work, JobsPart, Phases
  <2>2. RowPart' /\ DesiredPart' /\ ConnPart' /\ PassPart' /\ OpPart' /\ RecPart' /\ TermPart' /\ UsedPart'
    BY <1>a, <1>27 DEF Work, RowPart, DesiredPart, ConnPart, PassPart, OpPart, RecPart, TermPart, UsedPart
  <2> QED BY <2>1, <2>2
<1>28. ASSUME NEW h \in Hosts, NEW b \in Builds, Publish(h, b) PROVE AllParts'
  <2>1. JobsPart'
    BY <1>a, <1>28 DEF Publish, JobsPart, Phases
  <2>2. RowPart' /\ DesiredPart' /\ ConnPart' /\ PassPart' /\ OpPart' /\ RecPart' /\ TermPart' /\ UsedPart'
    BY <1>a, <1>28 DEF Publish, RowPart, DesiredPart, ConnPart, PassPart, OpPart, RecPart, TermPart, UsedPart
  <2> QED BY <2>1, <2>2
<1>29. ASSUME NEW h \in Hosts, NEW b \in Builds, Rebuild(h, b) PROVE AllParts'
  <2>1. UsedPart'
    BY <1>a, <1>29, SpendKeeps, BoundNames DEF Rebuild, UsedPart
  <2>2. JobsPart'
    BY <1>a, <1>29 DEF Rebuild, JobsPart, Phases
  <2>3. RowPart' /\ DesiredPart' /\ ConnPart' /\ PassPart' /\ OpPart' /\ RecPart' /\ TermPart'
    BY <1>a, <1>29 DEF Rebuild, RowPart, DesiredPart, ConnPart, PassPart, OpPart, RecPart, TermPart
  <2> QED BY <2>1, <2>2, <2>3
<1>30. ASSUME NEW h \in Hosts, NEW b \in Builds, Report(h, b) PROVE AllParts'
  <2>1. RowPart'
    <3>1. row[b] \in RowSet
      BY <1>a DEF RowPart
    <3>2. CASE row' = row
      BY <1>a, <3>2 DEF RowPart
    <3>3. CASE row' = [row EXCEPT ![b] = [@ EXCEPT !.phase = jobs[h][b], !.status = StatusOf(jobs[h][b])]]
      <4>1. jobs[h][b] \in Phases
        BY <1>a, <1>30 DEF Report, JobsPart
      <4> QED BY <1>a, <3>1, <3>3, <4>1, RowMoves DEF RowPart
    <3> QED BY <1>a, <1>30, <3>2, <3>3 DEF Report
  <2>2. TermPart'
    BY <1>a, <1>30 DEF Report, TermPart
  <2>3. DesiredPart' /\ ConnPart' /\ PassPart' /\ OpPart' /\ RecPart' /\ JobsPart' /\ UsedPart'
    BY <1>a, <1>30 DEF Report, DesiredPart, ConnPart, PassPart, OpPart, RecPart, JobsPart, UsedPart
  <2> QED BY <2>1, <2>2, <2>3
<1>t. AllParts'
  BY <1>1, <1>2, <1>3, <1>4, <1>5, <1>6, <1>7, <1>8, <1>9, <1>10, <1>11, <1>12, <1>13, <1>14, <1>15, <1>16, <1>17, <1>18, <1>19, <1>20, <1>21, <1>22, <1>23, <1>24, <1>25, <1>26, <1>27, <1>28, <1>29, <1>30 DEF SchedulerNext
<1> QED
  BY <1>t DEF SchedulerTypes, RowPart, DesiredPart, ConnPart, PassPart, OpPart, RecPart, TermPart, JobsPart,
       UsedPart, RowSet, PassSet, OpSet, RecSet, OpOf

-----------------------------------------------------------------------------
\* OneActiveHash is not inductive: a retry brings back a row that is not
\* active.  A row is alive when it is active or may be retried, and a family
\* has one alive row at most.
RowRetry(r) == r.status = "failed" \/ (r.status = "stale" /\ ~r.superseded)
RowLive(r) == r.status \in {"queued", "assigned", "building"} \/ RowRetry(r)
OneLive ==
  \A b, c \in Builds : b # c /\ Family[b] = Family[c] => ~(RowLive(row[b]) /\ RowLive(row[c]))
RetryLive == \A f \in Families : op[f].at = "requeue" => \A b \in op[f].ids : RowRetry(row[b])

LEMMA LiveKept ==
  ASSUME OneLive, \A c \in Builds : RowLive(row'[c]) => RowLive(row[c])
  PROVE  OneLive'
BY DEF OneLive

LEMMA LiveStep ==
  ASSUME SchedulerTypes, OneLive, RetryLive, SchedulerNext
  PROVE  OneLive' /\ RetryLive'
<1>a. /\ RowPart /\ PassPart /\ OpPart /\ JobsPart
      /\ op \in [Families -> OpSet] /\ row \in [Builds -> RowSet] /\ pass \in [Passes -> PassSet]
  BY TypesByPart DEF RowPart, OpPart, PassPart
<1>b. \A c \in Builds : Family[c] \in Families
  BY DEF Families
<1>q. ASSUME NEW b \in Builds, QueueBundle(b) PROVE OneLive' /\ RetryLive'
  <2>1. \A c \in Builds : Family[c] = Family[b] /\ RowLive(row'[c]) => c = b
    <3>1. SUFFICES ASSUME NEW c \in Builds, Family[c] = Family[b], c # b PROVE ~RowLive(row'[c])
      OBVIOUS
    <3>2. c \in Siblings(b)
      BY <3>1 DEF Siblings
    <3>3. row[c] \in RowSet
      BY <1>a
    <3>4. CASE c \in Superseded(b)
      <4>1. row'[c] = [row[c] EXCEPT !.status = "stale", !.superseded = TRUE]
        BY <1>q, <3>4 DEF QueueBundle
      <4> QED BY <3>3, <4>1 DEF RowLive, RowRetry, RowSet
    <3>5. CASE c \notin Superseded(b)
      <4>1. row'[c] = row[c]
        BY <1>q, <3>5, <3>1 DEF QueueBundle
      <4>2. row[c].status \in {"none", "succeeded"}
        BY <3>2, <3>3, <3>5 DEF Superseded, RowSet, Statuses
      <4> QED BY <4>1, <4>2 DEF RowLive, RowRetry
    <3> QED BY <3>4, <3>5
  <2>2. \A c \in Builds : Family[c] # Family[b] => row'[c] = row[c]
    BY <1>q DEF QueueBundle, Superseded, Siblings
  <2>3. OneLive'
    BY <2>1, <2>2 DEF OneLive
  <2>4. /\ \A f \in Families : f # Family[b] => op'[f] = op[f]
        /\ op'[Family[b]].at # "requeue"
    BY <1>a, <1>b, <1>q DEF QueueBundle, NoOp
  <2>5. ASSUME NEW f \in Families, op'[f].at = "requeue", NEW c \in op'[f].ids PROVE RowRetry(row'[c])
    <3>1. f # Family[b] /\ op'[f] = op[f]
      BY <2>4, <2>5
    <3>2. c \in Builds /\ Family[c] = f /\ RowRetry(row[c])
      BY <1>a, <2>5, <3>1, OpAt DEF RetryLive
    <3> QED BY <2>2, <3>1, <3>2
  <2>6. RetryLive'
    BY <2>5 DEF RetryLive
  <2> QED BY <2>3, <2>6
<1>1. ASSUME NEW f \in Families, ClearRetired(f) PROVE OneLive' /\ RetryLive'
  <2>0. \A c \in Builds : row'[c].status = row[c].status /\ row'[c].superseded = row[c].superseded
    BY <1>1, <1>a DEF ClearRetired, RowSet
  <2>1. \A c \in Builds : RowLive(row'[c]) => RowLive(row[c])
    BY <2>0 DEF RowLive, RowRetry
  <2>2. \A c \in Builds : Family[c] # f => row'[c] = row[c]
    BY <1>1, <1>a, OpAt DEF ClearRetired
  <2>3. \A g \in Families : op'[g].at = "requeue" => g # f /\ op'[g] = op[g]
    BY <1>1, <1>a DEF ClearRetired, NoOp
  <2>4. RetryLive'
    BY <1>a, <2>2, <2>3, OpAt DEF RetryLive
  <2> QED BY <2>1, <2>4, LiveKept
<1>2. ASSUME NEW f \in Families, CommitRetry(f) PROVE OneLive' /\ RetryLive'
  <2>1. \A c \in Builds : RowLive(row'[c]) => RowLive(row[c])
    BY <1>2 DEF CommitRetry, RetryLive, RowLive
  <2>2. \A c \in Builds : Family[c] # f => row'[c] = row[c]
    BY <1>2, <1>a, OpAt DEF CommitRetry
  <2>3. \A g \in Families : op'[g].at = "requeue" => g # f /\ op'[g] = op[g]
    BY <1>2, <1>a DEF CommitRetry, NoOp
  <2>4. RetryLive'
    BY <1>a, <2>2, <2>3, OpAt DEF RetryLive
  <2> QED BY <2>1, <2>4, LiveKept
<1>3. ASSUME NEW f \in Families, CommitRequeue(f) PROVE OneLive' /\ RetryLive'
  <2>1. \A c \in Builds : RowLive(row'[c]) => RowLive(row[c])
    BY <1>3 DEF CommitRequeue, RowLive
  <2>2. \A c \in Builds : Family[c] # f => row'[c] = row[c]
    BY <1>3, <1>a, OpAt DEF CommitRequeue
  <2>3. \A g \in Families : op'[g].at = "requeue" => g # f /\ op'[g] = op[g]
    BY <1>3, <1>a DEF CommitRequeue, NoOp
  <2>4. RetryLive'
    BY <1>a, <2>2, <2>3, OpAt DEF RetryLive
  <2> QED BY <2>1, <2>4, LiveKept
<1>4. ASSUME NEW f \in Families, RemoveMoved(f) PROVE OneLive' /\ RetryLive'
  <2>1. row' = row
    BY <1>4 DEF RemoveMoved
  <2>2. \A g \in Families : op'[g].at = "requeue" => op'[g] = op[g]
    BY <1>4, <1>a DEF RemoveMoved, NoOp
  <2> QED BY <2>1, <2>2 DEF OneLive, RetryLive
<1>5. ASSUME NEW f \in Families, LoseOp(f) PROVE OneLive' /\ RetryLive'
  <2>1. row' = row
    BY <1>5 DEF LoseOp
  <2>2. \A g \in Families : op'[g].at = "requeue" => op'[g] = op[g]
    BY <1>5, <1>a DEF LoseOp, NoOp
  <2> QED BY <2>1, <2>2 DEF OneLive, RetryLive
<1>6. ASSUME NEW h \in Hosts, NEW f \in Families, RequeueAssigned(h, f) PROVE OneLive' /\ RetryLive'
  <2>1. row' = row
    BY <1>6 DEF RequeueAssigned
  <2>2. \A g \in Families : op'[g].at = "requeue" => op'[g] = op[g]
    BY <1>6, <1>a DEF RequeueAssigned, NoOp
  <2> QED BY <2>1, <2>2 DEF OneLive, RetryLive
<1>7. ASSUME NEW h \in Hosts, NEW f \in Families, MarkStale(h, f) PROVE OneLive' /\ RetryLive'
  <2>1. \A c \in Builds : RowLive(row'[c]) => RowLive(row[c])
    BY <1>7 DEF MarkStale, RowLive, ActiveOn, ActiveAt
  <2>2. \A c \in Builds : Family[c] # f => row'[c] = row[c]
    BY <1>7, <1>a DEF MarkStale
  <2>3. \A g \in Families : op'[g].at = "requeue" => g # f /\ op'[g] = op[g]
    BY <1>7, <1>a DEF MarkStale, NoOp
  <2>4. RetryLive'
    BY <1>a, <2>2, <2>3, OpAt DEF RetryLive
  <2> QED BY <2>1, <2>4, LiveKept
<1>8. ASSUME NEW h \in Hosts, NEW b \in Builds, Report(h, b) PROVE OneLive' /\ RetryLive'
  <2>1. \A c \in Builds : row'[c] = row[c] \/ (c = b /\ row[c].status \in {"assigned", "building"})
    BY <1>8, <1>a DEF Report, ActiveAt
  <2>2. \A c \in Builds : RowLive(row'[c]) => RowLive(row[c])
    BY <2>1 DEF RowLive, RowRetry
  <2>3. \A c \in Builds : RowRetry(row[c]) => RowRetry(row'[c])
    BY <2>1 DEF RowRetry
  <2>4. op' = op
    BY <1>8 DEF Report
  <2>5. RetryLive'
    BY <1>a, <2>3, <2>4, OpAt DEF RetryLive
  <2> QED BY <2>2, <2>5, LiveKept
<1>9. ASSUME NEW b \in Builds, Retire(b) PROVE OneLive' /\ RetryLive'
  <2>1. \A c \in Builds : row'[c].status = row[c].status /\ row'[c].superseded = row[c].superseded
    BY <1>9, <1>a DEF Retire, RowSet
  <2>2. \A c \in Builds : RowLive(row'[c]) => RowLive(row[c])
    BY <2>1 DEF RowLive, RowRetry
  <2>3. \A c \in Builds : RowRetry(row[c]) => RowRetry(row'[c])
    BY <2>1 DEF RowRetry
  <2>4. op' = op
    BY <1>9 DEF Retire
  <2>5. RetryLive'
    BY <1>a, <2>3, <2>4, OpAt DEF RetryLive
  <2> QED BY <2>2, <2>5, LiveKept
<1>10. ASSUME NEW p \in Passes, ClaimBuild(p) PROVE OneLive' /\ RetryLive'
  <2>1. \A c \in Builds : row'[c] = row[c] \/ row[c].status = "queued"
    BY <1>10, <1>a DEF ClaimBuild, Claimable
  <2>2. \A c \in Builds : RowLive(row'[c]) => RowLive(row[c])
    BY <2>1 DEF RowLive, RowRetry
  <2>3. \A c \in Builds : RowRetry(row[c]) => RowRetry(row'[c])
    BY <2>1 DEF RowRetry
  <2>4. op' = op
    BY <1>10 DEF ClaimBuild
  <2>5. RetryLive'
    BY <1>a, <2>3, <2>4, OpAt DEF RetryLive
  <2> QED BY <2>2, <2>5, LiveKept
<1>11. ASSUME NEW b \in Builds, RetryBuild(b) PROVE OneLive' /\ RetryLive'
  <2>1. row' = row /\ RowRetry(row[b])
    BY <1>11 DEF RetryBuild, CanRetry, RowRetry
  <2>2. \A g \in Families : op'[g] = op[g] \/ op'[g].ids = {b}
    BY <1>11, <1>a, <1>b DEF RetryBuild
  <2> QED BY <2>1, <2>2 DEF OneLive, RetryLive
<1>12. ASSUME NEW p \in Passes, PublishDesired(p) PROVE OneLive' /\ RetryLive'
  BY <1>12 DEF PublishDesired, OneLive, RetryLive
<1>13. ASSUME NEW p \in Passes, DeferDesired(p) PROVE OneLive' /\ RetryLive'
  BY <1>13 DEF DeferDesired, OneLive, RetryLive
<1>14. ASSUME NEW p \in Passes, RecheckAssignment(p) PROVE OneLive' /\ RetryLive'
  BY <1>14 DEF RecheckAssignment, OneLive, RetryLive
<1>15. ASSUME NEW p \in Passes, UndoDesired(p) PROVE OneLive' /\ RetryLive'
  BY <1>15 DEF UndoDesired, OneLive, RetryLive
<1>16. ASSUME NEW p \in Passes, LosePass(p) PROVE OneLive' /\ RetryLive'
  BY <1>16 DEF LosePass, OneLive, RetryLive
<1>17. ASSUME NEW p \in Passes, NEW b \in Builds, NEW h \in Hosts, ReadQueue(p, b, h) PROVE OneLive' /\ RetryLive'
  BY <1>17 DEF ReadQueue, OneLive, RetryLive
<1>18. ASSUME NEW h \in Hosts, ReadAssignments(h) PROVE OneLive' /\ RetryLive'
  BY <1>18 DEF ReadAssignments, OneLive, RetryLive
<1>19. ASSUME NEW h \in Hosts, WriteAssignments(h) PROVE OneLive' /\ RetryLive'
  BY <1>19 DEF WriteAssignments, OneLive, RetryLive
<1>20. ASSUME NEW h \in Hosts, DropSuperseded(h) PROVE OneLive' /\ RetryLive'
  BY <1>20 DEF DropSuperseded, OneLive, RetryLive
<1>21. ASSUME NEW h \in Hosts, ApplyDesired(h) PROVE OneLive' /\ RetryLive'
  BY <1>21 DEF ApplyDesired, OneLive, RetryLive
<1>22. ASSUME NEW h \in Hosts, RemoveTerminal(h) PROVE OneLive' /\ RetryLive'
  BY <1>22 DEF RemoveTerminal, OneLive, RetryLive
<1>23. ASSUME NEW h \in Hosts, Disconnect(h) PROVE OneLive' /\ RetryLive'
  BY <1>23 DEF Disconnect, OneLive, RetryLive
<1>24. ASSUME NEW h \in Hosts, PassDeadline(h) PROVE OneLive' /\ RetryLive'
  BY <1>24 DEF PassDeadline, OneLive, RetryLive
<1>25. ASSUME NEW h \in Hosts, Reconnect(h) PROVE OneLive' /\ RetryLive'
  BY <1>25 DEF Reconnect, OneLive, RetryLive
<1>26. ASSUME NEW h \in Hosts, LoseRuntime(h) PROVE OneLive' /\ RetryLive'
  BY <1>26 DEF LoseRuntime, OneLive, RetryLive
<1>27. ASSUME NEW h \in Hosts, NEW b \in Builds, Work(h, b) PROVE OneLive' /\ RetryLive'
  BY <1>27 DEF Work, OneLive, RetryLive
<1>28. ASSUME NEW h \in Hosts, NEW b \in Builds, Publish(h, b) PROVE OneLive' /\ RetryLive'
  BY <1>28 DEF Publish, OneLive, RetryLive
<1>29. ASSUME NEW h \in Hosts, NEW b \in Builds, Rebuild(h, b) PROVE OneLive' /\ RetryLive'
  BY <1>29 DEF Rebuild, OneLive, RetryLive
<1> QED
  BY <1>q, <1>1, <1>2, <1>3, <1>4, <1>5, <1>6, <1>7, <1>8, <1>9, <1>10, <1>11, <1>12, <1>13, <1>14, <1>15, <1>16, <1>17, <1>18, <1>19, <1>20, <1>21, <1>22, <1>23, <1>24, <1>25, <1>26, <1>27, <1>28, <1>29 DEF SchedulerNext

-----------------------------------------------------------------------------
\* Whatever a builder is told beyond its own builds is about to be cleaned up:
\* by the pass that published it, by the requeue or the stale mark that holds
\* the lock of the family, by the reconciliation that wrote it, or with the
\* builds that ended.
PassCleans(b, h) ==
  \E p \in Passes : pass[p].build = b /\ pass[p].host = h /\ pass[p].at \in {"recheck", "undo"}
OpCleans(b, h) == op[Family[b]].at = "remove" /\ op[Family[b]].host = h /\ b \in op[Family[b]].ids
RecCleans(b, h) == rec[h].at = "check" /\ b \in rec[h].ids
Cleaned(b, h) == PassCleans(b, h) \/ OpCleans(b, h) \/ RecCleans(b, h) \/ b \in term[h]
OrphanCleaned ==
  Unbroken => \A b \in Builds, h \in Hosts : b \in desired[h].ids /\ ~ActiveAt(b, h) => Cleaned(b, h)

\* A row whose artifacts are gone has ended, or is being revived under the lock.
RetiredSound ==
  Unbroken => \A b \in Builds : row[b].retired =>
                \/ row[b].status = "succeeded"
                \/ op[Family[b]].at = "unretire" /\ op[Family[b]].ids = {b}

\* A step after which nothing is broken broke nothing.
LEMMA UnbrokenBack ==
  ASSUME SchedulerTypes, SchedulerNext, Unbroken'
  PROVE  /\ Unbroken
         /\ \A f \in Families : ~LoseOp(f)
         /\ \A p \in Passes : ~LosePass(p) /\ ~DeferDesired(p)
         /\ \A h \in Hosts : ~LoseRuntime(h)
<1>a. used \in [DOMAIN Bounds -> Nat] /\ {"faults", "lost"} \subseteq DOMAIN Bounds
  BY BoundNames DEF SchedulerTypes
<1>b. used.faults \in Nat /\ used.lost \in Nat
  BY <1>a
<1>1. ASSUME NEW k \in DOMAIN Bounds, Spend(k)
      PROVE  /\ Unbroken /\ k # "faults" /\ k # "lost"
  <2>1. used' = [used EXCEPT ![k] = @ + 1]
    BY <1>1 DEF Spend
  <2>2. CASE k = "faults"
    <3>1. used'.faults = used.faults + 1
      BY <1>a, <2>1, <2>2
    <3> QED BY <1>b, <3>1 DEF Unbroken
  <2>3. CASE k = "lost"
    <3>1. used'.lost = used.lost + 1
      BY <1>a, <2>1, <2>3
    <3> QED BY <1>b, <3>1 DEF Unbroken
  <2>4. CASE k # "faults" /\ k # "lost"
    <3>1. used'.faults = used.faults /\ used'.lost = used.lost
      BY <1>a, <2>1, <2>4
    <3> QED BY <2>4, <3>1 DEF Unbroken
  <2> QED BY <2>2, <2>3, <2>4
<1>2. /\ \A f \in Families : ~LoseOp(f)
      /\ \A p \in Passes : ~LosePass(p) /\ ~DeferDesired(p)
      /\ \A h \in Hosts : ~LoseRuntime(h)
  BY <1>1, BoundNames DEF LoseOp, LosePass, DeferDesired, LoseRuntime
<1>3. CASE used' = used
  BY <1>2, <1>3 DEF Unbroken
<1>4. CASE \E k \in DOMAIN Bounds : Spend(k)
  BY <1>1, <1>2, <1>4
<1>5. used' = used \/ \E k \in DOMAIN Bounds : Spend(k)
  <2> USE BoundNames
  <2>1. \A b \in Builds : QueueBundle(b) \/ Retire(b) \/ RetryBuild(b) => \E k \in DOMAIN Bounds : Spend(k)
    BY DEF QueueBundle, Retire, RetryBuild
  <2>2. \A f \in Families : ClearRetired(f) \/ CommitRetry(f) \/ CommitRequeue(f) \/ RemoveMoved(f) => used' = used
    BY DEF ClearRetired, CommitRetry, CommitRequeue, RemoveMoved
  <2>3. \A p \in Passes : /\ ClaimBuild(p) \/ PublishDesired(p) \/ RecheckAssignment(p) \/ UndoDesired(p) => used' = used
                          /\ \A b \in Builds, h \in Hosts : ReadQueue(p, b, h) => used' = used
    BY DEF ClaimBuild, PublishDesired, RecheckAssignment, UndoDesired, ReadQueue
  <2>4. \A h \in Hosts, f \in Families : /\ RequeueAssigned(h, f) => used' = used
                                         /\ MarkStale(h, f) => \E k \in DOMAIN Bounds : Spend(k)
    BY DEF RequeueAssigned, MarkStale
  <2>5. \A h \in Hosts, b \in Builds : /\ Work(h, b) \/ Publish(h, b) \/ Report(h, b) => used' = used
                                       /\ Rebuild(h, b) => \E k \in DOMAIN Bounds : Spend(k)
    BY DEF Work, Publish, Report, Rebuild
  <2>6. \A h \in Hosts : /\ ReadAssignments(h) \/ WriteAssignments(h) \/ DropSuperseded(h) \/ ApplyDesired(h)
                            \/ RemoveTerminal(h) \/ PassDeadline(h) \/ Reconnect(h) => used' = used
                         /\ Disconnect(h) => \E k \in DOMAIN Bounds : Spend(k)
    BY DEF ReadAssignments, WriteAssignments, DropSuperseded, ApplyDesired, RemoveTerminal, PassDeadline,
           Reconnect, Disconnect
  <2> QED BY <1>2, <2>1, <2>2, <2>3, <2>4, <2>5, <2>6 DEF SchedulerNext
<1> QED BY <1>3, <1>4, <1>5

LEMMA RetiredStep ==
  ASSUME SchedulerTypes, RetryLive, RetiredSound, SchedulerNext
  PROVE  RetiredSound'
<1> SUFFICES ASSUME Unbroken', NEW c \in Builds, row'[c].retired
             PROVE  \/ row'[c].status = "succeeded"
                    \/ op'[Family[c]].at = "unretire" /\ op'[Family[c]].ids = {c}
  BY DEF RetiredSound
<1> DEFINE Sound == \/ row'[c].status = "succeeded"
                    \/ op'[Family[c]].at = "unretire" /\ op'[Family[c]].ids = {c}
<1>a. /\ RowPart /\ PassPart /\ OpPart /\ RecPart /\ DesiredPart /\ TermPart /\ JobsPart
      /\ op \in [Families -> OpSet] /\ row \in [Builds -> RowSet] /\ pass \in [Passes -> PassSet]
      /\ rec \in [Hosts -> RecSet] /\ term \in [Hosts -> SUBSET Builds]
  BY TypesByPart DEF RowPart, OpPart, PassPart, RecPart, TermPart
<1>b. \A d \in Builds : Family[d] \in Families
  BY DEF Families
<1>c. row[c] \in RowSet /\ op[Family[c]] \in OpSet
  BY <1>a, <1>b
<1>d. row[c].retired => \/ row[c].status = "succeeded"
                        \/ op[Family[c]].at = "unretire" /\ op[Family[c]].ids = {c}
  BY UnbrokenBack DEF RetiredSound
<1>1. ASSUME NEW b \in Builds, QueueBundle(b) PROVE Sound
  <2>1. CASE Family[c] # Family[b]
    BY <1>1, <1>a, <1>b, <1>d, <2>1 DEF QueueBundle, Superseded, Siblings
  <2>2. CASE Family[c] = Family[b] /\ c # b
    <3>0. op[Family[b]] = NoOp
      BY <1>1 DEF QueueBundle
    <3>1. op[Family[c]].at = "idle"
      BY <2>2, <3>0 DEF NoOp
    <3>2. row'[c].retired = row[c].retired /\ (c \notin Superseded(b) => row'[c] = row[c])
      BY <1>1, <1>c, <2>2 DEF QueueBundle, RowSet
    <3>3. row[c].status = "succeeded"
      BY <1>d, <3>1, <3>2
    <3>4. c \notin Superseded(b)
      BY <3>3 DEF Superseded
    <3> QED BY <3>2, <3>3, <3>4
  <2>3. CASE c = b
    <3>0. op[Family[b]] = NoOp
      BY <1>1 DEF QueueBundle
    <3>1. op[Family[c]].at = "idle"
      BY <2>3, <3>0 DEF NoOp
    <3>2. b \notin Superseded(b)
      BY DEF Superseded, Siblings
    <3>3. row'[c] = IF Revives(b) THEN [Requeued(row[b]) EXCEPT !.superseded = FALSE] ELSE row[b]
      BY <1>1, <2>3, <3>2 DEF QueueBundle
    <3>4. row[b].retired
      BY <1>c, <2>3, <3>3 DEF Requeued, RowSet
    <3>5. CASE Revives(b)
      <4>1. op'[Family[b]] = [at |-> "unretire", host |-> NoHost, ids |-> {b}]
        BY <1>1, <1>a, <1>b, <3>4, <3>5 DEF QueueBundle
      <4> QED BY <4>1, <2>3
    <3>6. CASE ~Revives(b)
      BY <3>4, <3>6 DEF Revives
    <3> QED BY <3>5, <3>6
  <2> QED BY <2>1, <2>2, <2>3
<1>2. ASSUME NEW b \in Builds, Retire(b) PROVE Sound
  <2>1. CASE c = b
    BY <1>2, <1>c, <2>1 DEF Retire, RowSet
  <2>2. CASE c # b
    BY <1>2, <1>d, <2>2 DEF Retire
  <2> QED BY <2>1, <2>2
<1>3. ASSUME NEW b \in Builds, RetryBuild(b) PROVE Sound
  <2>1. row' = row
    BY <1>3 DEF RetryBuild
  <2>2. op[Family[b]].at = "idle" /\ (Family[c] # Family[b] => op'[Family[c]] = op[Family[c]])
    BY <1>3, <1>a, <1>b DEF RetryBuild, NoOp
  <2> QED BY <1>d, <2>1, <2>2
<1>4. ASSUME NEW f \in Families, ClearRetired(f) PROVE Sound
  <2>1. CASE Family[c] # f
    <3>1. op'[Family[c]] = op[Family[c]]
      BY <1>4, <1>a, <1>b, <2>1 DEF ClearRetired
    <3>2. row'[c] = row[c]
      BY <1>4, <1>a, <2>1, OpAt DEF ClearRetired
    <3> QED BY <1>d, <3>1, <3>2
  <2>2. CASE Family[c] = f
    <3>1. row'[c] = row[c] /\ c \notin op[f].ids
      BY <1>4, <1>c DEF ClearRetired, RowSet
    <3> QED BY <1>d, <2>2, <3>1
  <2> QED BY <2>1, <2>2
<1>5. ASSUME NEW f \in Families, CommitRetry(f) PROVE Sound
  <2>1. CASE Family[c] # f
    <3>1. op'[Family[c]] = op[Family[c]]
      BY <1>5, <1>a, <1>b, <2>1 DEF CommitRetry
    <3>2. row'[c] = row[c]
      BY <1>5, <1>a, <2>1, OpAt DEF CommitRetry
    <3> QED BY <1>d, <3>1, <3>2
  <2>2. CASE Family[c] = f
    <3>1. op[Family[c]].at # "unretire"
      BY <1>5, <2>2 DEF CommitRetry
    <3>2. row'[c].retired = row[c].retired
      BY <1>5, <1>c DEF CommitRetry, Requeued, RowSet
    <3>3. row'[c] = row[c]
      BY <1>5, <1>d, <3>1, <3>2 DEF CommitRetry, RetryLive, RowRetry
    <3> QED BY <1>d, <3>1, <3>3
  <2> QED BY <2>1, <2>2
<1>6. ASSUME NEW f \in Families, CommitRequeue(f) PROVE Sound
  <2>1. CASE Family[c] # f
    <3>1. op'[Family[c]] = op[Family[c]]
      BY <1>6, <1>a, <1>b, <2>1 DEF CommitRequeue
    <3>2. row'[c] = row[c]
      BY <1>6, <1>a, <2>1, OpAt DEF CommitRequeue
    <3> QED BY <1>d, <3>1, <3>2
  <2>2. CASE Family[c] = f
    <3>1. op[Family[c]].at # "unretire"
      BY <1>6, <2>2 DEF CommitRequeue
    <3>2. row'[c].retired = row[c].retired
      BY <1>6, <1>c DEF CommitRequeue, Requeued, RowSet
    <3>3. row'[c] = row[c]
      BY <1>6, <1>d, <3>1, <3>2 DEF CommitRequeue
    <3> QED BY <1>d, <3>1, <3>3
  <2> QED BY <2>1, <2>2
<1>7. ASSUME NEW f \in Families, RemoveMoved(f) PROVE Sound
  <2>1. CASE Family[c] # f
    <3>1. op'[Family[c]] = op[Family[c]]
      BY <1>7, <1>a, <1>b, <2>1 DEF RemoveMoved
    <3>2. row'[c] = row[c]
      BY <1>7, <1>a, <2>1, OpAt DEF RemoveMoved
    <3> QED BY <1>d, <3>1, <3>2
  <2>2. CASE Family[c] = f
    <3>1. op[Family[c]].at # "unretire"
      BY <1>7, <2>2 DEF RemoveMoved
    <3>2. row'[c].retired = row[c].retired
      BY <1>7, <1>c DEF RemoveMoved, Requeued, RowSet
    <3>3. row'[c] = row[c]
      BY <1>7 DEF RemoveMoved
    <3> QED BY <1>d, <3>1, <3>3
  <2> QED BY <2>1, <2>2
<1>8. ASSUME NEW h \in Hosts, NEW f \in Families, RequeueAssigned(h, f) PROVE Sound
  <2>1. CASE Family[c] # f
    <3>1. op'[Family[c]] = op[Family[c]]
      BY <1>8, <1>a, <1>b, <2>1 DEF RequeueAssigned
    <3>2. row'[c] = row[c]
      BY <1>8, <1>a, <2>1, OpAt DEF RequeueAssigned
    <3> QED BY <1>d, <3>1, <3>2
  <2>2. CASE Family[c] = f
    <3>1. op[Family[c]].at # "unretire"
      <4>1. op[f] = NoOp
        BY <1>8 DEF RequeueAssigned
      <4> QED BY <2>2, <4>1 DEF NoOp
    <3>2. row'[c].retired = row[c].retired
      BY <1>8, <1>c DEF RequeueAssigned, Requeued, RowSet
    <3>3. row'[c] = row[c]
      BY <1>8 DEF RequeueAssigned
    <3> QED BY <1>d, <3>1, <3>3
  <2> QED BY <2>1, <2>2
<1>9. ASSUME NEW h \in Hosts, NEW f \in Families, MarkStale(h, f) PROVE Sound
  <2>1. CASE Family[c] # f
    <3>1. op'[Family[c]] = op[Family[c]]
      BY <1>9, <1>a, <1>b, <2>1 DEF MarkStale
    <3>2. row'[c] = row[c]
      BY <1>9, <1>a, <2>1, OpAt DEF MarkStale
    <3> QED BY <1>d, <3>1, <3>2
  <2>2. CASE Family[c] = f
    <3>1. op[Family[c]].at # "unretire"
      <4>1. op[f] = NoOp
        BY <1>9 DEF MarkStale
      <4> QED BY <2>2, <4>1 DEF NoOp
    <3>2. row'[c].retired = row[c].retired
      BY <1>9, <1>c DEF MarkStale, Requeued, RowSet
    <3>3. row'[c] = row[c]
      BY <1>9, <1>d, <3>1, <3>2 DEF MarkStale, ActiveOn
    <3> QED BY <1>d, <3>1, <3>3
  <2> QED BY <2>1, <2>2
<1>10. ASSUME NEW h \in Hosts, NEW b \in Builds, Report(h, b) PROVE Sound
  <2>1. op' = op
    BY <1>10 DEF Report
  <2>2. CASE row'[c] = row[c]
    BY <1>d, <2>1, <2>2
  <2>3. CASE c = b /\ ActiveAt(b, h)
    <3>1. row'[c].retired = row[c].retired
      BY <1>10, <1>a, <1>c, <2>3 DEF Report, RowSet
    <3>2. op[Family[c]].at = "idle"
      BY <1>10, <2>3 DEF Report, NoOp
    <3> QED BY <1>d, <2>3, <3>1, <3>2 DEF ActiveAt
  <2>4. row'[c] = row[c] \/ (c = b /\ ActiveAt(b, h))
    BY <1>10, <1>a DEF Report
  <2> QED BY <2>2, <2>3, <2>4
<1>11. ASSUME NEW p \in Passes, ClaimBuild(p) PROVE Sound
  <2>1. op' = op
    BY <1>11 DEF ClaimBuild
  <2>a. pass[p].build \in Builds
    BY <1>11, <1>a, PassAt DEF ClaimBuild
  <2>2. row'[c].retired = row[c].retired
    <3>1. CASE row' = row
      BY <3>1
    <3>2. CASE row' = [row EXCEPT ![pass[p].build] = [@ EXCEPT !.status = "assigned", !.phase = "queued", !.host = pass[p].host]]
      <4>1. CASE c # pass[p].build
        BY <1>a, <2>a, <3>2, <4>1
      <4>2. CASE c = pass[p].build
        <5>1. row'[c] = [row[c] EXCEPT !.status = "assigned", !.phase = "queued", !.host = pass[p].host]
          BY <1>a, <3>2, <4>2
        <5> QED BY <1>c, <5>1 DEF RowSet
      <4> QED BY <4>1, <4>2
    <3> QED BY <1>11, <1>a, <2>a, <3>1, <3>2 DEF ClaimBuild
  <2>3. row'[c] = row[c] \/ row[c].status = "queued"
    BY <1>11, <1>a DEF ClaimBuild, Claimable
  <2> QED BY <1>d, <2>1, <2>2, <2>3
<1>12. ASSUME NEW p \in Passes, PublishDesired(p) PROVE Sound
  BY <1>12, <1>d DEF PublishDesired
<1>13. ASSUME NEW p \in Passes, RecheckAssignment(p) PROVE Sound
  BY <1>13, <1>d DEF RecheckAssignment
<1>14. ASSUME NEW p \in Passes, UndoDesired(p) PROVE Sound
  BY <1>14, <1>d DEF UndoDesired
<1>15. ASSUME NEW p \in Passes, NEW b \in Builds, NEW h \in Hosts, ReadQueue(p, b, h) PROVE Sound
  BY <1>15, <1>d DEF ReadQueue
<1>16. ASSUME NEW h \in Hosts, ReadAssignments(h) PROVE Sound
  BY <1>16, <1>d DEF ReadAssignments
<1>17. ASSUME NEW h \in Hosts, WriteAssignments(h) PROVE Sound
  BY <1>17, <1>d DEF WriteAssignments
<1>18. ASSUME NEW h \in Hosts, DropSuperseded(h) PROVE Sound
  BY <1>18, <1>d DEF DropSuperseded
<1>19. ASSUME NEW h \in Hosts, ApplyDesired(h) PROVE Sound
  BY <1>19, <1>d DEF ApplyDesired
<1>20. ASSUME NEW h \in Hosts, RemoveTerminal(h) PROVE Sound
  BY <1>20, <1>d DEF RemoveTerminal
<1>21. ASSUME NEW h \in Hosts, Disconnect(h) PROVE Sound
  BY <1>21, <1>d DEF Disconnect
<1>22. ASSUME NEW h \in Hosts, PassDeadline(h) PROVE Sound
  BY <1>22, <1>d DEF PassDeadline
<1>23. ASSUME NEW h \in Hosts, Reconnect(h) PROVE Sound
  BY <1>23, <1>d DEF Reconnect
<1>24. ASSUME NEW h \in Hosts, NEW b \in Builds, Work(h, b) PROVE Sound
  BY <1>24, <1>d DEF Work
<1>25. ASSUME NEW h \in Hosts, NEW b \in Builds, Publish(h, b) PROVE Sound
  BY <1>25, <1>d DEF Publish
<1>26. ASSUME NEW h \in Hosts, NEW b \in Builds, Rebuild(h, b) PROVE Sound
  BY <1>26, <1>d DEF Rebuild
<1> QED
  BY UnbrokenBack, <1>1, <1>2, <1>3, <1>4, <1>5, <1>6, <1>7, <1>8, <1>9, <1>10, <1>11, <1>12, <1>13, <1>14, <1>15, <1>16, <1>17, <1>18, <1>19, <1>20, <1>21, <1>22, <1>23, <1>24, <1>25, <1>26 DEF SchedulerNext

LEMMA OrphanStep ==
  ASSUME SchedulerTypes, RetryLive, RetiredSound, OrphanCleaned, SchedulerNext
  PROVE  OrphanCleaned'
<1> SUFFICES ASSUME Unbroken', NEW c \in Builds, NEW g \in Hosts,
                    c \in desired'[g].ids, ~(row'[c].host = g /\ row'[c].status \in {"assigned", "building"})
             PROVE  Cleaned(c, g)'
  BY DEF OrphanCleaned, ActiveAt
<1> DEFINE Own == row[c].host = g /\ row[c].status \in {"assigned", "building"}
           PassNow == \E q \in Passes : /\ pass'[q].build = c /\ pass'[q].host = g
                                        /\ pass'[q].at \in {"recheck", "undo"}
           OpNow == op'[Family[c]].at = "remove" /\ op'[Family[c]].host = g /\ c \in op'[Family[c]].ids
           RecNow == rec'[g].at = "check" /\ c \in rec'[g].ids
           Now == PassNow \/ OpNow \/ RecNow \/ c \in term'[g]
<1>a. /\ RowPart /\ PassPart /\ OpPart /\ RecPart /\ DesiredPart /\ TermPart /\ JobsPart
      /\ op \in [Families -> OpSet] /\ row \in [Builds -> RowSet] /\ pass \in [Passes -> PassSet]
      /\ rec \in [Hosts -> RecSet] /\ term \in [Hosts -> SUBSET Builds]
  BY TypesByPart DEF RowPart, OpPart, PassPart, RecPart, TermPart
<1>b. \A d \in Builds : Family[d] \in Families
  BY DEF Families
<1>c. row[c] \in RowSet /\ op[Family[c]] \in OpSet /\ desired[g].ids \subseteq Builds
  BY <1>a, <1>b DEF DesiredPart
<1>d. c \in desired[g].ids /\ ~Own => PassCleans(c, g) \/ OpCleans(c, g) \/ RecCleans(c, g) \/ c \in term[g]
  BY UnbrokenBack DEF OrphanCleaned, Cleaned, ActiveAt
<1>e. row[c].retired => \/ row[c].status = "succeeded"
                        \/ op[Family[c]].at = "unretire" /\ op[Family[c]].ids = {c}
  BY UnbrokenBack DEF RetiredSound
<1>p. PassCleans(c, g) /\ pass' = pass => PassNow
  BY DEF PassCleans
<1>o. OpCleans(c, g) /\ op'[Family[c]] = op[Family[c]] => OpNow
  BY DEF OpCleans
<1>r. RecCleans(c, g) /\ rec'[g] = rec[g] => RecNow
  BY DEF RecCleans
<1>1. ASSUME NEW b \in Builds, QueueBundle(b) PROVE Now
  <2>1. c \in desired[g].ids /\ c \notin CleanupIds(b)
    <3>1. desired[g].ids \ CleanupIds(b) \in SUBSET Builds
      BY <1>c
    <3>2. desired'[g] = Rewritten(g, desired[g].ids \ CleanupIds(b))
      BY <1>1 DEF QueueBundle
    <3> QED BY <1>a, <3>1, <3>2, RewriteKeeps
  <2>2. op[Family[b]] = NoOp
    BY <1>1 DEF QueueBundle
  <2>3. ~Own
    <3> SUFFICES ASSUME Own PROVE FALSE
      OBVIOUS
    <3>1. c \notin Superseded(b)
      BY <2>1 DEF Superseded, CleanupIds, Siblings
    <3>2. c = b /\ Revives(b)
      BY <1>1, <3>1 DEF QueueBundle
    <3>3. row[c].retired /\ op[Family[c]].at = "idle"
      BY <2>2, <3>2 DEF Revives, NoOp
    <3> QED BY <1>e, <3>3
  <2>4. pass' = pass /\ rec' = rec /\ term' = term
    BY <1>1 DEF QueueBundle
  <2>5. OpCleans(c, g) => op'[Family[c]] = op[Family[c]]
    <3>1. op[Family[b]].at = "idle"
      BY <2>2 DEF NoOp
    <3>2. Family[c] # Family[b] => op'[Family[c]] = op[Family[c]]
      BY <1>1, <1>a, <1>b DEF QueueBundle
    <3> QED BY <3>1, <3>2 DEF OpCleans
  <2> QED BY <1>d, <1>p, <1>o, <1>r, <2>1, <2>3, <2>4, <2>5
<1>2. ASSUME NEW b \in Builds, Retire(b) PROVE Now
  <2>1. desired' = desired /\ pass' = pass /\ rec' = rec /\ term' = term
    BY <1>2 DEF Retire
  <2>2. ~Own
    BY <1>2, <1>a, <1>c DEF Retire, RowSet
  <2>3. OpCleans(c, g) => op'[Family[c]] = op[Family[c]]
    BY <1>2 DEF Retire
  <2> QED BY <1>d, <1>p, <1>o, <1>r, <2>1, <2>2, <2>3
<1>3. ASSUME NEW b \in Builds, RetryBuild(b) PROVE Now
  <2>1. row' = row /\ pass' = pass /\ rec' = rec /\ term' = term
    BY <1>3 DEF RetryBuild
  <2>2. c \in desired[g].ids
    <3>1. CASE desired' = desired
      BY <3>1
    <3>2. CASE row[b].host # NoHost /\ RemoveDesired(row[b].host, {b})
      <4>1. row[b].host \in Hosts
        BY <1>a, <3>2 DEF RowSet
      <4>2. desired[row[b].host].ids \ {b} \in SUBSET Builds
        BY <1>a, <4>1 DEF DesiredPart
      <4> QED BY <1>a, <3>2, <4>1, <4>2, RewriteKeeps DEF RemoveDesired
    <3> QED BY <1>3, <3>1, <3>2 DEF RetryBuild
  <2>3. op[Family[b]] = NoOp
    BY <1>3 DEF RetryBuild
  <2>4. OpCleans(c, g) => op'[Family[c]] = op[Family[c]]
    BY <1>3, <1>a, <1>b, <2>3 DEF RetryBuild, OpCleans, NoOp
  <2> QED BY <1>d, <1>p, <1>o, <1>r, <2>1, <2>2, <2>4
<1>4. ASSUME NEW f \in Families, ClearRetired(f) PROVE Now
  <2>1. desired' = desired /\ pass' = pass /\ rec' = rec /\ term' = term
    BY <1>4 DEF ClearRetired
  <2>2. ~Own
    BY <1>4, <1>c DEF ClearRetired, RowSet
  <2>3. OpCleans(c, g) => op'[Family[c]] = op[Family[c]]
    BY <1>4, <1>a, <1>b DEF ClearRetired, OpCleans
  <2> QED BY <1>d, <1>p, <1>o, <1>r, <2>1, <2>2, <2>3
<1>5. ASSUME NEW f \in Families, CommitRetry(f) PROVE Now
  <2>1. desired' = desired /\ pass' = pass /\ rec' = rec /\ term' = term
    BY <1>5 DEF CommitRetry
  <2>2. ~Own
    BY <1>5 DEF CommitRetry, RetryLive, RowRetry
  <2>3. OpCleans(c, g) => op'[Family[c]] = op[Family[c]]
    BY <1>5, <1>a, <1>b DEF CommitRetry, OpCleans
  <2> QED BY <1>d, <1>p, <1>o, <1>r, <2>1, <2>2, <2>3
<1>6. ASSUME NEW f \in Families, CommitRequeue(f) PROVE Now
  <2>1. desired' = desired /\ pass' = pass /\ rec' = rec /\ term' = term
    BY <1>6 DEF CommitRequeue
  <2>2. op[f].at = "reassign" /\ op[f] \in [at : {"unretire", "requeue", "reassign", "remove"},
                       host : Hosts \cup {NoHost}, ids : SUBSET Builds]
    BY <1>6, <1>a, OpAt DEF CommitRequeue
  <2>3. OpCleans(c, g) => op'[Family[c]] = op[Family[c]]
    BY <1>6, <1>a, <1>b DEF CommitRequeue, OpCleans
  <2>4. CASE Own
    <3>1. c \in op[f].ids /\ row[c].host = op[f].host /\ row[c].status = "assigned"
      BY <1>6, <2>4 DEF CommitRequeue
    <3>2. Family[c] = f
      BY <1>a, <2>2, <3>1, OpAt
    <3>3. PICK ids : /\ ids = {d \in op[f].ids : row[d].host = op[f].host /\ row[d].status = "assigned"}
                     /\ op' = [op EXCEPT ![f] = [@ EXCEPT !.at = "remove", !.ids = ids]]
      BY <1>6 DEF CommitRequeue
    <3>4. op'[f] = [op[f] EXCEPT !.at = "remove", !.ids = ids]
      BY <1>a, <3>3
    <3>5. op'[f].at = "remove" /\ op'[f].host = op[f].host /\ op'[f].ids = ids
      BY <2>2, <3>4
    <3>6. OpNow
      BY <2>4, <3>1, <3>2, <3>3, <3>5
    <3> QED BY <3>6
  <2>5. CASE ~Own
    BY <1>d, <1>p, <1>o, <1>r, <2>1, <2>3, <2>5
  <2> QED BY <2>4, <2>5
<1>7. ASSUME NEW f \in Families, RemoveMoved(f) PROVE Now
  <2>1. row' = row /\ pass' = pass /\ rec' = rec /\ term' = term /\ op[f].at = "remove"
    BY <1>7 DEF RemoveMoved
  <2>2. op[f].host \in Hosts /\ op[f].ids \subseteq Builds /\ \A d \in op[f].ids : Family[d] = f
    BY <1>a, <2>1, OpAt
  <2>3. desired[op[f].host].ids \ op[f].ids \in SUBSET Builds
    BY <1>a, <2>2 DEF DesiredPart
  <2>4. c \in desired[g].ids /\ (g = op[f].host => c \notin op[f].ids)
    BY <1>7, <1>a, <2>2, <2>3, RewriteKeeps DEF RemoveMoved, RemoveDesired
  <2>5. OpCleans(c, g) => op'[Family[c]] = op[Family[c]]
    BY <1>7, <1>a, <1>b, <2>4 DEF RemoveMoved, OpCleans
  <2> QED BY <1>d, <1>p, <1>o, <1>r, <2>1, <2>4, <2>5
<1>8. ASSUME NEW h \in Hosts, NEW f \in Families, RequeueAssigned(h, f) PROVE Now
  <2>1. row' = row /\ desired' = desired /\ pass' = pass /\ rec' = rec /\ term' = term /\ op[f] = NoOp
    BY <1>8 DEF RequeueAssigned
  <2>2. OpCleans(c, g) => op'[Family[c]] = op[Family[c]]
    BY <1>8, <1>a, <1>b, <2>1 DEF RequeueAssigned, OpCleans, NoOp
  <2> QED BY <1>d, <1>p, <1>o, <1>r, <2>1, <2>2
<1>9. ASSUME NEW h \in Hosts, NEW f \in Families, MarkStale(h, f) PROVE Now
  <2>1. desired' = desired /\ pass' = pass /\ rec' = rec /\ term' = term /\ op[f] = NoOp
    BY <1>9 DEF MarkStale
  <2>2. PICK ids : /\ ids = {d \in ActiveOn(h) : Family[d] = f /\ row[d].status = "building"}
                   /\ op' = [op EXCEPT ![f] = [at |-> "remove", host |-> h, ids |-> ids]]
                   /\ row' = [d \in Builds |-> IF d \in ids
                                THEN [row[d] EXCEPT !.status = "stale", !.superseded = FALSE] ELSE row[d]]
    BY <1>9 DEF MarkStale
  <2>3. OpCleans(c, g) => op'[Family[c]] = op[Family[c]]
    <3>1. op[f].at = "idle"
      BY <2>1 DEF NoOp
    <3>2. Family[c] # f => op'[Family[c]] = op[Family[c]]
      BY <1>a, <1>b, <2>2
    <3> QED BY <3>1, <3>2 DEF OpCleans
  <2>4. CASE Own
    <3>1. c \in ids
      BY <2>2, <2>4
    <3>2. Family[c] = f /\ g = h
      BY <2>2, <2>4, <3>1 DEF ActiveOn, ActiveAt
    <3>3. op'[f] = [at |-> "remove", host |-> h, ids |-> ids]
      BY <1>a, <2>2
    <3>4. OpNow
      BY <3>1, <3>2, <3>3
    <3> QED BY <3>4
  <2>5. CASE ~Own
    BY <1>d, <1>p, <1>o, <1>r, <2>1, <2>3, <2>5
  <2> QED BY <2>4, <2>5
<1>10. ASSUME NEW h \in Hosts, NEW b \in Builds, Report(h, b) PROVE Now
  <2>1. desired' = desired /\ pass' = pass /\ rec' = rec /\ op' = op /\ jobs[h][b] \in Phases
    BY <1>10, <1>a DEF Report, JobsPart
  <2>2. term[g] \subseteq term'[g]
    BY <1>10, <1>a DEF Report
  <2>3. CASE Own
    <3>1. c = b /\ g = h /\ ActiveAt(b, h)
      BY <1>10, <1>a, <2>3 DEF Report, ActiveAt
    <3>2. row' = [row EXCEPT ![b] = [@ EXCEPT !.phase = jobs[h][b], !.status = StatusOf(jobs[h][b])]]
      BY <1>10, <1>a, <3>1 DEF Report
    <3>3. row'[b] = [row[b] EXCEPT !.phase = jobs[h][b], !.status = StatusOf(jobs[h][b])]
      BY <1>a, <3>2
    <3>4. row'[b].host = row[b].host /\ row'[b].status = StatusOf(jobs[h][b])
      BY <1>c, <3>1, <3>3 DEF RowSet
    <3>5. jobs[h][b] \in {"succeeded", "failed"}
      BY <2>1, <2>3, <3>1, <3>4 DEF StatusOf, Phases
    <3>6. c \in term'[g]
      BY <1>10, <1>a, <3>1, <3>5 DEF Report, Ended
    <3> QED BY <3>6
  <2>4. CASE ~Own
    BY <1>d, <1>p, <1>o, <1>r, <2>1, <2>2, <2>4
  <2> QED BY <2>3, <2>4
<1>11. ASSUME NEW p \in Passes, ClaimBuild(p) PROVE Now
  <2>1. desired' = desired /\ rec' = rec /\ op' = op /\ term' = term /\ pass[p].at = "claim"
    BY <1>11 DEF ClaimBuild
  <2>2. row'[c] = row[c] \/ row[c].status = "queued"
    BY <1>11, <1>a DEF ClaimBuild, Claimable
  <2>3. ~Own
    BY <2>2
  <2>4. PassCleans(c, g) => PassNow
    BY <1>11, <1>a, <2>1 DEF ClaimBuild, PassCleans
  <2> QED BY <1>d, <1>p, <1>o, <1>r, <2>1, <2>3, <2>4
<1>12. ASSUME NEW p \in Passes, PublishDesired(p) PROVE Now
  <2>1. row' = row /\ rec' = rec /\ op' = op /\ term' = term /\ pass[p].at = "publish"
    BY <1>12 DEF PublishDesired
  <2>2. /\ pass[p] \in [at : {"claim", "publish", "recheck", "undo"}, build : Builds, host : Hosts]
        /\ pass[p].build \in Builds /\ pass[p].host \in Hosts
    BY <1>a, <2>1, PassAt
  <2>3. desired[pass[p].host].ids \cup {pass[p].build} \in SUBSET Builds
    BY <1>a, <2>2 DEF DesiredPart
  <2>4. pass'[p] = [pass[p] EXCEPT !.at = "recheck"] /\ \A q \in Passes \ {p} : pass'[q] = pass[q]
    BY <1>12, <1>a DEF PublishDesired
  <2>5. pass'[p].at = "recheck" /\ pass'[p].build = pass[p].build /\ pass'[p].host = pass[p].host
    BY <2>2, <2>4
  <2>6. c \in desired[g].ids \/ (c = pass[p].build /\ g = pass[p].host)
    BY <1>12, <1>a, <2>2, <2>3, RewriteKeeps DEF PublishDesired
  <2>7. PassCleans(c, g) => PassNow
    BY <2>1, <2>4 DEF PassCleans
  <2>8. c = pass[p].build /\ g = pass[p].host => PassNow
    BY <2>5
  <2> QED BY <1>d, <1>p, <1>o, <1>r, <2>1, <2>6, <2>7, <2>8
<1>13. ASSUME NEW p \in Passes, RecheckAssignment(p) PROVE Now
  <2>1. row' = row /\ desired' = desired /\ rec' = rec /\ op' = op /\ term' = term /\ pass[p].at = "recheck"
    BY <1>13 DEF RecheckAssignment
  <2>2. pass[p] \in [at : {"claim", "publish", "recheck", "undo"}, build : Builds, host : Hosts]
    BY <1>a, <2>1, PassAt
  <2>3. \A q \in Passes \ {p} : pass'[q] = pass[q]
    BY <1>13, <1>a DEF RecheckAssignment
  <2>4. CASE c = pass[p].build /\ g = pass[p].host
    <3>1. pass'[p] = [pass[p] EXCEPT !.at = "undo"]
      BY <1>13, <1>a, <2>1, <2>4 DEF RecheckAssignment, ActiveAt
    <3>2. pass'[p].at = "undo" /\ pass'[p].build = c /\ pass'[p].host = g
      BY <2>2, <2>4, <3>1
    <3> QED BY <3>2
  <2>5. CASE ~(c = pass[p].build /\ g = pass[p].host)
    <3>1. PassCleans(c, g) => PassNow
      BY <2>3, <2>5 DEF PassCleans
    <3> QED BY <1>d, <1>o, <1>r, <2>1, <3>1
  <2> QED BY <2>4, <2>5
<1>14. ASSUME NEW p \in Passes, UndoDesired(p) PROVE Now
  <2>1. row' = row /\ rec' = rec /\ op' = op /\ term' = term /\ pass[p].at = "undo"
    BY <1>14 DEF UndoDesired
  <2>2. pass[p].build \in Builds /\ pass[p].host \in Hosts
    BY <1>a, <2>1, PassAt
  <2>3. desired[pass[p].host].ids \ {pass[p].build} \in SUBSET Builds
    BY <1>a, <2>2 DEF DesiredPart
  <2>4. c \in desired[g].ids /\ ~(c = pass[p].build /\ g = pass[p].host)
    BY <1>14, <1>a, <2>2, <2>3, RewriteKeeps DEF UndoDesired, RemoveDesired
  <2>5. \A q \in Passes \ {p} : pass'[q] = pass[q]
    BY <1>14, <1>a DEF UndoDesired
  <2>6. PassCleans(c, g) => PassNow
    BY <2>4, <2>5 DEF PassCleans
  <2> QED BY <1>d, <1>p, <1>o, <1>r, <2>1, <2>4, <2>6
<1>15. ASSUME NEW p \in Passes, NEW b \in Builds, NEW h \in Hosts, ReadQueue(p, b, h) PROVE Now
  <2>1. row' = row /\ desired' = desired /\ rec' = rec /\ op' = op /\ term' = term /\ pass[p] = NoPass
    BY <1>15 DEF ReadQueue
  <2>2. \A q \in Passes \ {p} : pass'[q] = pass[q]
    BY <1>15, <1>a DEF ReadQueue
  <2>3. PassCleans(c, g) => PassNow
    BY <2>1, <2>2 DEF PassCleans, NoPass
  <2> QED BY <1>d, <1>p, <1>o, <1>r, <2>1, <2>3
<1>16. ASSUME NEW h \in Hosts, ReadAssignments(h) PROVE Now
  <2>1. row' = row /\ desired' = desired /\ pass' = pass /\ op' = op /\ term' = term /\ rec[h] = NoOp
    BY <1>16 DEF ReadAssignments
  <2>2. RecCleans(c, g) => rec'[g] = rec[g]
    BY <1>16, <1>a, <2>1 DEF ReadAssignments, RecCleans, NoOp
  <2> QED BY <1>d, <1>p, <1>o, <1>r, <2>1, <2>2
<1>17. ASSUME NEW h \in Hosts, WriteAssignments(h) PROVE Now
  <2>1. row' = row /\ pass' = pass /\ op' = op /\ term' = term /\ rec[h].at = "write"
    BY <1>17 DEF WriteAssignments
  <2>2. /\ rec[h] \in [at : {"write", "check"}, host : Hosts, ids : SUBSET Builds]
        /\ rec[h].ids \subseteq Builds
    BY <1>a, <2>1, RecAt
  <2>3. desired[h].ids \cup rec[h].ids \in SUBSET Builds
    BY <1>a, <2>2 DEF DesiredPart
  <2>4. rec'[h] = [rec[h] EXCEPT !.at = "check"] /\ \A k \in Hosts \ {h} : rec'[k] = rec[k]
    BY <1>17, <1>a DEF WriteAssignments
  <2>5. rec'[h].at = "check" /\ rec'[h].ids = rec[h].ids
    BY <2>2, <2>4
  <2>6. c \in desired[g].ids \/ (g = h /\ c \in rec[h].ids)
    BY <1>17, <1>a, <2>3, RewriteKeeps DEF WriteAssignments
  <2>7. RecCleans(c, g) => RecNow
    BY <2>1, <2>4 DEF RecCleans
  <2>8. g = h /\ c \in rec[h].ids => RecNow
    BY <2>5
  <2> QED BY <1>d, <1>p, <1>o, <1>r, <2>1, <2>6, <2>7, <2>8
<1>18. ASSUME NEW h \in Hosts, DropSuperseded(h) PROVE Now
  <2>1. row' = row /\ pass' = pass /\ op' = op /\ term' = term /\ rec[h].at = "check"
    BY <1>18 DEF DropSuperseded
  <2>2. desired[h].ids \ (rec[h].ids \ ActiveOn(h)) \in SUBSET Builds
    BY <1>a DEF DesiredPart
  <2>3. c \in desired[g].ids /\ (g = h => c \notin rec[h].ids \ ActiveOn(h))
    BY <1>18, <1>a, <2>2, RewriteKeeps DEF DropSuperseded, RemoveDesired
  <2>4. g = h => c \notin ActiveOn(h)
    BY <2>1 DEF ActiveOn, ActiveAt
  <2>5. RecCleans(c, g) => rec'[g] = rec[g]
    BY <1>18, <1>a, <2>3, <2>4 DEF DropSuperseded, RecCleans
  <2> QED BY <1>d, <1>p, <1>o, <1>r, <2>1, <2>3, <2>5
<1>19. ASSUME NEW h \in Hosts, ApplyDesired(h) PROVE Now
  <2>1. row' = row /\ pass' = pass /\ op' = op /\ rec' = rec /\ term' = term
    BY <1>19 DEF ApplyDesired
  <2>2. c \in desired[g].ids
    BY <1>19, <1>a DEF ApplyDesired, DesiredPart
  <2> QED BY <1>d, <1>p, <1>o, <1>r, <2>1, <2>2
<1>20. ASSUME NEW h \in Hosts, RemoveTerminal(h) PROVE Now
  <2>1. row' = row /\ pass' = pass /\ op' = op /\ rec' = rec
    BY <1>20 DEF RemoveTerminal
  <2>2. desired[h].ids \ term[h] \in SUBSET Builds
    BY <1>a DEF DesiredPart
  <2>3. c \in desired[g].ids /\ (g = h => c \notin term[h])
    BY <1>20, <1>a, <2>2, RewriteKeeps DEF RemoveTerminal, RemoveDesired
  <2>4. c \in term[g] => term'[g] = term[g]
    BY <1>20, <1>a, <2>3 DEF RemoveTerminal
  <2> QED BY <1>d, <1>p, <1>o, <1>r, <2>1, <2>3, <2>4
<1>21. ASSUME NEW h \in Hosts, Disconnect(h) PROVE Now
  <2>1. row' = row /\ desired' = desired /\ pass' = pass /\ op' = op /\ rec' = rec /\ term' = term
    BY <1>21 DEF Disconnect
  <2> QED BY <1>d, <1>p, <1>o, <1>r, <2>1
<1>22. ASSUME NEW h \in Hosts, PassDeadline(h) PROVE Now
  <2>1. row' = row /\ desired' = desired /\ pass' = pass /\ op' = op /\ rec' = rec /\ term' = term
    BY <1>22 DEF PassDeadline
  <2> QED BY <1>d, <1>p, <1>o, <1>r, <2>1
<1>23. ASSUME NEW h \in Hosts, Reconnect(h) PROVE Now
  <2>1. row' = row /\ desired' = desired /\ pass' = pass /\ op' = op /\ rec' = rec /\ term' = term
    BY <1>23 DEF Reconnect
  <2> QED BY <1>d, <1>p, <1>o, <1>r, <2>1
<1>24. ASSUME NEW h \in Hosts, NEW b \in Builds, Work(h, b) PROVE Now
  <2>1. row' = row /\ desired' = desired /\ pass' = pass /\ op' = op /\ rec' = rec /\ term' = term
    BY <1>24 DEF Work
  <2> QED BY <1>d, <1>p, <1>o, <1>r, <2>1
<1>25. ASSUME NEW h \in Hosts, NEW b \in Builds, Publish(h, b) PROVE Now
  <2>1. row' = row /\ desired' = desired /\ pass' = pass /\ op' = op /\ rec' = rec /\ term' = term
    BY <1>25 DEF Publish
  <2> QED BY <1>d, <1>p, <1>o, <1>r, <2>1
<1>26. ASSUME NEW h \in Hosts, NEW b \in Builds, Rebuild(h, b) PROVE Now
  <2>1. row' = row /\ desired' = desired /\ pass' = pass /\ op' = op /\ rec' = rec /\ term' = term
    BY <1>26 DEF Rebuild
  <2> QED BY <1>d, <1>p, <1>o, <1>r, <2>1
<1>n. Now
  BY UnbrokenBack, <1>1, <1>2, <1>3, <1>4, <1>5, <1>6, <1>7, <1>8, <1>9, <1>10, <1>11, <1>12, <1>13, <1>14, <1>15, <1>16, <1>17, <1>18, <1>19, <1>20, <1>21, <1>22, <1>23, <1>24, <1>25, <1>26 DEF SchedulerNext
<1> QED BY <1>n DEF Cleaned, PassCleans, OpCleans, RecCleans

-----------------------------------------------------------------------------
SchedulerInv == SchedulerTypes /\ OneLive /\ RetryLive /\ RetiredSound /\ OrphanCleaned

LEMMA SchedulerStart ==
  ASSUME SchedulerConstants, SchedulerInit
  PROVE  SchedulerInv
<1>1. /\ \A j \in DOMAIN Bounds : Bounds[j] \in Nat
  BY DEF SchedulerConstants, Bounds
<1>2. used \in [DOMAIN Bounds -> Nat] /\ \A k \in DOMAIN Bounds : used[k] <= Bounds[k]
  <2> HIDE DEF Bounds
  <2> QED BY <1>1 DEF SchedulerInit
<1>3. SchedulerTypes
  BY <1>2 DEF SchedulerInit, SchedulerTypes, NoOp, NoPass, Statuses, Phases
<1>4. OneLive /\ RetryLive
  BY DEF SchedulerInit, OneLive, RetryLive, RowLive, RowRetry, NoOp
<1>5. RetiredSound /\ OrphanCleaned
  BY DEF SchedulerInit, RetiredSound, OrphanCleaned
<1> QED BY <1>3, <1>4, <1>5 DEF SchedulerInv

LEMMA SchedulerSafe ==
  ASSUME SchedulerInv
  PROVE  BuildsKept
<1>1. SchedulerTypes /\ OneActiveHash
  BY DEF SchedulerInv, OneLive, RowLive, OneActiveHash, Siblings, Active
<1>2. NoOrphanBuild
  <2> SUFFICES ASSUME Unbroken, AtRest, NEW h \in Hosts, NEW b \in desired[h].ids
               PROVE  b \in ActiveOn(h)
    BY DEF NoOrphanBuild
  <2>1. b \in Builds /\ Family[b] \in Families
    BY <1>1 DEF SchedulerTypes, Families
  <2>2. ~Cleaned(b, h)
    BY <2>1 DEF AtRest, Cleaned, PassCleans, OpCleans, RecCleans, NoPass, NoOp
  <2>3. ActiveAt(b, h)
    BY <2>1, <2>2 DEF SchedulerInv, OrphanCleaned
  <2> QED BY <2>1, <2>3 DEF ActiveOn
<1> QED BY <1>1, <1>2 DEF BuildsKept

LEMMA SchedulerStep ==
  ASSUME SchedulerConstants, SchedulerInv, [SchedulerNext]_schedulerVars
  PROVE  SchedulerInv'
<1>1. CASE SchedulerNext
  BY <1>1, TypesStep, LiveStep, RetiredStep, OrphanStep DEF SchedulerInv
<1>2. CASE UNCHANGED schedulerVars
  BY <1>2 DEF schedulerVars, SchedulerInv, SchedulerTypes, OneLive, RetryLive, RetiredSound, OrphanCleaned,
     Unbroken, ActiveAt, Cleaned, PassCleans, OpCleans, RecCleans
<1> QED BY <1>1, <1>2

\* However many builds, builders and passes there are, and whatever outages,
\* retries, supersessions and lost requests come between them: a scenario and
\* architecture has one active hash, and while no request died half way no
\* builder is left with a build that is not its own.
THEOREM BuildsCorrect ==
  ASSUME SchedulerConstants
  PROVE  SchedulerSpec => []BuildsKept
<1>1. SchedulerInit => SchedulerInv
  BY SchedulerStart
<1>2. SchedulerInv /\ [SchedulerNext]_schedulerVars => SchedulerInv'
  BY SchedulerStep
<1>3. SchedulerInv => BuildsKept
  BY SchedulerSafe
<1> QED BY <1>1, <1>2, <1>3, PTL DEF SchedulerSpec

(***************************************************************************)
(* Scenario sources.                                                       *)
(***************************************************************************)
CompilesLeft(rows) ==
  \A r \in Revs :
    /\ rows[r].st = "fetching" => rows[r].att - rows[r].claimed < MaxCompiles
    /\ rows[r].st = "compiling" => rows[r].att - rows[r].claimed <= MaxCompiles

LiveNamed(rows, b) == \A r \in Revs : rows[r].st = "live" => b.live = r

\* the try that a pass at the staged bundle or at the writer has counted is still counted,
\* unless the row has gone on to another attempt
TryCounted(t, rows, n) ==
  t.pc \in {"read", "write"} =>
    /\ t.att <= rows[t.rev].att
    /\ t.att = rows[t.rev].att =>
         /\ rows[t.rev].st # "none"
         /\ t.pc = "read" \/ t.next = "ingested" => n[t.rev].ingest > 0
         /\ t.pc = "write" /\ t.next # "ingested" => n[t.rev].heal > 0

Bindings == [mode : {"pull", "push"}, paused : {"no", "admin", "suspended", "binder"},
             disc : {"no", "admin", "gone", "purging", "none"}, head : Revs \cup {NoRev},
             target : Revs \cup {NoRev}, live : Revs \cup {NoRev}]
CommitRows == [st : RowStates, att : Nat, claimed : Nat, host : BOOLEAN]
RowTypes(rows) == rows \in [Revs -> CommitRows] /\ \A r \in Revs : rows[r].claimed <= rows[r].att
BuildTypes == [Revs -> {"none", "queued", "running", "good", "bad", "stale"}]
TryTypes == [Revs -> [fetch : 0..MaxTries, ingest : 0..MaxTries, heal : 0..MaxTries]]
TickRecords ==
  [pc : TickSteps, next : TickSteps, rev : Revs \cup {NoRev}, att : Nat, st : RowStates,
   head : Revs \cup {NoRev}, late : BOOLEAN, drop : SUBSET Revs, promoted : BOOLEAN]
TickTypes(t) ==
  /\ t \in TickRecords
  /\ t.pc \in Working => t.rev \in Revs
  /\ t.pc = "write" => t.next \in {"ingested", "healed"}
  /\ t.pc \in {"clean", "core", "golive"} => t.next \notin Working
UploadTypes(u) ==
  /\ u \in [pc : {"idle", "read", "staged"}, rev : Revs \cup {NoRev}, late : BOOLEAN]
  /\ u.pc # "idle" => u.rev \in Revs
BldTypes(v) ==
  /\ v \in [pc : {"idle", "child", "post", "claim"}, job : Jobs, res : {"none", "ok", "bad"}, done : Jobs]
  /\ v.pc # "idle" => v.job.rev \in Revs
LeftTypes == [moves : Nat, uploads : Nat, changes : Nat, faults : Nat]

\* the state in parts, each a predicate of the values it is about
StoreKept(rp, c, st, ar, bu, bd, o, cj, l) ==
  /\ rp \in Revs /\ c \in Revs \cup {NoRev} /\ st \subseteq Revs /\ ar \subseteq Revs /\ bu \subseteq Revs
  /\ bd \in BuildTypes /\ o \in {"none", "do", "up"} /\ cj \in Jobs /\ l \in LeftTypes
SourceInv ==
  /\ StoreKept(repo, cat, staged, archive, bundle, build, order, compile, left)
  /\ bind \in Bindings /\ RowTypes(commits) /\ tried \in TryTypes
  /\ TickTypes(tick) /\ UploadTypes(upload) /\ BldTypes(bld)
  /\ CompilesLeft(commits) /\ LiveNamed(commits, bind) /\ TryCounted(tick, commits, tried)

LEMMA SourceInvTypes == SourceInv <=> /\ SourceTypes /\ CompilesLeft(commits)
                                      /\ LiveNamed(commits, bind) /\ TryCounted(tick, commits, tried)
BY DEF SourceInv, SourceTypes, StoreKept, Bindings, RowTypes, CommitRows, BuildTypes, TryTypes,
       TickRecords, TickTypes, UploadTypes, BldTypes, LeftTypes

LEMMA SourceInvSound ==
  ASSUME ScenarioSourceConstants, SourceInv
  PROVE  SourceSound
<1>1. SourceTypes /\ CompilesLeft(commits) /\ LiveNamed(commits, bind)
  BY SourceInvTypes
<1>2. CompileBounded
  <2> SUFFICES ASSUME NEW r \in Revs, commits[r].st \in {"fetching", "compiling"}
               PROVE  commits[r].att - commits[r].claimed <= MaxCompiles
    BY DEF CompileBounded
  <2>1. commits[r].att \in Nat /\ commits[r].claimed \in Nat /\ MaxCompiles \in Nat
    BY <1>1 DEF SourceTypes, ScenarioSourceConstants
  <2> QED
    BY <1>1, <2>1 DEF CompilesLeft
<1>3. OneLiveRow
  BY <1>1 DEF OneLiveRow, LiveNamed
<1> QED
  BY <1>1, <1>2, <1>3 DEF SourceSound

LEMMA SourceInitKept ==
  ASSUME ScenarioSourceConstants, SourceInit
  PROVE  SourceInv
<1>1. StoreKept(repo, cat, staged, archive, bundle, build, order, compile, left)
  BY DEF SourceInit, ScenarioSourceConstants, StoreKept, BuildTypes, LeftTypes, Jobs, NoJob
<1>2. bind \in Bindings
  <2>1. PICK m \in Modes : bind = [mode |-> m, paused |-> "no", disc |-> "no", head |-> NoRev,
                                   target |-> NoRev, live |-> NoRev]
    BY DEF SourceInit
  <2>2. m \in {"pull", "push"}
    BY DEF ScenarioSourceConstants
  <2> QED
    BY <2>1, <2>2 DEF Bindings
<1>3. RowTypes(commits) /\ CompilesLeft(commits) /\ LiveNamed(commits, bind)
  <2>1. commits = [r \in Revs |-> NoRow]
    BY DEF SourceInit
  <2>2. NoRow \in CommitRows /\ NoRow.claimed <= NoRow.att /\ NoRow.st = "none"
    BY DEF NoRow, CommitRows, RowStates
  <2>3. \A r \in Revs : commits[r] = NoRow
    BY <2>1
  <2>4. RowTypes(commits)
    BY <2>1, <2>2, <2>3 DEF RowTypes
  <2> QED
    BY <2>2, <2>3, <2>4 DEF CompilesLeft, LiveNamed
<1>4. tried \in TryTypes
  BY DEF SourceInit, ScenarioSourceConstants, TryTypes, NoTries
<1>5. TickTypes(tick) /\ UploadTypes(upload) /\ BldTypes(bld) /\ TryCounted(tick, commits, tried)
  BY DEF SourceInit, NoTick, NoUpload, NoCompile, NoJob, Jobs, TickRecords, TickTypes, TickSteps, Working, RowStates,
         UploadTypes, BldTypes, TryCounted
<1> QED
  BY <1>1, <1>2, <1>3, <1>4, <1>5 DEF SourceInv

Settling == RowStates \ {"none", "fetching", "compiling", "live"}

\* rows change their states only, and none becomes live, is delivered or goes away
RowsMove(rows, n) ==
  /\ n \in [Revs -> CommitRows]
  /\ \A r \in Revs :
       /\ n[r].att = rows[r].att /\ n[r].claimed = rows[r].claimed
       /\ \/ n[r].st = rows[r].st
          \/ n[r].st \in Settling
          \/ n[r].st = "fetching" /\ rows[r].att - rows[r].claimed < MaxCompiles

LEMMA RowsMoveKeep ==
  ASSUME ScenarioSourceConstants, NEW rows, NEW n, RowsMove(rows, n), RowTypes(rows), CompilesLeft(rows),
         NEW b, LiveNamed(rows, b)
  PROVE  /\ RowTypes(n) /\ CompilesLeft(n) /\ LiveNamed(n, b)
<1>1. RowTypes(n)
  BY DEF RowTypes, RowsMove
<1>2. ASSUME NEW r \in Revs
      PROVE  /\ n[r].st = "fetching" => n[r].att - n[r].claimed < MaxCompiles
             /\ n[r].st = "compiling" => n[r].att - n[r].claimed <= MaxCompiles
             /\ n[r].st = "live" => b.live = r
  <2>1. /\ rows[r].st = "fetching" => rows[r].att - rows[r].claimed < MaxCompiles
        /\ rows[r].st = "compiling" => rows[r].att - rows[r].claimed <= MaxCompiles
        /\ rows[r].st = "live" => b.live = r
    BY DEF CompilesLeft, LiveNamed
  <2>2. /\ n[r].att = rows[r].att /\ n[r].claimed = rows[r].claimed
        /\ \/ n[r].st = rows[r].st
           \/ n[r].st \in Settling
           \/ n[r].st = "fetching" /\ rows[r].att - rows[r].claimed < MaxCompiles
    BY DEF RowsMove
  <2> QED
    BY <2>1, <2>2 DEF Settling, RowStates
<1> QED
  BY <1>1, <1>2 DEF CompilesLeft, LiveNamed

LEMMA RowsMoveCounted ==
  ASSUME NEW rows, NEW n, RowsMove(rows, n), NEW t, NEW k, TickTypes(t), TryCounted(t, rows, k)
  PROVE  TryCounted(t, n, k)
<1> SUFFICES ASSUME t.pc \in {"read", "write"}
             PROVE  TryCounted(t, n, k)
  BY DEF TryCounted
<1>1. t.rev \in Revs
  BY DEF TickTypes, Working
<1>2. n[t.rev].att = rows[t.rev].att /\ (n[t.rev].st = "none" => rows[t.rev].st = "none")
  BY <1>1 DEF RowsMove, Settling
<1> QED
  BY <1>2 DEF TryCounted

LEMMA RowsSame ==
  ASSUME NEW rows, RowTypes(rows)
  PROVE  RowsMove(rows, rows)
BY DEF RowsMove, RowTypes

LEMMA CommitMoves ==
  ASSUME NEW rows, RowTypes(rows), NEW r \in Revs, NEW s,
         s \in Settling \/ (s = "fetching" /\ rows[r].att - rows[r].claimed < MaxCompiles)
  PROVE  RowsMove(rows, [rows EXCEPT ![r].st = s])
<1> DEFINE n == [rows EXCEPT ![r].st = s]
<1>1. s \in RowStates
  BY DEF Settling, RowStates
<1>2. rows \in [Revs -> CommitRows]
  BY DEF RowTypes
<1>3. n \in [Revs -> CommitRows]
  BY <1>1, <1>2 DEF CommitRows
<1>4. ASSUME NEW x \in Revs
      PROVE  /\ n[x].att = rows[x].att /\ n[x].claimed = rows[x].claimed
             /\ \/ n[x].st = rows[x].st
                \/ n[x].st \in Settling
                \/ n[x].st = "fetching" /\ rows[x].att - rows[x].claimed < MaxCompiles
  <2>1. rows[x] \in CommitRows
    BY <1>2
  <2>2. CASE x = r
    <3>1. n[x] = [rows[r] EXCEPT !.st = s]
      BY <1>2, <2>2
    <3>2. n[x].att = rows[x].att /\ n[x].claimed = rows[x].claimed /\ n[x].st = s
      BY <2>1, <2>2, <3>1 DEF CommitRows
    <3> QED
      BY <3>2, <2>2
  <2>3. CASE x # r
    <3>1. n[x] = rows[x]
      BY <1>2, <2>3
    <3> QED
      BY <3>1
  <2> QED
    BY <2>2, <2>3
<1> QED
  BY <1>3, <1>4 DEF RowsMove

\* a set of rows is dropped in one statement
LEMMA RowsDrop ==
  ASSUME NEW rows, RowTypes(rows), NEW D
  PROVE  RowsMove(rows, [r \in Revs |-> IF r \in D THEN [rows[r] EXCEPT !.st = "superseded"] ELSE rows[r]])
<1> DEFINE n == [r \in Revs |-> IF r \in D THEN [rows[r] EXCEPT !.st = "superseded"] ELSE rows[r]]
<1>1. "superseded" \in Settling /\ "superseded" \in RowStates
  BY DEF Settling, RowStates
<1>2. ASSUME NEW x \in Revs
      PROVE  /\ n[x] \in CommitRows
             /\ n[x].att = rows[x].att /\ n[x].claimed = rows[x].claimed
             /\ n[x].st = rows[x].st \/ n[x].st \in Settling
  <2>1. rows[x] \in CommitRows
    BY DEF RowTypes
  <2>2. n[x] = IF x \in D THEN [rows[x] EXCEPT !.st = "superseded"] ELSE rows[x]
    OBVIOUS
  <2> HIDE DEF n
  <2>3. CASE x \in D
    BY <1>1, <2>1, <2>2, <2>3 DEF CommitRows
  <2>4. CASE x \notin D
    BY <2>1, <2>2, <2>4
  <2> QED
    BY <2>3, <2>4
<1>3. n \in [Revs -> CommitRows]
  BY <1>2
<1> QED
  BY <1>2, <1>3 DEF RowsMove

LEMMA SettledMoves ==
  ASSUME RowTypes(commits), NEW r \in Revs, NEW a, NEW f, NEW s \in Settling
  PROVE  RowsMove(commits, Settled(r, a, f, s))
BY CommitMoves, RowsSame DEF Settled

LEMMA MirroredJob ==
  ASSUME NEW rows, RowTypes(rows)
  PROVE  Mirrored(rows) \in Jobs
<1>1. CASE \E r \in Revs : rows[r].st = "compiling" /\ rows[r].host
  <2> DEFINE c == CHOOSE x \in Revs : rows[x].st = "compiling" /\ rows[x].host
  <2>1. c \in Revs
    BY <1>1
  <2>2. rows[c].att \in Nat
    BY <2>1 DEF RowTypes, CommitRows
  <2>3. Mirrored(rows) = [rev |-> c, att |-> rows[c].att]
    BY <1>1 DEF Mirrored
  <2> QED
    BY <2>1, <2>2, <2>3 DEF Jobs
<1>2. CASE ~\E r \in Revs : rows[r].st = "compiling" /\ rows[r].host
  BY <1>2 DEF Mirrored, NoJob, Jobs
<1> QED
  BY <1>1, <1>2

\* where a pass can go on, and that it is then past what it counted
Ways == TickSteps \ Working

LEMMA IdleTick ==
  ASSUME NEW rows, NEW k
  PROVE  NoTick \in TickRecords /\ NoTick.next = "idle" /\ TickTypes(NoTick) /\ TryCounted(NoTick, rows, k)
BY DEF NoTick, TickRecords, TickTypes, TickSteps, Working, RowStates, TryCounted

LEMMA GotoTick ==
  ASSUME TickTypes(tick), NEW p \in Ways, Goto(p), NEW rows, NEW k
  PROVE  TickTypes(tick') /\ TryCounted(tick', rows, k)
<1>1. PICK m \in BOOLEAN : tick' = [NoTick EXCEPT !.pc = p, !.promoted = m]
  <2>1. tick.promoted \in BOOLEAN
    BY DEF TickTypes, TickRecords
  <2>2. CASE p = "idle"
    <3>1. (p # "idle" /\ tick.promoted) = FALSE
      BY <2>2
    <3>2. tick' = [NoTick EXCEPT !.pc = p, !.promoted = FALSE]
      BY <3>1, Zenon DEF Goto
    <3> QED
      BY <3>2
  <2>3. CASE p # "idle" /\ tick.promoted = TRUE
    <3>1. (p # "idle" /\ tick.promoted) = TRUE
      BY <2>3
    <3>2. tick' = [NoTick EXCEPT !.pc = p, !.promoted = TRUE]
      BY <3>1, Zenon DEF Goto
    <3> QED
      BY <3>2
  <2>4. CASE p # "idle" /\ tick.promoted = FALSE
    <3>1. (p # "idle" /\ tick.promoted) = FALSE
      BY <2>4
    <3>2. tick' = [NoTick EXCEPT !.pc = p, !.promoted = FALSE]
      BY <3>1, Zenon DEF Goto
    <3> QED
      BY <3>2
  <2> QED
    BY <2>1, <2>2, <2>3, <2>4
<1>2. p \in TickSteps /\ p \notin Working /\ p \notin {"read", "write", "core", "golive"}
  BY DEF Ways, TickSteps, Working
<1>3. NoTick \in TickRecords /\ NoTick.next = "idle"
  BY IdleTick
<1>4. tick' \in TickRecords /\ tick'.pc = p /\ tick'.next = "idle"
  BY <1>1, <1>2, <1>3 DEF TickRecords
<1>5. TickTypes(tick')
  BY <1>2, <1>4 DEF TickTypes, Working
<1> QED
  BY <1>2, <1>4, <1>5 DEF TryCounted

LEMMA CleanTick ==
  ASSUME TickTypes(tick), NEW D \in SUBSET Revs, NEW p \in Ways, CleanThen(D, p), NEW rows, NEW k
  PROVE  TickTypes(tick') /\ TryCounted(tick', rows, k)
<1>1. tick.promoted \in BOOLEAN
  BY DEF TickTypes, TickRecords
<1>2. p \in TickSteps /\ p \notin Working /\ p \notin {"read", "write", "core", "golive"}
  BY DEF Ways, TickSteps, Working
<1>3. NoTick \in TickRecords /\ {"clean", "idle"} \subseteq TickSteps /\ "clean" \notin Working
  BY IdleTick DEF TickSteps, Working
<1>4. CASE D = {}
  <2>1. tick' = [NoTick EXCEPT !.pc = p, !.drop = D, !.next = "idle", !.promoted = tick.promoted]
    BY <1>4 DEF CleanThen
  <2>2. tick' \in TickRecords /\ tick'.pc = p /\ tick'.next = "idle"
    BY <2>1, <1>1, <1>2, <1>3 DEF TickRecords
  <2> QED
    BY <2>2, <1>2 DEF TryCounted, TickTypes, Working
<1>5. CASE D # {}
  <2>1. tick' = [NoTick EXCEPT !.pc = "clean", !.drop = D, !.next = p, !.promoted = tick.promoted]
    BY <1>5 DEF CleanThen
  <2>2. tick' \in TickRecords /\ tick'.pc = "clean" /\ tick'.next = p
    BY <2>1, <1>1, <1>2, <1>3 DEF TickRecords
  <2> QED
    BY <2>2, <1>2, <1>3 DEF TryCounted, TickTypes
<1> QED
  BY <1>4, <1>5

LEMMA FaultLeft ==
  ASSUME left \in LeftTypes, Fault
  PROVE  left' \in LeftTypes
<1>1. left.faults \in Nat /\ left.faults > 0 /\ left' = [left EXCEPT !.faults = @ - 1]
  BY DEF Fault, LeftTypes
<1>2. left.faults - 1 \in Nat
  BY <1>1
<1> QED
  BY <1>1, <1>2 DEF LeftTypes

LEMMA ChangeLeft ==
  ASSUME left \in LeftTypes, NEW kind, Change(kind)
  PROVE  left' \in LeftTypes
<1>1. left.changes \in Nat /\ left.changes > 0 /\ left' = [left EXCEPT !.changes = @ - 1]
  BY DEF Change, LeftTypes
<1>2. left.changes - 1 \in Nat
  BY <1>1
<1> QED
  BY <1>1, <1>2 DEF LeftTypes

LEMMA DoneBld ==
  ASSUME NEW j \in Jobs
  PROVE  BldTypes([NoCompile EXCEPT !.done = j]) /\ BldTypes(NoCompile)
<1>1. NoJob \in Jobs
  BY DEF NoJob, Jobs
<1>2. NoCompile \in [pc : {"idle", "child", "post", "claim"}, job : Jobs, res : {"none", "ok", "bad"}, done : Jobs]
      /\ NoCompile.pc = "idle"
  BY <1>1 DEF NoCompile
<1> QED
  BY <1>2 DEF BldTypes

LEMMA LiveSame ==
  ASSUME NEW rows, NEW b, NEW c, b.live = c.live, LiveNamed(rows, b)
  PROVE  LiveNamed(rows, c)
BY DEF LiveNamed

\* the row of r begins another attempt
Anew(rows, n, r) ==
  /\ n \in [Revs -> CommitRows]
  /\ \A x \in Revs \ {r} : n[x] = rows[x]
  /\ n[r].att = rows[r].att + 1 /\ n[r].claimed = rows[r].claimed /\ n[r].st \in Settling

LEMMA RowAnew ==
  ASSUME NEW rows, RowTypes(rows), NEW r \in Revs, NEW s \in Settling
  PROVE  Anew(rows, [rows EXCEPT ![r] = [rows[r] EXCEPT !.st = s, !.att = rows[r].att + 1]], r)
<1> DEFINE n == [rows EXCEPT ![r] = [rows[r] EXCEPT !.st = s, !.att = rows[r].att + 1]]
<1>1. s \in RowStates
  BY DEF Settling
<1>2. rows \in [Revs -> CommitRows] /\ rows[r] \in CommitRows /\ rows[r].att + 1 \in Nat
  BY DEF RowTypes, CommitRows
<1>3. n[r] = [rows[r] EXCEPT !.st = s, !.att = rows[r].att + 1]
  BY <1>2
<1>4. n[r] \in CommitRows
  BY <1>1, <1>2, <1>3 DEF CommitRows
<1>5. n \in [Revs -> CommitRows] /\ \A x \in Revs \ {r} : n[x] = rows[x]
  BY <1>2, <1>4
<1>6. n[r].att = rows[r].att + 1 /\ n[r].claimed = rows[r].claimed /\ n[r].st = s
  BY <1>2, <1>3 DEF CommitRows
<1> QED
  BY <1>5, <1>6 DEF Anew

LEMMA AnewKeeps ==
  ASSUME NEW rows, NEW n, NEW r \in Revs, Anew(rows, n, r), RowTypes(rows), CompilesLeft(rows),
         NEW b, LiveNamed(rows, b)
  PROVE  RowTypes(n) /\ CompilesLeft(n) /\ LiveNamed(n, b)
<1>1. rows[r].att \in Nat /\ rows[r].claimed \in Nat /\ rows[r].claimed <= rows[r].att
  BY DEF RowTypes, CommitRows
<1>2. n[r].claimed <= n[r].att
  BY <1>1 DEF Anew
<1>3. RowTypes(n)
  BY <1>2 DEF RowTypes, Anew
<1>4. n[r].st \notin {"fetching", "compiling", "live"}
  BY DEF Anew, Settling
<1>5. CompilesLeft(n)
  BY <1>4 DEF CompilesLeft, Anew
<1>6. LiveNamed(n, b)
  BY <1>4 DEF LiveNamed, Anew
<1> QED
  BY <1>3, <1>5, <1>6

LEMMA AnewCounted ==
  ASSUME NEW rows, NEW n, NEW r \in Revs, Anew(rows, n, r), RowTypes(rows), NEW t, TickTypes(t), NEW k,
         TryCounted(t, rows, k), k \in TryTypes
  PROVE  TryCounted(t, n, [k EXCEPT ![r] = NoTries])
<1> DEFINE m == [k EXCEPT ![r] = NoTries]
<1> SUFFICES ASSUME t.pc \in {"read", "write"}
             PROVE  TryCounted(t, n, m)
  BY DEF TryCounted
<1>1. t.rev \in Revs /\ t.att \in Nat
  BY DEF TickTypes, TickRecords, Working
<1>2. t.att <= rows[t.rev].att /\ rows[t.rev].att \in Nat
  BY <1>1 DEF TryCounted, RowTypes, CommitRows
<1>3. CASE t.rev = r
  <2>1. n[t.rev].att = rows[t.rev].att + 1
    BY <1>3 DEF Anew
  <2> QED
    BY <1>1, <1>2, <2>1 DEF TryCounted
<1>4. CASE t.rev # r
  <2>1. n[t.rev] = rows[t.rev] /\ m[t.rev] = k[t.rev]
    BY <1>1, <1>4 DEF Anew, TryTypes
  <2> HIDE DEF m
  <2> QED
    BY <2>1 DEF TryCounted
<1> QED
  BY <1>3, <1>4

LEMMA ForgottenTries ==
  ASSUME ScenarioSourceConstants, NEW k \in TryTypes, NEW r \in Revs
  PROVE  [k EXCEPT ![r] = NoTries] \in TryTypes
BY DEF TryTypes, NoTries, ScenarioSourceConstants

LEMMA PushKeeps ==
  ASSUME ScenarioSourceConstants, SourceInv, NEW r \in Revs, Push(r)
  PROVE  SourceInv'
<1>1. /\ StoreKept(repo, cat, staged, archive, bundle, build, order, compile, left)
      /\ bind \in Bindings /\ RowTypes(commits) /\ tried \in TryTypes
      /\ TickTypes(tick) /\ UploadTypes(upload) /\ BldTypes(bld)
      /\ CompilesLeft(commits) /\ LiveNamed(commits, bind) /\ TryCounted(tick, commits, tried)
  BY DEF SourceInv
<1>2. UNCHANGED <<bind, commits, staged, archive, bundle, build, cat, tried, tick, upload, order, bld, compile>>
  BY DEF Push
<1>3. StoreKept(repo', cat', staged', archive', bundle', build', order', compile', left')
  <2>1. left.moves \in Nat /\ left.moves > 0 /\ left' = [left EXCEPT !.moves = @ - 1]
    BY <1>1 DEF Push, StoreKept, LeftTypes
  <2>2. left.moves - 1 \in Nat
    BY <2>1
  <2>3. left' \in LeftTypes
    BY <1>1, <2>1, <2>2 DEF StoreKept, LeftTypes
  <2>4. repo' = r
    BY DEF Push
  <2> QED
    BY <1>1, <1>2, <2>3, <2>4 DEF StoreKept
<1> QED
  BY <1>1, <1>2, <1>3 DEF SourceInv

LEMMA RerunKeeps ==
  ASSUME ScenarioSourceConstants, SourceInv, NEW r \in Revs, Rerun(r)
  PROVE  SourceInv'
<1>1. /\ StoreKept(repo, cat, staged, archive, bundle, build, order, compile, left)
      /\ bind \in Bindings /\ RowTypes(commits) /\ tried \in TryTypes
      /\ TickTypes(tick) /\ UploadTypes(upload) /\ BldTypes(bld)
      /\ CompilesLeft(commits) /\ LiveNamed(commits, bind) /\ TryCounted(tick, commits, tried)
  BY DEF SourceInv
<1>2. UNCHANGED <<repo, bind, staged, archive, bundle, build, cat, tick, upload, order, bld, compile>>
  BY DEF Rerun
<1>11. PICK s \in Settling : commits' = [commits EXCEPT ![r] = [commits[r] EXCEPT !.st = s, !.att = commits[r].att + 1]]
  <2>1. commits[r] \in CommitRows /\ commits \in [Revs -> CommitRows]
    BY <1>1 DEF RowTypes
  <2>2. {"ingesting", "superseded"} \subseteq Settling
    BY DEF Settling, RowStates
  <2>3. CASE commits[r].st = "failed"
    <3>1. commits' = [commits EXCEPT ![r] = [commits[r] EXCEPT !.st = "ingesting", !.att = commits[r].att + 1]]
      BY <2>1, <2>3 DEF Rerun, CommitRows
    <3> QED
      BY <2>2, <3>1
  <2>4. CASE commits[r].st # "failed"
    <3>1. commits' = [commits EXCEPT ![r] = [commits[r] EXCEPT !.st = "superseded", !.att = commits[r].att + 1]]
      BY <2>1, <2>4 DEF Rerun, CommitRows
    <3> QED
      BY <2>2, <3>1
  <2> QED
    BY <2>3, <2>4
<1>12. Anew(commits, commits', r)
  BY <1>1, <1>11, RowAnew
<1>3. StoreKept(repo', cat', staged', archive', bundle', build', order', compile', left')
  <2>1. left' \in LeftTypes
    BY <1>1, ChangeLeft DEF Rerun, StoreKept
  <2> QED
    BY <1>1, <1>2, <2>1 DEF StoreKept
<1>5. RowTypes(commits') /\ CompilesLeft(commits') /\ LiveNamed(commits', bind')
  BY <1>1, <1>2, <1>12, AnewKeeps
<1>6. tried' \in TryTypes
  BY <1>1, ForgottenTries DEF Rerun
<1>7. TickTypes(tick') /\ TryCounted(tick', commits', tried')
  <2>1. TryCounted(tick, commits', [tried EXCEPT ![r] = NoTries])
    BY <1>1, <1>12, AnewCounted
  <2>2. tried' = [tried EXCEPT ![r] = NoTries] /\ tick' = tick
    BY <1>2 DEF Rerun
  <2> QED
    BY <1>1, <2>1, <2>2
<1> QED
  BY <1>1, <1>2, <1>3, <1>5, <1>6, <1>7 DEF SourceInv

LEMMA BuildMovesKeeps ==
  ASSUME ScenarioSourceConstants, SourceInv, NEW r \in Revs, BuildMoves(r)
  PROVE  SourceInv'
<1>1. /\ StoreKept(repo, cat, staged, archive, bundle, build, order, compile, left)
      /\ bind \in Bindings /\ RowTypes(commits) /\ tried \in TryTypes
      /\ TickTypes(tick) /\ UploadTypes(upload) /\ BldTypes(bld)
      /\ CompilesLeft(commits) /\ LiveNamed(commits, bind) /\ TryCounted(tick, commits, tried)
  BY DEF SourceInv
<1>2. UNCHANGED <<repo, bind, commits, staged, archive, bundle, cat, tried, tick, upload, order, bld, compile>>
  BY DEF BuildMoves
<1>3. StoreKept(repo', cat', staged', archive', bundle', build', order', compile', left')
  <2>1. left' \in LeftTypes
    <3>1. left' = left \/ Fault
      BY DEF BuildMoves
    <3> QED
      BY <1>1, <3>1, FaultLeft DEF StoreKept
  <2>2. build' \in BuildTypes
    <3>1. PICK s \in {"running", "good", "bad", "stale"} : build' = [build EXCEPT ![r] = s]
      BY DEF BuildMoves
    <3> QED
      BY <1>1, <3>1 DEF StoreKept, BuildTypes
  <2> QED
    BY <1>1, <1>2, <2>1, <2>2 DEF StoreKept
<1> QED
  BY <1>1, <1>2, <1>3 DEF SourceInv

LEMMA ChangeSourceKeeps ==
  ASSUME ScenarioSourceConstants, SourceInv, ChangeSource
  PROVE  SourceInv'
<1>1. /\ StoreKept(repo, cat, staged, archive, bundle, build, order, compile, left)
      /\ bind \in Bindings /\ RowTypes(commits) /\ tried \in TryTypes
      /\ TickTypes(tick) /\ UploadTypes(upload) /\ BldTypes(bld)
      /\ CompilesLeft(commits) /\ LiveNamed(commits, bind) /\ TryCounted(tick, commits, tried)
  BY DEF SourceInv
<1>2. UNCHANGED <<repo, staged, archive, bundle, build, cat, tried, tick, upload, order, bld>>
  BY DEF ChangeSource
<1>11. left' \in LeftTypes
  <2>1. \E kind : Change(kind)
    BY DEF ChangeSource, Paused, Resumed, Disconnected, Connected, Switched
  <2> QED
    BY <1>1, <2>1, ChangeLeft DEF StoreKept
<1>12. bind' \in Bindings /\ bind'.live = bind.live
  <2>1. CASE Paused
    BY <1>1, <2>1 DEF Paused, Bindings
  <2>2. CASE Resumed
    BY <1>1, <2>2 DEF Resumed, Bindings
  <2>3. CASE Disconnected
    BY <1>1, <2>3 DEF Disconnected, Bindings
  <2>4. CASE Connected
    <3>1. PICK m \in Modes : bind' = [mode |-> m, paused |-> "no", disc |-> "no", head |-> NoRev,
                                     target |-> bind.live, live |-> bind.live]
      BY <2>4 DEF Connected
    <3>2. m \in {"pull", "push"} /\ bind.live \in Revs \cup {NoRev}
      BY <1>1 DEF ScenarioSourceConstants, Bindings
    <3> QED
      BY <3>1, <3>2 DEF Bindings
  <2>5. CASE Switched
    <3>1. PICK m \in Modes : bind' = [bind EXCEPT !.mode = m]
      BY <2>5 DEF Switched
    <3>2. m \in {"pull", "push"}
      BY DEF ScenarioSourceConstants
    <3> QED
      BY <1>1, <3>1, <3>2 DEF Bindings
  <2> QED
    BY <2>1, <2>2, <2>3, <2>4, <2>5 DEF ChangeSource
<1>13. RowsMove(commits, commits')
  <2>1. CASE Switched
    <3> DEFINE D == {r \in Revs : commits[r].st \in {"fetching", "compiling"}}
    <3>1. commits' = [r \in Revs |-> IF r \in D THEN [commits[r] EXCEPT !.st = "superseded"] ELSE commits[r]]
      BY <2>1 DEF Switched
    <3> QED
      BY <1>1, <3>1, RowsDrop
  <2>2. CASE commits' = commits
    BY <1>1, <2>2, RowsSame
  <2> QED
    BY <2>1, <2>2 DEF ChangeSource, Paused, Resumed, Disconnected, Connected
<1>14. compile' \in Jobs
  <2>1. CASE Switched
    <3>1. compile' = Mirrored(commits')
      BY <2>1 DEF Switched, Mirror
    <3>2. RowTypes(commits')
      BY <1>1, <1>13, RowsMoveKeep
    <3> QED
      BY <3>1, <3>2, MirroredJob
  <2>2. CASE compile' = compile
    BY <1>1, <2>2 DEF StoreKept
  <2> QED
    BY <2>1, <2>2 DEF ChangeSource, Paused, Resumed, Disconnected, Connected
<1>3. StoreKept(repo', cat', staged', archive', bundle', build', order', compile', left')
  BY <1>1, <1>2, <1>11, <1>14 DEF StoreKept
<1>4. bind' \in Bindings
  BY <1>12
<1>5. RowTypes(commits') /\ CompilesLeft(commits') /\ LiveNamed(commits', bind')
  BY <1>1, <1>12, <1>13, RowsMoveKeep, LiveSame
<1>7. TickTypes(tick') /\ TryCounted(tick', commits', tried')
  BY <1>1, <1>2, <1>13, RowsMoveCounted
<1> QED
  BY <1>1, <1>2, <1>3, <1>4, <1>5, <1>7 DEF SourceInv

LEMMA PurgeMarkKeeps ==
  ASSUME ScenarioSourceConstants, SourceInv, PurgeMark
  PROVE  SourceInv'
<1>1. /\ StoreKept(repo, cat, staged, archive, bundle, build, order, compile, left)
      /\ bind \in Bindings /\ RowTypes(commits) /\ tried \in TryTypes
      /\ TickTypes(tick) /\ UploadTypes(upload) /\ BldTypes(bld)
      /\ CompilesLeft(commits) /\ LiveNamed(commits, bind) /\ TryCounted(tick, commits, tried)
  BY DEF SourceInv
<1>2. UNCHANGED <<repo, commits, staged, archive, bundle, cat, tried, tick, upload, order, bld, compile>>
  BY DEF PurgeMark
<1>11. left' \in LeftTypes
  BY <1>1, ChangeLeft DEF PurgeMark, StoreKept
<1>12. build' \in BuildTypes
  BY <1>1 DEF PurgeMark, StoreKept, BuildTypes
<1>13. bind' \in Bindings /\ bind'.live = bind.live
  BY <1>1 DEF PurgeMark, Bindings
<1>3. StoreKept(repo', cat', staged', archive', bundle', build', order', compile', left')
  BY <1>1, <1>2, <1>11, <1>12 DEF StoreKept
<1>4. bind' \in Bindings
  BY <1>13
<1>5. RowTypes(commits') /\ CompilesLeft(commits') /\ LiveNamed(commits', bind')
  BY <1>1, <1>2, <1>13, LiveSame
<1> QED
  BY <1>1, <1>2, <1>3, <1>4, <1>5 DEF SourceInv

LEMMA PurgeDeleteKeeps ==
  ASSUME ScenarioSourceConstants, SourceInv, PurgeDelete
  PROVE  SourceInv'
<1>1. /\ StoreKept(repo, cat, staged, archive, bundle, build, order, compile, left)
      /\ bind \in Bindings /\ RowTypes(commits) /\ tried \in TryTypes
      /\ TickTypes(tick) /\ UploadTypes(upload) /\ BldTypes(bld)
      /\ CompilesLeft(commits) /\ LiveNamed(commits, bind) /\ TryCounted(tick, commits, tried)
  BY DEF SourceInv
<1>2. UNCHANGED <<repo, staged, archive, tick, upload, order, bld, compile, left>>
  BY DEF PurgeDelete
<1>11. ASSUME NEW r \in Revs
       PROVE  /\ commits'[r] \in CommitRows /\ commits'[r].st = "none"
              /\ commits'[r].att = commits[r].att + 1 /\ commits'[r].claimed <= commits'[r].att
  <2>1. commits[r].att + 1 \in Nat
    BY <1>1 DEF RowTypes, CommitRows
  <2>2. commits'[r] = [NoRow EXCEPT !.att = commits[r].att + 1, !.claimed = commits[r].att + 1]
    BY DEF PurgeDelete
  <2>3. NoRow \in CommitRows /\ NoRow.st = "none"
    BY DEF NoRow, CommitRows, RowStates
  <2>4. commits'[r] \in CommitRows
    BY <2>1, <2>2, <2>3 DEF CommitRows
  <2>5. /\ commits'[r].st = "none" /\ commits'[r].att = commits[r].att + 1
        /\ commits'[r].claimed = commits[r].att + 1
    BY <2>2, <2>3 DEF CommitRows
  <2> QED
    BY <2>1, <2>4, <2>5
<1>3. StoreKept(repo', cat', staged', archive', bundle', build', order', compile', left')
  <2>1. bundle' = {} /\ cat' = NoRev /\ build' \in BuildTypes
    BY DEF PurgeDelete, BuildTypes
  <2> QED
    BY <1>1, <1>2, <2>1 DEF StoreKept
<1>4. bind' \in Bindings
  BY <1>1 DEF PurgeDelete, Bindings
<1>5. RowTypes(commits') /\ CompilesLeft(commits') /\ LiveNamed(commits', bind')
  <2>1. RowTypes(commits')
    BY <1>11 DEF RowTypes, PurgeDelete
  <2> QED
    BY <1>11, <2>1 DEF CompilesLeft, LiveNamed
<1>6. tried' \in TryTypes
  <2>1. NoTries \in [fetch : 0..MaxTries, ingest : 0..MaxTries, heal : 0..MaxTries]
    BY DEF NoTries, ScenarioSourceConstants
  <2> QED
    BY <2>1 DEF PurgeDelete, TryTypes
<1>7. TickTypes(tick') /\ TryCounted(tick', commits', tried')
  <2> SUFFICES ASSUME tick.pc \in {"read", "write"}
               PROVE  TryCounted(tick', commits', tried')
    BY <1>1, <1>2 DEF TryCounted
  <2>1. tick.rev \in Revs /\ tick.att \in Nat /\ commits[tick.rev].att \in Nat
    BY <1>1 DEF TickTypes, TickRecords, Working, RowTypes, CommitRows
  <2>2. tick.att <= commits[tick.rev].att
    BY <1>1 DEF TryCounted
  <2>3. commits'[tick.rev].att = commits[tick.rev].att + 1
    BY <2>1, <1>11
  <2>4. tick.att <= commits'[tick.rev].att /\ tick.att # commits'[tick.rev].att
    BY <2>1, <2>2, <2>3
  <2> QED
    BY <1>1, <1>2, <2>4 DEF TryCounted
<1> QED
  BY <1>1, <1>2, <1>3, <1>4, <1>5, <1>6, <1>7 DEF SourceInv

LEMMA UploadBeginKeeps ==
  ASSUME ScenarioSourceConstants, SourceInv, UploadBegin
  PROVE  SourceInv'
<1>1. /\ StoreKept(repo, cat, staged, archive, bundle, build, order, compile, left)
      /\ bind \in Bindings /\ RowTypes(commits) /\ tried \in TryTypes
      /\ TickTypes(tick) /\ UploadTypes(upload) /\ BldTypes(bld)
      /\ CompilesLeft(commits) /\ LiveNamed(commits, bind) /\ TryCounted(tick, commits, tried)
  BY DEF SourceInv
<1>2. UNCHANGED <<repo, bind, commits, staged, archive, bundle, build, cat, tried, tick, bld, compile>>
  BY DEF UploadBegin
<1>3. StoreKept(repo', cat', staged', archive', bundle', build', order', compile', left')
  <2>1. left.uploads \in Nat /\ left.uploads > 0 /\ left' = [left EXCEPT !.uploads = @ - 1]
    BY <1>1 DEF UploadBegin, StoreKept, LeftTypes
  <2>2. left.uploads - 1 \in Nat
    BY <2>1
  <2>3. left' \in LeftTypes
    BY <1>1, <2>1, <2>2 DEF StoreKept, LeftTypes
  <2>4. order' \in {"do", "up"}
    BY DEF UploadBegin
  <2> QED
    BY <1>1, <1>2, <2>3, <2>4 DEF StoreKept
<1>8. UploadTypes(upload')
  BY <1>1 DEF UploadBegin, UploadTypes, StoreKept
<1> QED
  BY <1>1, <1>2, <1>3, <1>8 DEF SourceInv

LEMMA UploadStageKeeps ==
  ASSUME ScenarioSourceConstants, SourceInv, UploadStage
  PROVE  SourceInv'
<1>1. /\ StoreKept(repo, cat, staged, archive, bundle, build, order, compile, left)
      /\ bind \in Bindings /\ RowTypes(commits) /\ tried \in TryTypes
      /\ TickTypes(tick) /\ UploadTypes(upload) /\ BldTypes(bld)
      /\ CompilesLeft(commits) /\ LiveNamed(commits, bind) /\ TryCounted(tick, commits, tried)
  BY DEF SourceInv
<1>2. UNCHANGED <<repo, bind, commits, archive, bundle, build, cat, tried, tick, order, bld, compile, left>>
  BY DEF UploadStage
<1>3. StoreKept(repo', cat', staged', archive', bundle', build', order', compile', left')
  <2>1. staged' = staged \cup {upload.rev} /\ upload.rev \in Revs
    BY <1>1 DEF UploadStage, UploadTypes
  <2> QED
    BY <1>1, <1>2, <2>1 DEF StoreKept
<1>8. UploadTypes(upload')
  BY <1>1 DEF UploadStage, UploadTypes
<1> QED
  BY <1>1, <1>2, <1>3, <1>8 DEF SourceInv

LEMMA UploadClaimKeeps ==
  ASSUME ScenarioSourceConstants, SourceInv, UploadClaim
  PROVE  SourceInv'
<1>1. /\ StoreKept(repo, cat, staged, archive, bundle, build, order, compile, left)
      /\ bind \in Bindings /\ RowTypes(commits) /\ tried \in TryTypes
      /\ TickTypes(tick) /\ UploadTypes(upload) /\ BldTypes(bld)
      /\ CompilesLeft(commits) /\ LiveNamed(commits, bind) /\ TryCounted(tick, commits, tried)
  BY DEF SourceInv
<1>2. UNCHANGED <<repo, staged, archive, bundle, build, cat, bld, compile, left>>
  BY DEF UploadClaim
<1> DEFINE r == upload.rev
<1> DEFINE Claims == /\ commits' = IF commits[r].st = "none" THEN [commits EXCEPT ![r].st = "ingesting"]
                                  ELSE [commits EXCEPT ![r] = [commits[r] EXCEPT !.st = "ingesting",
                                                                  !.att = commits[r].att + 1]]
                     /\ tried' = [tried EXCEPT ![r] = NoTries]
<1>10. r \in Revs
  BY <1>1 DEF UploadClaim, UploadTypes
<1>11. bind' \in Bindings /\ bind'.live = bind.live
  <2>1. bind' = bind \/ bind' = [bind EXCEPT !.head = r]
    BY DEF UploadClaim
  <2> QED
    BY <1>1, <1>10, <2>1 DEF Bindings
<1>12. tick' = tick \/ tick' = [tick EXCEPT !.late = TRUE]
  BY DEF UploadClaim
<1>13. (commits' = commits /\ tried' = tried) \/ Claims
  <2>1. \/ commits' = commits /\ tried' = tried
        \/ /\ commits' = [commits EXCEPT ![r].st = "ingesting",
                                         ![r].att = IF commits[r].st = "none" THEN @ ELSE @ + 1]
           /\ tried' = [tried EXCEPT ![r] = NoTries]
    BY DEF UploadClaim
  <2>2. commits \in [Revs -> CommitRows] /\ commits[r] \in CommitRows
    BY <1>1, <1>10 DEF RowTypes
  <2>3. [commits EXCEPT ![r].st = "ingesting", ![r].att = IF commits[r].st = "none" THEN @ ELSE @ + 1]
          = IF commits[r].st = "none" THEN [commits EXCEPT ![r].st = "ingesting"]
            ELSE [commits EXCEPT ![r] = [commits[r] EXCEPT !.st = "ingesting", !.att = commits[r].att + 1]]
    BY <1>10, <2>2 DEF CommitRows
  <2> QED
    BY <2>1, <2>3
<1> HIDE DEF r
<1>3. StoreKept(repo', cat', staged', archive', bundle', build', order', compile', left')
  <2>1. order' = "none"
    BY DEF UploadClaim
  <2> QED
    BY <1>1, <1>2, <2>1 DEF StoreKept
<1>4. bind' \in Bindings
  BY <1>11
<1>5. RowTypes(commits') /\ CompilesLeft(commits') /\ LiveNamed(commits', bind')
  <2>1. CASE commits' = commits
    BY <1>1, <1>11, <2>1, LiveSame
  <2>2. CASE Claims
    <3>1. RowTypes(commits') /\ CompilesLeft(commits') /\ LiveNamed(commits', bind)
      <4>1. CASE commits[r].st = "none"
        <5>1. RowsMove(commits, commits')
          BY <1>1, <1>10, <2>2, <4>1, CommitMoves DEF Settling, RowStates
        <5> QED
          BY <1>1, <5>1, RowsMoveKeep
      <4>2. CASE commits[r].st # "none"
        <5>1. Anew(commits, commits', r)
          BY <1>1, <1>10, <2>2, <4>2, RowAnew DEF Settling, RowStates
        <5> QED
          BY <1>1, <1>10, <5>1, AnewKeeps
      <4> QED
        BY <4>1, <4>2
    <3> QED
      BY <1>11, <3>1, LiveSame
  <2> QED
    BY <1>13, <2>1, <2>2
<1>6. tried' \in TryTypes
  <2>1. CASE tried' = tried
    BY <1>1, <2>1
  <2>2. CASE Claims
    BY <1>1, <1>10, <2>2, ForgottenTries
  <2> QED
    BY <1>13, <2>1, <2>2
<1>7. TickTypes(tick') /\ TryCounted(tick', commits', tried')
  <2>1. TryCounted(tick, commits', tried')
    <3>1. CASE commits' = commits /\ tried' = tried
      BY <1>1, <3>1
    <3>2. CASE Claims
      <4>1. CASE commits[r].st = "none"
        <5> SUFFICES ASSUME tick.pc \in {"read", "write"}
                     PROVE  TryCounted(tick, commits', tried')
          BY DEF TryCounted
        <5>1. tick.rev \in Revs
          BY <1>1 DEF TickTypes, Working
        <5>2. CASE tick.rev = r
          <6>1. tick.att <= commits[r].att /\ tick.att # commits[r].att
            BY <1>1, <5>2, <4>1 DEF TryCounted
          <6>2. commits'[r].att = commits[r].att
            <7>1. commits' = [commits EXCEPT ![r].st = "ingesting"]
              BY <3>2, <4>1
            <7> QED
              BY <1>1, <1>10, <7>1 DEF RowTypes, CommitRows
          <6> QED
            BY <5>2, <6>1, <6>2 DEF TryCounted
        <5>3. CASE tick.rev # r
          <6>1. commits'[tick.rev] = commits[tick.rev] /\ tried'[tick.rev] = tried[tick.rev]
            BY <1>1, <1>10, <3>2, <4>1, <5>1, <5>3 DEF RowTypes, TryTypes
          <6> QED
            BY <1>1, <6>1 DEF TryCounted
        <5> QED
          BY <5>2, <5>3
      <4>2. CASE commits[r].st # "none"
        <5>1. Anew(commits, commits', r)
          BY <1>1, <1>10, <3>2, <4>2, RowAnew DEF Settling, RowStates
        <5>2. TryCounted(tick, commits', [tried EXCEPT ![r] = NoTries])
          BY <1>1, <1>10, <5>1, AnewCounted
        <5> QED
          BY <3>2, <5>2
      <4> QED
        BY <4>1, <4>2
    <3> QED
      BY <1>13, <3>1, <3>2
  <2>2. CASE tick' = tick
    BY <1>1, <2>1, <2>2
  <2>3. CASE tick' = [tick EXCEPT !.late = TRUE]
    <3>1. TickTypes(tick') /\ tick'.pc = tick.pc /\ tick'.next = tick.next /\ tick'.rev = tick.rev
          /\ tick'.att = tick.att
      BY <1>1, <2>3 DEF TickTypes, TickRecords
    <3> QED
      BY <2>1, <3>1 DEF TryCounted
  <2> QED
    BY <1>12, <2>2, <2>3
<1>8. UploadTypes(upload')
  BY DEF UploadClaim, NoUpload, UploadTypes
<1> QED
  BY <1>1, <1>2, <1>3, <1>4, <1>5, <1>6, <1>7, <1>8 DEF SourceInv

LEMMA CompileBeginKeeps ==
  ASSUME ScenarioSourceConstants, SourceInv, CompileBegin
  PROVE  SourceInv'
<1>1. /\ StoreKept(repo, cat, staged, archive, bundle, build, order, compile, left)
      /\ bind \in Bindings /\ RowTypes(commits) /\ tried \in TryTypes
      /\ TickTypes(tick) /\ UploadTypes(upload) /\ BldTypes(bld)
      /\ CompilesLeft(commits) /\ LiveNamed(commits, bind) /\ TryCounted(tick, commits, tried)
  BY DEF SourceInv
<1>2. UNCHANGED <<repo, bind, commits, staged, archive, bundle, build, cat, tried, tick, upload, order, compile, left>>
  BY DEF CompileBegin, SetBld
<1>9. BldTypes(bld')
  <2>1. compile \in Jobs /\ compile.rev # NoRev
    BY <1>1 DEF CompileBegin, Fenced, StoreKept
  <2>2. bld' = [bld EXCEPT !.pc = "child", !.job = compile]
    BY DEF CompileBegin, SetBld
  <2>3. compile.rev \in Revs
    BY <2>1 DEF Jobs
  <2> QED
    BY <1>1, <2>1, <2>2, <2>3 DEF BldTypes
<1> QED
  BY <1>1, <1>2, <1>9 DEF SourceInv

LEMMA CompileEndsKeeps ==
  ASSUME ScenarioSourceConstants, SourceInv, CompileEnds
  PROVE  SourceInv'
<1>1. /\ StoreKept(repo, cat, staged, archive, bundle, build, order, compile, left)
      /\ bind \in Bindings /\ RowTypes(commits) /\ tried \in TryTypes
      /\ TickTypes(tick) /\ UploadTypes(upload) /\ BldTypes(bld)
      /\ CompilesLeft(commits) /\ LiveNamed(commits, bind) /\ TryCounted(tick, commits, tried)
  BY DEF SourceInv
<1>2. UNCHANGED <<repo, bind, commits, staged, archive, bundle, build, cat, tried, tick, upload, order, compile>>
  BY DEF CompileEnds, SetBld
<1>10. bld.job \in Jobs
  BY <1>1 DEF BldTypes
<1>11. left' \in LeftTypes
  <2>1. left' = left \/ Fault
    BY DEF CompileEnds
  <2> QED
    BY <1>1, <2>1, FaultLeft DEF StoreKept
<1>3. StoreKept(repo', cat', staged', archive', bundle', build', order', compile', left')
  BY <1>1, <1>2, <1>11 DEF StoreKept
<1>9. BldTypes(bld')
  <2>1. bld.job.rev \in Revs
    BY <1>1 DEF BldTypes, CompileEnds
  <2>2. \/ \E x \in {"ok", "bad"} : bld' = [bld EXCEPT !.pc = "post", !.res = x]
        \/ bld' = [NoCompile EXCEPT !.done = bld.job]
    BY DEF CompileEnds, SetBld
  <2>3. CASE bld' = [NoCompile EXCEPT !.done = bld.job]
    BY <1>10, <2>3, DoneBld
  <2>4. ASSUME NEW x \in {"ok", "bad"}, bld' = [bld EXCEPT !.pc = "post", !.res = x]
        PROVE  BldTypes(bld')
    BY <1>1, <2>1, <2>4 DEF BldTypes
  <2> QED
    BY <2>2, <2>3, <2>4
<1> QED
  BY <1>1, <1>2, <1>3, <1>9 DEF SourceInv

LEMMA PostResultKeeps ==
  ASSUME ScenarioSourceConstants, SourceInv, PostResult
  PROVE  SourceInv'
<1>1. /\ StoreKept(repo, cat, staged, archive, bundle, build, order, compile, left)
      /\ bind \in Bindings /\ RowTypes(commits) /\ tried \in TryTypes
      /\ TickTypes(tick) /\ UploadTypes(upload) /\ BldTypes(bld)
      /\ CompilesLeft(commits) /\ LiveNamed(commits, bind) /\ TryCounted(tick, commits, tried)
  BY DEF SourceInv
<1>2. UNCHANGED <<repo, bind, bundle, build, cat, tried, tick, upload, order>>
  BY DEF PostResult, SetBld
<1>10. bld.job \in Jobs
  BY <1>1 DEF BldTypes
<1>13. RowsMove(commits, commits')
  <2>1. CASE commits' = commits
    BY <1>1, <2>1, RowsSame
  <2>2. CASE commits' = [commits EXCEPT ![bld.job.rev].st = "invalid"]
    <3>1. bld.job.rev \in Revs /\ "invalid" \in Settling
      BY <1>1 DEF BldTypes, PostResult, Settling, RowStates
    <3> QED
      BY <1>1, <2>2, <3>1, CommitMoves
  <2> QED
    BY <2>1, <2>2 DEF PostResult, SetRow
<1>14. staged' \subseteq Revs /\ archive' \subseteq Revs /\ compile' \in Jobs /\ left' \in LeftTypes
  <2>1. bld.job.rev \in Revs
    BY <1>1 DEF BldTypes, PostResult
  <2>2. RowTypes(commits')
    BY <1>1, <1>13, RowsMoveKeep
  <2>3. /\ staged' = staged \/ staged' = staged \cup {bld.job.rev}
        /\ archive' = archive \/ archive' = archive \ {bld.job.rev}
        /\ compile' = compile \/ compile' = Mirrored(commits')
        /\ left' = left
    BY DEF PostResult, Mirror
  <2> QED
    BY <1>1, <2>1, <2>2, <2>3, MirroredJob DEF StoreKept
<1>3. StoreKept(repo', cat', staged', archive', bundle', build', order', compile', left')
  BY <1>1, <1>2, <1>14 DEF StoreKept
<1>5. RowTypes(commits') /\ CompilesLeft(commits') /\ LiveNamed(commits', bind')
  BY <1>1, <1>2, <1>13, RowsMoveKeep
<1>7. TickTypes(tick') /\ TryCounted(tick', commits', tried')
  BY <1>1, <1>2, <1>13, RowsMoveCounted
<1>9. BldTypes(bld')
  <2>1. bld.job.rev \in Revs
    BY <1>1 DEF BldTypes, PostResult
  <2>2. bld' = [bld EXCEPT !.pc = "claim"] \/ bld' = [NoCompile EXCEPT !.done = bld.job]
    BY DEF PostResult, SetBld
  <2>3. CASE bld' = [NoCompile EXCEPT !.done = bld.job]
    BY <1>10, <2>3, DoneBld
  <2>4. CASE bld' = [bld EXCEPT !.pc = "claim"]
    BY <1>1, <2>1, <2>4 DEF BldTypes
  <2> QED
    BY <2>2, <2>3, <2>4
<1> QED
  BY <1>1, <1>2, <1>3, <1>5, <1>7, <1>9 DEF SourceInv

LEMMA ClaimResultKeeps ==
  ASSUME ScenarioSourceConstants, SourceInv, ClaimResult
  PROVE  SourceInv'
<1>1. /\ StoreKept(repo, cat, staged, archive, bundle, build, order, compile, left)
      /\ bind \in Bindings /\ RowTypes(commits) /\ tried \in TryTypes
      /\ TickTypes(tick) /\ UploadTypes(upload) /\ BldTypes(bld)
      /\ CompilesLeft(commits) /\ LiveNamed(commits, bind) /\ TryCounted(tick, commits, tried)
  BY DEF SourceInv
<1>2. UNCHANGED <<repo, bind, staged, bundle, build, cat, tried, tick, upload, order, left>>
  BY DEF ClaimResult, SetBld
<1>10. bld.job \in Jobs
  BY <1>1 DEF BldTypes
<1>13. RowsMove(commits, commits')
  <2>1. CASE commits' = commits
    BY <1>1, <2>1, RowsSame
  <2>2. CASE commits' = [commits EXCEPT ![bld.job.rev].st = "ingesting"]
    <3>1. bld.job.rev \in Revs /\ "ingesting" \in Settling
      BY <1>1 DEF BldTypes, ClaimResult, Settling, RowStates
    <3> QED
      BY <1>1, <2>2, <3>1, CommitMoves
  <2> QED
    BY <2>1, <2>2 DEF ClaimResult
<1>14. archive' \subseteq Revs /\ compile' \in Jobs
  <2>1. RowTypes(commits')
    BY <1>1, <1>13, RowsMoveKeep
  <2>2. /\ archive' = archive \/ archive' = archive \ {bld.job.rev}
        /\ compile' = compile \/ compile' = Mirrored(commits')
    BY DEF ClaimResult
  <2> QED
    BY <1>1, <2>1, <2>2, MirroredJob DEF StoreKept
<1>3. StoreKept(repo', cat', staged', archive', bundle', build', order', compile', left')
  BY <1>1, <1>2, <1>14 DEF StoreKept
<1>5. RowTypes(commits') /\ CompilesLeft(commits') /\ LiveNamed(commits', bind')
  BY <1>1, <1>2, <1>13, RowsMoveKeep
<1>7. TickTypes(tick') /\ TryCounted(tick', commits', tried')
  BY <1>1, <1>2, <1>13, RowsMoveCounted
<1>9. BldTypes(bld')
  BY <1>10, DoneBld DEF ClaimResult, SetBld
<1> QED
  BY <1>1, <1>2, <1>3, <1>5, <1>7, <1>9 DEF SourceInv

LEMMA RefuseOutdatedKeeps ==
  ASSUME ScenarioSourceConstants, SourceInv, RefuseOutdated
  PROVE  SourceInv'
<1>1. /\ StoreKept(repo, cat, staged, archive, bundle, build, order, compile, left)
      /\ bind \in Bindings /\ RowTypes(commits) /\ tried \in TryTypes
      /\ TickTypes(tick) /\ UploadTypes(upload) /\ BldTypes(bld)
      /\ CompilesLeft(commits) /\ LiveNamed(commits, bind) /\ TryCounted(tick, commits, tried)
  BY DEF SourceInv
<1>2. UNCHANGED <<repo, bind, staged, bundle, build, cat, tried, tick, upload, order>>
  BY DEF RefuseOutdated, SetBld
<1>10. bld.job \in Jobs
  BY <1>1 DEF BldTypes
<1>13. RowsMove(commits, commits')
  <2> DEFINE r == bld.job.rev
  <2>1. r \in Revs
    BY <1>1 DEF BldTypes, RefuseOutdated
  <2>2. commits[r].att \in Nat /\ commits[r].claimed \in Nat /\ MaxCompiles \in Nat
    BY <1>1, <2>1 DEF RowTypes, CommitRows, ScenarioSourceConstants
  <2>3. CASE commits[r].att - commits[r].claimed >= MaxCompiles
    <3>1. commits' = [commits EXCEPT ![r].st = "failed"]
      BY <2>3 DEF RefuseOutdated, SetRow
    <3>2. "failed" \in Settling
      BY DEF Settling, RowStates
    <3> QED
      BY <1>1, <2>1, <3>1, <3>2, CommitMoves
  <2>4. CASE ~(commits[r].att - commits[r].claimed >= MaxCompiles)
    <3>1. commits' = [commits EXCEPT ![r].st = "fetching"]
      BY <2>4 DEF RefuseOutdated, SetRow
    <3>2. commits[r].att - commits[r].claimed < MaxCompiles
      BY <2>2, <2>4
    <3> HIDE DEF r
    <3> QED
      BY <1>1, <2>1, <3>1, <3>2, CommitMoves
  <2> QED
    BY <2>3, <2>4
<1>14. archive' \subseteq Revs /\ compile' \in Jobs /\ left' \in LeftTypes
  <2>1. RowTypes(commits')
    BY <1>1, <1>13, RowsMoveKeep
  <2>2. /\ archive' = archive \/ archive' = archive \ {bld.job.rev}
        /\ compile' = Mirrored(commits') /\ Fault
    BY DEF RefuseOutdated, Mirror
  <2> QED
    BY <1>1, <2>1, <2>2, MirroredJob, FaultLeft DEF StoreKept
<1>3. StoreKept(repo', cat', staged', archive', bundle', build', order', compile', left')
  BY <1>1, <1>2, <1>14 DEF StoreKept
<1>5. RowTypes(commits') /\ CompilesLeft(commits') /\ LiveNamed(commits', bind')
  BY <1>1, <1>2, <1>13, RowsMoveKeep
<1>7. TickTypes(tick') /\ TryCounted(tick', commits', tried')
  BY <1>1, <1>2, <1>13, RowsMoveCounted
<1>9. BldTypes(bld')
  BY <1>10, DoneBld DEF RefuseOutdated, SetBld
<1> QED
  BY <1>1, <1>2, <1>3, <1>5, <1>7, <1>9 DEF SourceInv

LEMMA BuilderCrashKeeps ==
  ASSUME ScenarioSourceConstants, SourceInv, BuilderCrash
  PROVE  SourceInv'
<1>1. /\ StoreKept(repo, cat, staged, archive, bundle, build, order, compile, left)
      /\ bind \in Bindings /\ RowTypes(commits) /\ tried \in TryTypes
      /\ TickTypes(tick) /\ UploadTypes(upload) /\ BldTypes(bld)
      /\ CompilesLeft(commits) /\ LiveNamed(commits, bind) /\ TryCounted(tick, commits, tried)
  BY DEF SourceInv
<1>2. UNCHANGED <<repo, bind, commits, staged, archive, bundle, build, cat, tried, tick, upload, order, compile>>
  BY DEF BuilderCrash, SetBld
<1>3. StoreKept(repo', cat', staged', archive', bundle', build', order', compile', left')
  <2>1. left' \in LeftTypes
    BY <1>1, FaultLeft DEF BuilderCrash, StoreKept
  <2> QED
    BY <1>1, <1>2, <2>1 DEF StoreKept
<1>9. BldTypes(bld')
  <2>1. bld.job \in Jobs
    BY <1>1 DEF BldTypes
  <2> QED
    BY <2>1, DoneBld DEF BuilderCrash, SetBld
<1> QED
  BY <1>1, <1>2, <1>3, <1>9 DEF SourceInv

LEMMA HostReportKeeps ==
  ASSUME ScenarioSourceConstants, SourceInv, HostReport
  PROVE  SourceInv'
<1>1. /\ StoreKept(repo, cat, staged, archive, bundle, build, order, compile, left)
      /\ bind \in Bindings /\ RowTypes(commits) /\ tried \in TryTypes
      /\ TickTypes(tick) /\ UploadTypes(upload) /\ BldTypes(bld)
      /\ CompilesLeft(commits) /\ LiveNamed(commits, bind) /\ TryCounted(tick, commits, tried)
  BY DEF SourceInv
<1>2. UNCHANGED <<repo, bind, commits, staged, archive, bundle, build, cat, tried, tick, upload, order, bld, left>>
  BY DEF HostReport
<1>3. StoreKept(repo', cat', staged', archive', bundle', build', order', compile', left')
  <2>1. compile' \in Jobs
    BY <1>1, MirroredJob DEF HostReport
  <2> QED
    BY <1>1, <1>2, <2>1 DEF StoreKept
<1> QED
  BY <1>1, <1>2, <1>3 DEF SourceInv

LEMMA AlarmKeeps ==
  ASSUME ScenarioSourceConstants, SourceInv, Alarm
  PROVE  SourceInv'
<1>1. /\ StoreKept(repo, cat, staged, archive, bundle, build, order, compile, left)
      /\ bind \in Bindings /\ RowTypes(commits) /\ tried \in TryTypes
      /\ TickTypes(tick) /\ UploadTypes(upload) /\ BldTypes(bld)
      /\ CompilesLeft(commits) /\ LiveNamed(commits, bind) /\ TryCounted(tick, commits, tried)
  BY DEF SourceInv
<1>2. UNCHANGED <<repo, bind, commits, staged, archive, bundle, build, cat, tried, upload, bld, compile, left>>
  BY DEF Alarm
<1>3. StoreKept(repo', cat', staged', archive', bundle', build', order', compile', left')
  <2>1. order' \in {order, "up"}
    BY DEF Alarm
  <2> QED
    BY <1>1, <1>2, <2>1 DEF StoreKept
<1>7. TickTypes(tick') /\ TryCounted(tick', commits', tried')
  <2>1. PICK p \in {"observe", "drop"} : tick' = [NoTick EXCEPT !.pc = p]
    BY DEF Alarm
  <2>2. NoTick \in TickRecords /\ p \in TickSteps /\ p \notin Working
    BY IdleTick DEF TickSteps, Working
  <2>3. tick' \in TickRecords /\ tick'.pc = p
    BY <2>1, <2>2 DEF TickRecords
  <2> QED
    BY <2>1, <2>2, <2>3 DEF TickTypes, TryCounted
<1> QED
  BY <1>1, <1>2, <1>3, <1>7 DEF SourceInv

LEMMA PassDiesKeeps ==
  ASSUME ScenarioSourceConstants, SourceInv, PassDies
  PROVE  SourceInv'
<1>1. /\ StoreKept(repo, cat, staged, archive, bundle, build, order, compile, left)
      /\ bind \in Bindings /\ RowTypes(commits) /\ tried \in TryTypes
      /\ TickTypes(tick) /\ UploadTypes(upload) /\ BldTypes(bld)
      /\ CompilesLeft(commits) /\ LiveNamed(commits, bind) /\ TryCounted(tick, commits, tried)
  BY DEF SourceInv
<1>2. UNCHANGED <<repo, bind, commits, staged, archive, bundle, build, cat, tried, upload, bld, compile>>
  BY DEF PassDies
<1>3. StoreKept(repo', cat', staged', archive', bundle', build', order', compile', left')
  <2>1. order' \in {order, "none"} /\ left' \in LeftTypes
    BY <1>1, FaultLeft DEF PassDies, StoreKept
  <2> QED
    BY <1>1, <1>2, <2>1 DEF StoreKept
<1>7. TickTypes(tick') /\ TryCounted(tick', commits', tried')
  BY IdleTick DEF PassDies
<1> QED
  BY <1>1, <1>2, <1>3, <1>7 DEF SourceInv

LEMMA TriesSet ==
  ASSUME NEW k \in TryTypes, NEW r \in Revs, NEW v \in 0..MaxTries
  PROVE  /\ [k EXCEPT ![r].fetch = v] \in TryTypes
         /\ [k EXCEPT ![r].ingest = v] \in TryTypes /\ [k EXCEPT ![r].ingest = v][r].ingest = v
         /\ [k EXCEPT ![r].heal = v] \in TryTypes /\ [k EXCEPT ![r].heal = v][r].heal = v
BY DEF TryTypes

LEMMA ZeroTries ==
  ASSUME ScenarioSourceConstants
  PROVE  0 \in 0..MaxTries /\ MaxTries \in Nat
BY DEF ScenarioSourceConstants

LEMMA ObserveHeadKeeps ==
  ASSUME ScenarioSourceConstants, SourceInv, ObserveHead
  PROVE  SourceInv'
<1>1. /\ StoreKept(repo, cat, staged, archive, bundle, build, order, compile, left)
      /\ bind \in Bindings /\ RowTypes(commits) /\ tried \in TryTypes
      /\ TickTypes(tick) /\ UploadTypes(upload) /\ BldTypes(bld)
      /\ CompilesLeft(commits) /\ LiveNamed(commits, bind) /\ TryCounted(tick, commits, tried)
  BY DEF SourceInv
<1>2. UNCHANGED <<repo, commits, staged, archive, bundle, build, cat, tried, upload, order, bld, compile>>
  BY DEF ObserveHead
<1>11. left' \in LeftTypes
  <2>1. left' = left \/ Fault
    BY DEF ObserveHead
  <2> QED
    BY <1>1, <2>1, FaultLeft DEF StoreKept
<1>12. bind' \in Bindings /\ bind'.live = bind.live
  <2>1. \/ bind' = bind
        \/ \E p \in {"no", "suspended"} : bind' = [bind EXCEPT !.paused = p]
        \/ \E d \in {"gone", bind.disc} : bind' = [bind EXCEPT !.disc = d]
    BY DEF ObserveHead
  <2> QED
    BY <1>1, <2>1 DEF Bindings
<1>3. StoreKept(repo', cat', staged', archive', bundle', build', order', compile', left')
  BY <1>1, <1>2, <1>11 DEF StoreKept
<1>4. bind' \in Bindings
  BY <1>12
<1>5. RowTypes(commits') /\ CompilesLeft(commits') /\ LiveNamed(commits', bind')
  BY <1>1, <1>2, <1>12, LiveSame
<1>7. TickTypes(tick') /\ TryCounted(tick', commits', tried')
  <2>1. CASE Goto("drop")
    <3>1. "drop" \in Ways
      BY DEF Ways, TickSteps, Working
    <3> QED
      BY <1>1, <2>1, <3>1, GotoTick
  <2>2. CASE tick' = [tick EXCEPT !.pc = "observed", !.head = repo]
    <3>1. "observed" \in TickSteps /\ "observed" \notin Working /\ repo \in Revs
      BY <1>1 DEF TickSteps, Working, StoreKept
    <3>2. tick' \in TickRecords /\ tick'.pc = "observed"
      BY <1>1, <2>2, <3>1 DEF TickTypes, TickRecords
    <3> QED
      BY <3>1, <3>2 DEF TickTypes, TryCounted
  <2> QED
    BY <2>1, <2>2 DEF ObserveHead
<1> QED
  BY <1>1, <1>2, <1>3, <1>4, <1>5, <1>7 DEF SourceInv

LEMMA WriteHeadKeeps ==
  ASSUME ScenarioSourceConstants, SourceInv, WriteHead
  PROVE  SourceInv'
<1>1. /\ StoreKept(repo, cat, staged, archive, bundle, build, order, compile, left)
      /\ bind \in Bindings /\ RowTypes(commits) /\ tried \in TryTypes
      /\ TickTypes(tick) /\ UploadTypes(upload) /\ BldTypes(bld)
      /\ CompilesLeft(commits) /\ LiveNamed(commits, bind) /\ TryCounted(tick, commits, tried)
  BY DEF SourceInv
<1>2. UNCHANGED <<repo, commits, staged, archive, bundle, build, cat, tried, bld, compile, left>>
  BY DEF WriteHead
<1>12. bind' \in Bindings /\ bind'.live = bind.live
  <2>1. bind' = bind \/ bind' = [bind EXCEPT !.head = tick.head]
    BY DEF WriteHead
  <2>2. tick.head \in Revs \cup {NoRev}
    BY <1>1 DEF TickTypes, TickRecords
  <2> QED
    BY <1>1, <2>1, <2>2 DEF Bindings
<1>3. StoreKept(repo', cat', staged', archive', bundle', build', order', compile', left')
  <2>1. order' = "none"
    BY DEF WriteHead
  <2> QED
    BY <1>1, <1>2, <2>1 DEF StoreKept
<1>4. bind' \in Bindings
  BY <1>12
<1>5. RowTypes(commits') /\ CompilesLeft(commits') /\ LiveNamed(commits', bind')
  BY <1>1, <1>2, <1>12, LiveSame
<1>7. TickTypes(tick') /\ TryCounted(tick', commits', tried')
  <2>1. "drop" \in Ways
    BY DEF Ways, TickSteps, Working
  <2>2. Goto("drop")
    BY DEF WriteHead
  <2> QED
    BY <1>1, <2>1, <2>2, GotoTick
<1>8. UploadTypes(upload')
  <2>1. upload' = upload \/ upload' = [upload EXCEPT !.late = TRUE]
    BY DEF WriteHead
  <2> QED
    BY <1>1, <2>1 DEF UploadTypes
<1> QED
  BY <1>1, <1>2, <1>3, <1>4, <1>5, <1>7, <1>8 DEF SourceInv

LEMMA DropInactiveKeeps ==
  ASSUME ScenarioSourceConstants, SourceInv, DropInactive
  PROVE  SourceInv'
<1>1. /\ StoreKept(repo, cat, staged, archive, bundle, build, order, compile, left)
      /\ bind \in Bindings /\ RowTypes(commits) /\ tried \in TryTypes
      /\ TickTypes(tick) /\ UploadTypes(upload) /\ BldTypes(bld)
      /\ CompilesLeft(commits) /\ LiveNamed(commits, bind) /\ TryCounted(tick, commits, tried)
  BY DEF SourceInv
<1>2. UNCHANGED <<repo, staged, archive, bundle, build, cat, tried, upload, order, bld, compile>>
  BY DEF DropInactive
<1>11. left' \in LeftTypes
  <2>1. left' = left \/ Fault
    BY DEF DropInactive
  <2> QED
    BY <1>1, <2>1, FaultLeft DEF StoreKept
<1>12. bind' \in Bindings /\ bind'.live = bind.live
  <2>1. bind' = bind \/ bind' = [bind EXCEPT !.paused = "binder"]
    BY DEF DropInactive
  <2> QED
    BY <1>1, <2>1 DEF Bindings
<1>13. PICK D \in SUBSET Revs :
         /\ commits' = [r \in Revs |-> IF r \in D THEN [commits[r] EXCEPT !.st = "superseded"] ELSE commits[r]]
         /\ CleanThen(D, "finish")
  <2> DEFINE E == IF bind'.disc # "no" \/ bind'.paused # "no"
                  THEN {r \in Revs : commits[r].st \in {"fetching", "compiling", "ingesting"}} ELSE {}
  <2>1. E \in SUBSET Revs
    OBVIOUS
  <2>2. /\ commits' = [r \in Revs |-> IF r \in E THEN [commits[r] EXCEPT !.st = "superseded"] ELSE commits[r]]
        /\ CleanThen(E, "finish")
    BY DEF DropInactive
  <2> HIDE DEF E
  <2> QED
    BY <2>1, <2>2
<1>14. RowsMove(commits, commits')
  BY <1>1, <1>13, RowsDrop
<1>3. StoreKept(repo', cat', staged', archive', bundle', build', order', compile', left')
  BY <1>1, <1>2, <1>11 DEF StoreKept
<1>4. bind' \in Bindings
  BY <1>12
<1>5. RowTypes(commits') /\ CompilesLeft(commits') /\ LiveNamed(commits', bind')
  BY <1>1, <1>12, <1>14, RowsMoveKeep, LiveSame
<1>7. TickTypes(tick') /\ TryCounted(tick', commits', tried')
  <2>1. "finish" \in Ways
    BY DEF Ways, TickSteps, Working
  <2> QED
    BY <1>1, <1>13, <2>1, CleanTick
<1> QED
  BY <1>1, <1>2, <1>3, <1>4, <1>5, <1>7 DEF SourceInv

LEMMA CleanKeeps ==
  ASSUME ScenarioSourceConstants, SourceInv, Clean
  PROVE  SourceInv'
<1>1. /\ StoreKept(repo, cat, staged, archive, bundle, build, order, compile, left)
      /\ bind \in Bindings /\ RowTypes(commits) /\ tried \in TryTypes
      /\ TickTypes(tick) /\ UploadTypes(upload) /\ BldTypes(bld)
      /\ CompilesLeft(commits) /\ LiveNamed(commits, bind) /\ TryCounted(tick, commits, tried)
  BY DEF SourceInv
<1>2. UNCHANGED <<repo, bind, commits, bundle, build, cat, tried, upload, order, bld, left>>
  BY DEF Clean
<1>3. StoreKept(repo', cat', staged', archive', bundle', build', order', compile', left')
  <2>1. compile' \in Jobs
    BY <1>1, MirroredJob DEF Clean
  <2>2. staged' = staged \ tick.drop /\ archive' = archive \ tick.drop
    BY DEF Clean
  <2> QED
    BY <1>1, <1>2, <2>1, <2>2 DEF StoreKept
<1>7. TickTypes(tick') /\ TryCounted(tick', commits', tried')
  <2>1. tick.next \in Ways
    BY <1>1 DEF Clean, Ways, TickTypes, TickRecords
  <2>2. Goto(tick.next)
    BY DEF Clean
  <2> QED
    BY <1>1, <2>1, <2>2, GotoTick
<1> QED
  BY <1>1, <1>2, <1>3, <1>7 DEF SourceInv

LEMMA FinishKeeps ==
  ASSUME ScenarioSourceConstants, SourceInv, Finish
  PROVE  SourceInv'
<1>1. /\ StoreKept(repo, cat, staged, archive, bundle, build, order, compile, left)
      /\ bind \in Bindings /\ RowTypes(commits) /\ tried \in TryTypes
      /\ TickTypes(tick) /\ UploadTypes(upload) /\ BldTypes(bld)
      /\ CompilesLeft(commits) /\ LiveNamed(commits, bind) /\ TryCounted(tick, commits, tried)
  BY DEF SourceInv
<1>2. UNCHANGED <<repo, bind, commits, staged, archive, bundle, build, cat, tried, upload, order, bld, compile, left>>
  BY DEF Finish
<1>7. TickTypes(tick') /\ TryCounted(tick', commits', tried')
  <2>1. CASE \E r \in Revs : commits[r].st = "promoting"
    <3> DEFINE r == CHOOSE x \in Revs : commits[x].st = "promoting"
    <3>1. r \in Revs
      BY <2>1
    <3>2. tick' = [tick EXCEPT !.pc = "core", !.rev = r, !.att = commits[r].att, !.promoted = TRUE,
                               !.next = "supersede"]
      BY <2>1 DEF Finish
    <3> HIDE DEF r
    <3>3. commits[r].att \in Nat
      BY <1>1, <3>1 DEF RowTypes, CommitRows
    <3>4. {"core", "supersede"} \subseteq TickSteps /\ "supersede" \notin Working
      BY DEF TickSteps, Working
    <3>5. tick' \in TickRecords /\ tick'.pc = "core" /\ tick'.next = "supersede" /\ tick'.rev = r
      BY <1>1, <3>1, <3>2, <3>3, <3>4 DEF TickTypes, TickRecords
    <3> QED
      BY <3>1, <3>4, <3>5 DEF TickTypes, TryCounted
  <2>2. CASE ~\E r \in Revs : commits[r].st = "promoting"
    <3>1. "supersede" \in Ways
      BY DEF Ways, TickSteps, Working
    <3>2. Goto("supersede")
      BY <2>2 DEF Finish
    <3> QED
      BY <1>1, <3>1, <3>2, GotoTick
  <2> QED
    BY <2>1, <2>2
<1> QED
  BY <1>1, <1>2, <1>7 DEF SourceInv

LEMMA SupersedeKeeps ==
  ASSUME ScenarioSourceConstants, SourceInv, Supersede
  PROVE  SourceInv'
<1>1. /\ StoreKept(repo, cat, staged, archive, bundle, build, order, compile, left)
      /\ bind \in Bindings /\ RowTypes(commits) /\ tried \in TryTypes
      /\ TickTypes(tick) /\ UploadTypes(upload) /\ BldTypes(bld)
      /\ CompilesLeft(commits) /\ LiveNamed(commits, bind) /\ TryCounted(tick, commits, tried)
  BY DEF SourceInv
<1>2. UNCHANGED <<repo, bind, staged, archive, bundle, build, cat, tried, upload, order, bld, compile, left>>
  BY DEF Supersede
<1>13. PICK D \in SUBSET Revs :
         /\ commits' = [r \in Revs |-> IF r \in D THEN [commits[r] EXCEPT !.st = "superseded"] ELSE commits[r]]
         /\ CleanThen(D, "active")
  <2> DEFINE E == {r \in Revs : /\ commits[r].st \in {"fetching", "compiling", "ingesting", "building",
                                                       "waiting", "failed"}
                                /\ r \notin {bind.head, bind.live}}
  <2>1. E \in SUBSET Revs
    OBVIOUS
  <2>2. /\ commits' = [r \in Revs |-> IF r \in E THEN [commits[r] EXCEPT !.st = "superseded"] ELSE commits[r]]
        /\ CleanThen(E, "active")
    BY DEF Supersede
  <2> HIDE DEF E
  <2> QED
    BY <2>1, <2>2
<1>14. RowsMove(commits, commits')
  BY <1>1, <1>13, RowsDrop
<1>5. RowTypes(commits') /\ CompilesLeft(commits') /\ LiveNamed(commits', bind')
  BY <1>1, <1>2, <1>14, RowsMoveKeep
<1>7. TickTypes(tick') /\ TryCounted(tick', commits', tried')
  <2>1. "active" \in Ways
    BY DEF Ways, TickSteps, Working
  <2> QED
    BY <1>1, <1>13, <2>1, CleanTick
<1> QED
  BY <1>1, <1>2, <1>5, <1>7 DEF SourceInv

LEMMA ReadActiveKeeps ==
  ASSUME ScenarioSourceConstants, SourceInv, ReadActive
  PROVE  SourceInv'
<1>1. /\ StoreKept(repo, cat, staged, archive, bundle, build, order, compile, left)
      /\ bind \in Bindings /\ RowTypes(commits) /\ tried \in TryTypes
      /\ TickTypes(tick) /\ UploadTypes(upload) /\ BldTypes(bld)
      /\ CompilesLeft(commits) /\ LiveNamed(commits, bind) /\ TryCounted(tick, commits, tried)
  BY DEF SourceInv
<1>2. UNCHANGED <<repo, bind, commits, staged, archive, bundle, build, cat, tried, upload, order, bld, compile, left>>
  BY DEF ReadActive
<1>7. TickTypes(tick') /\ TryCounted(tick', commits', tried')
  <2>1. CASE tick' = NoTick
    BY <2>1, IdleTick
  <2>2. CASE tick' = [tick EXCEPT !.pc = "ingest"]
    <3>1. "ingest" \in TickSteps /\ "ingest" \notin Working
      BY DEF TickSteps, Working
    <3>2. tick' \in TickRecords /\ tick'.pc = "ingest"
      BY <1>1, <2>2, <3>1 DEF TickTypes, TickRecords
    <3> QED
      BY <3>1, <3>2 DEF TickTypes, TryCounted
  <2> QED
    BY <2>1, <2>2 DEF ReadActive
<1> QED
  BY <1>1, <1>2, <1>7 DEF SourceInv

LEMMA IngestKeeps ==
  ASSUME ScenarioSourceConstants, SourceInv, Ingest
  PROVE  SourceInv'
<1>1. /\ StoreKept(repo, cat, staged, archive, bundle, build, order, compile, left)
      /\ bind \in Bindings /\ RowTypes(commits) /\ tried \in TryTypes
      /\ TickTypes(tick) /\ UploadTypes(upload) /\ BldTypes(bld)
      /\ CompilesLeft(commits) /\ LiveNamed(commits, bind) /\ TryCounted(tick, commits, tried)
  BY DEF SourceInv
<1>2. UNCHANGED <<repo, bind, staged, archive, bundle, build, cat, upload, order, bld, compile, left>>
  BY DEF Ingest
<1> DEFINE r == bind.head
           Tries == /\ r \in Revs
                    /\ tried' = [tried EXCEPT ![r].ingest = IF tried[r].ingest >= MaxTries THEN 0
                                                            ELSE tried[r].ingest + 1]
           Reads == /\ r \in Revs /\ commits[r].st = "ingesting" /\ commits' = commits
                    /\ ~(tried[r].ingest >= MaxTries)
                    /\ tried' = [tried EXCEPT ![r].ingest = tried[r].ingest + 1]
                    /\ tick' = [tick EXCEPT !.pc = "read", !.rev = r, !.att = commits[r].att]
<1>13. /\ tried' = tried \/ Tries
       /\ Goto("deliver") \/ (r \in Revs /\ CleanThen({r}, "deliver")) \/ Reads
       /\ \/ commits' = commits
          \/ r \in Revs /\ commits' = Settled(r, commits[r].att, "ingesting", "failed")
  <2>1. CASE ~RowIn(r, {"ingesting"})
    BY <2>1 DEF Ingest
  <2>2. CASE RowIn(r, {"ingesting"})
    <3>1. r \in Revs /\ commits[r].st = "ingesting"
      BY <2>2 DEF RowIn
    <3>2. tried' = [tried EXCEPT ![r].ingest = IF @ >= MaxTries THEN 0 ELSE @ + 1]
      BY <2>2 DEF Ingest
    <3>3. Tries
      BY <1>1, <3>1, <3>2 DEF TryTypes
    <3>4. CASE tried[r].ingest >= MaxTries
      <4>1. CleanThen({r}, "deliver") /\ commits' = Settled(r, commits[r].att, "ingesting", "failed")
        BY <2>2, <3>4 DEF Ingest
      <4> QED
        BY <3>1, <3>3, <4>1
    <3>5. CASE ~(tried[r].ingest >= MaxTries)
      <4>1. commits' = commits /\ tick' = [tick EXCEPT !.pc = "read", !.rev = r, !.att = commits[r].att]
        BY <2>2, <3>5 DEF Ingest
      <4>2. tried' = [tried EXCEPT ![r].ingest = tried[r].ingest + 1]
        BY <3>3, <3>5
      <4> QED
        BY <3>1, <3>3, <3>5, <4>1, <4>2
    <3> QED
      BY <3>4, <3>5
  <2> QED
    BY <2>1, <2>2
<1>14. RowsMove(commits, commits')
  <2>1. "failed" \in Settling
    BY DEF Settling, RowStates
  <2>2. CASE commits' = commits
    BY <1>1, <2>2, RowsSame
  <2>3. CASE r \in Revs /\ commits' = Settled(r, commits[r].att, "ingesting", "failed")
    BY <1>1, <2>1, <2>3, SettledMoves
  <2> QED
    BY <1>13, <2>2, <2>3
<1>5. RowTypes(commits') /\ CompilesLeft(commits') /\ LiveNamed(commits', bind')
  BY <1>1, <1>2, <1>14, RowsMoveKeep
<1>6. tried' \in TryTypes
  <2>1. CASE tried' = tried
    BY <1>1, <2>1
  <2>2. CASE Tries
    <3>1. tried[r].ingest \in 0..MaxTries
      BY <1>1, <2>2 DEF TryTypes
    <3>2. (IF tried[r].ingest >= MaxTries THEN 0 ELSE tried[r].ingest + 1) \in 0..MaxTries
      BY <3>1, ZeroTries
    <3> QED
      BY <1>1, <2>2, <3>2, TriesSet
  <2> QED
    BY <1>13, <2>1, <2>2
<1>7. TickTypes(tick') /\ TryCounted(tick', commits', tried')
  <2>1. "deliver" \in Ways
    BY DEF Ways, TickSteps, Working
  <2>2. CASE Goto("deliver")
    BY <1>1, <2>1, <2>2, GotoTick
  <2>3. CASE r \in Revs /\ CleanThen({r}, "deliver")
    <3>1. {r} \in SUBSET Revs
      BY <2>3
    <3> QED
      BY <1>1, <2>1, <2>3, <3>1, CleanTick
  <2>4. CASE Reads
    <3>1. commits[r].att \in Nat /\ "read" \in TickSteps
      BY <1>1, <2>4 DEF RowTypes, CommitRows, TickSteps, Working
    <3>2. tick' \in TickRecords /\ tick'.pc = "read" /\ tick'.rev = r /\ tick'.att = commits[r].att
      BY <1>1, <2>4, <3>1 DEF TickTypes, TickRecords
    <3>3. TickTypes(tick')
      BY <2>4, <3>2 DEF TickTypes
    <3>4. tried[r].ingest \in 0..MaxTries /\ tried[r].ingest + 1 \in 0..MaxTries /\ tried[r].ingest + 1 > 0
      <4>1. tried[r].ingest \in 0..MaxTries
        BY <1>1, <2>4 DEF TryTypes
      <4> QED
        BY <4>1, <2>4, ZeroTries
    <3>5. tried'[r].ingest = tried[r].ingest + 1
      BY <1>1, <2>4, <3>4, TriesSet
    <3>6. commits'[r] = commits[r] /\ commits[r].st # "none"
      BY <2>4
    <3> HIDE DEF r
    <3>7. commits[r].att <= commits[r].att
      BY <3>1
    <3>8. tried'[r].ingest > 0
      BY <3>4, <3>5
    <3> QED
      BY <3>2, <3>3, <3>6, <3>7, <3>8 DEF TryCounted
  <2> QED
    BY <1>13, <2>2, <2>3, <2>4
<1> QED
  BY <1>1, <1>2, <1>5, <1>6, <1>7 DEF SourceInv

LEMMA ReadStagedKeeps ==
  ASSUME ScenarioSourceConstants, SourceInv, ReadStaged
  PROVE  SourceInv'
<1>1. /\ StoreKept(repo, cat, staged, archive, bundle, build, order, compile, left)
      /\ bind \in Bindings /\ RowTypes(commits) /\ tried \in TryTypes
      /\ TickTypes(tick) /\ UploadTypes(upload) /\ BldTypes(bld)
      /\ CompilesLeft(commits) /\ LiveNamed(commits, bind) /\ TryCounted(tick, commits, tried)
  BY DEF SourceInv
<1>2. UNCHANGED <<repo, bind, staged, archive, bundle, build, cat, upload, order, bld, compile, left>>
  BY DEF ReadStaged
<1> DEFINE r == tick.rev
           Writes == /\ tick' = [tick EXCEPT !.pc = "write", !.next = "ingested"]
                     /\ commits' = commits /\ tried' = tried
<1>10. r \in Revs
  BY <1>1 DEF ReadStaged, TickTypes, Working
<1>13. \/ Writes
       \/ \E s \in {"invalid", "superseded"} :
             /\ commits' = Settled(r, tick.att, "ingesting", s)
             /\ tried' = [tried EXCEPT ![r].ingest = 0] /\ CleanThen({r}, "deliver")
  BY DEF ReadStaged
<1>14. RowsMove(commits, commits')
  <2>1. {"invalid", "superseded"} \subseteq Settling
    BY DEF Settling, RowStates
  <2>2. CASE commits' = commits
    BY <1>1, <2>2, RowsSame
  <2>3. CASE \E s \in {"invalid", "superseded"} : commits' = Settled(r, tick.att, "ingesting", s)
    BY <1>1, <1>10, <2>1, <2>3, SettledMoves
  <2> QED
    BY <1>13, <2>2, <2>3
<1>5. RowTypes(commits') /\ CompilesLeft(commits') /\ LiveNamed(commits', bind')
  BY <1>1, <1>2, <1>14, RowsMoveKeep
<1>6. tried' \in TryTypes
  <2>1. tried' = tried \/ tried' = [tried EXCEPT ![r].ingest = 0]
    BY <1>13
  <2>2. [tried EXCEPT ![r].ingest = 0] \in TryTypes
    BY <1>1, <1>10, TriesSet, ZeroTries
  <2> QED
    BY <1>1, <2>1, <2>2
<1>7. TickTypes(tick') /\ TryCounted(tick', commits', tried')
  <2>1. "deliver" \in Ways
    BY DEF Ways, TickSteps, Working
  <2>2. CASE CleanThen({r}, "deliver")
    <3>1. {r} \in SUBSET Revs
      BY <1>10
    <3> QED
      BY <1>1, <2>1, <2>2, <3>1, CleanTick
  <2>3. CASE Writes
    <3>1. {"write", "ingested"} \subseteq TickSteps
      BY DEF TickSteps, Working
    <3>2. tick' \in TickRecords /\ tick'.pc = "write" /\ tick'.next = "ingested" /\ tick'.rev = r /\ tick'.att = tick.att
      BY <1>1, <2>3, <3>1 DEF TickTypes, TickRecords
    <3>3. TickTypes(tick')
      BY <1>10, <3>2 DEF TickTypes
    <3>4. tick.pc = "read"
      BY DEF ReadStaged
    <3> QED
      BY <1>1, <2>3, <3>2, <3>3, <3>4 DEF TryCounted
  <2> QED
    BY <1>13, <2>2, <2>3
<1> QED
  BY <1>1, <1>2, <1>5, <1>6, <1>7 DEF SourceInv

LEMMA WriteKeeps ==
  ASSUME ScenarioSourceConstants, SourceInv, Write
  PROVE  SourceInv'
<1>1. /\ StoreKept(repo, cat, staged, archive, bundle, build, order, compile, left)
      /\ bind \in Bindings /\ RowTypes(commits) /\ tried \in TryTypes
      /\ TickTypes(tick) /\ UploadTypes(upload) /\ BldTypes(bld)
      /\ CompilesLeft(commits) /\ LiveNamed(commits, bind) /\ TryCounted(tick, commits, tried)
  BY DEF SourceInv
<1>2. UNCHANGED <<repo, bind, commits, staged, archive, cat, upload, order, bld, compile>>
  BY DEF Write
<1> DEFINE r == tick.rev
           Writes == /\ bundle' = bundle \cup {r} /\ build' = Queued(r) /\ Stay(tick.next)
                     /\ tried' = tried /\ left' = left
           Refused == /\ Fault /\ tried' = Uncounted(r, tick.next = "ingested")
                      /\ \E p \in {"deliver", "idle"} : Goto(p)
                      /\ bundle' = bundle /\ build' = build
<1>10. r \in Revs /\ tick.pc = "write"
  BY <1>1 DEF Write, TickTypes, Working
<1>13. Writes \/ Refused
  BY DEF Write
<1>3. StoreKept(repo', cat', staged', archive', bundle', build', order', compile', left')
  <2>1. CASE Writes
    <3>1. bundle' \subseteq Revs /\ build' \in BuildTypes
      BY <1>1, <1>10, <2>1 DEF StoreKept, BuildTypes, Queued
    <3> QED
      BY <1>1, <1>2, <2>1, <3>1 DEF StoreKept
  <2>2. CASE Refused
    <3>1. left' \in LeftTypes
      BY <1>1, <2>2, FaultLeft DEF StoreKept
    <3> QED
      BY <1>1, <1>2, <2>2, <3>1 DEF StoreKept
  <2> QED
    BY <1>13, <2>1, <2>2
<1>6. tried' \in TryTypes
  <2>1. CASE Writes
    BY <1>1, <2>1
  <2>2. CASE Refused /\ commits[r].att # tick.att
    BY <1>1, <2>2 DEF Uncounted
  <2>3. CASE Refused /\ commits[r].att = tick.att /\ tick.next = "ingested"
    <3>1. tried[r].ingest \in 0..MaxTries /\ tried[r].ingest > 0
      BY <1>1, <1>10, <2>3 DEF TryTypes, TryCounted
    <3>2. tried[r].ingest - 1 \in 0..MaxTries
      BY <3>1, ZeroTries
    <3>3. tried' = [tried EXCEPT ![r].ingest = tried[r].ingest - 1]
      BY <1>1, <1>10, <2>3 DEF Uncounted, TryTypes
    <3> QED
      BY <1>1, <1>10, <3>2, <3>3, TriesSet
  <2>4. CASE Refused /\ commits[r].att = tick.att /\ tick.next # "ingested"
    <3>1. tried[r].heal \in 0..MaxTries /\ tried[r].heal > 0
      BY <1>1, <1>10, <2>4 DEF TryTypes, TryCounted
    <3>2. tried[r].heal - 1 \in 0..MaxTries
      BY <3>1, ZeroTries
    <3>3. tried' = [tried EXCEPT ![r].heal = tried[r].heal - 1]
      BY <1>1, <1>10, <2>4 DEF Uncounted, TryTypes
    <3> QED
      BY <1>1, <1>10, <3>2, <3>3, TriesSet
  <2> QED
    BY <1>13, <2>1, <2>2, <2>3, <2>4
<1>7. TickTypes(tick') /\ TryCounted(tick', commits', tried')
  <2>1. CASE Writes
    <3>1. tick.next \in {"ingested", "healed"} /\ {"ingested", "healed"} \subseteq TickSteps
      BY <1>1, <1>10 DEF TickTypes, TickSteps, Working
    <3>2. tick' \in TickRecords /\ tick'.pc = tick.next /\ tick'.rev = r
      BY <1>1, <2>1, <3>1 DEF Stay, TickTypes, TickRecords
    <3> QED
      BY <1>10, <3>1, <3>2 DEF TickTypes, TryCounted
  <2>2. CASE Refused
    <3>1. PICK p \in {"deliver", "idle"} : Goto(p)
      BY <2>2
    <3>2. p \in Ways
      BY DEF Ways, TickSteps, Working
    <3> QED
      BY <1>1, <3>1, <3>2, GotoTick
  <2> QED
    BY <1>13, <2>1, <2>2
<1> QED
  BY <1>1, <1>2, <1>3, <1>6, <1>7 DEF SourceInv

LEMMA IngestedKeeps ==
  ASSUME ScenarioSourceConstants, SourceInv, Ingested
  PROVE  SourceInv'
<1>1. /\ StoreKept(repo, cat, staged, archive, bundle, build, order, compile, left)
      /\ bind \in Bindings /\ RowTypes(commits) /\ tried \in TryTypes
      /\ TickTypes(tick) /\ UploadTypes(upload) /\ BldTypes(bld)
      /\ CompilesLeft(commits) /\ LiveNamed(commits, bind) /\ TryCounted(tick, commits, tried)
  BY DEF SourceInv
<1>2. UNCHANGED <<repo, staged, archive, bundle, build, cat, upload, order, bld, compile, left>>
  BY DEF Ingested
<1> DEFINE r == tick.rev
<1>10. r \in Revs
  BY <1>1 DEF Ingested, TickTypes, Working
<1>12. bind' \in Bindings /\ bind'.live = bind.live
  <2>1. bind' = bind \/ bind' = [bind EXCEPT !.target = r]
    BY DEF Ingested
  <2> QED
    BY <1>1, <1>10, <2>1 DEF Bindings
<1>14. RowsMove(commits, commits')
  <2>1. commits' = commits \/ commits' = [commits EXCEPT ![r].st = "building"]
    BY DEF Ingested
  <2>2. "building" \in Settling
    BY DEF Settling, RowStates
  <2> QED
    BY <1>1, <1>10, <2>1, <2>2, CommitMoves, RowsSame
<1>4. bind' \in Bindings
  BY <1>12
<1>5. RowTypes(commits') /\ CompilesLeft(commits') /\ LiveNamed(commits', bind')
  BY <1>1, <1>12, <1>14, RowsMoveKeep, LiveSame
<1>6. tried' \in TryTypes
  BY <1>1, <1>10, TriesSet, ZeroTries DEF Ingested
<1>7. TickTypes(tick') /\ TryCounted(tick', commits', tried')
  <2>1. "deliver" \in Ways /\ {r} \in SUBSET Revs
    BY <1>10 DEF Ways, TickSteps, Working
  <2>2. Goto("deliver") \/ CleanThen({r}, "deliver")
    BY DEF Ingested
  <2> QED
    BY <1>1, <2>1, <2>2, CleanTick, GotoTick
<1> QED
  BY <1>1, <1>2, <1>4, <1>5, <1>6, <1>7 DEF SourceInv

LEMMA DeliverKeeps ==
  ASSUME ScenarioSourceConstants, SourceInv, Deliver
  PROVE  SourceInv'
<1>1. /\ StoreKept(repo, cat, staged, archive, bundle, build, order, compile, left)
      /\ bind \in Bindings /\ RowTypes(commits) /\ tried \in TryTypes
      /\ TickTypes(tick) /\ UploadTypes(upload) /\ BldTypes(bld)
      /\ CompilesLeft(commits) /\ LiveNamed(commits, bind) /\ TryCounted(tick, commits, tried)
  BY DEF SourceInv
<1>2. UNCHANGED <<repo, bind, commits, staged, archive, bundle, build, cat, tried, upload, order, bld, compile, left>>
  BY DEF Deliver
<1>7. TickTypes(tick') /\ TryCounted(tick', commits', tried')
  <2>1. PICK p \in {"claim", "heal"} : Goto(p)
    BY DEF Deliver
  <2>2. p \in Ways
    BY DEF Ways, TickSteps, Working
  <2> QED
    BY <1>1, <2>1, <2>2, GotoTick
<1> QED
  BY <1>1, <1>2, <1>7 DEF SourceInv

LEMMA ExpireCompileKeeps ==
  ASSUME ScenarioSourceConstants, SourceInv, NEW r \in Revs, ExpireCompile(r)
  PROVE  SourceInv'
<1>1. /\ StoreKept(repo, cat, staged, archive, bundle, build, order, compile, left)
      /\ bind \in Bindings /\ RowTypes(commits) /\ tried \in TryTypes
      /\ TickTypes(tick) /\ UploadTypes(upload) /\ BldTypes(bld)
      /\ CompilesLeft(commits) /\ LiveNamed(commits, bind) /\ TryCounted(tick, commits, tried)
  BY DEF SourceInv
<1>2. UNCHANGED <<repo, bind, staged, archive, bundle, build, cat, tried, upload, order, bld>>
  BY DEF ExpireCompile
<1>11. left' \in LeftTypes
  <2>1. left' = left \/ Fault
    BY DEF ExpireCompile
  <2> QED
    BY <1>1, <2>1, FaultLeft DEF StoreKept
<1>14. RowsMove(commits, commits')
  <2>1. commits[r].att \in Nat /\ commits[r].claimed \in Nat /\ MaxCompiles \in Nat
    BY <1>1 DEF RowTypes, CommitRows, ScenarioSourceConstants
  <2>2. commits \in [Revs -> CommitRows] /\ commits[r] \in CommitRows
    BY <1>1 DEF RowTypes
  <2>3. CASE commits[r].att - commits[r].claimed >= MaxCompiles
    <3>1. commits' = [commits EXCEPT ![r].st = "failed"]
      BY <2>2, <2>3 DEF ExpireCompile, Expired
    <3>2. "failed" \in Settling
      BY DEF Settling, RowStates
    <3> QED
      BY <1>1, <3>1, <3>2, CommitMoves
  <2>4. CASE ~(commits[r].att - commits[r].claimed >= MaxCompiles)
    <3>1. commits' = [commits EXCEPT ![r].st = "fetching"]
      BY <2>2, <2>4 DEF ExpireCompile, Expired
    <3>2. commits[r].att - commits[r].claimed < MaxCompiles
      BY <2>1, <2>4
    <3> QED
      BY <1>1, <3>1, <3>2, CommitMoves
  <2> QED
    BY <2>3, <2>4
<1>15. compile' \in Jobs
  <2>1. RowTypes(commits')
    BY <1>1, <1>14, RowsMoveKeep
  <2> QED
    BY <2>1, MirroredJob DEF ExpireCompile
<1>3. StoreKept(repo', cat', staged', archive', bundle', build', order', compile', left')
  BY <1>1, <1>2, <1>11, <1>15 DEF StoreKept
<1>5. RowTypes(commits') /\ CompilesLeft(commits') /\ LiveNamed(commits', bind')
  BY <1>1, <1>2, <1>14, RowsMoveKeep
<1>7. TickTypes(tick') /\ TryCounted(tick', commits', tried')
  <2>1. PICK D \in {{}, {r}} : CleanThen(D, "claim")
    BY DEF ExpireCompile
  <2>2. D \in SUBSET Revs /\ "claim" \in Ways
    BY DEF Ways, TickSteps, Working
  <2> QED
    BY <1>1, <2>1, <2>2, CleanTick
<1> QED
  BY <1>1, <1>2, <1>3, <1>5, <1>7 DEF SourceInv

LEMMA ClaimKeeps ==
  ASSUME ScenarioSourceConstants, SourceInv, Claim
  PROVE  SourceInv'
<1>1. /\ StoreKept(repo, cat, staged, archive, bundle, build, order, compile, left)
      /\ bind \in Bindings /\ RowTypes(commits) /\ tried \in TryTypes
      /\ TickTypes(tick) /\ UploadTypes(upload) /\ BldTypes(bld)
      /\ CompilesLeft(commits) /\ LiveNamed(commits, bind) /\ TryCounted(tick, commits, tried)
  BY DEF SourceInv
<1>2. UNCHANGED <<repo, bind, staged, archive, bundle, build, cat, upload, order, bld, compile, left>>
  BY DEF Claim
<1> DEFINE r == bind.head
           Fetches == r \in Revs /\ tick' = [tick EXCEPT !.pc = "fetch", !.rev = r, !.att = commits[r].att]
           Claims == r \in Revs /\ commits' = [commits EXCEPT ![r] = [commits[r] EXCEPT !.st = "fetching",
                                                                     !.claimed = commits[r].att]]
<1>13. /\ Goto("heal") \/ Fetches
       /\ commits' = commits \/ Claims
       /\ tried' = tried \/ (r \in Revs /\ tried' = [tried EXCEPT ![r].fetch = 0])
  <2>1. CASE ~BuilderFree \/ ~RowIn(r, {"none", "superseded", "fetching"})
    BY <2>1 DEF Claim
  <2>2. CASE ~(~BuilderFree \/ ~RowIn(r, {"none", "superseded", "fetching"}))
    <3>1. r \in Revs /\ commits[r] \in CommitRows /\ commits \in [Revs -> CommitRows]
      BY <1>1, <2>2 DEF RowIn, RowTypes
    <3>2. CASE commits[r].st = "fetching"
      BY <2>2, <3>1, <3>2 DEF Claim
    <3>3. CASE commits[r].st # "fetching" /\ BindingActive /\ bind.mode = "pull"
      <4>1. commits' = [commits EXCEPT ![r].st = "fetching", ![r].claimed = commits[r].att]
        BY <2>2, <3>3 DEF Claim
      <4>2. Claims
        BY <3>1, <4>1 DEF CommitRows
      <4>3. Fetches /\ tried' = [tried EXCEPT ![r].fetch = 0]
        BY <2>2, <3>1, <3>3 DEF Claim
      <4> QED
        BY <3>1, <4>2, <4>3
    <3>4. CASE commits[r].st # "fetching" /\ ~(BindingActive /\ bind.mode = "pull")
      BY <2>2, <3>4 DEF Claim
    <3> QED
      BY <3>2, <3>3, <3>4
  <2> QED
    BY <2>1, <2>2
<1>5. RowTypes(commits') /\ CompilesLeft(commits') /\ LiveNamed(commits', bind')
  <2>1. CASE commits' = commits
    BY <1>1, <1>2, <2>1
  <2>2. CASE Claims
    <3>1. commits[r] \in CommitRows /\ commits \in [Revs -> CommitRows] /\ "fetching" \in RowStates
      BY <1>1, <2>2 DEF RowTypes, RowStates
    <3>2. commits'[r] = [commits[r] EXCEPT !.st = "fetching", !.claimed = commits[r].att]
      BY <2>2, <3>1
    <3>3. \A x \in Revs \ {r} : commits'[x] = commits[x]
      BY <2>2, <3>1
    <3>4. commits'[r] \in CommitRows
      BY <3>1, <3>2 DEF CommitRows
    <3>5. commits'[r].st = "fetching" /\ commits'[r].claimed = commits[r].att /\ commits'[r].att = commits[r].att
      BY <3>1, <3>2 DEF CommitRows
    <3>6. commits[r].att \in Nat /\ MaxCompiles \in Nat \ {0}
      BY <3>1 DEF CommitRows, ScenarioSourceConstants
    <3>7. commits'[r].claimed <= commits'[r].att /\ commits'[r].att - commits'[r].claimed < MaxCompiles
      BY <3>5, <3>6
    <3>8. commits' \in [Revs -> CommitRows]
      BY <2>2, <3>1, <3>2, <3>4
    <3> HIDE DEF r
    <3>9. RowTypes(commits')
      <4> SUFFICES ASSUME NEW x \in Revs
                   PROVE  commits'[x].claimed <= commits'[x].att
        BY <3>8 DEF RowTypes
      <4>1. CASE x = r
        BY <3>7, <4>1
      <4>2. CASE x # r
        BY <1>1, <3>3, <4>2 DEF RowTypes
      <4> QED
        BY <4>1, <4>2
    <3>10. CompilesLeft(commits')
      <4> SUFFICES ASSUME NEW x \in Revs
                   PROVE  /\ commits'[x].st = "fetching" => commits'[x].att - commits'[x].claimed < MaxCompiles
                          /\ commits'[x].st = "compiling" => commits'[x].att - commits'[x].claimed <= MaxCompiles
        BY DEF CompilesLeft
      <4>1. CASE x = r
        BY <3>5, <3>7, <4>1
      <4>2. CASE x # r
        BY <1>1, <3>3, <4>2 DEF CompilesLeft
      <4> QED
        BY <4>1, <4>2
    <3>11. LiveNamed(commits', bind')
      BY <1>1, <1>2, <3>3, <3>5 DEF LiveNamed
    <3> QED
      BY <3>9, <3>10, <3>11
  <2> QED
    BY <1>13, <2>1, <2>2
<1>6. tried' \in TryTypes
  <2>1. tried' = tried \/ (r \in Revs /\ tried' = [tried EXCEPT ![r].fetch = 0])
    BY <1>13
  <2>2. r \in Revs => [tried EXCEPT ![r].fetch = 0] \in TryTypes
    BY <1>1, TriesSet, ZeroTries
  <2> QED
    BY <1>1, <2>1, <2>2
<1>7. TickTypes(tick') /\ TryCounted(tick', commits', tried')
  <2>1. "heal" \in Ways
    BY DEF Ways, TickSteps, Working
  <2>2. CASE Goto("heal")
    BY <1>1, <2>1, <2>2, GotoTick
  <2>3. CASE Fetches
    <3>1. commits[r].att \in Nat /\ "fetch" \in TickSteps
      BY <1>1, <2>3 DEF RowTypes, CommitRows, TickSteps, Working
    <3>2. tick' \in TickRecords /\ tick'.pc = "fetch" /\ tick'.rev = r
      BY <1>1, <2>3, <3>1 DEF TickTypes, TickRecords
    <3> QED
      BY <2>3, <3>2 DEF TickTypes, TryCounted
  <2> QED
    BY <1>13, <2>2, <2>3
<1> QED
  BY <1>1, <1>2, <1>5, <1>6, <1>7 DEF SourceInv

LEMMA FetchKeeps ==
  ASSUME ScenarioSourceConstants, SourceInv, Fetch
  PROVE  SourceInv'
<1>1. /\ StoreKept(repo, cat, staged, archive, bundle, build, order, compile, left)
      /\ bind \in Bindings /\ RowTypes(commits) /\ tried \in TryTypes
      /\ TickTypes(tick) /\ UploadTypes(upload) /\ BldTypes(bld)
      /\ CompilesLeft(commits) /\ LiveNamed(commits, bind) /\ TryCounted(tick, commits, tried)
  BY DEF SourceInv
<1>2. UNCHANGED <<repo, bind, staged, bundle, build, cat, upload, order, bld, compile>>
  BY DEF Fetch
<1> DEFINE r == tick.rev
<1>10. r \in Revs
  BY <1>1 DEF Fetch, TickTypes, Working
<1>14. RowsMove(commits, commits')
  <2>1. \/ commits' = commits
        \/ \E s \in {"failed", "invalid"} : commits' = Settled(r, tick.att, "fetching", s)
    BY DEF Fetch
  <2>2. {"failed", "invalid"} \subseteq Settling
    BY DEF Settling, RowStates
  <2> QED
    BY <1>1, <1>10, <2>1, <2>2, SettledMoves, RowsSame
<1>3. StoreKept(repo', cat', staged', archive', bundle', build', order', compile', left')
  <2>1. left' = left \/ Fault
    BY DEF Fetch
  <2>2. left' \in LeftTypes
    BY <1>1, <2>1, FaultLeft DEF StoreKept
  <2>3. archive' = archive \/ archive' = archive \cup {r}
    BY DEF Fetch
  <2> QED
    BY <1>1, <1>2, <1>10, <2>2, <2>3 DEF StoreKept
<1>5. RowTypes(commits') /\ CompilesLeft(commits') /\ LiveNamed(commits', bind')
  BY <1>1, <1>2, <1>14, RowsMoveKeep
<1>6. tried' \in TryTypes
  <2>1. \/ tried' = tried
        \/ tried' = [tried EXCEPT ![r].fetch = 0]
        \/ ~(tried[r].fetch >= MaxTries) /\ tried' = [tried EXCEPT ![r].fetch = @ + 1]
    BY DEF Fetch
  <2>2. [tried EXCEPT ![r].fetch = 0] \in TryTypes
    BY <1>1, <1>10, TriesSet, ZeroTries
  <2>3. ASSUME ~(tried[r].fetch >= MaxTries)
        PROVE  [tried EXCEPT ![r].fetch = @ + 1] \in TryTypes
    <3>1. tried[r].fetch \in 0..MaxTries
      BY <1>1, <1>10 DEF TryTypes
    <3>2. tried[r].fetch + 1 \in 0..MaxTries
      BY <2>3, <3>1, ZeroTries
    <3>3. [tried EXCEPT ![r].fetch = tried[r].fetch + 1] \in TryTypes
      BY <1>1, <1>10, <3>2, TriesSet
    <3>4. [tried EXCEPT ![r].fetch = @ + 1] = [tried EXCEPT ![r].fetch = tried[r].fetch + 1]
      BY <1>1, <1>10 DEF TryTypes
    <3> QED
      BY <3>3, <3>4
  <2> QED
    BY <1>1, <2>1, <2>2, <2>3
<1>7. TickTypes(tick') /\ TryCounted(tick', commits', tried')
  <2>1. \/ Stay("assign")
        \/ CleanThen({r}, "heal")
        \/ Goto("heal")
        \/ tick' = NoTick
    BY DEF Fetch
  <2>2. "heal" \in Ways /\ {r} \in SUBSET Revs
    BY <1>10 DEF Ways, TickSteps, Working
  <2>3. CASE Stay("assign")
    <3>1. "assign" \in TickSteps
      BY DEF TickSteps, Working
    <3>2. tick' \in TickRecords /\ tick'.pc = "assign" /\ tick'.rev = r
      BY <1>1, <2>3, <3>1 DEF Stay, TickTypes, TickRecords
    <3> QED
      BY <1>10, <3>2 DEF TickTypes, TryCounted
  <2>4. CASE CleanThen({r}, "heal")
    BY <1>1, <2>2, <2>4, CleanTick
  <2>5. CASE Goto("heal")
    BY <1>1, <2>2, <2>5, GotoTick
  <2>6. CASE tick' = NoTick
    BY <2>6, IdleTick
  <2> QED
    BY <2>1, <2>3, <2>4, <2>5, <2>6
<1> QED
  BY <1>1, <1>2, <1>3, <1>5, <1>6, <1>7 DEF SourceInv

LEMMA AssignKeeps ==
  ASSUME ScenarioSourceConstants, SourceInv, Assign
  PROVE  SourceInv'
<1>1. /\ StoreKept(repo, cat, staged, archive, bundle, build, order, compile, left)
      /\ bind \in Bindings /\ RowTypes(commits) /\ tried \in TryTypes
      /\ TickTypes(tick) /\ UploadTypes(upload) /\ BldTypes(bld)
      /\ CompilesLeft(commits) /\ LiveNamed(commits, bind) /\ TryCounted(tick, commits, tried)
  BY DEF SourceInv
<1>2. UNCHANGED <<repo, bind, staged, archive, bundle, build, cat, upload, order, bld, left>>
  BY DEF Assign
<1> DEFINE r == tick.rev
           Takes == /\ commits[r].st = "fetching"
                    /\ commits' = [commits EXCEPT ![r] = [commits[r] EXCEPT !.st = "compiling",
                                                          !.att = commits[r].att + 1, !.host = TRUE]]
<1>10. r \in Revs
  BY <1>1 DEF Assign, TickTypes, Working
<1>11. commits[r] \in CommitRows /\ commits \in [Revs -> CommitRows]
  BY <1>1, <1>10 DEF RowTypes
<1>13. commits' = commits \/ Takes
  <2>1. \/ commits' = commits
        \/ /\ commits[r].st = "fetching"
           /\ commits' = [commits EXCEPT ![r].st = "compiling", ![r].att = @ + 1, ![r].host = TRUE]
    BY DEF Assign
  <2>2. [commits EXCEPT ![r].st = "compiling", ![r].att = @ + 1, ![r].host = TRUE]
          = [commits EXCEPT ![r] = [commits[r] EXCEPT !.st = "compiling", !.att = commits[r].att + 1, !.host = TRUE]]
    BY <1>10, <1>11 DEF CommitRows
  <2> QED
    BY <2>1, <2>2
<1>14. RowTypes(commits') /\ CompilesLeft(commits') /\ LiveNamed(commits', bind')
  <2>1. CASE commits' = commits
    BY <1>1, <1>2, <2>1
  <2>2. CASE Takes
    <3>1. commits'[r] = [commits[r] EXCEPT !.st = "compiling", !.att = commits[r].att + 1, !.host = TRUE]
      BY <1>10, <1>11, <2>2
    <3>2. \A x \in Revs \ {r} : commits'[x] = commits[x]
      BY <1>11, <2>2
    <3>3. commits[r].att + 1 \in Nat /\ "compiling" \in RowStates
      BY <1>11 DEF CommitRows, RowStates
    <3>4. commits'[r] \in CommitRows
      BY <1>11, <3>1, <3>3 DEF CommitRows
    <3>5. /\ commits'[r].st = "compiling" /\ commits'[r].att = commits[r].att + 1
          /\ commits'[r].claimed = commits[r].claimed
      BY <1>11, <3>1 DEF CommitRows
    <3>6. commits' \in [Revs -> CommitRows]
      BY <1>10, <1>11, <2>2, <3>1, <3>4
    <3>7. commits[r].att \in Nat /\ commits[r].claimed \in Nat /\ MaxCompiles \in Nat
      BY <1>11 DEF CommitRows, ScenarioSourceConstants
    <3>8. commits[r].claimed <= commits[r].att /\ commits[r].att - commits[r].claimed < MaxCompiles
      BY <1>1, <1>10, <2>2 DEF RowTypes, CompilesLeft
    <3>9. commits'[r].claimed <= commits'[r].att /\ commits'[r].att - commits'[r].claimed <= MaxCompiles
      BY <3>5, <3>7, <3>8
    <3> HIDE DEF r
    <3>10. RowTypes(commits')
      <4> SUFFICES ASSUME NEW x \in Revs
                   PROVE  commits'[x].claimed <= commits'[x].att
        BY <3>6 DEF RowTypes
      <4>1. CASE x = r
        BY <3>9, <4>1
      <4>2. CASE x # r
        BY <1>1, <3>2, <4>2 DEF RowTypes
      <4> QED
        BY <4>1, <4>2
    <3>11. CompilesLeft(commits')
      <4> SUFFICES ASSUME NEW x \in Revs
                   PROVE  /\ commits'[x].st = "fetching" => commits'[x].att - commits'[x].claimed < MaxCompiles
                          /\ commits'[x].st = "compiling" => commits'[x].att - commits'[x].claimed <= MaxCompiles
        BY DEF CompilesLeft
      <4>1. CASE x = r
        BY <3>5, <3>9, <4>1
      <4>2. CASE x # r
        BY <1>1, <3>2, <4>2 DEF CompilesLeft
      <4> QED
        BY <4>1, <4>2
    <3>12. LiveNamed(commits', bind')
      BY <1>1, <1>2, <3>2, <3>5 DEF LiveNamed
    <3> QED
      BY <3>10, <3>11, <3>12
  <2> QED
    BY <1>13, <2>1, <2>2
<1>3. StoreKept(repo', cat', staged', archive', bundle', build', order', compile', left')
  <2>1. compile' = compile \/ compile' = Mirrored(commits')
    BY DEF Assign
  <2>2. compile' \in Jobs
    BY <1>1, <1>14, <2>1, MirroredJob DEF StoreKept
  <2> QED
    BY <1>1, <1>2, <2>2 DEF StoreKept
<1>5. RowTypes(commits') /\ CompilesLeft(commits') /\ LiveNamed(commits', bind')
  BY <1>14
<1>6. tried' \in TryTypes
  <2>1. tried' = tried \/ tried' = [tried EXCEPT ![r] = NoTries]
    BY DEF Assign
  <2>2. [tried EXCEPT ![r] = NoTries] \in TryTypes
    BY <1>1, <1>10, ForgottenTries
  <2> QED
    BY <1>1, <2>1, <2>2
<1>7. TickTypes(tick') /\ TryCounted(tick', commits', tried')
  <2>1. "heal" \in Ways
    BY DEF Ways, TickSteps, Working
  <2>2. Goto("heal")
    BY DEF Assign
  <2> QED
    BY <1>1, <2>1, <2>2, GotoTick
<1> QED
  BY <1>1, <1>2, <1>3, <1>5, <1>6, <1>7 DEF SourceInv

LEMMA HealKeeps ==
  ASSUME ScenarioSourceConstants, SourceInv, Heal
  PROVE  SourceInv'
<1>1. /\ StoreKept(repo, cat, staged, archive, bundle, build, order, compile, left)
      /\ bind \in Bindings /\ RowTypes(commits) /\ tried \in TryTypes
      /\ TickTypes(tick) /\ UploadTypes(upload) /\ BldTypes(bld)
      /\ CompilesLeft(commits) /\ LiveNamed(commits, bind) /\ TryCounted(tick, commits, tried)
  BY DEF SourceInv
<1>2. UNCHANGED <<repo, bind, staged, archive, bundle, build, cat, upload, order, bld, compile, left>>
  BY DEF Heal
<1> DEFINE r == bind.target
           Tries == /\ r \in Revs
                    /\ tried' = [tried EXCEPT ![r].heal = IF tried[r].heal >= MaxTries THEN 0
                                                          ELSE tried[r].heal + 1]
           Heals == /\ r \in Revs /\ commits[r].st \in {"building", "waiting"} /\ commits' = commits
                    /\ ~(tried[r].heal >= MaxTries)
                    /\ tried' = [tried EXCEPT ![r].heal = tried[r].heal + 1]
                    /\ tick' = [tick EXCEPT !.pc = "write", !.next = "healed", !.rev = r, !.att = commits[r].att]
           Promotes == /\ r \in Revs
                       /\ tick' = [tick EXCEPT !.pc = "promote", !.rev = r, !.att = commits[r].att,
                                               !.st = commits[r].st]
<1>13. /\ tried' = tried \/ Tries
       /\ tick' = NoTick \/ Promotes \/ Heals
       /\ commits' = commits \/ (r \in Revs /\ commits' = [commits EXCEPT ![r].st = "failed"])
  <2>1. CASE ~RowIn(r, {"building", "waiting"}) \/ r \notin bundle
    BY <2>1 DEF Heal
  <2>2. CASE ~(~RowIn(r, {"building", "waiting"}) \/ r \notin bundle)
    <3>1. r \in Revs /\ commits[r].st \in {"building", "waiting"}
      BY <2>2 DEF RowIn
    <3>2. CASE build[r] = "bad"
      BY <2>2, <3>1, <3>2 DEF Heal
    <3>3. CASE build[r] = "stale"
      <4>1. tried' = [tried EXCEPT ![r].heal = IF @ >= MaxTries THEN 0 ELSE @ + 1]
        BY <2>2, <3>3 DEF Heal
      <4>2. Tries
        BY <1>1, <3>1, <4>1 DEF TryTypes
      <4>3. CASE tried[r].heal >= MaxTries
        BY <2>2, <3>1, <3>3, <4>2, <4>3 DEF Heal
      <4>4. CASE ~(tried[r].heal >= MaxTries)
        <5>1. /\ commits' = commits
              /\ tick' = [tick EXCEPT !.pc = "write", !.next = "healed", !.rev = r, !.att = commits[r].att]
          BY <2>2, <3>3, <4>4 DEF Heal
        <5>2. tried' = [tried EXCEPT ![r].heal = tried[r].heal + 1]
          BY <4>2, <4>4
        <5> QED
          BY <3>1, <4>2, <4>4, <5>1, <5>2
      <4> QED
        BY <4>3, <4>4
    <3>4. CASE build[r] \notin {"bad", "stale"}
      BY <2>2, <3>1, <3>4 DEF Heal
    <3> QED
      BY <3>2, <3>3, <3>4
  <2> QED
    BY <2>1, <2>2
<1>14. RowsMove(commits, commits')
  <2>1. "failed" \in Settling
    BY DEF Settling, RowStates
  <2>2. CASE commits' = commits
    BY <1>1, <2>2, RowsSame
  <2>3. CASE r \in Revs /\ commits' = [commits EXCEPT ![r].st = "failed"]
    BY <1>1, <2>1, <2>3, CommitMoves
  <2> QED
    BY <1>13, <2>2, <2>3
<1>5. RowTypes(commits') /\ CompilesLeft(commits') /\ LiveNamed(commits', bind')
  BY <1>1, <1>2, <1>14, RowsMoveKeep
<1>6. tried' \in TryTypes
  <2>1. CASE tried' = tried
    BY <1>1, <2>1
  <2>2. CASE Tries
    <3>1. tried[r].heal \in 0..MaxTries
      BY <1>1, <2>2 DEF TryTypes
    <3>2. (IF tried[r].heal >= MaxTries THEN 0 ELSE tried[r].heal + 1) \in 0..MaxTries
      BY <3>1, ZeroTries
    <3> QED
      BY <1>1, <2>2, <3>2, TriesSet
  <2> QED
    BY <1>13, <2>1, <2>2
<1>7. TickTypes(tick') /\ TryCounted(tick', commits', tried')
  <2>1. CASE tick' = NoTick
    BY <2>1, IdleTick
  <2>2. CASE Promotes
    <3>1. commits[r].att \in Nat /\ commits[r].st \in RowStates /\ "promote" \in TickSteps
      BY <1>1, <2>2 DEF RowTypes, CommitRows, TickSteps, Working
    <3>2. tick' \in TickRecords /\ tick'.pc = "promote" /\ tick'.rev = r
      BY <1>1, <2>2, <3>1 DEF TickTypes, TickRecords
    <3> QED
      BY <2>2, <3>2 DEF TickTypes, TryCounted
  <2>3. CASE Heals
    <3>1. commits[r].att \in Nat /\ {"write", "healed"} \subseteq TickSteps
      BY <1>1, <2>3 DEF RowTypes, CommitRows, TickSteps, Working
    <3>2. tick' \in TickRecords /\ tick'.pc = "write" /\ tick'.next = "healed" /\ tick'.rev = r
          /\ tick'.att = commits[r].att
      BY <1>1, <2>3, <3>1 DEF TickTypes, TickRecords
    <3>3. TickTypes(tick')
      BY <2>3, <3>2 DEF TickTypes
    <3>4. tried[r].heal \in 0..MaxTries /\ tried[r].heal + 1 \in 0..MaxTries /\ tried[r].heal + 1 > 0
      <4>1. tried[r].heal \in 0..MaxTries
        BY <1>1, <2>3 DEF TryTypes
      <4> QED
        BY <4>1, <2>3, ZeroTries
    <3>5. tried'[r].heal = tried[r].heal + 1
      BY <1>1, <2>3, <3>4, TriesSet
    <3>6. commits'[r] = commits[r] /\ commits[r].st # "none"
      BY <2>3
    <3> HIDE DEF r
    <3>7. commits[r].att <= commits[r].att
      BY <3>1
    <3>8. tried'[r].heal > 0
      BY <3>4, <3>5
    <3> QED
      BY <3>2, <3>3, <3>6, <3>7, <3>8 DEF TryCounted
  <2> QED
    BY <1>13, <2>1, <2>2, <2>3
<1> QED
  BY <1>1, <1>2, <1>5, <1>6, <1>7 DEF SourceInv

LEMMA HealedKeeps ==
  ASSUME ScenarioSourceConstants, SourceInv, Healed
  PROVE  SourceInv'
<1>1. /\ StoreKept(repo, cat, staged, archive, bundle, build, order, compile, left)
      /\ bind \in Bindings /\ RowTypes(commits) /\ tried \in TryTypes
      /\ TickTypes(tick) /\ UploadTypes(upload) /\ BldTypes(bld)
      /\ CompilesLeft(commits) /\ LiveNamed(commits, bind) /\ TryCounted(tick, commits, tried)
  BY DEF SourceInv
<1>2. UNCHANGED <<repo, bind, commits, staged, archive, bundle, build, cat, upload, order, bld, compile, left>>
  BY DEF Healed
<1>6. tried' \in TryTypes
  <2>1. tick.rev \in Revs
    BY <1>1 DEF Healed, TickTypes, Working
  <2> QED
    BY <1>1, <2>1, TriesSet, ZeroTries DEF Healed
<1>7. TickTypes(tick') /\ TryCounted(tick', commits', tried')
  BY IdleTick DEF Healed
<1> QED
  BY <1>1, <1>2, <1>6, <1>7 DEF SourceInv

LEMMA PromoteKeeps ==
  ASSUME ScenarioSourceConstants, SourceInv, Promote
  PROVE  SourceInv'
<1>1. /\ StoreKept(repo, cat, staged, archive, bundle, build, order, compile, left)
      /\ bind \in Bindings /\ RowTypes(commits) /\ tried \in TryTypes
      /\ TickTypes(tick) /\ UploadTypes(upload) /\ BldTypes(bld)
      /\ CompilesLeft(commits) /\ LiveNamed(commits, bind) /\ TryCounted(tick, commits, tried)
  BY DEF SourceInv
<1>2. UNCHANGED <<repo, bind, staged, archive, bundle, build, cat, tried, upload, order, bld, compile>>
  BY DEF Promote
<1> DEFINE r == tick.rev
<1>10. r \in Revs
  BY <1>1 DEF Promote, TickTypes, Working
<1>14. RowsMove(commits, commits')
  <2>1. \/ commits' = commits
        \/ commits' = [commits EXCEPT ![r].st = "promoting"]
        \/ commits' = Settled(r, tick.att, tick.st, "waiting")
    BY DEF Promote
  <2>2. {"promoting", "waiting"} \subseteq Settling
    BY DEF Settling, RowStates
  <2> QED
    BY <1>1, <1>10, <2>1, <2>2, CommitMoves, SettledMoves, RowsSame
<1>3. StoreKept(repo', cat', staged', archive', bundle', build', order', compile', left')
  <2>1. left' = left \/ Fault
    BY DEF Promote
  <2>2. left' \in LeftTypes
    BY <1>1, <2>1, FaultLeft DEF StoreKept
  <2> QED
    BY <1>1, <1>2, <2>2 DEF StoreKept
<1>5. RowTypes(commits') /\ CompilesLeft(commits') /\ LiveNamed(commits', bind')
  BY <1>1, <1>2, <1>14, RowsMoveKeep
<1>7. TickTypes(tick') /\ TryCounted(tick', commits', tried')
  <2>1. tick' = NoTick \/ tick' = [tick EXCEPT !.pc = "core", !.next = "idle"]
    BY DEF Promote
  <2>2. CASE tick' = NoTick
    BY <2>2, IdleTick
  <2>3. CASE tick' = [tick EXCEPT !.pc = "core", !.next = "idle"]
    <3>1. {"core", "idle"} \subseteq TickSteps /\ "idle" \notin Working
      BY DEF TickSteps, Working
    <3>2. tick' \in TickRecords /\ tick'.pc = "core" /\ tick'.next = "idle" /\ tick'.rev = r
      BY <1>1, <2>3, <3>1 DEF TickTypes, TickRecords
    <3> QED
      BY <1>10, <3>1, <3>2 DEF TickTypes, TryCounted
  <2> QED
    BY <2>1, <2>2, <2>3
<1> QED
  BY <1>1, <1>2, <1>3, <1>5, <1>7 DEF SourceInv

LEMMA CoreKeeps ==
  ASSUME ScenarioSourceConstants, SourceInv, Core
  PROVE  SourceInv'
<1>1. /\ StoreKept(repo, cat, staged, archive, bundle, build, order, compile, left)
      /\ bind \in Bindings /\ RowTypes(commits) /\ tried \in TryTypes
      /\ TickTypes(tick) /\ UploadTypes(upload) /\ BldTypes(bld)
      /\ CompilesLeft(commits) /\ LiveNamed(commits, bind) /\ TryCounted(tick, commits, tried)
  BY DEF SourceInv
<1>2. UNCHANGED <<repo, bind, staged, archive, bundle, build, tried, upload, order, bld, compile>>
  BY DEF Core
<1> DEFINE r == tick.rev
<1>10. r \in Revs /\ tick.pc = "core"
  BY <1>1 DEF Core, TickTypes, Working
<1>14. RowsMove(commits, commits')
  <2>1. \/ commits' = commits
        \/ \E s \in {"waiting", "building"} : commits' = Settled(r, tick.att, "promoting", s)
    BY DEF Core
  <2>2. {"building", "waiting"} \subseteq Settling
    BY DEF Settling, RowStates
  <2> QED
    BY <1>1, <1>10, <2>1, <2>2, SettledMoves, RowsSame
<1>3. StoreKept(repo', cat', staged', archive', bundle', build', order', compile', left')
  <2>1. left' = left \/ Fault
    BY DEF Core
  <2>2. left' \in LeftTypes
    BY <1>1, <2>1, FaultLeft DEF StoreKept
  <2>3. cat' = cat \/ cat' = r
    BY DEF Core
  <2> QED
    BY <1>1, <1>2, <1>10, <2>2, <2>3 DEF StoreKept
<1>5. RowTypes(commits') /\ CompilesLeft(commits') /\ LiveNamed(commits', bind')
  BY <1>1, <1>2, <1>14, RowsMoveKeep
<1>7. TickTypes(tick') /\ TryCounted(tick', commits', tried')
  <2>1. tick' = NoTick \/ Stay("golive") \/ Goto(tick.next)
    BY DEF Core
  <2>2. tick.next \in Ways
    BY <1>1, <1>10 DEF TickTypes, TickRecords, Ways
  <2>3. CASE tick' = NoTick
    BY <2>3, IdleTick
  <2>4. CASE Stay("golive")
    <3>1. "golive" \in TickSteps
      BY DEF TickSteps, Working
    <3>2. tick' \in TickRecords /\ tick'.pc = "golive" /\ tick'.next = tick.next /\ tick'.rev = r
      BY <1>1, <2>4, <3>1 DEF Stay, TickTypes, TickRecords
    <3> QED
      BY <1>10, <2>2, <3>2 DEF TickTypes, TryCounted, Ways
  <2>5. CASE Goto(tick.next)
    BY <1>1, <2>2, <2>5, GotoTick
  <2> QED
    BY <2>1, <2>3, <2>4, <2>5
<1> QED
  BY <1>1, <1>2, <1>3, <1>5, <1>7 DEF SourceInv

LEMMA GoLiveKeeps ==
  ASSUME ScenarioSourceConstants, SourceInv, GoLive
  PROVE  SourceInv'
<1>1. /\ StoreKept(repo, cat, staged, archive, bundle, build, order, compile, left)
      /\ bind \in Bindings /\ RowTypes(commits) /\ tried \in TryTypes
      /\ TickTypes(tick) /\ UploadTypes(upload) /\ BldTypes(bld)
      /\ CompilesLeft(commits) /\ LiveNamed(commits, bind) /\ TryCounted(tick, commits, tried)
  BY DEF SourceInv
<1>2. UNCHANGED <<repo, staged, archive, bundle, build, cat, tried, upload, order, bld, compile, left>>
  BY DEF GoLive
<1> DEFINE r == tick.rev
           Takes == commits[r].att = tick.att /\ commits[r].st = "promoting"
<1>10. r \in Revs /\ tick.pc = "golive"
  BY <1>1 DEF GoLive, TickTypes, Working
<1>4. bind' \in Bindings
  <2>1. bind' = bind \/ bind' = [bind EXCEPT !.live = r]
    BY DEF GoLive
  <2> QED
    BY <1>1, <1>10, <2>1 DEF Bindings
<1>5. RowTypes(commits') /\ CompilesLeft(commits') /\ LiveNamed(commits', bind')
  <2>1. CASE ~Takes
    <3>1. commits' = commits /\ bind' = bind
      BY <1>1, <2>1 DEF GoLive, RowTypes
    <3> QED
      BY <1>1, <3>1
  <2>2. CASE Takes
    <3>1. bind' = [bind EXCEPT !.live = r]
      BY <2>2 DEF GoLive
    <3>2. bind'.live = r
      BY <1>1, <3>1 DEF Bindings
    <3>3. commits' = [x \in Revs |-> IF x = r THEN [commits[x] EXCEPT !.st = "live"]
                                    ELSE IF commits[x].st = "live"
                                    THEN [commits[x] EXCEPT !.st = "superseded"] ELSE commits[x]]
      BY <2>2 DEF GoLive
    <3>4. {"live", "superseded"} \subseteq RowStates
      BY DEF RowStates
    <3> HIDE DEF r
    <3>5. ASSUME NEW x \in Revs
          PROVE  /\ commits'[x] \in CommitRows /\ commits'[x].att = commits[x].att
                 /\ commits'[x].claimed = commits[x].claimed
                 /\ commits'[x].st \in {"live", "superseded"} \/ commits'[x].st = commits[x].st
                 /\ commits'[x].st = "live" => x = r
      <4>1. commits[x] \in CommitRows
        BY <1>1 DEF RowTypes
      <4>2. CASE x = r
        <5>1. commits'[x] = [commits[x] EXCEPT !.st = "live"]
          BY <3>3, <4>2
        <5> QED
          BY <3>4, <4>1, <4>2, <5>1 DEF CommitRows
      <4>3. CASE x # r /\ commits[x].st = "live"
        <5>1. commits'[x] = [commits[x] EXCEPT !.st = "superseded"]
          BY <3>3, <4>3
        <5> QED
          BY <3>4, <4>1, <5>1 DEF CommitRows
      <4>4. CASE x # r /\ commits[x].st # "live"
        <5>1. commits'[x] = commits[x]
          BY <3>3, <4>4
        <5> QED
          BY <4>1, <4>4, <5>1
      <4> QED
        BY <4>2, <4>3, <4>4
    <3>6. RowTypes(commits')
      <4>1. commits' \in [Revs -> CommitRows]
        BY <3>3, <3>5
      <4> QED
        BY <1>1, <3>5, <4>1 DEF RowTypes
    <3>7. CompilesLeft(commits')
      BY <1>1, <3>5 DEF CompilesLeft
    <3>8. LiveNamed(commits', bind')
      BY <3>2, <3>5 DEF LiveNamed
    <3> QED
      BY <3>6, <3>7, <3>8
  <2> QED
    BY <2>1, <2>2
<1>7. TickTypes(tick') /\ TryCounted(tick', commits', tried')
  <2>1. tick.next \in Ways
    BY <1>1, <1>10 DEF TickTypes, TickRecords, Ways
  <2>2. Goto(tick.next)
    BY DEF GoLive
  <2> QED
    BY <1>1, <2>1, <2>2, GotoTick
<1> QED
  BY <1>1, <1>2, <1>4, <1>5, <1>7 DEF SourceInv

LEMMA SourceNextKeeps ==
  ASSUME ScenarioSourceConstants, SourceInv, SourceNext
  PROVE  SourceInv'
<1>1. ASSUME NEW r \in Revs, Push(r) \/ Rerun(r) \/ BuildMoves(r)
      PROVE  SourceInv'
  BY <1>1, PushKeeps, RerunKeeps, BuildMovesKeeps
<1>2. CASE TickStep
  BY <1>2, ObserveHeadKeeps, WriteHeadKeeps, DropInactiveKeeps, CleanKeeps, FinishKeeps,
     SupersedeKeeps, ReadActiveKeeps, IngestKeeps, ReadStagedKeeps, WriteKeeps, IngestedKeeps,
     DeliverKeeps, ClaimKeeps, FetchKeeps, AssignKeeps, HealKeeps, HealedKeeps, PromoteKeeps,
     CoreKeeps, GoLiveKeeps, ExpireCompileKeeps DEF TickStep
<1>3. CASE BuilderStep
  BY <1>3, CompileBeginKeeps, CompileEndsKeeps, PostResultKeeps, ClaimResultKeeps DEF BuilderStep
<1>4. CASE ChangeSource \/ PurgeMark \/ PurgeDelete \/ UploadBegin \/ UploadStage \/ UploadClaim
  BY <1>4, ChangeSourceKeeps, PurgeMarkKeeps, PurgeDeleteKeeps, UploadBeginKeeps, UploadStageKeeps,
     UploadClaimKeeps
<1>5. CASE RefuseOutdated \/ BuilderCrash \/ HostReport \/ Alarm \/ PassDies
  BY <1>5, RefuseOutdatedKeeps, BuilderCrashKeeps, HostReportKeeps, AlarmKeeps, PassDiesKeeps DEF
     SourceNext
<1> QED
  BY <1>1, <1>2, <1>3, <1>4, <1>5 DEF SourceNext

LEMMA SourceStutters ==
  ASSUME SourceInv, UNCHANGED sourceVars
  PROVE  SourceInv'
BY DEF SourceInv, sourceVars

\* A scenario source keeps its promises in every reachable state, for any commits, limits and
\* numbers of head moves, uploads, changes and faults: every value has its shape and no try
\* counter goes negative; a claim of a commit is compiled at most MAX_COMPILE_ATTEMPTS times
\* however expiries, refused results and builder restarts interleave with the alarm passes;
\* and a live commit row is the live commit of the binding.
THEOREM SourceCorrect ==
  ASSUME ScenarioSourceConstants
  PROVE  SourceSpec => []SourceSound
<1>1. SourceInit => SourceInv
  BY SourceInitKept
<1>2. SourceInv /\ [SourceNext]_sourceVars => SourceInv'
  BY SourceNextKeeps, SourceStutters
<1>3. SourceInv => SourceSound
  BY SourceInvSound
<1> QED
  BY <1>1, <1>2, <1>3, PTL DEF SourceSpec

LEMMA ResultCurrent ==
  ASSUME ScenarioSourceConstants, SourceInv, SourceNext
  PROVE  ResultIsCurrentStep
<1> SUFFICES ASSUME NEW r \in Revs, bld.pc = "claim", bld'.pc = "idle", commits'[r].st = "ingesting",
                    commits[r].st # "ingesting"
             PROVE  commits[r].st = "compiling" /\ bld.job = [rev |-> r, att |-> commits[r].att] /\ BindingActive
  BY DEF ResultIsCurrentStep
<1>1. bld' # bld /\ commits' # commits
  OBVIOUS
<1>2. ClaimResult
  <2>1. ~(Push(r) \/ Rerun(r) \/ BuildMoves(r)) /\ ~\E x \in Revs : Push(x) \/ Rerun(x) \/ BuildMoves(x)
    BY <1>1 DEF Push, Rerun, BuildMoves
  <2>2. ~(ChangeSource \/ PurgeMark \/ PurgeDelete \/ UploadBegin \/ UploadStage \/ UploadClaim \/ HostReport
          \/ Alarm \/ PassDies)
    BY <1>1 DEF ChangeSource, PurgeMark, PurgeDelete, UploadBegin, UploadStage, UploadClaim, HostReport, Alarm,
                PassDies
  <2>3. ~TickStep
    BY <1>1 DEF TickStep, ObserveHead, WriteHead, DropInactive, Clean, Finish, Supersede, ReadActive, Ingest,
                ReadStaged, Write, Ingested, Deliver, ExpireCompile, Claim, Fetch, Assign, Heal, Healed,
                Promote, Core, GoLive
  <2>4. ~(RefuseOutdated \/ BuilderCrash \/ CompileBegin \/ CompileEnds \/ PostResult)
    BY <1>1 DEF RefuseOutdated, BuilderCrash, CompileBegin, CompileEnds, PostResult, SetBld
  <2> QED
    BY <2>1, <2>2, <2>3, <2>4 DEF SourceNext, BuilderStep
<1>3. commits \in [Revs -> CommitRows] /\ bld.job \in Jobs
  BY DEF SourceInv, RowTypes, BldTypes
<1>4. /\ Fenced(bld.job)
      /\ commits' = [commits EXCEPT ![bld.job.rev].st = "ingesting"]
  BY <1>1, <1>2 DEF ClaimResult
<1>5. bld.job.rev = r
  BY <1>3, <1>4
<1>6. /\ commits[r].st = "compiling" /\ commits[r].att = bld.job.att /\ BindingActive
  BY <1>4, <1>5 DEF Fenced
<1>7. bld.job = [rev |-> r, att |-> commits[r].att]
  BY <1>3, <1>5, <1>6 DEF Jobs
<1> QED
  BY <1>6, <1>7

\* A compile result is applied only to the delivery it was made for, in every behaviour: a row
\* reaches ingest from a builder only while it is compiling that attempt for an active binding.
THEOREM SourceResultsFenced ==
  ASSUME ScenarioSourceConstants
  PROVE  SourceSpec => ResultIsCurrent
<1>1. SourceInit => SourceInv
  BY SourceInitKept
<1>2. SourceInv /\ [SourceNext]_sourceVars => SourceInv'
  BY SourceNextKeeps, SourceStutters
<1>3. SourceInv /\ [SourceNext]_sourceVars => [ResultIsCurrentStep]_sourceVars
  BY ResultCurrent
<1> QED
  BY <1>1, <1>2, <1>3, PTL DEF SourceSpec, ResultIsCurrent

LEMMA TargetHead ==
  ASSUME ScenarioSourceConstants, SourceInv, SourceNext
  PROVE  TargetWasHeadStep
<1> SUFFICES ASSUME bind'.target # bind.target, tick.pc = "ingested", tick'.pc # "ingested"
             PROVE  bind'.target = bind.head
  BY DEF TargetWasHeadStep
<1>1. bind' # bind /\ tick' # tick /\ tick.pc = "ingested"
  OBVIOUS
<1>2. UploadClaim \/ Ingested
  <2>1. ~\E x \in Revs : Push(x) \/ Rerun(x) \/ BuildMoves(x)
    BY <1>1 DEF Push, Rerun, BuildMoves
  <2>2. ~(ChangeSource \/ PurgeMark \/ PurgeDelete \/ UploadBegin \/ UploadStage \/ HostReport
          \/ Alarm \/ PassDies)
    BY <1>1 DEF ChangeSource, PurgeMark, PurgeDelete, UploadBegin, UploadStage, HostReport, Alarm, PassDies
  <2>3. TickStep => Ingested
    BY <1>1 DEF TickStep, ObserveHead, WriteHead, DropInactive, Clean, Finish, Supersede, ReadActive, Ingest,
                ReadStaged, Write, Deliver, ExpireCompile, Claim, Fetch, Assign, Heal, Healed,
                Promote, Core, GoLive
  <2>4. ~(RefuseOutdated \/ BuilderCrash \/ BuilderStep)
    BY <1>1 DEF RefuseOutdated, BuilderCrash, BuilderStep, CompileBegin, CompileEnds, PostResult, ClaimResult, SetBld
  <2> QED
    BY <2>1, <2>2, <2>3, <2>4 DEF SourceNext
<1>3. bind \in Bindings
  BY DEF SourceInv
<1>4. ~UploadClaim
  <2>1. SUFFICES ASSUME UploadClaim
                 PROVE  FALSE
    OBVIOUS
  <2>2. bind' = bind \/ bind' = [bind EXCEPT !.head = upload.rev]
    BY <2>1 DEF UploadClaim
  <2> QED
    BY <1>3, <2>2 DEF Bindings
<1>5. bind.head = tick.rev /\ bind' = [bind EXCEPT !.target = tick.rev]
  BY <1>1, <1>2, <1>4 DEF Ingested
<1> QED
  BY <1>3, <1>5 DEF Bindings

\* Only a commit that is the head becomes the target, in every behaviour: an ingest that the head
\* overtook while its bundle was written leaves the target alone.
THEOREM SourceTargetsHead ==
  ASSUME ScenarioSourceConstants
  PROVE  SourceSpec => TargetWasHead
<1>1. SourceInit => SourceInv
  BY SourceInitKept
<1>2. SourceInv /\ [SourceNext]_sourceVars => SourceInv'
  BY SourceNextKeeps, SourceStutters
<1>3. SourceInv /\ [SourceNext]_sourceVars => [TargetWasHeadStep]_sourceVars
  BY TargetHead
<1> QED
  BY <1>1, <1>2, <1>3, PTL DEF SourceSpec, TargetWasHead

(***************************************************************************)
(* The catalog and its retention.                                          *)
(***************************************************************************)
\* every image these rows name is in S
LiveIn(rs, S) == \A s \in Scenarios : rs[s].image # Nil => rs[s].image \in S
CandIn(c, S) == \A r \in Revisions : LiveIn(c[r], S)
SnapsIn(x, S) == \A y \in x : LiveIn(y.rows, S)
RunsIn(f, S) == \A q \in Runs : f[q].pc \in {"active", "leaving"} => f[q].image \in S

\* what a build has published in this attempt is in S until it is retired
BuildsIn(f, S) ==
  \A b \in BuildIds :
    /\ f[b].status = "active" => f[b].rev \in Revisions
    /\ f[b].status = "succeeded" => f[b].sent
    /\ f[b].sent /\ ~f[b].retired => f[b].image \in S

CandTable(c) ==
  /\ c \in [Revisions -> [Scenarios -> CandRows]]
  /\ \A r \in Revisions, s \in Scenarios : c[r][s].build # Nil \/ c[r][s].image = Nil
  /\ \E n \in Nat : \A r \in Revisions, s \in Scenarios : c[r][s].at <= n
SnapTable(x) == x \subseteq SnapRows /\ \E n \in Nat : \A y \in x : y.at <= n

RunRows == [pc : {"new", "read", "active", "leaving", "ended"}, scen : Scenarios \cup {Nil},
            rev : Revisions \cup {Nil}, build : BuildIds \cup {Nil}, image : Images \cup {Nil}]
RunTable(f) ==
  /\ f \in [Runs -> RunRows]
  /\ \A q \in Runs : f[q].pc \in {"read", "active", "leaving"} => f[q].scen \in Scenarios /\ f[q].image \in Images

OpRows == [pc : {"idle", "queued", "stored", "stage", "check", "read", "commit"},
           kind : Kinds \cup {Nil}, rev : Revisions \cup {Nil}, build : BuildIds \cup {Nil},
           image : Images \cup {Nil}, scens : SUBSET Scenarios, snap : SnapRows]

\* what an operation at each stage still relies on
OpKept(v, c, S) ==
  /\ v.pc \in {"queued", "stage", "check"} => v.rev \in Revisions
  /\ v.pc = "stored" => v.kind \in {"candidate", "live"}
  /\ v.pc = "commit" => v.kind \in {"live", "promote"}
  /\ v.pc \in {"stored", "commit"} /\ v.kind \in {"candidate", "live"} => v.image \in S
  /\ v.pc = "stored" /\ v.kind = "candidate" => v.rev \in Revisions /\ v.build \in BuildIds /\ v.scens # {}
  /\ v.pc = "commit" /\ v.kind = "promote" =>
       v.rev \in Revisions /\ \A s \in v.scens : c[v.rev][s].image # Nil
  /\ v.pc = "read" => "rollback" \in Kinds /\ LiveIn(v.snap.rows, S)
OpTable(f, c, S) == f \in [Ops -> OpRows] /\ \A o \in Ops : OpKept(f[o], c, S)

PlanRows == [pc : {"idle", "plan", "trim", "apply", "delete"}, keep : SUBSET Images, trim : SUBSET Images,
             retire : SUBSET BuildIds, activate : SUBSET BuildIds, cand : [Revisions -> [Scenarios -> CandRows]],
             snaps : SUBSET SnapRows]
GateHeld(p, f, g) == p.pc # "idle" => /\ \A o \in Ops : f[o].pc = "idle"
                                      /\ \A q \in Runs : g[q].pc # "read"

\* the newest record that covers a scenario holds the image last replaced
PrevIn(x, p) ==
  \A s \in Scenarios : p[s] # Nil =>
    \E y \in x : y.rows[s].image = p[s] /\ \A z \in x : z.at > y.at => z.rows[s].image = Nil

\* what the pass keeps covers what is in use
Keeping(p, l, h, g, S) ==
  p.pc \in {"trim", "apply", "delete"} =>
    /\ p.keep \subseteq S /\ LiveIn(l, p.keep) /\ RunsIn(g, p.keep)
    /\ p.pc = "trim" => h \ p.trim \subseteq p.keep
    /\ p.pc # "trim" => h \subseteq p.keep

\* and what its batch will leave in the tables
Projected(p, c, f, g) ==
  p.pc \in {"trim", "apply"} =>
    /\ CandTable(p.cand) /\ CandIn(p.cand, p.keep) /\ SnapTable(p.snaps) /\ SnapsIn(p.snaps, p.keep)
    /\ \A b \in BuildIds : f[b].image # Nil => b \in p.retire \/ f[b].image \in p.keep
    /\ \A b \in p.activate : f[b].image \in p.keep
    /\ \A q \in Runs : g[q].pc = "active" /\ g[q].rev # Nil =>
         p.cand[g[q].rev][g[q].scen] = c[g[q].rev][g[q].scen]

\* and, once the batch is done, what the tables name
Deleting(p, c, x, f) ==
  p.pc = "delete" => CandIn(c, p.keep) /\ SnapsIn(x, p.keep) /\ BuildsIn(f, p.keep)

PrevHeld(x, v, p) ==
  "rollback" \notin Kinds =>
    PrevIn(x, v) /\ (p.pc \in {"trim", "apply"} => PrevIn(p.snaps, v))

CatalogInv ==
  /\ catalog \in [Scenarios -> LiveRows] /\ LiveIn(catalog, stored)
  /\ CandTable(cand) /\ CandIn(cand, stored)
  /\ SnapTable(snaps) /\ SnapsIn(snaps, stored)
  /\ builds \in [BuildIds -> BuildRows] /\ BuildsIn(builds, stored)
  /\ cache \subseteq stored /\ stored \subseteq Images
  /\ RunTable(run) /\ RunsIn(run, stored)
  /\ OpTable(ops, cand, stored)
  /\ locks \in [Scenarios -> Ops \cup {Nil}] /\ opsLeft \in 0..MaxOps
  /\ prev \in [Scenarios -> Images \cup {Nil}]
  /\ plan \in PlanRows /\ GateHeld(plan, ops, run)
  /\ Keeping(plan, catalog, cache, run, stored)
  /\ Projected(plan, cand, builds, run) /\ Deleting(plan, cand, snaps, builds)
  /\ PrevHeld(snaps, prev, plan)

LEMMA LaterIs ==
  ASSUME NEW T \in SUBSET Nat, NEW n \in Nat, \A t \in T : t <= n
  PROVE  Later(T) \in Nat /\ Later(T) <= n + 1 /\ \A t \in T : t < Later(T)
<1> DEFINE U == T \cup {0}
           B == {m \in Nat : \A u \in U : u <= m}
<1>1. B \in SUBSET Nat /\ n \in B
  OBVIOUS
<1> HIDE DEF B
<1>2. PICK m \in B : \A k \in B : m <= k
  <2> DEFINE R == OpToRel(<, Nat)
  <2>1. IsWellFoundedOn(R, Nat)
    BY NatLessThanWellFounded
  <2>2. \A i, j \in Nat : i < j => <<i, j>> \in R
    BY DEF OpToRel
  <2> HIDE DEF R
  <2>3. PICK m \in B : \A k \in B : ~(<<k, m>> \in R)
    <3>1. B \subseteq Nat /\ B # {}
      BY <1>1
    <3> QED
      BY <2>1, <3>1, WFMin, Zenon
  <2>4. ASSUME NEW k \in B PROVE m <= k
    <3>1. m \in Nat /\ k \in Nat
      BY <1>1, <2>3
    <3>2. ~(k < m)
      BY <2>2, <2>3, <3>1, Zenon
    <3> QED
      BY <3>1, <3>2
  <2> QED
    BY <2>4
<1>3. m \in Nat /\ \A u \in U : u <= m
  BY <1>2 DEF B
<1>4. m \in U
  <2>1. CASE m = 0
    BY <2>1
  <2>2. CASE m # 0
    <3>1. m - 1 \in Nat /\ m - 1 \notin B
      BY <1>2, <1>3, <2>2, <1>1
    <3>2. PICK u \in U : ~(u <= m - 1)
      BY <3>1 DEF B
    <3> QED
      BY <3>1, <3>2, <1>3
  <2> QED
    BY <2>1, <2>2
<1>5. Max(U) \in U /\ \A u \in U : u <= Max(U)
  <2>1. \E x \in U : \A y \in U : x >= y
    BY <1>3, <1>4
  <2> QED
    BY <2>1, <1>3 DEF Max
<1>6. Max(U) \in Nat /\ Max(U) <= n
  <2>1. \A u \in U : u \in Nat /\ u <= n
    OBVIOUS
  <2> HIDE DEF U
  <2> QED
    BY <1>5, <2>1
<1> HIDE DEF U
<1>7. Later(T) = 1 + Max(U)
  BY DEF Later, U
<1>8. \A t \in T : t \in U /\ t \in Nat
  BY DEF U
<1> QED
  BY <1>5, <1>6, <1>7, <1>8

\* what S holds, a larger set holds
LEMMA InMore ==
  ASSUME NEW S, NEW T, S \subseteq T
  PROVE  /\ \A l : LiveIn(l, S) => LiveIn(l, T)
         /\ \A c : CandIn(c, S) => CandIn(c, T)
         /\ \A x : SnapsIn(x, S) => SnapsIn(x, T)
         /\ \A f : RunsIn(f, S) => RunsIn(f, T)
         /\ \A f : BuildsIn(f, S) => BuildsIn(f, T)
<1>1. \A l : LiveIn(l, S) => LiveIn(l, T)
  BY DEF LiveIn
<1> QED
  BY <1>1 DEF CandIn, SnapsIn, RunsIn, BuildsIn

LEMMA OpMore ==
  ASSUME NEW S, NEW T, S \subseteq T, NEW c, NEW v, OpKept(v, c, S)
  PROVE  OpKept(v, c, T)
BY InMore DEF OpKept

\* an operation keeps what it relies on while rows are added
LEMMA OpRowsAdded ==
  ASSUME NEW S, NEW c, NEW d, NEW v, OpKept(v, c, S),
         \A r \in Revisions, s \in Scenarios : c[r][s].image # Nil => d[r][s].image # Nil,
         v.scens \in SUBSET Scenarios
  PROVE  OpKept(v, d, S)
BY DEF OpKept

\* without a pass under way nothing is promised about one
LEMMA PassSilent ==
  ASSUME NEW p, p.pc \in {"idle", "plan"}, NEW l, NEW h, NEW g, NEW S, NEW c, NEW f, NEW x
  PROVE  Keeping(p, l, h, g, S) /\ Projected(p, c, f, g) /\ Deleting(p, c, x, f)
BY DEF Keeping, Projected, Deleting

LEMMA CatalogInvProps == CatalogConstants /\ CatalogInv => RetentionKept
<1> SUFFICES ASSUME CatalogConstants, CatalogInv PROVE RetentionKept
  OBVIOUS
<1>1. CatalogTypes
  BY DEF CatalogInv, CatalogTypes, CandTable, SnapTable, RunTable, RunRows, OpTable, OpRows, PlanRows
<1>2. NeededIsKept
  <2>1. ImagesOf(catalog) \subseteq stored
    BY DEF CatalogInv, ImagesOf, LiveIn
  <2>2. SnapImages(snaps) \subseteq stored
    BY DEF CatalogInv, SnapImages, SnapsIn, ImagesOf, LiveIn
  <2>3. CandImages(cand) \subseteq stored
    BY DEF CatalogInv, CandImages, CandIn, ImagesOf, LiveIn
  <2>4. Operational \subseteq stored
    BY DEF CatalogInv, Operational, RunsIn
  <2> QED
    BY <2>1, <2>2, <2>3, <2>4 DEF NeededIsKept, CatalogInv
<1>3. "rollback" \notin Kinds => PreviousKept
  <2> SUFFICES ASSUME "rollback" \notin Kinds PROVE PreviousKept
    OBVIOUS
  <2>1. PrevIn(snaps, prev)
    BY DEF CatalogInv, PrevHeld
  <2> QED
    BY <2>1 DEF PrevIn, PreviousKept, Covers
<1> QED
  BY <1>1, <1>2, <1>3 DEF RetentionKept

LEMMA NoSnapTyped ==
  ASSUME CatalogConstants
  PROVE  NoLive \in LiveRows /\ NoCand \in CandRows /\ NoSnap \in SnapRows
<1>1. NoLive \in LiveRows /\ NoCand \in CandRows
  BY DEF NoLive, LiveRows, NoCand, CandRows
<1>2. [s \in Scenarios |-> NoLive] \in [Scenarios -> LiveRows]
  BY <1>1
<1> QED
  BY <1>1, <1>2 DEF NoSnap, SnapRows

LEMMA IdleOpKept ==
  ASSUME CatalogConstants, NEW c, NEW S
  PROVE  IdleOp \in OpRows /\ OpKept(IdleOp, c, S)
<1>1. IdleOp \in OpRows
  BY NoSnapTyped DEF IdleOp, OpRows
<1> QED
  BY <1>1 DEF IdleOp, OpKept

\* one operation is replaced while rows and objects are added
LEMMA OpReplaced ==
  ASSUME NEW f, NEW c, NEW d, NEW S, NEW T, OpTable(f, c, S), S \subseteq T,
         \A r \in Revisions, s \in Scenarios : c[r][s].image # Nil => d[r][s].image # Nil,
         NEW o \in Ops, NEW v \in OpRows, OpKept(v, d, T)
  PROVE  OpTable([f EXCEPT ![o] = v], d, T)
<1> DEFINE g == [f EXCEPT ![o] = v]
<1>1. g \in [Ops -> OpRows] /\ \A x \in Ops : g[x] = IF x = o THEN v ELSE f[x]
  BY DEF OpTable
<1>2. ASSUME NEW x \in Ops PROVE OpKept(g[x], d, T)
  <2>1. CASE x = o
    BY <1>1, <2>1
  <2>2. CASE x # o
    <3>1. OpKept(f[x], c, S) /\ f[x].scens \in SUBSET Scenarios
      BY DEF OpTable, OpRows
    <3>2. OpKept(f[x], d, S)
      BY <3>1, OpRowsAdded
    <3> QED
      BY <1>1, <2>2, <3>2, OpMore
  <2> QED
    BY <2>1, <2>2
<1> QED
  BY <1>1, <1>2 DEF OpTable

LEMMA EndOpKeeps ==
  ASSUME CatalogConstants, CatalogInv, NEW o \in Ops, EndOp(o),
         \A r \in Revisions, s \in Scenarios : cand[r][s].image # Nil => cand'[r][s].image # Nil
  PROVE  OpTable(ops', cand', stored) /\ locks' \in [Scenarios -> Ops \cup {Nil}]
<1>1. ops' = [ops EXCEPT ![o] = IdleOp]
  BY DEF EndOp, SetOp
<1>2. OpTable(ops, cand, stored)
  BY DEF CatalogInv
<1>3. OpTable(ops', cand', stored)
  BY <1>1, <1>2, IdleOpKept, OpReplaced
<1>4. locks' \in [Scenarios -> Ops \cup {Nil}]
  BY DEF EndOp, CatalogInv
<1> QED
  BY <1>3, <1>4

\* an operation at work keeps the pass out
LEMMA OpsExclude ==
  ASSUME CatalogInv, NEW o \in Ops, ops[o].pc # "idle"
  PROVE  plan.pc = "idle"
BY DEF CatalogInv, GateHeld

\* as long as no pass is under way, its parts of the invariant say nothing
LEMMA PassIdle ==
  ASSUME CatalogInv, plan.pc = "idle", plan' = plan
  PROVE  /\ plan' \in PlanRows /\ GateHeld(plan', ops', run')
         /\ Keeping(plan', catalog', cache', run', stored')
         /\ Projected(plan', cand', builds', run') /\ Deleting(plan', cand', snaps', builds')
<1>1. plan'.pc = "idle" /\ plan' \in PlanRows
  BY DEF CatalogInv
<1> QED
  BY <1>1 DEF GateHeld, Keeping, Projected, Deleting

LEMMA StoredGrows ==
  ASSUME CatalogInv, NEW T, stored \subseteq T
  PROVE  /\ LiveIn(catalog, T) /\ CandIn(cand, T) /\ SnapsIn(snaps, T) /\ BuildsIn(builds, T)
         /\ cache \subseteq T /\ RunsIn(run, T)
BY InMore DEF CatalogInv

LEMMA RowOfIs ==
  ASSUME CatalogConstants, CatalogInv, NEW r \in Revisions, NEW s \in Scenarios, NEW b \in BuildIds,
         NEW i \in stored, NEW n \in Nat,
         \A q \in Revisions, t \in Scenarios : cand[q][t].at <= n
  PROVE  /\ RowOf(r, s, b, i) \in CandRows /\ RowOf(r, s, b, i).image = i
         /\ RowOf(r, s, b, i).build = b /\ RowOf(r, s, b, i).at <= n + 1
<1>1. cand[r][s] \in CandRows /\ cand[r][s].at <= n
  BY DEF CatalogInv, CandTable
<1>2. CASE SameRow(r, s, b, i)
  <2>1. RowOf(r, s, b, i) = cand[r][s]
    BY <1>2 DEF RowOf
  <2>2. cand[r][s].at \in Nat
    BY <1>1 DEF CandRows
  <2> QED
    BY <1>1, <1>2, <2>1, <2>2 DEF SameRow
<1>3. CASE ~SameRow(r, s, b, i)
  <2> DEFINE T == {cand[q][s].at : q \in Revisions \ {r}}
  <2>1. T \in SUBSET Nat /\ \A t \in T : t <= n
    BY DEF CatalogInv, CandTable, CandRows
  <2>2. Later(T) \in Nat /\ Later(T) <= n + 1
    BY <2>1, LaterIs
  <2>3. RowOf(r, s, b, i) = [build |-> b, image |-> i, at |-> Later(T)]
    BY <1>3 DEF RowOf
  <2> HIDE DEF T
  <2>4. i \in Images
    BY DEF CatalogInv
  <2> QED
    BY <2>2, <2>3, <2>4 DEF CandRows
<1> QED
  BY <1>2, <1>3

\* rows that stay or are written anew keep the table
LEMMA CandMoves ==
  ASSUME CatalogConstants, CatalogInv, NEW n \in Nat,
         \A q \in Revisions, t \in Scenarios : cand[q][t].at <= n,
         NEW d, d \in [Revisions -> [Scenarios -> CandRows]],
         \A q \in Revisions, t \in Scenarios :
           \/ d[q][t] = cand[q][t]
           \/ d[q][t].image \in stored /\ d[q][t].build \in BuildIds /\ d[q][t].at <= n + 1
  PROVE  /\ CandTable(d) /\ CandIn(d, stored)
         /\ \A q \in Revisions, t \in Scenarios : cand[q][t].image # Nil => d[q][t].image # Nil
<1>1. \A q \in Revisions, t \in Scenarios :
        /\ cand[q][t].build # Nil \/ cand[q][t].image = Nil
        /\ cand[q][t].image # Nil => cand[q][t].image \in stored
        /\ cand[q][t].at \in Nat
  BY DEF CatalogInv, CandTable, CandIn, LiveIn, CandRows
<1>2. stored \subseteq Images /\ Nil \notin Images /\ Nil \notin BuildIds
  BY DEF CatalogInv, CatalogConstants
<1>3. \A q \in Revisions, t \in Scenarios : d[q][t].build # Nil \/ d[q][t].image = Nil
  BY <1>1, <1>2
<1>4. \A q \in Revisions, t \in Scenarios : d[q][t].image # Nil => d[q][t].image \in stored
  BY <1>1, <1>2
<1>5. n + 1 \in Nat /\ \A q \in Revisions, t \in Scenarios : d[q][t].at <= n + 1
  BY <1>1
<1>6. \A q \in Revisions, t \in Scenarios : cand[q][t].image # Nil => d[q][t].image # Nil
  BY <1>2
<1> QED
  BY <1>3, <1>4, <1>5, <1>6 DEF CandTable, CandIn, LiveIn

LEMMA StageReusableIs ==
  ASSUME CatalogConstants, CatalogInv, NEW r \in Revisions, StageReusable(r)
  PROVE  /\ CandTable(cand') /\ CandIn(cand', stored) /\ cache' \subseteq stored
         /\ \A q \in Revisions, t \in Scenarios : cand[q][t].image # Nil => cand'[q][t].image # Nil
         /\ \A q \in Revisions, t \in Scenarios :
              (\E x \in Runs : ReadsRow(x, q, t)) => cand'[q][t] = cand[q][t]
<1> DEFINE E(s) == Expected[r][s]
           W(s) == RowOf(r, s, Expected[r][s], builds[Expected[r][s]].image)
<1>1. PICK done \in SUBSET (Reusable(r) \ {s \in Reusable(r) : StageRefused(r, s)}) :
        /\ cand' = [cand EXCEPT ![r] = [s \in Scenarios |-> IF s \in done THEN W(s) ELSE cand[r][s]]]
        /\ \/ cache' = cache \cup {builds[Expected[r][s]].image : s \in done}
           \/ cache' = cache
  BY DEF StageReusable
<1>2. PICK n \in Nat : \A q \in Revisions, t \in Scenarios : cand[q][t].at <= n
  BY DEF CatalogInv, CandTable
<1>3. ASSUME NEW s \in done
      PROVE  s \in Scenarios /\ E(s) \in BuildIds /\ builds[E(s)].image \in stored /\ ~StageRefused(r, s)
  <2>1. s \in Reusable(r) /\ ~StageRefused(r, s)
    OBVIOUS
  <2>2. s \in Scenarios /\ E(s) \in BuildIds
    BY <2>1 DEF Reusable, CatalogConstants
  <2>3. builds[E(s)].status = "succeeded" /\ ~builds[E(s)].retired
    BY <2>1 DEF Reusable
  <2> QED
    BY <2>1, <2>2, <2>3 DEF CatalogInv, BuildsIn
<1>4. ASSUME NEW s \in done
      PROVE  /\ W(s) \in CandRows /\ W(s).image \in stored /\ W(s).build \in BuildIds /\ W(s).at <= n + 1
             /\ (\E x \in Runs : ReadsRow(x, r, s)) => W(s) = cand[r][s]
  <2>1. W(s) \in CandRows /\ W(s).image \in stored /\ W(s).build \in BuildIds /\ W(s).at <= n + 1
    BY <1>2, <1>3, RowOfIs
  <2>2. (\E x \in Runs : ReadsRow(x, r, s)) => SameRow(r, s, E(s), builds[E(s)].image)
    BY <1>3 DEF StageRefused, Locked
  <2> QED
    BY <2>1, <2>2 DEF RowOf
<1>5. cand \in [Revisions -> [Scenarios -> CandRows]]
  BY DEF CatalogInv, CandTable
<1> HIDE DEF W, E
<1>6. \A q \in Revisions, t \in Scenarios :
        cand'[q][t] = IF q = r /\ t \in done THEN W(t) ELSE cand[q][t]
  BY <1>1, <1>5
<1>7. cand' \in [Revisions -> [Scenarios -> CandRows]]
  <2>1. [s \in Scenarios |-> IF s \in done THEN W(s) ELSE cand[r][s]] \in [Scenarios -> CandRows]
    BY <1>4, <1>5
  <2> QED
    BY <1>1, <1>5, <2>1
<1>8. \A q \in Revisions, t \in Scenarios :
        \/ cand'[q][t] = cand[q][t]
        \/ cand'[q][t].image \in stored /\ cand'[q][t].build \in BuildIds /\ cand'[q][t].at <= n + 1
  BY <1>4, <1>6
<1>9. /\ CandTable(cand') /\ CandIn(cand', stored)
      /\ \A q \in Revisions, t \in Scenarios : cand[q][t].image # Nil => cand'[q][t].image # Nil
  BY <1>2, <1>7, <1>8, CandMoves
<1>10. cache' \subseteq stored
  BY <1>1, <1>3 DEF CatalogInv, E
<1>11. \A q \in Revisions, t \in Scenarios :
         (\E x \in Runs : ReadsRow(x, q, t)) => cand'[q][t] = cand[q][t]
  BY <1>4, <1>6
<1> QED
  BY <1>9, <1>10, <1>11

\* the parts of the invariant that speak of no pass
LEMMA RowsSuffice ==
  ASSUME CatalogInv, plan.pc = "idle", plan' = plan,
         catalog' \in [Scenarios -> LiveRows] /\ LiveIn(catalog', stored'),
         CandTable(cand') /\ CandIn(cand', stored'),
         SnapTable(snaps') /\ SnapsIn(snaps', stored'),
         builds' \in [BuildIds -> BuildRows] /\ BuildsIn(builds', stored'),
         cache' \subseteq stored' /\ stored' \subseteq Images,
         RunTable(run') /\ RunsIn(run', stored'),
         OpTable(ops', cand', stored'),
         locks' \in [Scenarios -> Ops \cup {Nil}] /\ opsLeft' \in 0..MaxOps,
         prev' \in [Scenarios -> Images \cup {Nil}],
         "rollback" \notin Kinds => PrevIn(snaps', prev')
  PROVE  CatalogInv'
<1>1. /\ plan' \in PlanRows /\ GateHeld(plan', ops', run')
      /\ Keeping(plan', catalog', cache', run', stored')
      /\ Projected(plan', cand', builds', run') /\ Deleting(plan', cand', snaps', builds')
  BY PassIdle
<1>2. PrevHeld(snaps', prev', plan')
  BY DEF PrevHeld
<1> QED
  BY <1>1, <1>2 DEF CatalogInv

LEMMA PrevNow ==
  ASSUME CatalogInv
  PROVE  "rollback" \notin Kinds => PrevIn(snaps, prev)
BY DEF CatalogInv, PrevHeld

LEMMA BeginKeeps ==
  ASSUME CatalogConstants, CatalogInv, NEW o \in Ops, NEW kind, NEW v, Begin(o, kind, v),
         NEW T, stored \subseteq T, [v EXCEPT !.kind = kind] \in OpRows, OpKept([v EXCEPT !.kind = kind], cand, T)
  PROVE  plan.pc = "idle" /\ OpTable(ops', cand, T) /\ opsLeft' \in 0..MaxOps
<1>1. OpTable(ops, cand, stored)
  BY DEF CatalogInv
<1>2. OpTable(ops', cand, T)
  BY <1>1, OpReplaced DEF Begin, SetOp
<1>3. opsLeft' \in 0..MaxOps
  BY DEF CatalogInv, Begin, CatalogConstants
<1> QED
  BY <1>2, <1>3 DEF Begin, Admits

LEMMA QueueKeeps ==
  ASSUME CatalogConstants, CatalogInv, NEW o \in Ops, NEW r \in Revisions, QueueBuilds(o, r)
  PROVE  CatalogInv'
<1> DEFINE w == [IdleOp EXCEPT !.pc = "queued", !.rev = r]
           v == [w EXCEPT !.kind = "ingest"]
<1>1. v \in OpRows /\ v.pc = "queued" /\ v.rev = r
  BY IdleOpKept DEF OpRows, QueueBuilds, Begin
<1>2. OpKept(v, cand, stored)
  BY <1>1 DEF OpKept
<1>3. Begin(o, "ingest", w) /\ plan' = plan /\ UNCHANGED <<catalog, cand, snaps, cache, stored, run, locks, plan, prev>>
  BY DEF QueueBuilds
<1> HIDE DEF w
<1>4. plan.pc = "idle" /\ OpTable(ops', cand, stored) /\ opsLeft' \in 0..MaxOps
  BY <1>1, <1>2, <1>3, BeginKeeps
<1>5. builds \in [BuildIds -> BuildRows] /\ BuildsIn(builds, stored)
  BY DEF CatalogInv
<1>6. ASSUME NEW b \in BuildIds
      PROVE  /\ builds'[b] \in BuildRows
             /\ builds'[b].status = "active" => builds'[b].rev \in Revisions
             /\ builds'[b].status = "succeeded" => builds'[b].sent
             /\ builds'[b].sent /\ ~builds'[b].retired => builds'[b].image \in stored
  <2>1. \/ builds'[b] = [builds[b] EXCEPT !.status = "active", !.rev = r, !.retired = FALSE, !.sent = FALSE]
        \/ builds'[b] = [builds[b] EXCEPT !.status = "stale"]
        \/ builds'[b] = builds[b]
    BY DEF QueueBuilds
  <2>2. builds[b] \in BuildRows
    BY <1>5
  <2>3. CASE builds'[b] = [builds[b] EXCEPT !.status = "active", !.rev = r, !.retired = FALSE, !.sent = FALSE]
    BY <2>2, <2>3 DEF BuildRows
  <2>4. CASE builds'[b] = [builds[b] EXCEPT !.status = "stale"]
    BY <1>5, <2>2, <2>4 DEF BuildRows, BuildsIn
  <2>5. CASE builds'[b] = builds[b]
    BY <1>5, <2>2, <2>5 DEF BuildsIn
  <2> QED
    BY <2>1, <2>3, <2>4, <2>5
<1>7. builds' \in [BuildIds -> BuildRows] /\ BuildsIn(builds', stored)
  <2>1. builds' = [b \in BuildIds |-> builds'[b]]
    BY DEF QueueBuilds
  <2> QED
    BY <1>6, <2>1 DEF BuildsIn
<1>8. "rollback" \notin Kinds => PrevIn(snaps', prev')
  BY <1>3, PrevNow
<1> QED
  BY <1>3, <1>4, <1>7, <1>8, RowsSuffice DEF CatalogInv

LEMMA StageIngestedKeeps ==
  ASSUME CatalogConstants, CatalogInv, NEW o \in Ops, StageIngested(o)
  PROVE  CatalogInv'
<1>1. ops[o].pc = "queued" /\ StageReusable(ops[o].rev) /\ EndOp(o)
      /\ UNCHANGED <<catalog, snaps, builds, stored, run, plan, opsLeft, prev>>
  BY DEF StageIngested
<1>2. ops[o].rev \in Revisions
  BY <1>1 DEF CatalogInv, OpTable, OpKept
<1>3. /\ CandTable(cand') /\ CandIn(cand', stored) /\ cache' \subseteq stored
      /\ \A q \in Revisions, t \in Scenarios : cand[q][t].image # Nil => cand'[q][t].image # Nil
  BY <1>1, <1>2, StageReusableIs
<1>4. OpTable(ops', cand', stored) /\ locks' \in [Scenarios -> Ops \cup {Nil}]
  BY <1>1, <1>3, EndOpKeeps
<1>5. plan.pc = "idle"
  BY <1>1, OpsExclude
<1>6. "rollback" \notin Kinds => PrevIn(snaps', prev')
  BY <1>1, PrevNow
<1> QED
  BY <1>1, <1>3, <1>4, <1>5, <1>6, RowsSuffice DEF CatalogInv

LEMMA RestageKeeps ==
  ASSUME CatalogConstants, CatalogInv, NEW o \in Ops, RestagePromotion(o)
  PROVE  CatalogInv'
<1>1. ops[o].pc = "stage" /\ StageReusable(ops[o].rev)
      /\ UNCHANGED <<catalog, snaps, builds, stored, run, plan, opsLeft, prev>>
  BY DEF RestagePromotion
<1>2. ops[o].rev \in Revisions /\ ops[o] \in OpRows
  BY <1>1 DEF CatalogInv, OpTable, OpKept
<1>3. /\ CandTable(cand') /\ CandIn(cand', stored) /\ cache' \subseteq stored
      /\ \A q \in Revisions, t \in Scenarios : cand[q][t].image # Nil => cand'[q][t].image # Nil
  BY <1>1, <1>2, StageReusableIs
<1>4. OpTable(ops', cand', stored) /\ locks' \in [Scenarios -> Ops \cup {Nil}]
  <2>1. CASE EndOp(o)
    BY <2>1, <1>3, EndOpKeeps
  <2>2. CASE SetOp(o, [ops[o] EXCEPT !.pc = "check"]) /\ UNCHANGED locks
    <3> DEFINE v == [ops[o] EXCEPT !.pc = "check"]
    <3>1. v \in OpRows /\ v.pc = "check" /\ v.rev = ops[o].rev
      BY <1>2 DEF OpRows
    <3>2. OpKept(v, cand', stored)
      BY <1>2, <3>1 DEF OpKept
    <3>3. ops' = [ops EXCEPT ![o] = v]
      BY <2>2 DEF SetOp
    <3> HIDE DEF v
    <3> QED
      BY <1>3, <2>2, <3>1, <3>2, <3>3, OpReplaced DEF CatalogInv
  <2> QED
    BY <2>1, <2>2 DEF RestagePromotion
<1>5. plan.pc = "idle"
  BY <1>1, OpsExclude
<1>6. "rollback" \notin Kinds => PrevIn(snaps', prev')
  BY <1>1, PrevNow
<1> QED
  BY <1>1, <1>3, <1>4, <1>5, <1>6, RowsSuffice DEF CatalogInv

LEMMA StoreCandidateKeeps ==
  ASSUME CatalogConstants, CatalogInv, NEW o \in Ops, NEW s \in Scenarios, NEW b \in BuildIds,
         StoreCandidate(o, s, b)
  PROVE  CatalogInv'
<1> DEFINE r == builds[b].rev
           W(i) == [IdleOp EXCEPT !.pc = "stored", !.rev = r, !.build = b, !.image = i, !.scens = {s}]
           v(i) == [W(i) EXCEPT !.kind = "candidate"]
<1>1. PICK i \in Outputs[b] : Begin(o, "candidate", W(i)) /\ stored' = stored \cup {i}
  BY DEF StoreCandidate
<1>2. /\ Lock(o, {s}) /\ builds[b].status = "active"
      /\ UNCHANGED <<catalog, cand, snaps, builds, cache, run, plan, prev>>
  BY DEF StoreCandidate, tables
<1>3. i \in Images
  BY <1>1 DEF CatalogConstants
<1>4. r \in Revisions
  BY <1>2 DEF CatalogInv, BuildsIn
<1>5. v(i) \in OpRows /\ v(i).pc = "stored" /\ v(i).kind = "candidate" /\ v(i).rev = r /\ v(i).build = b
      /\ v(i).image = i /\ v(i).scens = {s}
  <2>1. "candidate" \in Kinds
    BY <1>1 DEF Begin
  <2> QED
    BY <1>3, <1>4, <2>1, IdleOpKept DEF OpRows
<1> HIDE DEF r, v
<1>6. OpKept(v(i), cand, stored')
  BY <1>1, <1>4, <1>5 DEF OpKept
<1>7. plan.pc = "idle" /\ OpTable(ops', cand, stored') /\ opsLeft' \in 0..MaxOps
  <2>1. stored \subseteq stored'
    BY <1>1
  <2> QED
    BY <1>1, <1>5, <1>6, <2>1, BeginKeeps DEF v
<1>8. locks' \in [Scenarios -> Ops \cup {Nil}]
  BY <1>2 DEF Lock, CatalogInv
<1>9. stored \subseteq stored' /\ stored' \subseteq Images
  BY <1>1, <1>3 DEF CatalogInv
<1>10. /\ LiveIn(catalog, stored') /\ CandIn(cand, stored') /\ SnapsIn(snaps, stored') /\ BuildsIn(builds, stored')
       /\ cache \subseteq stored' /\ RunsIn(run, stored')
  BY <1>9, StoredGrows
<1>11. "rollback" \notin Kinds => PrevIn(snaps', prev')
  BY <1>2, PrevNow
<1> QED
  BY <1>2, <1>7, <1>8, <1>9, <1>10, <1>11, RowsSuffice DEF CatalogInv

LEMMA StoreLiveKeeps ==
  ASSUME CatalogConstants, CatalogInv, NEW o \in Ops, NEW s \in Scenarios, NEW i \in Images,
         StoreLive(o, s, i)
  PROVE  CatalogInv'
<1> DEFINE W == [IdleOp EXCEPT !.pc = "stored", !.image = i, !.scens = {s}]
           v == [W EXCEPT !.kind = "live"]
<1>1. /\ Begin(o, "live", W) /\ stored' = stored \cup {i}
      /\ UNCHANGED <<catalog, cand, snaps, builds, cache, run, locks, plan, prev>>
  BY DEF StoreLive, tables
<1>2. v \in OpRows /\ v.pc = "stored" /\ v.kind = "live" /\ v.image = i
  <2>1. "live" \in Kinds
    BY <1>1 DEF Begin
  <2> QED
    BY <2>1, IdleOpKept DEF OpRows
<1> HIDE DEF v
<1>3. OpKept(v, cand, stored')
  BY <1>1, <1>2 DEF OpKept
<1>4. plan.pc = "idle" /\ OpTable(ops', cand, stored') /\ opsLeft' \in 0..MaxOps
  <2>1. stored \subseteq stored'
    BY <1>1
  <2> QED
    BY <1>1, <1>2, <1>3, <2>1, BeginKeeps DEF v
<1>5. stored \subseteq stored' /\ stored' \subseteq Images
  BY <1>1 DEF CatalogInv
<1>6. /\ LiveIn(catalog, stored') /\ CandIn(cand, stored') /\ SnapsIn(snaps, stored') /\ BuildsIn(builds, stored')
      /\ cache \subseteq stored' /\ RunsIn(run, stored')
  BY <1>5, StoredGrows
<1>7. "rollback" \notin Kinds => PrevIn(snaps', prev')
  BY <1>1, PrevNow
<1> QED
  BY <1>1, <1>4, <1>5, <1>6, <1>7, RowsSuffice DEF CatalogInv

LEMMA AdmitKeeps ==
  ASSUME CatalogConstants, CatalogInv, NEW o \in Ops, NEW r \in Revisions, AdmitPromotion(o, r)
  PROVE  CatalogInv'
<1> DEFINE W(p) == [IdleOp EXCEPT !.pc = p, !.rev = r]
           v(p) == [W(p) EXCEPT !.kind = "promote"]
<1>1. PICK p \in {"stage", "check"} : Begin(o, "promote", W(p))
  BY DEF AdmitPromotion
<1>2. UNCHANGED <<catalog, cand, snaps, builds, cache, stored, run, locks, plan, prev>>
  BY DEF AdmitPromotion, tables
<1>3. v(p) \in OpRows /\ v(p).pc = p /\ v(p).rev = r
  <2>1. "promote" \in Kinds
    BY <1>1 DEF Begin
  <2> QED
    BY <2>1, IdleOpKept DEF OpRows
<1> HIDE DEF v
<1>4. OpKept(v(p), cand, stored)
  BY <1>3 DEF OpKept
<1>5. plan.pc = "idle" /\ OpTable(ops', cand, stored) /\ opsLeft' \in 0..MaxOps
  BY <1>1, <1>3, <1>4, BeginKeeps DEF v
<1>6. "rollback" \notin Kinds => PrevIn(snaps', prev')
  BY <1>2, PrevNow
<1> QED
  BY <1>2, <1>5, <1>6, RowsSuffice DEF CatalogInv

LEMMA ReadRollbackKeeps ==
  ASSUME CatalogConstants, CatalogInv, NEW o \in Ops, NEW r \in Revisions, ReadRollback(o, r)
  PROVE  CatalogInv'
<1> DEFINE W(x) == [IdleOp EXCEPT !.pc = "read", !.rev = r, !.snap = x]
           v(x) == [W(x) EXCEPT !.kind = "rollback"]
<1>1. PICK x \in SnapsAt(r) : Begin(o, "rollback", W(x))
  BY DEF ReadRollback
<1>2. UNCHANGED <<catalog, cand, snaps, builds, cache, stored, run, locks, plan, prev>>
  BY DEF ReadRollback, tables
<1>3. x \in SnapRows /\ LiveIn(x.rows, stored)
  BY DEF SnapsAt, CatalogInv, SnapTable, SnapsIn
<1>4. v(x) \in OpRows /\ v(x).pc = "read" /\ v(x).snap = x /\ "rollback" \in Kinds
  <2>1. "rollback" \in Kinds
    BY <1>1 DEF Begin
  <2> QED
    BY <1>3, <2>1, IdleOpKept DEF OpRows
<1> HIDE DEF v
<1>5. OpKept(v(x), cand, stored)
  BY <1>3, <1>4 DEF OpKept
<1>6. plan.pc = "idle" /\ OpTable(ops', cand, stored) /\ opsLeft' \in 0..MaxOps
  BY <1>1, <1>4, <1>5, BeginKeeps DEF v
<1>7. "rollback" \notin Kinds => PrevIn(snaps', prev')
  BY <1>2, PrevNow
<1> QED
  BY <1>2, <1>6, <1>7, RowsSuffice DEF CatalogInv

LEMMA StageCandidateKeeps ==
  ASSUME CatalogConstants, CatalogInv, NEW o \in Ops, StageCandidate(o)
  PROVE  CatalogInv'
<1> DEFINE b == ops[o].build
           r == ops[o].rev
           s == CHOOSE x \in ops[o].scens : TRUE
           i == ops[o].image
<1>1. /\ ops[o].pc = "stored" /\ ops[o].kind = "candidate" /\ EndOp(o)
      /\ UNCHANGED <<catalog, snaps, stored, run, plan, opsLeft, prev>>
  BY DEF StageCandidate
<1>2. r \in Revisions /\ b \in BuildIds /\ i \in stored /\ s \in Scenarios
  <2>1. ops[o] \in OpRows /\ OpKept(ops[o], cand, stored)
    BY DEF CatalogInv, OpTable
  <2>2. ops[o].scens \in SUBSET Scenarios /\ ops[o].scens # {}
    BY <1>1, <2>1 DEF OpRows, OpKept
  <2> QED
    BY <1>1, <2>1, <2>2 DEF OpKept
<1>3. \/ UNCHANGED <<cand, builds, cache>>
      \/ /\ cand' = [cand EXCEPT ![r] = [cand[r] EXCEPT ![s] = RowOf(r, s, b, i)]]
         /\ builds' = [builds EXCEPT ![b] = [builds[b] EXCEPT !.image = i, !.retired = FALSE, !.sent = TRUE]]
         /\ cache' = cache \cup {i}
         /\ builds[b].status = "active"
  BY DEF StageCandidate
<1> HIDE DEF b, r, s, i
<1>4. /\ CandTable(cand') /\ CandIn(cand', stored)
      /\ \A q \in Revisions, t \in Scenarios : cand[q][t].image # Nil => cand'[q][t].image # Nil
  <2>1. CASE cand' = cand
    BY <2>1 DEF CatalogInv
  <2>2. CASE cand' = [cand EXCEPT ![r] = [cand[r] EXCEPT ![s] = RowOf(r, s, b, i)]]
    <3>1. PICK n \in Nat : \A q \in Revisions, t \in Scenarios : cand[q][t].at <= n
      BY DEF CatalogInv, CandTable
    <3>2. RowOf(r, s, b, i) \in CandRows /\ RowOf(r, s, b, i).image = i
          /\ RowOf(r, s, b, i).build = b /\ RowOf(r, s, b, i).at <= n + 1
      BY <1>2, <3>1, RowOfIs
    <3>3. cand \in [Revisions -> [Scenarios -> CandRows]]
      BY DEF CatalogInv, CandTable
    <3>4. cand' \in [Revisions -> [Scenarios -> CandRows]]
      BY <1>2, <2>2, <3>2, <3>3
    <3>5. \A q \in Revisions, t \in Scenarios :
            cand'[q][t] = IF q = r /\ t = s THEN RowOf(r, s, b, i) ELSE cand[q][t]
      BY <1>2, <2>2, <3>3
    <3>6. \A q \in Revisions, t \in Scenarios :
            \/ cand'[q][t] = cand[q][t]
            \/ cand'[q][t].image \in stored /\ cand'[q][t].build \in BuildIds /\ cand'[q][t].at <= n + 1
      BY <1>2, <3>2, <3>5
    <3> QED
      BY <3>1, <3>4, <3>6, CandMoves
  <2> QED
    BY <1>3, <2>1, <2>2
<1>5. builds' \in [BuildIds -> BuildRows] /\ BuildsIn(builds', stored) /\ cache' \subseteq stored
  <2>1. builds \in [BuildIds -> BuildRows] /\ BuildsIn(builds, stored) /\ cache \subseteq stored /\ i \in Images
    BY <1>2 DEF CatalogInv
  <2>2. CASE UNCHANGED <<cand, builds, cache>>
    BY <2>1, <2>2
  <2>3. CASE /\ builds' = [builds EXCEPT ![b] = [builds[b] EXCEPT !.image = i, !.retired = FALSE, !.sent = TRUE]]
             /\ cache' = cache \cup {i} /\ builds[b].status = "active"
    <3> DEFINE w == [builds[b] EXCEPT !.image = i, !.retired = FALSE, !.sent = TRUE]
    <3>1. w \in BuildRows /\ w.image = i /\ w.status = builds[b].status /\ w.rev = builds[b].rev
      BY <1>2, <2>1 DEF BuildRows
    <3>2. builds' = [builds EXCEPT ![b] = w]
      BY <2>3
    <3> HIDE DEF w
    <3>3. builds' \in [BuildIds -> BuildRows]
      BY <2>1, <3>1, <3>2
    <3>4. BuildsIn(builds', stored)
      BY <1>2, <2>1, <2>3, <3>1, <3>2 DEF BuildsIn
    <3> QED
      BY <1>2, <2>1, <2>3, <3>3, <3>4
  <2> QED
    BY <1>3, <2>2, <2>3
<1>6. OpTable(ops', cand', stored) /\ locks' \in [Scenarios -> Ops \cup {Nil}]
  BY <1>1, <1>4, EndOpKeeps
<1>7. plan.pc = "idle"
  BY <1>1, OpsExclude
<1>8. "rollback" \notin Kinds => PrevIn(snaps', prev')
  BY <1>1, PrevNow
<1> QED
  BY <1>1, <1>4, <1>5, <1>6, <1>7, <1>8, RowsSuffice DEF CatalogInv

LEMMA ReadLiveKeeps ==
  ASSUME CatalogConstants, CatalogInv, NEW o \in Ops, ReadLive(o)
  PROVE  CatalogInv'
<1>1. /\ ops[o].pc = "stored" /\ ops[o].kind = "live"
      /\ UNCHANGED <<catalog, cand, snaps, builds, cache, stored, run, plan, opsLeft, prev>>
  BY DEF ReadLive, tables
<1>2. OpTable(ops', cand', stored) /\ locks' \in [Scenarios -> Ops \cup {Nil}]
  <2>1. CASE EndOp(o)
    BY <2>1, <1>1, EndOpKeeps
  <2>2. CASE SetOp(o, [ops[o] EXCEPT !.pc = "commit"]) /\ Lock(o, ops[o].scens)
    <3> DEFINE v == [ops[o] EXCEPT !.pc = "commit"]
    <3>1. ops[o] \in OpRows /\ ops[o].image \in stored
      BY <1>1 DEF CatalogInv, OpTable, OpKept
    <3>2. v \in OpRows /\ v.pc = "commit" /\ v.kind = "live" /\ v.image = ops[o].image
      BY <1>1, <3>1 DEF OpRows
    <3>3. OpKept(v, cand', stored)
      BY <3>1, <3>2 DEF OpKept
    <3>4. ops' = [ops EXCEPT ![o] = v]
      BY <2>2 DEF SetOp
    <3> HIDE DEF v
    <3>5. OpTable(ops', cand', stored)
      BY <1>1, <3>2, <3>3, <3>4, OpReplaced DEF CatalogInv
    <3>6. locks' \in [Scenarios -> Ops \cup {Nil}]
      BY <2>2 DEF Lock, CatalogInv
    <3> QED
      BY <3>5, <3>6
  <2> QED
    BY <2>1, <2>2 DEF ReadLive
<1>3. plan.pc = "idle"
  BY <1>1, OpsExclude
<1>4. "rollback" \notin Kinds => PrevIn(snaps', prev')
  BY <1>1, PrevNow
<1> QED
  BY <1>1, <1>2, <1>3, <1>4, RowsSuffice DEF CatalogInv

LEMMA CheckPromotionKeeps ==
  ASSUME CatalogConstants, CatalogInv, NEW o \in Ops, CheckPromotion(o)
  PROVE  CatalogInv'
<1> DEFINE r == ops[o].rev
           S == DOMAIN Expected[r]
           w == IF AlreadyPromoted(r) THEN {} ELSE S
           v == [ops[o] EXCEPT !.pc = "commit", !.scens = w]
<1>1. /\ ops[o].pc = "check" /\ ops[o].kind = "promote"
      /\ UNCHANGED <<catalog, cand, snaps, builds, cache, stored, run, plan, opsLeft, prev>>
  BY DEF CheckPromotion, tables
<1>2. \/ EndOp(o)
      \/ (AlreadyPromoted(r) \/ CatalogComplete(r)) /\ SetOp(o, v) /\ Lock(o, S)
  BY DEF CheckPromotion
<1>3. OpTable(ops', cand', stored) /\ locks' \in [Scenarios -> Ops \cup {Nil}]
  <2>1. CASE EndOp(o)
    BY <2>1, <1>1, EndOpKeeps
  <2>2. CASE (AlreadyPromoted(r) \/ CatalogComplete(r)) /\ SetOp(o, v) /\ Lock(o, S)
    <3>1. ops[o] \in OpRows /\ r \in Revisions
      BY <1>1 DEF CatalogInv, OpTable, OpKept
    <3>2. w \in SUBSET Scenarios /\ \A s \in w : cand[r][s].image # Nil
      BY <2>2, <3>1 DEF CatalogConstants, CatalogComplete, Staged
    <3> HIDE DEF w, r
    <3>3. v \in OpRows /\ v.pc = "commit" /\ v.kind = "promote" /\ v.rev = r /\ v.scens = w
      BY <1>1, <3>1, <3>2 DEF OpRows, r
    <3> HIDE DEF v
    <3>4. OpKept(v, cand', stored)
      BY <1>1, <3>1, <3>2, <3>3 DEF OpKept
    <3>5. ops' = [ops EXCEPT ![o] = v]
      BY <2>2 DEF SetOp
    <3>6. OpTable(ops', cand', stored)
      BY <1>1, <3>3, <3>4, <3>5, OpReplaced DEF CatalogInv
    <3>7. locks' \in [Scenarios -> Ops \cup {Nil}]
      BY <2>2 DEF Lock, CatalogInv
    <3> QED
      BY <3>6, <3>7
  <2> QED
    BY <1>2, <2>1, <2>2
<1>4. plan.pc = "idle"
  BY <1>1, OpsExclude
<1>5. "rollback" \notin Kinds => PrevIn(snaps', prev')
  BY <1>1, PrevNow
<1> QED
  BY <1>1, <1>3, <1>4, <1>5, RowsSuffice DEF CatalogInv

\* the record of what rot names, as an entry of the table
LEMMA SnapshotIs ==
  ASSUME CatalogConstants, CatalogInv, NEW rot \in SUBSET Scenarios, NEW t \in Revisions \cup Ops \cup {Nil},
         NEW n \in Nat, \A y \in snaps : y.at <= n
  PROVE  /\ Snapshot(t, rot) \in SnapRows /\ Snapshot(t, rot).at <= n + 1
         /\ \A y \in snaps : y.at < Snapshot(t, rot).at
         /\ \A s \in Scenarios : Snapshot(t, rot).rows[s] = IF s \in rot THEN catalog[s] ELSE NoLive
<1> DEFINE T == {x.at : x \in snaps}
           f == [s \in Scenarios |-> IF s \in rot THEN catalog[s] ELSE NoLive]
<1>1. T \in SUBSET Nat /\ \A u \in T : u <= n
  BY DEF CatalogInv, SnapTable, SnapRows
<1>2. Later(T) \in Nat /\ Later(T) <= n + 1 /\ \A u \in T : u < Later(T)
  BY <1>1, LaterIs
<1>3. \A y \in snaps : y.at < Later(T)
  BY <1>2
<1>4. f \in [Scenarios -> LiveRows]
  BY NoSnapTyped DEF CatalogInv
<1>5. Snapshot(t, rot) = [rev |-> t, rows |-> f, at |-> Later(T)]
  BY DEF Snapshot
<1> HIDE DEF T
<1>6. \A s \in Scenarios : f[s] = IF s \in rot THEN catalog[s] ELSE NoLive
  OBVIOUS
<1> HIDE DEF f
<1> QED
  BY <1>2, <1>3, <1>4, <1>5, <1>6 DEF SnapRows

LEMMA WarmedIn ==
  ASSUME CatalogInv, NEW S, NEW K, NEW l, LiveIn(l, stored)
  PROVE  Warmed(Pruned(S, K), l) \subseteq stored
<1>1. Pruned(S, K) \subseteq stored
  BY DEF CatalogInv, Pruned
<1>2. \A s \in Scenarios : l[s].image # Nil => l[s].image \in stored
  BY DEF LiveIn
<1> QED
  BY <1>1, <1>2 DEF Warmed

LEMMA ReplaceKeeps ==
  ASSUME CatalogConstants, CatalogInv, NEW S \in SUBSET Scenarios, NEW new, \A s \in S : new[s] \in stored,
         NEW rev \in Revisions \cup {Nil}, NEW t \in Revisions \cup Ops \cup {Nil}, Replace(S, new, rev, t)
  PROVE  /\ catalog' \in [Scenarios -> LiveRows] /\ LiveIn(catalog', stored)
         /\ SnapTable(snaps') /\ SnapsIn(snaps', stored)
         /\ cache' \subseteq stored /\ prev' \in [Scenarios -> Images \cup {Nil}]
         /\ PrevIn(snaps, prev) => PrevIn(snaps', prev')
<1> DEFINE rot == {s \in S : Rotates(s, new[s])}
           y == Snapshot(t, rot)
<1>1. /\ snaps' = Recorded(t, rot)
      /\ catalog' = [s \in Scenarios |-> IF s \in S THEN [rev |-> rev, image |-> new[s]] ELSE catalog[s]]
      /\ cache' = Warmed(Pruned(S, {new[s] : s \in S} \cup {catalog[s].image : s \in S}), catalog')
      /\ prev' = [s \in Scenarios |-> IF s \in S /\ catalog[s].image \notin {Nil, new[s]}
                                      THEN catalog[s].image ELSE prev[s]]
  BY DEF Replace
<1>2. /\ catalog \in [Scenarios -> LiveRows] /\ LiveIn(catalog, stored) /\ stored \subseteq Images
      /\ SnapTable(snaps) /\ SnapsIn(snaps, stored) /\ prev \in [Scenarios -> Images \cup {Nil}]
  BY DEF CatalogInv
<1>3. catalog' \in [Scenarios -> LiveRows] /\ LiveIn(catalog', stored)
  <2>1. \A s \in S : new[s] \in stored /\ new[s] \in Images
    BY <1>2
  <2>2. \A s \in Scenarios : catalog'[s] = IF s \in S THEN [rev |-> rev, image |-> new[s]] ELSE catalog[s]
    BY <1>1
  <2>3. catalog' \in [Scenarios -> LiveRows]
    BY <1>1, <1>2, <2>1 DEF LiveRows
  <2> QED
    BY <1>2, <2>1, <2>2, <2>3 DEF LiveIn
<1>4. cache' \subseteq stored
  BY <1>1, <1>3, WarmedIn
<1>5. prev' \in [Scenarios -> Images \cup {Nil}]
  <2>1. \A s \in Scenarios : catalog[s].image \in Images \cup {Nil}
    BY <1>2 DEF LiveRows
  <2> QED
    BY <1>1, <1>2, <2>1
<1>6. PICK n \in Nat : \A z \in snaps : z.at <= n
  BY <1>2 DEF SnapTable
<1>7. rot \in SUBSET Scenarios
  OBVIOUS
<1>11. \A s \in Scenarios : s \in rot <=> s \in S /\ catalog[s].image \notin {Nil, new[s]}
  BY DEF Rotates
<1> HIDE DEF rot
<1>8. /\ y \in SnapRows /\ y.at <= n + 1 /\ \A z \in snaps : z.at < y.at
      /\ \A s \in Scenarios : y.rows[s] = IF s \in rot THEN catalog[s] ELSE NoLive
  BY <1>6, <1>7, SnapshotIs
<1>9. snaps' = snaps \/ (snaps' = snaps \cup {y})
  BY <1>1 DEF Recorded
<1>10. rot # {} => snaps' = snaps \cup {y}
  BY <1>1 DEF Recorded
<1> HIDE DEF y
<1>12. LiveIn(y.rows, stored)
  BY <1>2, <1>8 DEF LiveIn, NoLive
<1>13. SnapTable(snaps') /\ SnapsIn(snaps', stored)
  <2>1. snaps \subseteq SnapRows /\ \A z \in snaps : z.at \in Nat
    BY <1>2 DEF SnapTable, SnapRows
  <2>2. n + 1 \in Nat /\ \A z \in snaps' : z.at <= n + 1
    BY <1>6, <1>8, <1>9, <2>1
  <2>3. snaps' \subseteq SnapRows
    BY <1>8, <1>9, <2>1
  <2> QED
    BY <1>2, <1>9, <1>12, <2>2, <2>3 DEF SnapTable, SnapsIn
<1>14. ASSUME PrevIn(snaps, prev) PROVE PrevIn(snaps', prev')
  <2> SUFFICES ASSUME NEW s \in Scenarios, prev'[s] # Nil
               PROVE  \E w \in snaps' : w.rows[s].image = prev'[s]
                                        /\ \A z \in snaps' : z.at > w.at => z.rows[s].image = Nil
    BY DEF PrevIn
  <2>1. snaps \subseteq SnapRows /\ y.at \in Nat /\ \A z \in snaps : z.at \in Nat
    BY <1>2, <1>8 DEF SnapTable, SnapRows
  <2>2. CASE s \in rot
    <3>1. prev'[s] = catalog[s].image /\ y \in snaps' /\ y.rows[s] = catalog[s]
      BY <1>1, <1>8, <1>10, <1>11, <2>2
    <3>2. \A z \in snaps' : ~(z.at > y.at)
      BY <1>8, <1>9, <2>1
    <3> QED
      BY <3>1, <3>2
  <2>3. CASE s \notin rot
    <3>1. prev'[s] = prev[s]
      BY <1>1, <1>11, <2>3
    <3>2. PICK w \in snaps : w.rows[s].image = prev[s] /\ \A z \in snaps : z.at > w.at => z.rows[s].image = Nil
      BY <1>14, <3>1 DEF PrevIn
    <3>3. y.rows[s].image = Nil
      BY <1>8, <2>3 DEF NoLive
    <3> QED
      BY <1>9, <3>1, <3>2, <3>3
  <2> QED
    BY <2>2, <2>3
<1> QED
  BY <1>3, <1>4, <1>5, <1>13, <1>14

LEMMA CommitLiveKeeps ==
  ASSUME CatalogConstants, CatalogInv, NEW o \in Ops, CommitLive(o)
  PROVE  CatalogInv'
<1> DEFINE new == [s \in Scenarios |-> ops[o].image]
<1>1. /\ ops[o].pc = "commit" /\ ops[o].kind = "live" /\ Replace(ops[o].scens, new, Nil, o) /\ EndOp(o)
      /\ UNCHANGED <<cand, builds, stored, run, plan, opsLeft>>
  BY DEF CommitLive
<1>2. ops[o].scens \in SUBSET Scenarios /\ ops[o].image \in stored
  BY <1>1 DEF CatalogInv, OpTable, OpKept, OpRows
<1>3. \A s \in ops[o].scens : new[s] \in stored
  BY <1>2
<1> HIDE DEF new
<1>4. /\ catalog' \in [Scenarios -> LiveRows] /\ LiveIn(catalog', stored)
      /\ SnapTable(snaps') /\ SnapsIn(snaps', stored)
      /\ cache' \subseteq stored /\ prev' \in [Scenarios -> Images \cup {Nil}]
      /\ PrevIn(snaps, prev) => PrevIn(snaps', prev')
  BY <1>1, <1>2, <1>3, ReplaceKeeps
<1>5. OpTable(ops', cand', stored) /\ locks' \in [Scenarios -> Ops \cup {Nil}]
  BY <1>1, EndOpKeeps
<1>6. plan.pc = "idle"
  BY <1>1, OpsExclude
<1>7. "rollback" \notin Kinds => PrevIn(snaps', prev')
  BY <1>4, PrevNow
<1> QED
  BY <1>1, <1>4, <1>5, <1>6, <1>7, RowsSuffice DEF CatalogInv

LEMMA CommitPromotionKeeps ==
  ASSUME CatalogConstants, CatalogInv, NEW o \in Ops, CommitPromotion(o)
  PROVE  CatalogInv'
<1> DEFINE r == ops[o].rev
           new == [s \in Scenarios |-> cand[r][s].image]
<1>1. /\ ops[o].pc = "commit" /\ ops[o].kind = "promote" /\ EndOp(o)
      /\ UNCHANGED <<cand, builds, stored, run, plan, opsLeft>>
      /\ UNCHANGED <<catalog, snaps, cache, prev>> \/ Replace(ops[o].scens, new, r, r)
  BY DEF CommitPromotion
<1>2. ops[o].scens \in SUBSET Scenarios /\ r \in Revisions /\ \A s \in ops[o].scens : cand[r][s].image # Nil
  BY <1>1 DEF CatalogInv, OpTable, OpKept, OpRows
<1>3. \A s \in ops[o].scens : new[s] \in stored
  BY <1>2 DEF CatalogInv, CandIn, LiveIn
<1> HIDE DEF new, r
<1>4. /\ catalog' \in [Scenarios -> LiveRows] /\ LiveIn(catalog', stored)
      /\ SnapTable(snaps') /\ SnapsIn(snaps', stored)
      /\ cache' \subseteq stored /\ prev' \in [Scenarios -> Images \cup {Nil}]
      /\ PrevIn(snaps, prev) => PrevIn(snaps', prev')
  <2>1. CASE UNCHANGED <<catalog, snaps, cache, prev>>
    BY <2>1 DEF CatalogInv
  <2>2. CASE Replace(ops[o].scens, new, r, r)
    BY <2>2, <1>2, <1>3, ReplaceKeeps
  <2> QED
    BY <1>1, <2>1, <2>2
<1>5. OpTable(ops', cand', stored) /\ locks' \in [Scenarios -> Ops \cup {Nil}]
  BY <1>1, EndOpKeeps
<1>6. plan.pc = "idle"
  BY <1>1, OpsExclude
<1>7. "rollback" \notin Kinds => PrevIn(snaps', prev')
  BY <1>4, PrevNow
<1> QED
  BY <1>1, <1>4, <1>5, <1>6, <1>7, RowsSuffice DEF CatalogInv

LEMMA CommitRollbackKeeps ==
  ASSUME CatalogConstants, CatalogInv, NEW o \in Ops, CommitRollback(o)
  PROVE  CatalogInv'
<1> DEFINE old == ops[o].snap.rows
           S == Covers(ops[o].snap)
           l == [s \in Scenarios |-> IF s \in S THEN old[s] ELSE catalog[s]]
<1>1. /\ ops[o].pc = "read" /\ EndOp(o)
      /\ UNCHANGED <<cand, snaps, builds, stored, run, plan, opsLeft>>
      /\ \/ UNCHANGED <<catalog, cache, prev>>
         \/ /\ catalog' = l
            /\ cache' = Warmed(Pruned(S, {old[s].image : s \in S} \cup {catalog[s].image : s \in S}), l)
            /\ prev' = [s \in Scenarios |-> IF s \in S /\ catalog[s].image # old[s].image
                                            THEN catalog[s].image ELSE prev[s]]
  BY DEF CommitRollback
<1>2. ops[o] \in OpRows /\ "rollback" \in Kinds /\ LiveIn(old, stored)
  BY <1>1 DEF CatalogInv, OpTable, OpKept
<1>3. old \in [Scenarios -> LiveRows]
  BY <1>2 DEF OpRows, SnapRows
<1>4. /\ catalog \in [Scenarios -> LiveRows] /\ LiveIn(catalog, stored) /\ cache \subseteq stored
      /\ prev \in [Scenarios -> Images \cup {Nil}]
  BY DEF CatalogInv
<1>5. l \in [Scenarios -> LiveRows] /\ LiveIn(l, stored)
  BY <1>2, <1>3, <1>4 DEF LiveIn
<1> HIDE DEF l, S, old
<1>6. catalog' \in [Scenarios -> LiveRows] /\ LiveIn(catalog', stored) /\ cache' \subseteq stored
  BY <1>1, <1>4, <1>5, WarmedIn
<1>7. prev' \in [Scenarios -> Images \cup {Nil}]
  <2>1. \A s \in Scenarios : catalog[s].image \in Images \cup {Nil}
    BY <1>4 DEF LiveRows
  <2> QED
    BY <1>1, <1>4, <2>1
<1>8. OpTable(ops', cand', stored) /\ locks' \in [Scenarios -> Ops \cup {Nil}]
  BY <1>1, EndOpKeeps
<1>9. plan.pc = "idle"
  BY <1>1, OpsExclude
<1> QED
  BY <1>1, <1>2, <1>6, <1>7, <1>8, <1>9, RowsSuffice DEF CatalogInv

LEMMA IdleRunTyped ==
  ASSUME CatalogConstants
  PROVE  IdleRun \in RunRows /\ [IdleRun EXCEPT !.pc = "ended"] \in RunRows
         /\ IdleRun.pc = "new" /\ [IdleRun EXCEPT !.pc = "ended"].pc = "ended"
BY DEF IdleRun, RunRows

\* one run is replaced
LEMMA RunReplaced ==
  ASSUME NEW S, NEW q \in Runs, NEW v \in RunRows, RunTable(run), RunsIn(run, S), run' = [run EXCEPT ![q] = v],
         v.pc \in {"read", "active", "leaving"} => v.scen \in Scenarios /\ v.image \in Images,
         v.pc \in {"active", "leaving"} => v.image \in S
  PROVE  RunTable(run') /\ RunsIn(run', S)
<1>1. run' \in [Runs -> RunRows] /\ \A x \in Runs : run'[x] = IF x = q THEN v ELSE run[x]
  BY DEF RunTable
<1> QED
  BY <1>1 DEF RunTable, RunsIn

LEMMA StartsKeep ==
  ASSUME CatalogConstants, CatalogInv, NEW q \in Runs, NEW v \in RunRows, plan.pc = "idle", SetRun(q, v),
         v.pc \in {"read", "active", "leaving"} => v.scen \in Scenarios /\ v.image \in Images,
         v.pc \in {"active", "leaving"} => v.image \in stored,
         UNCHANGED <<tables, stored, ops, locks, plan, opsLeft, prev>>
  PROVE  CatalogInv'
<1>1. UNCHANGED <<catalog, cand, snaps, builds, cache, stored, ops, locks, plan, opsLeft, prev>>
  BY DEF tables
<1>2. RunTable(run') /\ RunsIn(run', stored)
  <2>1. RunTable(run) /\ RunsIn(run, stored)
    BY DEF CatalogInv
  <2> QED
    BY <2>1, RunReplaced DEF SetRun
<1>3. "rollback" \notin Kinds => PrevIn(snaps', prev')
  BY <1>1, PrevNow
<1> QED
  BY <1>1, <1>2, <1>3, RowsSuffice DEF CatalogInv

LEMMA StartFromLiveKeeps ==
  ASSUME CatalogConstants, CatalogInv, NEW q \in Runs, NEW s \in Scenarios, StartFromLive(q, s)
  PROVE  CatalogInv'
<1> DEFINE v == [pc |-> "read", scen |-> s, rev |-> Nil, build |-> Nil, image |-> catalog[s].image]
<1>1. SetRun(q, v) /\ plan.pc = "idle" /\ UNCHANGED <<tables, stored, ops, locks, plan, opsLeft, prev>>
      /\ catalog[s].image # Nil
  BY DEF StartFromLive, Admits
<1>2. catalog[s].image \in Images
  BY <1>1 DEF CatalogInv, LiveIn
<1>3. v \in RunRows /\ v.pc = "read" /\ v.scen = s /\ v.image \in Images
  BY <1>2 DEF RunRows
<1> HIDE DEF v
<1> QED
  BY <1>1, <1>3, StartsKeep

LEMMA StartFromCandidateKeeps ==
  ASSUME CatalogConstants, CatalogInv, NEW q \in Runs, StartFromCandidate(q)
  PROVE  CatalogInv'
<1> DEFINE V(r, s) == [pc |-> "read", scen |-> s, rev |-> r, build |-> cand[r][s].build,
                       image |-> cand[r][s].image]
<1>1. plan.pc = "idle" /\ UNCHANGED <<tables, stored, ops, locks, plan, opsLeft, prev>>
  BY DEF StartFromCandidate, Admits
<1>2. PICK r \in Revisions, s \in Scenarios : Staged(r, s) /\ SetRun(q, V(r, s))
  BY DEF StartFromCandidate
<1>3. cand[r][s].image \in Images /\ cand[r][s].build \in BuildIds \cup {Nil}
  <2>1. cand[r][s] \in CandRows /\ cand[r][s].image \in stored /\ stored \subseteq Images
    BY <1>2 DEF CatalogInv, CandIn, LiveIn, Staged, CandTable
  <2> QED
    BY <2>1 DEF CandRows
<1>4. V(r, s) \in RunRows /\ V(r, s).pc = "read" /\ V(r, s).scen = s /\ V(r, s).image \in Images
  BY <1>3 DEF RunRows
<1> HIDE DEF V
<1> QED
  BY <1>1, <1>2, <1>4, StartsKeep

LEMMA CommitStartKeeps ==
  ASSUME CatalogConstants, CatalogInv, NEW q \in Runs, CommitStart(q)
  PROVE  CatalogInv'
<1> DEFINE v == [run[q] EXCEPT !.pc = "active"]
           same == IF run[q].rev = Nil THEN catalog[run[q].scen].image = run[q].image
                   ELSE SameRow(run[q].rev, run[q].scen, run[q].build, run[q].image)
<1>1. run[q].pc = "read" /\ UNCHANGED <<tables, stored, ops, locks, plan, opsLeft, prev>>
      /\ (SetRun(q, IdleRun) \/ (same /\ SetRun(q, v)))
  <2>1. run[q].pc = "read" /\ UNCHANGED <<tables, stored, ops, locks, plan, opsLeft, prev>>
        /\ SetRun(q, IF same THEN v ELSE IdleRun)
    BY DEF CommitStart
  <2> HIDE DEF v, same
  <2>2. CASE same
    BY <2>1, <2>2
  <2>3. CASE ~same
    BY <2>1, <2>3
  <2> QED
    BY <2>2, <2>3
<1>2. plan.pc = "idle"
  BY <1>1 DEF CatalogInv, GateHeld
<1>3. CASE SetRun(q, IdleRun)
  BY <1>1, <1>2, <1>3, StartsKeep, IdleRunTyped
<1>4. CASE same /\ SetRun(q, v)
  <2>1. run[q] \in RunRows /\ run[q].scen \in Scenarios /\ run[q].image \in Images
    BY <1>1 DEF CatalogInv, RunTable
  <2>2. run[q].rev \in Revisions \cup {Nil} /\ run[q].image # Nil
    BY <2>1 DEF RunRows, CatalogConstants
  <2>3. run[q].image \in stored
    BY <1>4, <2>1, <2>2 DEF CatalogInv, LiveIn, CandIn, SameRow
  <2>4. v \in RunRows /\ v.scen = run[q].scen /\ v.image = run[q].image
    BY <2>1 DEF RunRows
  <2> HIDE DEF v
  <2> QED
    BY <1>1, <1>2, <1>4, <2>1, <2>3, <2>4, StartsKeep
<1> QED
  BY <1>1, <1>3, <1>4

\* a run that ends takes nothing from what a pass keeps
LEMMA RunLess ==
  ASSUME CatalogConstants, CatalogInv, NEW q \in Runs, NEW v \in RunRows, SetRun(q, v),
         v.pc \in {"leaving", "ended"}, run[q].pc \in {"active", "leaving"},
         v.pc = "leaving" => v.scen = run[q].scen /\ v.image = run[q].image,
         UNCHANGED <<tables, stored, ops, locks, plan, opsLeft, prev>>
  PROVE  CatalogInv'
<1>1. UNCHANGED <<catalog, cand, snaps, builds, cache, stored, ops, locks, plan, opsLeft, prev>>
  BY DEF tables
<1>2. RunTable(run) /\ RunsIn(run, stored) /\ run' = [run EXCEPT ![q] = v]
  BY DEF CatalogInv, SetRun
<1>3. v.pc = "leaving" => v.scen \in Scenarios /\ v.image \in Images
  BY <1>2 DEF RunTable
<1>4. ASSUME NEW S, RunsIn(run, S) PROVE RunTable(run') /\ RunsIn(run', S)
  <2>1. v.pc = "leaving" => v.image \in S
    BY <1>4 DEF RunsIn
  <2> QED
    BY <1>2, <1>3, <1>4, <2>1, RunReplaced
<1>5. \A x \in Runs : run'[x] = IF x = q THEN v ELSE run[x]
  BY <1>2 DEF RunTable
<1>6. Keeping(plan, catalog, cache, run', stored)
  <2>1. Keeping(plan, catalog, cache, run, stored)
    BY DEF CatalogInv
  <2> QED
    BY <1>4, <2>1 DEF Keeping
<1>7. Projected(plan, cand, builds, run')
  <2>1. Projected(plan, cand, builds, run)
    BY DEF CatalogInv
  <2>2. \A x \in Runs : run'[x].pc = "active" => run'[x] = run[x]
    BY <1>5
  <2> QED
    BY <2>1, <2>2 DEF Projected
<1>8. GateHeld(plan, ops, run')
  BY <1>5 DEF CatalogInv, GateHeld
<1> QED
  BY <1>1, <1>2, <1>4, <1>6, <1>7, <1>8 DEF CatalogInv

LEMMA EndsKeep ==
  ASSUME CatalogConstants, CatalogInv, NEW q \in Runs, EndRun(q) \/ VmGone(q)
  PROVE  CatalogInv'
<1>1. CASE EndRun(q)
  <2> DEFINE v == [run[q] EXCEPT !.pc = "leaving"]
  <2>1. run[q].pc = "active" /\ SetRun(q, v) /\ UNCHANGED <<tables, stored, ops, locks, plan, opsLeft, prev>>
    BY <1>1 DEF EndRun
  <2>2. run[q] \in RunRows
    BY DEF CatalogInv, RunTable
  <2>3. v \in RunRows /\ v.pc = "leaving" /\ v.scen = run[q].scen /\ v.image = run[q].image
    BY <2>2 DEF RunRows
  <2> HIDE DEF v
  <2> QED
    BY <2>1, <2>3, RunLess
<1>2. CASE VmGone(q)
  BY <1>2, RunLess, IdleRunTyped DEF VmGone
<1> QED
  BY <1>1, <1>2

LEMMA BuildEndsKeeps ==
  ASSUME CatalogConstants, CatalogInv, NEW b \in BuildIds, BuildEnds(b)
  PROVE  CatalogInv'
<1>1. /\ UNCHANGED <<catalog, cand, snaps, cache, stored, run, ops, locks, plan, opsLeft, prev>>
      /\ \/ builds[b].sent /\ builds' = [builds EXCEPT ![b].status = "succeeded"]
         \/ builds' = [builds EXCEPT ![b].status = "failed"]
  BY DEF BuildEnds
<1>2. builds \in [BuildIds -> BuildRows]
  BY DEF CatalogInv
<1>3. PICK st \in {"succeeded", "failed"} : /\ builds' = [builds EXCEPT ![b] = [builds[b] EXCEPT !.status = st]]
                                            /\ st = "succeeded" => builds[b].sent
  BY <1>1, <1>2
<1> DEFINE v == [builds[b] EXCEPT !.status = st]
<1>4. v \in BuildRows /\ v.status = st /\ v.image = builds[b].image /\ v.retired = builds[b].retired
      /\ v.sent = builds[b].sent
  BY <1>2, <1>3 DEF BuildRows
<1>5. builds' = [builds EXCEPT ![b] = v]
  BY <1>3
<1> HIDE DEF v
<1>6. builds' \in [BuildIds -> BuildRows]
  BY <1>2, <1>4, <1>5
<1>7. \A x \in BuildIds : /\ builds'[x].image = builds[x].image /\ builds'[x].retired = builds[x].retired
                          /\ builds'[x].sent = builds[x].sent
                          /\ \/ builds'[x] = builds[x]
                             \/ builds'[x].status = "failed"
                             \/ builds'[x].status = "succeeded" /\ builds'[x].sent
  <2> TAKE x \in BuildIds
  <2>1. CASE x = b
    <3>1. builds'[x] = v
      BY <1>2, <1>5, <2>1
    <3>2. st = "succeeded" => v.sent
      BY <1>3, <1>4, Zenon
    <3> QED
      BY <1>3, <1>4, <2>1, <3>1, <3>2, Zenon
  <2>2. CASE x # b
    <3>1. builds'[x] = builds[x]
      BY <1>2, <1>5, <2>2
    <3> QED
      BY <3>1
  <2> QED
    BY <2>1, <2>2
<1>8. ASSUME NEW S, BuildsIn(builds, S) PROVE BuildsIn(builds', S)
  BY <1>7, <1>8 DEF BuildsIn
<1>9. Projected(plan, cand, builds', run)
  <2>1. Projected(plan, cand, builds, run) /\ plan \in PlanRows
    BY DEF CatalogInv
  <2>2. plan.activate \subseteq BuildIds
    BY <2>1 DEF PlanRows
  <2> QED
    BY <1>7, <2>1, <2>2 DEF Projected
<1>10. Deleting(plan, cand, snaps, builds')
  BY <1>8 DEF CatalogInv, Deleting
<1>11. BuildsIn(builds', stored)
  BY <1>8 DEF CatalogInv
<1> QED
  BY <1>1, <1>6, <1>9, <1>10, <1>11 DEF CatalogInv

LEMMA NoPlanTyped ==
  ASSUME CatalogConstants
  PROVE  NoPlan \in PlanRows /\ NoPlan.pc = "idle"
         /\ [NoPlan EXCEPT !.pc = "plan"] \in PlanRows /\ [NoPlan EXCEPT !.pc = "plan"].pc = "plan"
<1>1. EmptyCand \in [Revisions -> [Scenarios -> CandRows]]
  BY NoSnapTyped DEF EmptyCand
<1>2. NoPlan \in PlanRows
  BY <1>1 DEF NoPlan, PlanRows
<1>3. NoPlan.pc = "idle"
  BY DEF NoPlan
<1> QED
  BY <1>2, <1>3 DEF PlanRows

\* a pass that is not under way, or has not planned yet
LEMMA PassFresh ==
  ASSUME CatalogConstants, CatalogInv, plan' \in PlanRows,
         plan'.pc = "idle" \/ (plan'.pc = "plan" /\ GateHeld(plan', ops, run)),
         UNCHANGED <<catalog, cand, snaps, builds, cache, stored, run, ops, locks, opsLeft, prev>>
  PROVE  CatalogInv'
<1>1. /\ Keeping(plan', catalog, cache, run, stored)
      /\ Projected(plan', cand, builds, run) /\ Deleting(plan', cand, snaps, builds)
  BY DEF Keeping, Projected, Deleting
<1>2. GateHeld(plan', ops, run)
  BY DEF GateHeld
<1>3. PrevHeld(snaps, prev, plan')
  BY PrevNow DEF PrevHeld
<1> QED
  BY <1>1, <1>2, <1>3 DEF CatalogInv

LEMMA StartSweepKeeps ==
  ASSUME CatalogConstants, CatalogInv, StartSweep
  PROVE  CatalogInv'
<1> DEFINE p == [NoPlan EXCEPT !.pc = "plan"]
<1>1. /\ plan' = p /\ Writers = {}
      /\ UNCHANGED <<catalog, cand, snaps, builds, cache, stored, run, ops, locks, opsLeft, prev>>
  BY DEF StartSweep, tables
<1>2. p \in PlanRows /\ p.pc = "plan"
  BY NoPlanTyped
<1>3. GateHeld(p, ops, run)
  BY <1>1 DEF GateHeld, Writers
<1> HIDE DEF p
<1> QED
  BY <1>1, <1>2, <1>3, PassFresh

LEMMA SweepDiesKeeps ==
  ASSUME CatalogConstants, CatalogInv, SweepDies
  PROVE  CatalogInv'
<1>1. plan' = NoPlan /\ UNCHANGED <<catalog, cand, snaps, builds, cache, stored, run, ops, locks, opsLeft, prev>>
  BY DEF SweepDies, tables
<1>2. NoPlan \in PlanRows /\ NoPlan.pc = "idle"
  BY NoPlanTyped
<1> QED
  BY <1>1, <1>2, PassFresh

\* what the plan of records leaves still holds the release before the last one
LEMMA KeptSnapsHold ==
  ASSUME CatalogInv
  PROVE  SnapTable(KeptSnaps) /\ (PrevIn(snaps, prev) => PrevIn(KeptSnaps, prev))
<1>1. PICK n \in Nat : \A y \in snaps : y \in SnapRows /\ y.at <= n
  BY DEF CatalogInv, SnapTable
<1>2. ASSUME NEW x \in snaps
      PROVE  /\ Trim(x) \in SnapRows /\ Trim(x).at = x.at
             /\ \A s \in Scenarios : Trim(x).rows[s] = IF s \in Uncovered(x) THEN x.rows[s] ELSE NoLive
  <2> DEFINE f == [s \in Scenarios |-> IF s \in Uncovered(x) THEN x.rows[s] ELSE NoLive]
  <2>1. x.rev \in Revisions \cup Ops \cup {Nil} /\ x.at \in Nat /\ x.rows \in [Scenarios -> LiveRows]
    BY <1>1 DEF SnapRows
  <2>2. f \in [Scenarios -> LiveRows]
    <3>1. NoLive \in LiveRows
      BY DEF NoLive, LiveRows
    <3> QED
      BY <2>1, <3>1
  <2>3. \A s \in Scenarios : f[s] = IF s \in Uncovered(x) THEN x.rows[s] ELSE NoLive
    OBVIOUS
  <2>4. Trim(x) = [rev |-> x.rev, at |-> x.at, rows |-> f]
    BY DEF Trim
  <2> HIDE DEF f
  <2> QED
    BY <2>1, <2>2, <2>3, <2>4 DEF SnapRows
<1>3. KeptSnaps = {Trim(x) : x \in {y \in snaps : Uncovered(y) # {}}}
  BY DEF KeptSnaps
<1>4. SnapTable(KeptSnaps)
  BY <1>1, <1>2, <1>3 DEF SnapTable
<1>5. ASSUME PrevIn(snaps, prev) PROVE PrevIn(KeptSnaps, prev)
  <2> SUFFICES ASSUME NEW s \in Scenarios, prev[s] # Nil
               PROVE  \E w \in KeptSnaps : w.rows[s].image = prev[s]
                                           /\ \A z \in KeptSnaps : z.at > w.at => z.rows[s].image = Nil
    BY DEF PrevIn
  <2>1. PICK w \in snaps : w.rows[s].image = prev[s] /\ \A z \in snaps : z.at > w.at => z.rows[s].image = Nil
    BY <1>5 DEF PrevIn
  <2>2. s \in Uncovered(w)
    BY <2>1 DEF Uncovered, Covers
  <2>3. Trim(w) \in KeptSnaps /\ Trim(w).rows[s].image = prev[s]
    BY <1>2, <1>3, <2>1, <2>2
  <2>4. ASSUME NEW z \in KeptSnaps, z.at > Trim(w).at PROVE z.rows[s].image = Nil
    <3>1. PICK x \in snaps : z = Trim(x)
      BY <1>3
    <3>2. x.at > w.at
      BY <1>2, <2>4, <3>1
    <3>3. s \notin Uncovered(x)
      BY <2>1, <3>2 DEF Uncovered, Covers
    <3> QED
      BY <1>2, <3>1, <3>3 DEF NoLive
  <2> QED
    BY <2>3, <2>4
<1> QED
  BY <1>4, <1>5

LEMMA KeptCandIs ==
  ASSUME CatalogConstants, CatalogInv
  PROVE  /\ CandTable(KeptCand)
         /\ \A q \in Runs : run[q].pc = "active" /\ run[q].rev # Nil =>
              KeptCand[run[q].rev][run[q].scen] = cand[run[q].rev][run[q].scen]
<1>1. PICK n \in Nat : \A r \in Revisions, s \in Scenarios : cand[r][s].at <= n
  BY DEF CatalogInv, CandTable
<1>2. \A r \in Revisions, s \in Scenarios :
        /\ cand[r][s] \in CandRows /\ (cand[r][s].build # Nil \/ cand[r][s].image = Nil)
  BY DEF CatalogInv, CandTable
<1>3. NoCand \in CandRows /\ NoCand.image = Nil /\ NoCand.at = 0
  BY NoSnapTyped DEF NoCand
<1>4. \A r \in Revisions, s \in Scenarios : KeptCand[r][s] = IF KeepsCand(r, s) THEN cand[r][s] ELSE NoCand
  BY DEF KeptCand
<1>5. KeptCand \in [Revisions -> [Scenarios -> CandRows]]
  BY <1>2, <1>3 DEF KeptCand
<1>6. CandTable(KeptCand)
  BY <1>1, <1>2, <1>3, <1>4, <1>5 DEF CandTable
<1>7. ASSUME NEW q \in Runs, run[q].pc = "active", run[q].rev # Nil
      PROVE  KeptCand[run[q].rev][run[q].scen] = cand[run[q].rev][run[q].scen]
  <2>1. run[q].rev \in Revisions /\ run[q].scen \in Scenarios
    BY <1>7 DEF CatalogInv, RunTable, RunRows
  <2>2. KeepsCand(run[q].rev, run[q].scen)
    BY <1>7 DEF KeepsCand, ReadsRow
  <2> QED
    BY <1>4, <2>1, <2>2
<1> QED
  BY <1>6, <1>7

LEMMA ProjectKeeps ==
  ASSUME CatalogConstants, CatalogInv, ProjectRetention
  PROVE  CatalogInv'
<1> DEFINE gone == {b \in BuildIds : builds[b].image # Nil} \ KeptBuilds
           back == {b \in KeptBuilds : builds[b].retired}
           p == [pc |-> "trim", keep |-> KeptImages, trim |-> Trimmed, retire |-> gone, activate |-> back,
                 cand |-> KeptCand, snaps |-> KeptSnaps]
<1>1. plan.pc = "plan" /\ UNCHANGED <<catalog, cand, snaps, builds, cache, stored, run, ops, locks, opsLeft, prev>>
  BY DEF ProjectRetention, tables
<1>2. CASE plan' = NoPlan
  <2>1. NoPlan \in PlanRows /\ NoPlan.pc = "idle"
    BY NoPlanTyped
  <2> QED
    BY <1>1, <1>2, <2>1, PassFresh
<1>3. CASE ~RetentionFault /\ plan' = p
  <2>1. KeptImages \subseteq stored
    BY <1>3 DEF RetentionFault
  <2>2. SnapTable(KeptSnaps) /\ (PrevIn(snaps, prev) => PrevIn(KeptSnaps, prev))
    BY KeptSnapsHold
  <2>3. /\ CandTable(KeptCand)
        /\ \A q \in Runs : run[q].pc = "active" /\ run[q].rev # Nil =>
             KeptCand[run[q].rev][run[q].scen] = cand[run[q].rev][run[q].scen]
    BY KeptCandIs
  <2>4. cache \subseteq Images /\ stored \subseteq Images
    BY DEF CatalogInv
  <2>5. KeptBuilds \subseteq BuildIds
    BY DEF KeptBuilds
  <2>6. p \in PlanRows
    <3>1. KeptImages \in SUBSET Images /\ Trimmed \in SUBSET Images
      BY <2>1, <2>4 DEF Trimmed
    <3>2. gone \in SUBSET BuildIds /\ back \in SUBSET BuildIds
      BY <2>5
    <3>3. KeptCand \in [Revisions -> [Scenarios -> CandRows]] /\ KeptSnaps \in SUBSET SnapRows
      BY <2>2, <2>3 DEF CandTable, SnapTable
    <3> HIDE DEF gone, back
    <3> QED
      BY <3>1, <3>2, <3>3 DEF PlanRows
  <2>7. RootImages \subseteq KeptImages
    BY DEF KeptImages
  <2>8. LiveIn(catalog, KeptImages)
    <3>1. ImagesOf(catalog) \subseteq KeptImages
      BY <2>7 DEF RootImages
    <3> QED
      BY <3>1 DEF LiveIn, ImagesOf
  <2>9. RunsIn(run, KeptImages)
    <3>1. Operational \subseteq KeptImages
      BY <2>7 DEF RootImages
    <3> QED
      BY <3>1 DEF RunsIn, Operational
  <2>10. CandIn(KeptCand, KeptImages)
    <3>1. CandImages(KeptCand) \subseteq KeptImages
      BY <2>7 DEF RootImages
    <3> QED
      BY <3>1 DEF CandIn, LiveIn, ImagesOf, CandImages
  <2>11. SnapsIn(KeptSnaps, KeptImages)
    <3>1. SnapImages(KeptSnaps) \subseteq KeptImages
      BY <2>7 DEF RootImages
    <3> QED
      BY <3>1 DEF SnapsIn, LiveIn, ImagesOf, SnapImages
  <2>12. \A b \in KeptBuilds : builds[b].image \in KeptImages
    BY DEF KeptImages
  <2>13. cache \ Trimmed \subseteq KeptImages
    BY DEF Trimmed
  <2>14. /\ \A b \in BuildIds : builds[b].image # Nil => b \in gone \/ builds[b].image \in KeptImages
         /\ \A b \in back : builds[b].image \in KeptImages
    BY <2>12
  <2>15. /\ p.pc = "trim" /\ p.keep = KeptImages /\ p.trim = Trimmed /\ p.retire = gone /\ p.activate = back
         /\ p.cand = KeptCand /\ p.snaps = KeptSnaps
    OBVIOUS
  <2>16. plan' = p
    BY <1>3
  <2> HIDE DEF p, gone, back
  <2>17. Keeping(p, catalog, cache, run, stored)
    BY <2>1, <2>8, <2>9, <2>13, <2>15 DEF Keeping
  <2>18. Projected(p, cand, builds, run)
    BY <2>2, <2>3, <2>10, <2>11, <2>14, <2>15 DEF Projected
  <2>19. Deleting(p, cand, snaps, builds)
    BY <2>15 DEF Deleting
  <2>20. PrevHeld(snaps, prev, p)
    BY <2>2, <2>15, PrevNow DEF PrevHeld
  <2>21. GateHeld(p, ops, run)
    BY <1>1 DEF CatalogInv, GateHeld
  <2> QED
    BY <1>1, <2>6, <2>16, <2>17, <2>18, <2>19, <2>20, <2>21 DEF CatalogInv
<1> QED
  BY <1>2, <1>3 DEF ProjectRetention

LEMMA TrimCacheKeeps ==
  ASSUME CatalogConstants, CatalogInv, TrimCache
  PROVE  CatalogInv'
<1> DEFINE p == [plan EXCEPT !.pc = "apply"]
<1>1. /\ plan.pc = "trim" /\ cache' = cache \ plan.trim /\ plan' = p
      /\ UNCHANGED <<catalog, cand, snaps, builds, stored, run, ops, locks, opsLeft, prev>>
  BY DEF TrimCache
<1>2. plan \in PlanRows
  BY DEF CatalogInv
<1>3. /\ p \in PlanRows /\ p.pc = "apply" /\ p.keep = plan.keep /\ p.cand = plan.cand /\ p.snaps = plan.snaps
      /\ p.retire = plan.retire /\ p.activate = plan.activate
  BY <1>2 DEF PlanRows
<1> HIDE DEF p
<1>4. Keeping(p, catalog, cache', run, stored)
  BY <1>1, <1>3 DEF CatalogInv, Keeping
<1>5. Projected(p, cand, builds, run)
  BY <1>1, <1>3 DEF CatalogInv, Projected
<1>6. Deleting(p, cand, snaps, builds) /\ GateHeld(p, ops, run) /\ PrevHeld(snaps, prev, p)
  BY <1>1, <1>3 DEF CatalogInv, Deleting, GateHeld, PrevHeld
<1>7. cache' \subseteq stored
  BY <1>1 DEF CatalogInv
<1> QED
  BY <1>1, <1>3, <1>4, <1>5, <1>6, <1>7 DEF CatalogInv

\* no operation is under way while a pass is
LEMMA PassAlone ==
  ASSUME CatalogInv, plan.pc # "idle", NEW c, NEW S
  PROVE  OpTable(ops, c, S)
BY DEF CatalogInv, GateHeld, OpTable, OpKept

LEMMA ApplyKeeps ==
  ASSUME CatalogConstants, CatalogInv, ApplyRetention
  PROVE  CatalogInv'
<1> DEFINE p == [plan EXCEPT !.pc = "delete"]
           R(b) == IF b \in plan.activate THEN FALSE ELSE IF b \in plan.retire THEN TRUE ELSE builds[b].retired
<1>1. /\ plan.pc = "apply" /\ cand' = plan.cand /\ snaps' = plan.snaps /\ plan' = p
      /\ builds' = [b \in BuildIds |-> [builds[b] EXCEPT !.retired = R(b)]]
      /\ UNCHANGED <<catalog, cache, stored, run, ops, locks, opsLeft, prev>>
  BY DEF ApplyRetention
<1>2. plan \in PlanRows /\ builds \in [BuildIds -> BuildRows] /\ BuildsIn(builds, stored) /\ stored \subseteq Images
  BY DEF CatalogInv
<1>3. p \in PlanRows /\ p.pc = "delete" /\ p.keep = plan.keep
  BY <1>2 DEF PlanRows
<1> HIDE DEF p
<1>4. /\ plan.keep \subseteq stored /\ LiveIn(catalog, plan.keep) /\ RunsIn(run, plan.keep) /\ cache \subseteq plan.keep
  BY <1>1 DEF CatalogInv, Keeping
<1>5. /\ CandTable(cand') /\ CandIn(cand', plan.keep) /\ SnapTable(snaps') /\ SnapsIn(snaps', plan.keep)
      /\ \A b \in BuildIds : builds[b].image # Nil => b \in plan.retire \/ builds[b].image \in plan.keep
      /\ \A b \in plan.activate : builds[b].image \in plan.keep
  BY <1>1 DEF CatalogInv, Projected
<1>6. \A b \in BuildIds : R(b) \in BOOLEAN
  BY <1>2 DEF BuildRows
<1>7. ASSUME NEW b \in BuildIds, ~R(b) PROVE b \in plan.activate \/ (b \notin plan.retire /\ ~builds[b].retired)
  <2>1. CASE b \in plan.activate
    BY <2>1
  <2>2. CASE b \notin plan.activate /\ b \in plan.retire
    BY <1>7, <2>2
  <2>3. CASE b \notin plan.activate /\ b \notin plan.retire
    <3>1. R(b) = builds[b].retired
      BY <2>3
    <3> QED
      BY <1>7, <2>3, <3>1, Zenon
  <2> QED
    BY <2>1, <2>2, <2>3
<1> HIDE DEF R
<1>8. ASSUME NEW b \in BuildIds
      PROVE  /\ builds'[b] \in BuildRows /\ builds'[b].status = builds[b].status /\ builds'[b].rev = builds[b].rev
             /\ builds'[b].image = builds[b].image /\ builds'[b].sent = builds[b].sent /\ builds'[b].retired = R(b)
  <2>1. builds'[b] = [builds[b] EXCEPT !.retired = R(b)] /\ builds[b] \in BuildRows
    BY <1>1, <1>2
  <2> QED
    BY <1>6, <2>1 DEF BuildRows
<1>9. builds' \in [BuildIds -> BuildRows]
  <2>1. builds' = [b \in BuildIds |-> builds'[b]]
    BY <1>1
  <2> QED
    BY <1>8, <2>1
<1>10. BuildsIn(builds', plan.keep)
  <2> SUFFICES ASSUME NEW b \in BuildIds
               PROVE  /\ builds'[b].status = "active" => builds'[b].rev \in Revisions
                      /\ builds'[b].status = "succeeded" => builds'[b].sent
                      /\ builds'[b].sent /\ ~builds'[b].retired => builds'[b].image \in plan.keep
    BY DEF BuildsIn
  <2>1. /\ builds[b].status = "active" => builds[b].rev \in Revisions
        /\ builds[b].status = "succeeded" => builds[b].sent
        /\ builds[b].sent /\ ~builds[b].retired => builds[b].image \in stored
    BY <1>2 DEF BuildsIn
  <2>2. builds[b].image \in stored => builds[b].image # Nil
    BY <1>2 DEF CatalogConstants
  <2>3. ASSUME builds'[b].sent, ~builds'[b].retired PROVE builds'[b].image \in plan.keep
    <3>1. builds[b].sent /\ ~R(b)
      BY <1>8, <2>3
    <3>2. CASE b \in plan.activate
      BY <1>5, <1>8, <3>2
    <3>3. CASE b \notin plan.retire /\ ~builds[b].retired
      BY <1>5, <1>8, <2>1, <2>2, <3>1, <3>3
    <3> QED
      BY <1>7, <3>1, <3>2, <3>3
  <2>4. (builds'[b].status = "active" => builds'[b].rev \in Revisions) /\ (builds'[b].status = "succeeded" => builds'[b].sent)
    BY <1>8, <2>1
  <2> QED
    BY <2>3, <2>4
<1>11. BuildsIn(builds', stored) /\ CandIn(cand', stored) /\ SnapsIn(snaps', stored)
  BY <1>4, <1>5, <1>10, InMore
<1>12. OpTable(ops, cand', stored)
  BY <1>1, PassAlone
<1>13. Keeping(p, catalog, cache, run, stored) /\ Projected(p, cand', builds', run) /\ GateHeld(p, ops, run)
  BY <1>1, <1>3, <1>4 DEF Keeping, Projected, GateHeld, CatalogInv
<1>14. Deleting(p, cand', snaps', builds')
  BY <1>3, <1>5, <1>10 DEF Deleting
<1>15. PrevHeld(snaps', prev, p)
  BY <1>1, <1>3 DEF CatalogInv, PrevHeld
<1> QED
  BY <1>1, <1>3, <1>5, <1>9, <1>11, <1>12, <1>13, <1>14, <1>15 DEF CatalogInv

LEMMA DeleteKeeps ==
  ASSUME CatalogConstants, CatalogInv, DeleteObjects
  PROVE  CatalogInv'
<1>1. plan.pc = "delete" /\ UNCHANGED <<catalog, cand, snaps, builds, cache, run, ops, locks, opsLeft, prev>>
  BY DEF DeleteObjects, tables
<1>2. CASE plan' = NoPlan /\ UNCHANGED stored
  <2>1. NoPlan \in PlanRows /\ NoPlan.pc = "idle"
    BY NoPlanTyped
  <2> QED
    BY <1>1, <1>2, <2>1, PassFresh
<1>3. CASE plan' = plan /\ \E i \in stored \ plan.keep : stored' = stored \ {i}
  <2>1. stored' \subseteq Images
    BY <1>3 DEF CatalogInv
  <2>2. plan.keep \subseteq stored /\ LiveIn(catalog, plan.keep) /\ RunsIn(run, plan.keep) /\ cache \subseteq plan.keep
    BY <1>1 DEF CatalogInv, Keeping
  <2>3. plan.keep \subseteq stored'
    BY <1>3, <2>2
  <2>4. CandIn(cand, plan.keep) /\ SnapsIn(snaps, plan.keep) /\ BuildsIn(builds, plan.keep)
    BY <1>1 DEF CatalogInv, Deleting
  <2>5. /\ LiveIn(catalog, stored') /\ RunsIn(run, stored') /\ cache \subseteq stored'
        /\ CandIn(cand, stored') /\ SnapsIn(snaps, stored') /\ BuildsIn(builds, stored')
    BY <2>2, <2>3, <2>4, InMore
  <2>6. OpTable(ops, cand, stored')
    BY <1>1, PassAlone
  <2>7. Keeping(plan, catalog, cache, run, stored')
    BY <1>1, <2>2, <2>3 DEF Keeping
  <2> QED
    BY <1>1, <1>3, <2>1, <2>5, <2>6, <2>7 DEF CatalogInv
<1> QED
  BY <1>2, <1>3 DEF DeleteObjects

LEMMA CatalogStart ==
  ASSUME CatalogConstants, CatalogInit
  PROVE  CatalogInv
<1> DEFINE first == {FirstLive[s] : s \in Scenarios} \ {Nil}
<1>1. first \subseteq Images /\ \A s \in Scenarios : FirstLive[s] # Nil => FirstLive[s] \in first
  BY DEF CatalogConstants
<1>2. stored = first /\ cache = first
  BY DEF CatalogInit
<1> HIDE DEF first
<1>3. catalog \in [Scenarios -> LiveRows] /\ LiveIn(catalog, stored)
  <2>1. \A s \in Scenarios : FirstLive[s] \in Images \cup {Nil}
    BY DEF CatalogConstants
  <2>2. catalog = [s \in Scenarios |-> [rev |-> Nil, image |-> FirstLive[s]]]
    BY DEF CatalogInit
  <2>3. catalog \in [Scenarios -> LiveRows]
    BY <2>1, <2>2 DEF LiveRows
  <2> QED
    BY <1>1, <1>2, <2>2, <2>3 DEF LiveIn
<1>4. CandTable(cand) /\ CandIn(cand, stored)
  <2>1. \A r \in Revisions, s \in Scenarios : cand[r][s] = NoCand
    BY DEF CatalogInit, EmptyCand
  <2>2. cand \in [Revisions -> [Scenarios -> CandRows]]
    BY NoSnapTyped DEF CatalogInit, EmptyCand
  <2>3. NoCand.image = Nil /\ NoCand.at = 0
    BY DEF NoCand
  <2> QED
    BY <2>1, <2>2, <2>3 DEF CandTable, CandIn, LiveIn
<1>5. SnapTable(snaps) /\ SnapsIn(snaps, stored)
  BY DEF CatalogInit, SnapTable, SnapsIn
<1>6. builds \in [BuildIds -> BuildRows] /\ BuildsIn(builds, stored)
  BY DEF CatalogInit, BuildRows, BuildsIn
<1>7. RunTable(run) /\ RunsIn(run, stored) /\ \A q \in Runs : run[q].pc = "new"
  <2>1. run \in [Runs -> RunRows] /\ \A q \in Runs : run[q] = IdleRun
    BY IdleRunTyped DEF CatalogInit
  <2> QED
    BY <2>1, IdleRunTyped DEF RunTable, RunsIn
<1>8. OpTable(ops, cand, stored)
  BY IdleOpKept DEF CatalogInit, OpTable
<1>9. locks \in [Scenarios -> Ops \cup {Nil}] /\ opsLeft \in 0..MaxOps /\ prev \in [Scenarios -> Images \cup {Nil}]
  BY DEF CatalogInit, CatalogConstants
<1>10. plan \in PlanRows /\ plan.pc = "idle"
  BY NoPlanTyped DEF CatalogInit
<1>11. /\ GateHeld(plan, ops, run) /\ Keeping(plan, catalog, cache, run, stored)
       /\ Projected(plan, cand, builds, run) /\ Deleting(plan, cand, snaps, builds)
  BY <1>10 DEF GateHeld, Keeping, Projected, Deleting
<1>12. PrevHeld(snaps, prev, plan)
  <2>1. \A s \in Scenarios : prev[s] = Nil
    BY DEF CatalogInit
  <2> QED
    BY <1>10, <2>1 DEF PrevHeld, PrevIn
<1> QED
  BY <1>1, <1>2, <1>3, <1>4, <1>5, <1>6, <1>7, <1>8, <1>9, <1>10, <1>11, <1>12 DEF CatalogInv

LEMMA CatalogStep ==
  ASSUME CatalogConstants, CatalogInv, [CatalogNext]_catalogVars
  PROVE  CatalogInv'
<1>1. ASSUME NEW o \in Ops, OpStep(o) PROVE CatalogInv'
  BY <1>1, StageIngestedKeeps, StageCandidateKeeps, ReadLiveKeeps, CommitLiveKeeps, RestageKeeps,
     CheckPromotionKeeps, CommitPromotionKeeps, CommitRollbackKeeps, Zenon DEF OpStep
<1>2. ASSUME NEW o \in Ops, NEW r \in Revisions, QueueBuilds(o, r) \/ AdmitPromotion(o, r) \/ ReadRollback(o, r)
      PROVE  CatalogInv'
  BY <1>2, QueueKeeps, AdmitKeeps, ReadRollbackKeeps, Zenon
<1>3. ASSUME NEW o \in Ops, NEW s \in Scenarios, NEW b \in BuildIds, StoreCandidate(o, s, b) PROVE CatalogInv'
  BY <1>3, StoreCandidateKeeps
<1>4. ASSUME NEW o \in Ops, NEW s \in Scenarios, NEW i \in Images, StoreLive(o, s, i) PROVE CatalogInv'
  BY <1>4, StoreLiveKeeps
<1>5. ASSUME NEW b \in BuildIds, BuildEnds(b) PROVE CatalogInv'
  BY <1>5, BuildEndsKeeps
<1>6. ASSUME NEW q \in Runs, RunStep(q) \/ StartFromCandidate(q) PROVE CatalogInv'
  BY <1>6, CommitStartKeeps, EndsKeep, StartFromCandidateKeeps, Zenon DEF RunStep
<1>7. ASSUME NEW q \in Runs, NEW s \in Scenarios, StartFromLive(q, s) PROVE CatalogInv'
  BY <1>7, StartFromLiveKeeps
<1>8. ASSUME StartSweep \/ RetentionStep \/ SweepDies PROVE CatalogInv'
  BY <1>8, StartSweepKeeps, ProjectKeeps, TrimCacheKeeps, ApplyKeeps, DeleteKeeps, SweepDiesKeeps, Zenon
     DEF RetentionStep
<1>9. CASE UNCHANGED catalogVars
  BY <1>9 DEF catalogVars, CatalogInv
<1> QED
  BY <1>1, <1>2, <1>3, <1>4, <1>5, <1>6, <1>7, <1>8, <1>9, Zenon DEF CatalogNext

LEMMA RowsFixed ==
  ASSUME CatalogInv,
         \A r \in Revisions, s \in Scenarios : (\E x \in Runs : ReadsRow(x, r, s)) => cand'[r][s] = cand[r][s]
  PROVE  ReaderUnchangedStep
<1> SUFFICES ASSUME NEW q \in Runs, run[q].pc = "active", run[q].rev # Nil
             PROVE  cand'[run[q].rev][run[q].scen] = cand[run[q].rev][run[q].scen]
  BY DEF ReaderUnchangedStep
<1>1. run[q].rev \in Revisions /\ run[q].scen \in Scenarios
  BY DEF CatalogInv, RunTable, RunRows
<1>2. ReadsRow(q, run[q].rev, run[q].scen)
  BY DEF ReadsRow
<1> QED
  BY <1>1, <1>2

LEMMA ReadersStage ==
  ASSUME CatalogConstants, CatalogInv, NEW o \in Ops, StageCandidate(o)
  PROVE  ReaderUnchangedStep
<1> DEFINE b == ops[o].build
           r == ops[o].rev
           s == CHOOSE x \in ops[o].scens : TRUE
           i == ops[o].image
<1>1. \/ cand' = cand
      \/ /\ cand' = [cand EXCEPT ![r] = [cand[r] EXCEPT ![s] = RowOf(r, s, b, i)]]
         /\ ~Locked(r, s, b, i)
  BY DEF StageCandidate
<1> HIDE DEF b, r, s, i
<1>2. CASE cand' = cand
  BY <1>2 DEF ReaderUnchangedStep
<1>3. CASE /\ cand' = [cand EXCEPT ![r] = [cand[r] EXCEPT ![s] = RowOf(r, s, b, i)]]
           /\ ~Locked(r, s, b, i)
  <2>1. cand \in [Revisions -> [Scenarios -> CandRows]]
    BY DEF CatalogInv, CandTable
  <2>2. ASSUME NEW q \in Revisions, NEW t \in Scenarios, NEW x \in Runs, ReadsRow(x, q, t)
        PROVE  cand'[q][t] = cand[q][t]
    <3>1. CASE q = r /\ t = s
      <4>1. SameRow(r, s, b, i)
        BY <1>3, <2>2, <3>1 DEF Locked
      <4>2. RowOf(r, s, b, i) = cand[r][s]
        BY <4>1 DEF RowOf
      <4> QED
        BY <1>3, <2>1, <3>1, <4>2
    <3>2. CASE ~(q = r /\ t = s)
      BY <1>3, <2>1, <3>2
    <3> QED
      BY <3>1, <3>2
  <2> QED
    BY <2>2, RowsFixed
<1> QED
  BY <1>1, <1>2, <1>3

LEMMA ReadersKeep ==
  ASSUME CatalogConstants, CatalogInv, CatalogNext
  PROVE  ReaderUnchangedStep
<1>1. ASSUME cand' = cand PROVE ReaderUnchangedStep
  BY <1>1 DEF ReaderUnchangedStep
<1>2. ASSUME NEW o \in Ops, OpStep(o) PROVE ReaderUnchangedStep
  <2>1. CASE StageIngested(o)
    <3>1. ops[o].rev \in Revisions /\ StageReusable(ops[o].rev)
      BY <2>1 DEF StageIngested, CatalogInv, OpTable, OpKept
    <3> QED
      BY <3>1, StageReusableIs, RowsFixed
  <2>2. CASE RestagePromotion(o)
    <3>1. ops[o].rev \in Revisions /\ StageReusable(ops[o].rev)
      BY <2>2 DEF RestagePromotion, CatalogInv, OpTable, OpKept
    <3> QED
      BY <3>1, StageReusableIs, RowsFixed
  <2>3. CASE StageCandidate(o)
    BY <2>3, ReadersStage
  <2>4. CASE ReadLive(o) \/ CommitLive(o) \/ CheckPromotion(o) \/ CommitPromotion(o) \/ CommitRollback(o)
    BY <1>1, <2>4 DEF ReadLive, CommitLive, CheckPromotion, CommitPromotion, CommitRollback, tables
  <2> QED
    BY <1>2, <2>1, <2>2, <2>3, <2>4 DEF OpStep
<1>3. ASSUME NEW o \in Ops, NEW r \in Revisions, QueueBuilds(o, r) \/ AdmitPromotion(o, r) \/ ReadRollback(o, r)
      PROVE  ReaderUnchangedStep
  BY <1>1, <1>3 DEF QueueBuilds, AdmitPromotion, ReadRollback, tables
<1>4. ASSUME NEW o \in Ops, NEW s \in Scenarios, NEW b \in BuildIds, StoreCandidate(o, s, b)
      PROVE  ReaderUnchangedStep
  BY <1>1, <1>4 DEF StoreCandidate, tables
<1>5. ASSUME NEW o \in Ops, NEW s \in Scenarios, NEW i \in Images, StoreLive(o, s, i) PROVE ReaderUnchangedStep
  BY <1>1, <1>5 DEF StoreLive, tables
<1>6. ASSUME NEW b \in BuildIds, BuildEnds(b) PROVE ReaderUnchangedStep
  BY <1>1, <1>6 DEF BuildEnds
<1>7. ASSUME NEW q \in Runs, RunStep(q) \/ StartFromCandidate(q) PROVE ReaderUnchangedStep
  BY <1>1, <1>7 DEF RunStep, CommitStart, EndRun, VmGone, StartFromCandidate, tables
<1>8. ASSUME NEW q \in Runs, NEW s \in Scenarios, StartFromLive(q, s) PROVE ReaderUnchangedStep
  BY <1>1, <1>8 DEF StartFromLive, tables
<1>9. ASSUME StartSweep \/ RetentionStep \/ SweepDies PROVE ReaderUnchangedStep
  <2>1. CASE ApplyRetention
    BY <2>1 DEF ApplyRetention, CatalogInv, Projected, ReaderUnchangedStep
  <2>2. CASE StartSweep \/ ProjectRetention \/ TrimCache \/ DeleteObjects \/ SweepDies
    BY <1>1, <2>2 DEF StartSweep, ProjectRetention, TrimCache, DeleteObjects, SweepDies, tables
  <2> QED
    BY <1>9, <2>1, <2>2 DEF RetentionStep
<1> QED
  BY <1>2, <1>3, <1>4, <1>5, <1>6, <1>7, <1>8, <1>9, Zenon DEF CatalogNext

\* For any scenarios, builds, revisions, runs and operations: what a catalog row, a rollback
\* record, a candidate, a cache intent or a VM names is in the bucket, wherever a retention
\* pass stands or dies; and as long as no release is rolled back, the newest record of every
\* scenario holds the release before the last one.
THEOREM RetentionCorrect ==
  ASSUME CatalogConstants
  PROVE  CatalogSpec => []RetentionKept
<1>1. CatalogInit => CatalogInv
  BY CatalogStart
<1>2. CatalogInv /\ [CatalogNext]_catalogVars => CatalogInv'
  BY CatalogStep
<1>3. CatalogInv => RetentionKept
  BY CatalogInvProps
<1> QED
  BY <1>1, <1>2, <1>3, PTL DEF CatalogSpec

\* The candidate row an active run was admitted from is neither rewritten by a stage nor
\* removed by a retention pass.
THEOREM ReaderCorrect ==
  ASSUME CatalogConstants
  PROVE  CatalogSpec => ReaderUnchanged
<1>1. CatalogInit => CatalogInv
  BY CatalogStart
<1>2. CatalogInv /\ [CatalogNext]_catalogVars => CatalogInv'
  BY CatalogStep
<1>3. CatalogInv /\ [CatalogNext]_catalogVars => [ReaderUnchangedStep]_catalogVars
  BY ReadersKeep
<1> QED
  BY <1>1, <1>2, <1>3, PTL DEF CatalogSpec, ReaderUnchanged

=============================================================================
