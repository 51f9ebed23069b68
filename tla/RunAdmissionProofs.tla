------------------------- MODULE RunAdmissionProofs -------------------------
(***************************************************************************)
(* Theorems about RunAdmission, for any number of requests, users and      *)
(* hosts: CPU is never oversold, a key names one run and a committed start *)
(* is whole.  Then about Promotion, whose hold stops admissions: no image  *)
(* is replaced under a run that boots it.                                  *)
(***************************************************************************)
EXTENDS RunAdmission, Promotion, CpuSums

Docs == [version : Nat, vms : SUBSET Requests]
Pcs == {"begin", "read", "active", "lookup", "build", "images", "select", "plan", "ledger",
        "gate", "commit", "clash", "refused", "lost", "fence", "cancel", "cancelBatch", "done"}
Answers == {"none", "drained", "registry_busy", "reused", "key_conflict", "full", "content",
            "revoked", "active_run", "scenario_invalid", "images_preparing", "host_unavailable",
            "source_changed", "contended", "accepted"}
Calls == [pc : Pcs, guard : BOOLEAN, source : Nat, host : Hosts \cup {NoHost}, doc : Docs,
          fresh : BOOLEAN, tried : SUBSET Hosts, attempt : 1..Attempts, answer : Answers,
          of : Requests]

(* What a call has read of a host's document is what is there, or older.   *)
AsRead(doc, h) ==
  /\ doc.version <= desiredState[h].version
  /\ doc.version = desiredState[h].version => doc.vms = desiredState[h].vms

Fits(r, h) == Total(Charged(h)) + Cpu[r] <= Capacity[h]

Exists(r) == run[r].state # "none"

(* A planned call fits its host as long as the version it read stands.     *)
CallSound(r) ==
  LET x == req[r] IN
  /\ x.pc \in {"ledger", "gate", "commit"} => x.host \in Hosts /\ AsRead(x.doc, x.host)
  /\ x.pc \in {"gate", "commit"} /\ x.doc.version = desiredState[x.host].version =>
       Fits(r, x.host)
  /\ x.pc \in {"fence", "cancel", "cancelBatch"} => Exists(r)
  /\ x.pc = "cancelBatch" => AsRead(x.doc, run[r].host)
  /\ x.answer \in {"accepted", "reused"} =>
       Exists(x.of) /\ UserOf[x.of] = UserOf[r] /\ KeyOf[x.of] = KeyOf[r]

RunRows == [state : {"none", "provisioning", "teardown", "ended"}, host : Hosts \cup {NoHost},
            slot : BOOLEAN]

RowSound(r) ==
  /\ quota[r] \/ run[r].slot => Exists(r)
  /\ Exists(r) => run[r].host \in Hosts
  /\ run[r].state = "provisioning" =>
       /\ run[r].slot /\ r \in desiredState[run[r].host].vms /\ reserve[r] # "none"
       /\ "reconcile" \notin Events => quota[r]

(* The unique indexes. *)
OneOfKey ==
  \A q, r \in Requests : Exists(q) /\ Exists(r) /\ UserOf[q] = UserOf[r] /\ KeyOf[q] = KeyOf[r]
                         => q = r
OneInSlot ==
  \A q, r \in Requests : run[q].slot /\ run[r].slot /\ UserOf[q] = UserOf[r] => q = r

Reports == [applied : Nat, vms : SUBSET Requests]
Recs == [pc : {"idle", "desired", "actual", "reload", "release"}, known : SUBSET Requests,
         ended : SUBSET Requests, doc : Docs, report : Reports, todo : SUBSET Requests]

HostTypes(h) ==
  /\ desiredState[h] \in Docs /\ actualState[h] \in Reports /\ hostAgent[h] \in Reports
  /\ rec[h] \in Recs

ReserveStates == {"none", "pending", "expired", "committed", "released"}

StartInv ==
  /\ req \in [Requests -> Calls] /\ run \in [Requests -> RunRows]
  /\ quota \in [Requests -> BOOLEAN] /\ reserve \in [Requests -> ReserveStates]
  /\ drained \in BOOLEAN /\ sweeping \in BOOLEAN
  /\ DOMAIN desiredState = Hosts /\ DOMAIN actualState = Hosts /\ DOMAIN hostAgent = Hosts
  /\ DOMAIN rec = Hosts
  /\ access \in [Users -> {"full", "content", "revoked"}] /\ source \in Nat
  /\ OneOfKey /\ OneInSlot /\ CpuNotOversold
  /\ \A r \in Requests : CallSound(r) /\ RowSound(r)
  /\ \A h \in Hosts : HostTypes(h)

-----------------------------------------------------------------------------
(* What a call rests on stands when no run goes, a document changes only    *)
(* to a later version, and a host with the same document has no more       *)
(* charges than before.                                                    *)
RowsForward ==
  /\ \A q \in Requests : Exists(q) => Exists(q)' /\ run'[q].host = run[q].host
  /\ \A h \in Hosts : \/ desiredState'[h] = desiredState[h] /\ Charged(h)' \subseteq Charged(h)
                      \/ desiredState'[h].version > desiredState[h].version

LEMMA TotalMonotone ==
  ASSUME AdmissionConstants, NEW S, S \subseteq Requests, NEW T, T \subseteq S
  PROVE  Total(S) \in Nat /\ Total(T) \in Nat /\ Total(T) <= Total(S)
<1>1. IsFiniteSet(S) /\ T \in SUBSET S
  BY FS_Subset DEF AdmissionConstants
<1>2. \A q \in S : Cpu[q] \in Nat
  BY DEF AdmissionConstants
<1>3. QED
  BY <1>1, <1>2, SumProperties DEF Total

LEMMA CallKept ==
  ASSUME AdmissionConstants, StartInv, RowsForward, NEW q \in Requests, CallSound(q),
         req'[q].pc = req[q].pc, req'[q].host = req[q].host, req'[q].doc = req[q].doc,
         req'[q].answer = req[q].answer, req'[q].of = req[q].of,
         \A h \in Hosts : desiredState'[h] \in Docs
  PROVE  CallSound(q)'
<1> DEFINE x == req[q]
<1>1. x \in Calls /\ (x.pc \in {"ledger", "gate", "commit"} => x.host \in Hosts)
  BY DEF StartInv, CallSound
<1>2. \A h \in Hosts : \A doc \in Docs : AsRead(doc, h) => AsRead(doc, h)'
  BY DEF RowsForward, AsRead, StartInv, HostTypes, Docs
<1>3. \A h \in Hosts : \A doc \in Docs :
        /\ AsRead(doc, h) /\ doc.version = desiredState'[h].version
        => doc.version = desiredState[h].version /\ Charged(h)' \subseteq Charged(h)
  BY DEF RowsForward, AsRead, StartInv, HostTypes, Docs
<1>4. \A h \in Hosts : Charged(h)' \subseteq Charged(h) /\ Fits(q, h) => Fits(q, h)'
  <2>1. SUFFICES ASSUME NEW h \in Hosts, Charged(h)' \subseteq Charged(h), Fits(q, h)
                 PROVE  Fits(q, h)'
    OBVIOUS
  <2>2. Charged(h) \subseteq Requests
    BY DEF Charged
  <2>3. /\ SumFunctionOnSet(Cpu, Charged(h)) \in Nat /\ SumFunctionOnSet(Cpu, Charged(h)') \in Nat
        /\ SumFunctionOnSet(Cpu, Charged(h)') <= SumFunctionOnSet(Cpu, Charged(h))
    BY <2>1, <2>2, TotalMonotone DEF Total
  <2>4. Cpu[q] \in Nat /\ Capacity[h] \in Nat
    BY DEF AdmissionConstants
  <2>5. QED
    BY <2>1, <2>3, <2>4 DEF Fits, Total
<1>5. x.doc \in Docs /\ x.of \in Requests
  BY <1>1 DEF Calls
<1>6. x.pc \in {"ledger", "gate", "commit"} => AsRead(x.doc, x.host) /\ AsRead(x.doc, x.host)'
  BY <1>1, <1>2, <1>5 DEF CallSound
<1>7. x.pc \in {"gate", "commit"} /\ x.doc.version = desiredState'[x.host].version =>
        Fits(q, x.host)'
  BY <1>1, <1>3, <1>4, <1>5, <1>6 DEF CallSound
<1>8. Exists(q) => Exists(q)' /\ run'[q].host = run[q].host /\ run[q].host \in Hosts
  BY DEF RowsForward, StartInv, RowSound
<1>9. x.pc \in {"fence", "cancel", "cancelBatch"} => Exists(q)'
  BY <1>8 DEF CallSound
<1>10. x.pc = "cancelBatch" => AsRead(x.doc, run[q].host)'
  BY <1>2, <1>5, <1>8 DEF CallSound
<1>11. x.answer \in {"accepted", "reused"} =>
         Exists(x.of)' /\ UserOf[x.of] = UserOf[q] /\ KeyOf[x.of] = KeyOf[q]
  BY <1>5 DEF CallSound, RowsForward
<1>12. QED
  BY <1>1, <1>6, <1>7, <1>9, <1>10, <1>11 DEF CallSound, AsRead, Fits, Exists, Charged, Total

(* A step that leaves the rows alone moves one call. *)
LEMMA CallStep ==
  ASSUME AdmissionConstants, StartInv, NEW r \in Requests, Quiet,
         req' \in [Requests -> Calls], \A q \in Requests : q # r => req'[q] = req[q],
         CallSound(r)'
  PROVE  StartInv'
<1>1. UNCHANGED <<run, quota, reserve, desiredState, actualState, hostAgent, rec, drained, access,
                  source, sweeping>>
  BY DEF Quiet, rowVars, others
<1>2. RowsForward /\ \A h \in Hosts : desiredState'[h] \in Docs
  BY <1>1 DEF RowsForward, Exists, Charged, StartInv, HostTypes
<1>3. \A q \in Requests : q # r => CallSound(q)'
  BY <1>2, CallKept DEF StartInv
<1>4. \A q \in Requests : CallSound(q)'
  BY <1>3
<1>5. \A q \in Requests : RowSound(q)'
  BY <1>1 DEF StartInv, RowSound, Exists
<1>6. OneOfKey' /\ OneInSlot'
  BY <1>1 DEF StartInv, OneOfKey, OneInSlot, Exists
<1>7. CpuNotOversold'
  BY <1>1 DEF StartInv, CpuNotOversold, Charged, Total
<1>8. \A h \in Hosts : HostTypes(h)'
  BY <1>1 DEF StartInv, HostTypes
<1>9. QED
  BY <1>1, <1>4, <1>5, <1>6, <1>7, <1>8 DEF StartInv

(* The ways a call moves on. *)
LEMMA CallAnswered ==
  ASSUME AdmissionConstants, StartInv, Quiet, NEW r \in Requests,
         NEW a \in Answers, NEW q \in Requests, Answered(r, a, q),
         a \in {"accepted", "reused"} =>
           Exists(q) /\ UserOf[q] = UserOf[r] /\ KeyOf[q] = KeyOf[r]
  PROVE  StartInv'
<1>1. req \in [Requests -> Calls] /\ UNCHANGED run
  BY DEF StartInv, Quiet, rowVars
<1>2. /\ req' \in [Requests -> Calls] /\ \A p \in Requests : p # r => req'[p] = req[p]
      /\ req'[r].pc = "done" /\ req'[r].answer = a /\ req'[r].of = q
  <2> DEFINE x == [req[r] EXCEPT !.pc = "done", !.guard = FALSE, !.answer = a, !.of = q]
  <2>1. req' = [req EXCEPT ![r] = x]
    BY <1>1 DEF Answered, Calls
  <2>2. req[r] \in Calls /\ "done" \in Pcs
    BY <1>1 DEF Pcs
  <2>3. x \in Calls
    BY <2>2 DEF Calls
  <2>4. x.pc = "done" /\ x.answer = a /\ x.of = q
    BY <2>2 DEF Calls
  <2> HIDE DEF x
  <2>5. QED
    BY <1>1, <2>1, <2>3, <2>4
<1>3. a \in {"accepted", "reused"} =>
        run'[req'[r].of].state # "none" /\ UserOf[req'[r].of] = UserOf[r]
        /\ KeyOf[req'[r].of] = KeyOf[r]
  BY <1>1, <1>2 DEF Exists
<1>4. CallSound(r)'
  BY <1>2, <1>3 DEF CallSound, Exists
<1>5. QED
  BY <1>2, <1>4, CallStep

LEMMA CallRefused ==
  ASSUME AdmissionConstants, StartInv, Quiet, NEW r \in Requests,
         NEW a \in Answers, Refuse(r, a), a \notin {"accepted", "reused"}
  PROVE  StartInv'
BY CallAnswered DEF Refuse

LEMMA CallReplayed ==
  ASSUME AdmissionConstants, StartInv, Quiet, NEW r \in Requests, Replay(r)
  PROVE  StartInv'
<1>1. PICK q \in ByKey(r) :
        IF ScopeOf[q] = ScopeOf[r] THEN Answered(r, "reused", q) ELSE Refuse(r, "key_conflict")
  BY DEF Replay
<1>2. q \in Requests /\ Exists(q) /\ UserOf[q] = UserOf[r] /\ KeyOf[q] = KeyOf[r]
  BY DEF ByKey, Exists
<1>3. CASE ScopeOf[q] = ScopeOf[r]
  BY <1>1, <1>2, <1>3, CallAnswered DEF Answers
<1>4. CASE ScopeOf[q] # ScopeOf[r]
  BY <1>1, <1>4, CallRefused DEF Answers
<1>5. QED
  BY <1>3, <1>4

(* A call goes on without a document in hand. *)
LEMMA CallMoved ==
  ASSUME AdmissionConstants, StartInv, Quiet, NEW r \in Requests,
         req' \in [Requests -> Calls], \A q \in Requests : q # r => req'[q] = req[q],
         req'[r].pc \notin {"ledger", "gate", "commit", "fence", "cancel", "cancelBatch"},
         req'[r].answer = req[r].answer, req'[r].of = req[r].of
  PROVE  StartInv'
<1>1. UNCHANGED run /\ CallSound(r)
  BY DEF StartInv, Quiet, rowVars
<1>2. CallSound(r)'
  BY <1>1 DEF CallSound, Exists
<1>3. QED
  BY <1>2, CallStep

LEMMA CallStepped ==
  ASSUME AdmissionConstants, StartInv, Quiet, NEW r \in Requests, NEW pc \in Pcs, Step(r, pc),
         pc \notin {"ledger", "gate", "commit", "fence", "cancel", "cancelBatch"}
  PROVE  StartInv'
<1>1. req \in [Requests -> Calls]
  BY DEF StartInv
<1>2. /\ req' \in [Requests -> Calls] /\ \A q \in Requests : q # r => req'[q] = req[q]
      /\ req'[r].pc = pc /\ req'[r].answer = req[r].answer /\ req'[r].of = req[r].of
  BY <1>1 DEF Step, Calls
<1>3. QED
  BY <1>2, CallMoved

-----------------------------------------------------------------------------
(* The steps of a start before its commit. *)
LEMMA EarlySteps ==
  ASSUME AdmissionConstants, StartInv, NEW r \in Requests,
         \/ Begin(r) \/ ReadSource(r) \/ LookupKey(r) \/ BuildRun(r) \/ PrepareImages(r)
         \/ SelectHosts(r) \/ PlanFails(r) \/ Clash(r) \/ Refused(r) \/ Lost(r) \/ Crash(r)
  PROVE  StartInv'
<1>1. Quiet
  BY DEF Begin, ReadSource, LookupKey, BuildRun, PrepareImages, SelectHosts, PlanFails, Clash,
         Refused, Lost, Crash
<1>2. req \in [Requests -> Calls] /\ req[r] \in Calls
  BY DEF StartInv
<1>3. access[UserOf[r]] \in {"full", "content", "revoked"} /\ source \in Nat
  BY DEF StartInv, AdmissionConstants
<1>4. ASSUME NEW x \in Calls, req' = [req EXCEPT ![r] = x],
             x.pc \notin {"ledger", "gate", "commit", "fence", "cancel", "cancelBatch"},
             x.answer = req[r].answer, x.of = req[r].of
      PROVE  StartInv'
  BY <1>1, <1>2, <1>4, CallMoved
<1>5. ASSUME NEW a \in Answers, Refuse(r, a), a \notin {"accepted", "reused"} PROVE StartInv'
  BY <1>1, <1>5, CallRefused
<1>6. ASSUME NEW pc \in Pcs, Step(r, pc),
             pc \notin {"ledger", "gate", "commit", "fence", "cancel", "cancelBatch"}
      PROVE  StartInv'
  BY <1>1, <1>6, CallStepped
<1>7. Replay(r) => StartInv'
  BY <1>1, CallReplayed
<1>8. CASE Begin(r)
  <2>1. CASE drained \/ sweeping
    BY <1>5, <1>8, <2>1 DEF Begin, Answers
  <2>2. CASE ~drained /\ ~sweeping
    <3> DEFINE x == [req[r] EXCEPT !.pc = "read", !.guard = TRUE]
    <3>1. req' = [req EXCEPT ![r] = x]
      BY <1>2, <1>8, <2>2 DEF Begin, Calls
    <3>2. x \in Calls /\ x.pc = "read" /\ x.answer = req[r].answer /\ x.of = req[r].of
      BY <1>2 DEF Calls, Pcs
    <3> HIDE DEF x
    <3>3. QED
      BY <1>4, <3>1, <3>2
  <2>3. QED
    BY <2>1, <2>2
<1>9. CASE ReadSource(r)
  <2> DEFINE to == IF ActiveRuns(UserOf[r]) # {} THEN "active" ELSE "lookup"
             x == [req[r] EXCEPT !.pc = to, !.source = source]
  <2>1. req' = [req EXCEPT ![r] = x] /\ to \in {"active", "lookup"}
    BY <1>2, <1>9 DEF ReadSource, Calls
  <2> HIDE DEF to
  <2>2. x \in Calls /\ x.pc = to /\ x.answer = req[r].answer /\ x.of = req[r].of
    BY <1>2, <1>3, <2>1 DEF Calls, Pcs
  <2> HIDE DEF x
  <2>3. QED
    BY <1>4, <2>1, <2>2
<1>10. CASE LookupKey(r)
  <2>1. CASE access[UserOf[r]] # "full"
    BY <1>3, <1>5, <1>10, <2>1 DEF LookupKey, Answers
  <2>2. CASE access[UserOf[r]] = "full"
    BY <1>5, <1>6, <1>7, <1>10, <2>2 DEF LookupKey, Answers, Pcs
  <2>3. QED
    BY <2>1, <2>2
<1>11. CASE BuildRun(r)
  BY <1>5, <1>6, <1>11 DEF BuildRun, Answers, Pcs
<1>12. CASE PrepareImages(r)
  BY <1>5, <1>6, <1>7, <1>12 DEF PrepareImages, Answers, Pcs
<1>13. CASE SelectHosts(r)
  <2> DEFINE candidates == {h \in Hosts : Eligible(h) /\ FitsGeneric(r, h)}
             x == [req[r] EXCEPT !.pc = "plan", !.tried = Hosts \ candidates]
  <2>1. CASE candidates = {}
    BY <1>5, <1>13, <2>1 DEF SelectHosts, Answers
  <2>2. CASE candidates # {}
    <3>1. req' = [req EXCEPT ![r] = x]
      BY <1>2, <1>13, <2>2 DEF SelectHosts, Calls
    <3>2. x \in Calls /\ x.pc = "plan" /\ x.answer = req[r].answer /\ x.of = req[r].of
      BY <1>2 DEF Calls, Pcs
    <3> HIDE DEF x
    <3>3. QED
      BY <1>4, <3>1, <3>2
  <2>3. QED
    BY <2>1, <2>2
<1>14. CASE PlanFails(r)
  BY <1>5, <1>14 DEF PlanFails, Answers
<1>15. CASE Clash(r)
  BY <1>5, <1>7, <1>15 DEF Clash, Answers
<1>16. CASE Refused(r)
  BY <1>5, <1>16 DEF Refused, Answers
<1>17. CASE Lost(r)
  <2> DEFINE x == [req[r] EXCEPT !.pc = "select", !.tried = {}, !.fresh = FALSE,
                                 !.attempt = req[r].attempt + 1]
  <2>1. \/ \E a \in {"drained", "revoked", "source_changed", "content", "contended"} : Refuse(r, a)
        \/ /\ req[r].attempt # Attempts
           /\ req' = [req EXCEPT ![r].pc = "select", ![r].tried = {}, ![r].fresh = FALSE,
                                 ![r].attempt = req[r].attempt + 1]
    BY <1>17 DEF Lost
  <2>2. CASE \E a \in {"drained", "revoked", "source_changed", "content", "contended"} :
               Refuse(r, a)
    BY <1>5, <2>2 DEF Answers
  <2>3. CASE /\ req[r].attempt # Attempts
             /\ req' = [req EXCEPT ![r].pc = "select", ![r].tried = {}, ![r].fresh = FALSE,
                                   ![r].attempt = req[r].attempt + 1]
    <3>1. req' = [req EXCEPT ![r] = x]
      BY <1>2, <2>3 DEF Calls
    <3>2. x \in Calls /\ x.pc = "select" /\ x.answer = req[r].answer /\ x.of = req[r].of
      <4>1. "select" \in Pcs /\ {} \in SUBSET Hosts /\ FALSE \in BOOLEAN
        BY DEF Pcs
      <4>2. req[r].attempt + 1 \in 1..Attempts
        BY <1>2, <2>3 DEF Calls, AdmissionConstants
      <4>3. x \in Calls
        BY <1>2, <4>1, <4>2 DEF Calls
      <4>4. x.pc = "select" /\ x.answer = req[r].answer /\ x.of = req[r].of
        BY <1>2 DEF Calls
      <4>5. QED
        BY <4>3, <4>4
    <3> HIDE DEF x
    <3>3. QED
      BY <1>4, <3>1, <3>2
  <2>4. QED
    BY <2>1, <2>2, <2>3
<1>18. CASE Crash(r)
  BY <1>6, <1>18 DEF Crash, Step, Pcs
<1>19. QED
  BY <1>8, <1>9, <1>10, <1>11, <1>12, <1>13, <1>14, <1>15, <1>16, <1>17, <1>18

(* The steps of a plan: the version first, then the charges. *)
LEMMA PlanSteps ==
  ASSUME AdmissionConstants, StartInv, NEW r \in Requests,
         \/ \E h \in Hosts : ReadDesired(r, h)
         \/ ReadLedger(r) \/ RecheckGate(r)
  PROVE  StartInv'
<1>1. Quiet
  BY DEF ReadDesired, ReadLedger, RecheckGate
<1>2. UNCHANGED <<run, quota, desiredState>> /\ CallSound(r) /\ req \in [Requests -> Calls]
      /\ req[r] \in Calls
  BY <1>1 DEF StartInv, Quiet, rowVars
<1>3. ASSUME NEW x \in Calls, req' = [req EXCEPT ![r] = x],
             x.answer = req[r].answer, x.of = req[r].of,
             x.pc \in {"ledger", "gate", "commit"}, x.host \in Hosts, AsRead(x.doc, x.host),
             x.pc # "ledger" /\ x.doc.version = desiredState[x.host].version => Fits(r, x.host)
      PROVE  StartInv'
  <2>1. req' \in [Requests -> Calls] /\ req'[r] = x
        /\ \A q \in Requests : q # r => req'[q] = req[q]
    BY <1>2, <1>3
  <2>2. /\ x.doc.version <= desiredState'[x.host].version
        /\ x.doc.version = desiredState'[x.host].version => x.doc.vms = desiredState'[x.host].vms
    BY <1>2, <1>3 DEF AsRead
  <2>3. \A h \in Hosts : Charged(h)' = Charged(h)
    BY <1>2 DEF Charged
  <2>4. \A h \in Hosts : Fits(r, h) => Fits(r, h)'
    BY <2>3 DEF Fits, Total
  <2>5. x.pc # "ledger" /\ x.doc.version = desiredState'[x.host].version => Fits(r, x.host)'
    BY <1>2, <1>3, <2>4
  <2>6. x.answer \in {"accepted", "reused"} =>
          run'[x.of].state # "none" /\ UserOf[x.of] = UserOf[r] /\ KeyOf[x.of] = KeyOf[r]
    BY <1>2, <1>3 DEF CallSound, Exists
  <2>7. CallSound(r)'
    <3>1. x.pc \in {"gate", "commit"} /\ x.doc.version = desiredState'[x.host].version =>
            (Total(Charged(x.host)) + Cpu[r] <= Capacity[x.host])'
      BY <1>3, <2>1, <2>5 DEF Fits
    <3>2. QED
      BY <1>3, <2>1, <2>2, <2>6, <3>1 DEF CallSound, Exists, AsRead, Fits
  <2>8. QED
    BY <1>1, <2>1, <2>7, CallStep
<1>4. CASE \E h \in Hosts : ReadDesired(r, h)
  <2>1. PICK h \in Hosts : ReadDesired(r, h)
    BY <1>4
  <2> DEFINE x == [req[r] EXCEPT !.pc = "ledger", !.host = h, !.doc = desiredState[h]]
  <2>2. req' = [req EXCEPT ![r] = x]
    BY <1>2, <2>1 DEF ReadDesired, Calls
  <2>3. desiredState[h] \in Docs
    BY DEF StartInv, HostTypes
  <2>4. /\ x \in Calls /\ x.pc = "ledger" /\ x.host = h /\ x.doc = desiredState[h]
        /\ x.answer = req[r].answer /\ x.of = req[r].of
    BY <1>2, <2>3 DEF Calls, Pcs
  <2> HIDE DEF x
  <2>5. AsRead(x.doc, x.host)
    BY <2>3, <2>4 DEF AsRead, Docs
  <2>6. QED
    BY <1>3, <2>2, <2>4, <2>5
<1>5. CASE ReadLedger(r)
  <2> DEFINE h == req[r].host
             x == [req[r] EXCEPT !.pc = "gate", !.fresh = TRUE]
             y == [req[r] EXCEPT !.pc = "plan", !.tried = req[r].tried \cup {h}]
  <2>1. h \in Hosts /\ AsRead(req[r].doc, h) /\ req[r].pc = "ledger"
    BY <1>2, <1>5 DEF ReadLedger, At, CallSound
  <2>2. CASE Eligible(h) /\ Cpu[r] <= FreeCpu(h) /\ FitsGeneric(r, h)
    <3>1. req' = [req EXCEPT ![r] = x]
      BY <1>2, <1>5, <2>2 DEF ReadLedger, Calls
    <3>2. /\ x \in Calls /\ x.pc = "gate" /\ x.host = h /\ x.doc = req[r].doc
          /\ x.answer = req[r].answer /\ x.of = req[r].of
      BY <1>2 DEF Calls, Pcs
    <3> HIDE DEF x
    <3>3. Fits(r, h)
      <4>1. Charged(h) \cup actualState[h].vms \subseteq Requests
        BY <2>1 DEF Charged, StartInv, HostTypes, Reports
      <4>2. /\ Total(Charged(h) \cup actualState[h].vms) \in Nat /\ Total(Charged(h)) \in Nat
            /\ Total(Charged(h)) <= Total(Charged(h) \cup actualState[h].vms)
        BY <4>1, TotalMonotone
      <4>3. Cpu[r] \in Nat /\ Capacity[h] \in Nat
        BY <2>1 DEF AdmissionConstants
      <4>4. QED
        BY <2>2, <4>2, <4>3 DEF Fits, FreeCpu
    <3>4. QED
      BY <1>3, <2>1, <3>1, <3>2, <3>3
  <2>3. CASE ~(Eligible(h) /\ Cpu[r] <= FreeCpu(h) /\ FitsGeneric(r, h))
    <3>1. req' = [req EXCEPT ![r] = y]
      BY <1>2, <1>5, <2>3 DEF ReadLedger, Calls
    <3>2. y \in Calls /\ y.pc = "plan" /\ y.answer = req[r].answer /\ y.of = req[r].of
      BY <1>2, <2>1 DEF Calls, Pcs
    <3> HIDE DEF y
    <3>3. QED
      BY <1>1, <1>2, <3>1, <3>2, CallMoved
  <2>4. QED
    BY <2>2, <2>3
<1>6. CASE RecheckGate(r)
  <2> DEFINE x == [req[r] EXCEPT !.pc = "commit"]
  <2>1. CASE drained
    BY <1>1, <1>6, <2>1, CallRefused DEF RecheckGate, Answers
  <2>2. CASE ~drained
    <3>1. req' = [req EXCEPT ![r] = x] /\ req[r].pc = "gate"
      BY <1>2, <1>6, <2>2 DEF RecheckGate, Step, At, Calls
    <3>2. /\ x \in Calls /\ x.pc = "commit" /\ x.host = req[r].host /\ x.doc = req[r].doc
          /\ x.answer = req[r].answer /\ x.of = req[r].of
      BY <1>2 DEF Calls, Pcs
    <3> HIDE DEF x
    <3>3. /\ x.host \in Hosts /\ AsRead(x.doc, x.host)
          /\ x.doc.version = desiredState[x.host].version => Fits(r, x.host)
      BY <1>2, <3>1, <3>2 DEF CallSound
    <3>4. QED
      BY <1>3, <3>1, <3>2, <3>3
  <2>3. QED
    BY <2>1, <2>2
<1>7. QED
  BY <1>4, <1>5, <1>6

(* After the commit: the answer, or the read of a cancel. *)
LEMMA LateSteps ==
  ASSUME AdmissionConstants, StartInv, NEW r \in Requests, Fence(r) \/ CancelRead(r)
  PROVE  StartInv'
<1>1. Quiet
  BY DEF Fence, CancelRead
<1>2. UNCHANGED <<run, desiredState>> /\ CallSound(r) /\ req \in [Requests -> Calls]
      /\ req[r] \in Calls
  BY <1>1 DEF StartInv, Quiet, rowVars
<1>3. Exists(r) /\ run[r].host \in Hosts
  BY <1>2 DEF Fence, CancelRead, At, CallSound, StartInv, RowSound
<1>4. ASSUME NEW x \in Calls, req' = [req EXCEPT ![r] = x],
             x.answer = req[r].answer, x.of = req[r].of, x.pc \in {"cancel", "cancelBatch"},
             x.pc = "cancelBatch" => x.doc = desiredState[run[r].host]
      PROVE  StartInv'
  <2>1. req' \in [Requests -> Calls] /\ req'[r] = x
        /\ \A q \in Requests : q # r => req'[q] = req[q]
    BY <1>2, <1>4
  <2>2. desiredState[run[r].host] \in Docs
    BY <1>3 DEF StartInv, HostTypes
  <2>3. CallSound(r)'
    BY <1>2, <1>3, <1>4, <2>1, <2>2 DEF CallSound, Exists, AsRead, Docs
  <2>4. QED
    BY <1>1, <2>1, <2>3, CallStep
<1>5. CASE Fence(r)
  <2> DEFINE x == [req[r] EXCEPT !.pc = "cancel", !.attempt = 1]
  <2>1. CASE Placed(r) /\ run[r].state = "provisioning"
    BY <1>1, <1>3, <1>5, <2>1, CallAnswered DEF Fence, Answers
  <2>2. CASE ~(Placed(r) /\ run[r].state = "provisioning")
    <3>1. req' = [req EXCEPT ![r] = x]
      BY <1>2, <1>5, <2>2 DEF Fence, Calls
    <3>2. x \in Calls /\ x.pc = "cancel" /\ x.answer = req[r].answer /\ x.of = req[r].of
      <4>1. "cancel" \in Pcs /\ 1 \in 1..Attempts
        BY DEF Pcs, AdmissionConstants
      <4>2. x \in Calls
        BY <1>2, <4>1 DEF Calls
      <4>3. x.pc = "cancel" /\ x.answer = req[r].answer /\ x.of = req[r].of
        BY <1>2 DEF Calls
      <4>4. QED
        BY <4>2, <4>3
    <3> HIDE DEF x
    <3>3. QED
      BY <1>4, <3>1, <3>2
  <2>3. QED
    BY <2>1, <2>2
<1>6. CASE CancelRead(r)
  <2> DEFINE x == [req[r] EXCEPT !.pc = "cancelBatch", !.doc = desiredState[run[r].host]]
  <2>1. req' = [req EXCEPT ![r] = x]
    BY <1>2, <1>6 DEF CancelRead, Calls
  <2>2. desiredState[run[r].host] \in Docs
    BY <1>3 DEF StartInv, HostTypes
  <2>3. /\ x \in Calls /\ x.pc = "cancelBatch" /\ x.doc = desiredState[run[r].host]
        /\ x.answer = req[r].answer /\ x.of = req[r].of
    BY <1>2, <2>2 DEF Calls, Pcs
  <2> HIDE DEF x
  <2>4. QED
    BY <1>4, <2>1, <2>3
<1>7. QED
  BY <1>5, <1>6

-----------------------------------------------------------------------------
(* Steps of the others. *)
SameCall(q) ==
  /\ req'[q].pc = req[q].pc /\ req'[q].host = req[q].host /\ req'[q].doc = req[q].doc
  /\ req'[q].answer = req[q].answer /\ req'[q].of = req[q].of

TypesKept ==
  /\ req' \in [Requests -> Calls] /\ run' \in [Requests -> RunRows]
  /\ quota' \in [Requests -> BOOLEAN] /\ reserve' \in [Requests -> ReserveStates]
  /\ drained' \in BOOLEAN /\ sweeping' \in BOOLEAN
  /\ DOMAIN desiredState' = Hosts /\ DOMAIN actualState' = Hosts /\ DOMAIN hostAgent' = Hosts
  /\ DOMAIN rec' = Hosts
  /\ access' \in [Users -> {"full", "content", "revoked"}] /\ source' \in Nat
  /\ \A h \in Hosts : HostTypes(h)'

LEMMA RowsKept ==
  ASSUME AdmissionConstants, StartInv, TypesKept, UNCHANGED <<run, desiredState>>,
         \A q \in Requests : SameCall(q),
         \A q \in Requests : quota'[q] => quota[q],
         \A q \in Requests : reserve[q] # "none" => reserve'[q] # "none",
         "reconcile" \notin Events => quota' = quota
  PROVE  StartInv'
<1>1. \A h \in Hosts : Charged(h)' \subseteq Charged(h)
  BY DEF Charged
<1>2. RowsForward
  BY <1>1 DEF RowsForward, Exists
<1>3. \A h \in Hosts : desiredState'[h] \in Docs
  BY DEF TypesKept, HostTypes
<1>4. \A q \in Requests : CallSound(q)'
  BY <1>2, <1>3, CallKept DEF StartInv, SameCall
<1>5. \A q \in Requests : RowSound(q)'
  BY DEF StartInv, RowSound, Exists
<1>6. OneOfKey' /\ OneInSlot'
  BY DEF StartInv, OneOfKey, OneInSlot, Exists
<1>7. CpuNotOversold'
  <2>1. SUFFICES ASSUME NEW h \in Hosts
                 PROVE  SumFunctionOnSet(Cpu, Charged(h)') <= Capacity[h]
    BY DEF CpuNotOversold, Total
  <2>2. Charged(h) \subseteq Requests
    BY DEF Charged
  <2>3. /\ SumFunctionOnSet(Cpu, Charged(h)) \in Nat /\ SumFunctionOnSet(Cpu, Charged(h)') \in Nat
        /\ SumFunctionOnSet(Cpu, Charged(h)') <= SumFunctionOnSet(Cpu, Charged(h))
    BY <1>1, <2>2, TotalMonotone DEF Total
  <2>4. Capacity[h] \in Nat /\ SumFunctionOnSet(Cpu, Charged(h)) <= Capacity[h]
    BY DEF AdmissionConstants, StartInv, CpuNotOversold, Total
  <2>5. QED
    BY <2>3, <2>4
<1>8. QED
  BY <1>4, <1>5, <1>6, <1>7 DEF StartInv, TypesKept

(* Connections and reports make plans stale, which only refuses more. *)
LEMMA StaleSteps ==
  ASSUME AdmissionConstants, StartInv, NEW h \in Hosts, Offline(h) \/ StateReport(h)
  PROVE  StartInv'
<1>1. /\ UNCHANGED <<run, quota, reserve, desiredState, hostAgent, rec, drained, access, source,
                     sweeping>>
      /\ req' = [r \in Requests |-> IF req[r].host = h THEN [req[r] EXCEPT !.fresh = FALSE]
                                    ELSE req[r]]
      /\ actualState' = actualState \/ actualState' = [actualState EXCEPT ![h] = hostAgent[h]]
  BY DEF Offline, StateReport, rowVars, others
<1>2. req \in [Requests -> Calls]
  BY DEF StartInv
<1>3. \A q \in Requests : req'[q] \in Calls /\ SameCall(q)
  <2>1. SUFFICES ASSUME NEW q \in Requests PROVE req'[q] \in Calls /\ SameCall(q)
    OBVIOUS
  <2> DEFINE x == req[q]
             y == [x EXCEPT !.fresh = FALSE]
  <2>2. x \in Calls
    BY <1>2
  <2>3. req'[q] = x \/ req'[q] = y
    BY <1>1
  <2> HIDE DEF x
  <2>4. y \in Calls
    BY <2>2 DEF Calls
  <2>5. y.pc = x.pc /\ y.host = x.host /\ y.doc = x.doc /\ y.answer = x.answer /\ y.of = x.of
    BY <2>2 DEF Calls
  <2> HIDE DEF y
  <2>6. req[q] = x
    BY DEF x
  <2>7. QED
    BY <2>2, <2>3, <2>4, <2>5, <2>6 DEF SameCall
<1>4. req' \in [Requests -> Calls] /\ \A q \in Requests : SameCall(q)
  BY <1>1, <1>3
<1>5. DOMAIN actualState' = Hosts /\ \A k \in Hosts : HostTypes(k)'
  <2>1. \A k \in Hosts : actualState'[k] = actualState[k] \/ actualState'[k] = hostAgent[h]
    BY <1>1 DEF StartInv
  <2>2. \A k \in Hosts : HostTypes(k)'
    BY <1>1, <2>1 DEF StartInv, HostTypes
  <2>3. QED
    BY <1>1, <2>2 DEF StartInv
<1>6. TypesKept
  BY <1>1, <1>4, <1>5 DEF TypesKept, StartInv
<1>7. QED
  BY <1>1, <1>4, <1>6, RowsKept

LEMMA SideSteps ==
  ASSUME AdmissionConstants, StartInv,
         \/ Drain \/ Publish \/ RegistrySweep \/ UNCHANGED startVars
         \/ \E u \in Users : Revoke(u)
         \/ \E r \in Requests : Expire(r)
         \/ \E h \in Hosts : ApplyDesired(h) \/ \E r \in Requests : AgentStop(h, r)
  PROVE  StartInv'
<1>1. UNCHANGED <<req, run, quota, desiredState, actualState, rec>>
  BY DEF Drain, Publish, RegistrySweep, Revoke, Expire, ApplyDesired, AgentStop, startVars, rowVars,
         others
<1>2. reserve' = reserve \/ \E r \in Requests : reserve' = [reserve EXCEPT ![r] = "expired"]
  BY DEF Drain, Publish, RegistrySweep, Revoke, Expire, ApplyDesired, AgentStop, startVars, rowVars,
         others
<1>3. \/ access' = access
      \/ \E u \in Users : \E a \in {"content", "revoked"} : access' = [access EXCEPT ![u] = a]
  BY DEF Drain, Publish, RegistrySweep, Revoke, Expire, ApplyDesired, AgentStop, startVars, rowVars,
         others
<1>4. source' = source \/ source' = 2
  BY DEF Drain, Publish, RegistrySweep, Revoke, Expire, ApplyDesired, AgentStop, startVars, rowVars,
         others
<1>5. \/ hostAgent' = hostAgent
      \/ \E h \in Hosts : hostAgent' = [hostAgent EXCEPT ![h] =
           [applied |-> desiredState[h].version, vms |-> hostAgent[h].vms \cup desiredState[h].vms]]
      \/ \E h \in Hosts : \E r \in Requests :
           hostAgent' = [hostAgent EXCEPT ![h].vms = hostAgent[h].vms \ {r}]
  BY DEF Drain, Publish, RegistrySweep, Revoke, Expire, ApplyDesired, AgentStop, startVars, rowVars,
         others
<1>6. drained' \in BOOLEAN /\ sweeping' \in BOOLEAN
  <2>1. drained' \in {drained, TRUE} /\ (sweeping' = sweeping \/ RegistrySweep)
    BY DEF Drain, Publish, RegistrySweep, Revoke, Expire, ApplyDesired, AgentStop, startVars,
           rowVars, others
  <2>2. RegistrySweep => sweeping' \in BOOLEAN
    BY DEF RegistrySweep
  <2>3. QED
    BY <2>1, <2>2 DEF StartInv
<1>7. TypesKept
  <2>1. \A h \in Hosts : hostAgent'[h] \in Reports
    <3>1. CASE \E h \in Hosts : \E r \in Requests :
                 hostAgent' = [hostAgent EXCEPT ![h].vms = hostAgent[h].vms \ {r}]
      <4>1. PICK h \in Hosts, r \in Requests :
                   hostAgent' = [hostAgent EXCEPT ![h].vms = hostAgent[h].vms \ {r}]
        BY <3>1
      <4> DEFINE x == [hostAgent[h] EXCEPT !.vms = hostAgent[h].vms \ {r}]
      <4>2. hostAgent' = [hostAgent EXCEPT ![h] = x]
        BY <4>1
      <4>3. hostAgent[h] \in Reports
        BY DEF StartInv, HostTypes
      <4>4. x \in Reports
        BY <4>3 DEF Reports
      <4> HIDE DEF x
      <4>5. QED
        BY <4>2, <4>4 DEF StartInv, HostTypes
    <3>2. CASE \E h \in Hosts : hostAgent' = [hostAgent EXCEPT ![h] =
                 [applied |-> desiredState[h].version,
                  vms |-> hostAgent[h].vms \cup desiredState[h].vms]]
      <4>1. PICK h \in Hosts : hostAgent' = [hostAgent EXCEPT ![h] =
                 [applied |-> desiredState[h].version,
                  vms |-> hostAgent[h].vms \cup desiredState[h].vms]]
        BY <3>2
      <4> DEFINE x == [applied |-> desiredState[h].version,
                       vms |-> hostAgent[h].vms \cup desiredState[h].vms]
      <4>2. x \in Reports
        BY DEF StartInv, HostTypes, Docs, Reports
      <4>3. hostAgent' = [hostAgent EXCEPT ![h] = x]
        BY <4>1
      <4> HIDE DEF x
      <4>4. QED
        BY <4>2, <4>3 DEF StartInv, HostTypes
    <3>3. QED
      BY <1>5, <3>1, <3>2 DEF StartInv, HostTypes
  <2>2. DOMAIN hostAgent' = Hosts /\ reserve' \in [Requests -> ReserveStates]
    <3>1. DOMAIN hostAgent' = Hosts
      BY <1>5 DEF StartInv
    <3>2. reserve' \in [Requests -> ReserveStates]
      BY <1>2 DEF StartInv, ReserveStates
    <3>3. QED
      BY <3>1, <3>2
  <2>3. access' \in [Users -> {"full", "content", "revoked"}]
    BY <1>3 DEF StartInv
  <2>4. \A h \in Hosts : HostTypes(h)'
    BY <1>1, <2>1 DEF StartInv, HostTypes
  <2>5. QED
    BY <1>1, <1>4, <1>6, <2>2, <2>3, <2>4 DEF TypesKept, StartInv
<1>8. \A q \in Requests : SameCall(q)
  BY <1>1 DEF SameCall
<1>9. \A q \in Requests : reserve[q] # "none" => reserve'[q] # "none"
  BY <1>2 DEF StartInv
<1>10. QED
  BY <1>1, <1>7, <1>8, <1>9, RowsKept

(* The reconcile takes quotas away and never adds one. *)
LEMMA ReconcileKept ==
  ASSUME AdmissionConstants, StartInv, NEW h \in Hosts, ReconcileSteps(h)
  PROVE  StartInv'
<1>1. /\ "reconcile" \in Events
      /\ UNCHANGED <<req, run, desiredState, actualState, hostAgent, drained, access, source,
                     sweeping>>
  BY DEF ReconcileSteps, ReconcileRuns, ReconcileDesired, ReconcileActual, ReconcileReload,
         ReconcileRow, Reconcile, others
<1>2. /\ rec[h] \in Recs /\ desiredState[h] \in Docs /\ actualState[h] \in Reports
      /\ Charged(h) \in SUBSET Requests /\ IdleRec \in Recs
  BY DEF StartInv, HostTypes, Charged, IdleRec, Recs, Docs, Reports
<1>3. \E x \in Recs : rec' = [rec EXCEPT ![h] = x]
  <2>1. CASE ReconcileRuns(h)
    <3> DEFINE ended == {q \in Charged(h) : run[q].state # "provisioning"}
               x == [IdleRec EXCEPT !.pc = "desired", !.known = Charged(h), !.ended = ended]
    <3>1. rec' = [rec EXCEPT ![h] = x]
      BY <2>1 DEF ReconcileRuns, Reconcile
    <3>2. ended \in SUBSET Requests
      BY <1>2
    <3> HIDE DEF ended
    <3>3. x \in Recs
      BY <1>2, <3>2 DEF Recs
    <3> HIDE DEF x
    <3>4. QED
      BY <3>1, <3>3
  <2>2. CASE ReconcileDesired(h)
    <3> DEFINE x == [rec[h] EXCEPT !.pc = "actual", !.doc = desiredState[h]]
    <3>1. rec' = [rec EXCEPT ![h] = x]
      BY <2>2 DEF ReconcileDesired, Reconcile
    <3>2. x \in Recs
      BY <1>2 DEF Recs
    <3> HIDE DEF x
    <3>3. QED
      BY <3>1, <3>2
  <2>3. CASE ReconcileActual(h)
    <3> DEFINE x == [rec[h] EXCEPT !.pc = "reload", !.report = actualState[h]]
    <3>1. rec' = [rec EXCEPT ![h] = x]
      BY <2>3 DEF ReconcileActual, Reconcile
    <3>2. x \in Recs
      BY <1>2 DEF Recs
    <3> HIDE DEF x
    <3>3. QED
      BY <3>1, <3>2
  <2>4. CASE ReconcileReload(h)
    <3> DEFINE x == [rec[h] EXCEPT !.pc = "release", !.todo = Charged(h)]
    <3>1. rec' = [rec EXCEPT ![h] = x]
      BY <2>4 DEF ReconcileReload, Reconcile
    <3>2. x \in Recs
      BY <1>2 DEF Recs
    <3> HIDE DEF x
    <3>3. QED
      BY <3>1, <3>2
  <2>5. CASE ReconcileRow(h)
    <3>1. PICK r \in rec[h].todo :
            LET rest == rec[h].todo \ {r} IN
            Reconcile(h, "release", IF rest = {} THEN IdleRec ELSE [rec[h] EXCEPT !.todo = rest])
      BY <2>5 DEF ReconcileRow
    <3> DEFINE rest == rec[h].todo \ {r}
               x == [rec[h] EXCEPT !.todo = rest]
    <3>2. rec' = [rec EXCEPT ![h] = IdleRec] \/ rec' = [rec EXCEPT ![h] = x]
      BY <3>1 DEF Reconcile
    <3>3. x \in Recs
      BY <1>2 DEF Recs
    <3> HIDE DEF x
    <3>4. QED
      BY <1>2, <3>2, <3>3
  <2>6. QED
    BY <2>1, <2>2, <2>3, <2>4, <2>5 DEF ReconcileSteps
<1>4. \/ UNCHANGED <<quota, reserve>>
      \/ \E r \in Requests : \E s \in {"released", "committed", reserve[r]} :
           /\ quota' = [quota EXCEPT ![r] = FALSE] \/ quota' = quota
           /\ reserve' = [reserve EXCEPT ![r] = s]
  <2>1. CASE ReconcileRow(h)
    <3>1. PICK r \in rec[h].todo :
            IF Releasable(h, r)
            THEN /\ quota' = [quota EXCEPT ![r] = FALSE]
                 /\ reserve' = [reserve EXCEPT ![r] = "released"]
            ELSE /\ reserve' = [reserve EXCEPT ![r] =
                      IF reserve[r] \in {"pending", "expired"} THEN "committed" ELSE reserve[r]]
                 /\ UNCHANGED quota
      BY <2>1 DEF ReconcileRow
    <3>2. r \in Requests
      BY <1>2 DEF Recs
    <3>3. QED
      BY <3>1, <3>2
  <2>2. QED
    BY <2>1 DEF ReconcileSteps, ReconcileRuns, ReconcileDesired, ReconcileActual, ReconcileReload
<1>5. /\ quota' \in [Requests -> BOOLEAN] /\ reserve' \in [Requests -> ReserveStates]
      /\ \A q \in Requests : quota'[q] => quota[q]
      /\ \A q \in Requests : reserve[q] # "none" => reserve'[q] # "none"
  <2>1. quota \in [Requests -> BOOLEAN] /\ reserve \in [Requests -> ReserveStates]
    BY DEF StartInv
  <2>2. "released" \in ReserveStates /\ "committed" \in ReserveStates
    BY DEF ReserveStates
  <2>3. QED
    BY <1>4, <2>1, <2>2
<1>6. DOMAIN rec' = Hosts /\ \A k \in Hosts : HostTypes(k)'
  BY <1>1, <1>3 DEF StartInv, HostTypes
<1>7. TypesKept
  BY <1>1, <1>5, <1>6 DEF TypesKept, StartInv
<1>8. \A q \in Requests : SameCall(q)
  BY <1>1 DEF SameCall
<1>9. QED
  BY <1>1, <1>5, <1>7, <1>8, RowsKept

-----------------------------------------------------------------------------
(* A run leaves the state in which it boots: its row keeps its host, its    *)
(* VMs may leave the document, no quota is touched.                        *)
Undesired(r) ==
  LET h == run[r].host IN
  \/ desiredState' = desiredState
  \/ desiredState' = [desiredState EXCEPT ![h] = [version |-> desiredState[h].version + 1,
                                                vms |-> desiredState[h].vms \ {r}]]

CallOver(r) ==
  /\ req' \in [Requests -> Calls] /\ \A q \in Requests : q # r => SameCall(q)
  /\ \/ SameCall(r)
     \/ req'[r].pc = "done" /\ req'[r].answer \notin {"accepted", "reused"}

LEMMA RunLeaves ==
  ASSUME AdmissionConstants, StartInv, NEW r \in Requests, Exists(r), NEW x \in RunRows,
         run' = [run EXCEPT ![r] = x], x.host = run[r].host,
         x.state \notin {"none", "provisioning"}, x.slot => run[r].slot,
         UNCHANGED <<quota, reserve, actualState, hostAgent, rec, others>>,
         Undesired(r), CallOver(r)
  PROVE  StartInv'
<1> DEFINE h == run[r].host
           doc == [version |-> desiredState[h].version + 1, vms |-> desiredState[h].vms \ {r}]
<1>1. h \in Hosts /\ desiredState[h] \in Docs /\ run \in [Requests -> RunRows]
  BY DEF StartInv, RowSound, HostTypes
<1>2. doc \in Docs /\ doc.version > desiredState[h].version
  BY <1>1 DEF Docs
<1>3. run' \in [Requests -> RunRows] /\ run'[r] = x /\ \A q \in Requests : q # r => run'[q] = run[q]
  BY <1>1
<1>4. /\ DOMAIN desiredState' = Hosts
      /\ \A k \in Hosts : \/ desiredState'[k] = desiredState[k]
                          \/ k = h /\ desiredState'[k] = doc
  <2>1. desiredState' = desiredState \/ desiredState' = [desiredState EXCEPT ![h] = doc]
    BY DEF Undesired
  <2>2. DOMAIN desiredState = Hosts
    BY DEF StartInv
  <2> HIDE DEF h, doc
  <2>3. QED
    BY <1>1, <2>1, <2>2
<1>5. \A k \in Hosts : Charged(k)' = Charged(k)
  BY <1>3 DEF Charged
<1>6. RowsForward
  <2>1. \A q \in Requests : Exists(q) => Exists(q)' /\ run'[q].host = run[q].host
    BY <1>3 DEF Exists
  <2>2. \A k \in Hosts : \/ desiredState'[k] = desiredState[k] /\ Charged(k)' \subseteq Charged(k)
                         \/ desiredState'[k].version > desiredState[k].version
    BY <1>2, <1>4, <1>5
  <2>3. QED
    BY <2>1, <2>2 DEF RowsForward
<1>7. \A k \in Hosts : HostTypes(k)'
  BY <1>2, <1>4 DEF StartInv, HostTypes
<1>8. \A k \in Hosts : desiredState'[k] \in Docs
  BY <1>7 DEF HostTypes
<1>9. \A q \in Requests : SameCall(q) => CallSound(q)'
  BY <1>6, <1>8, CallKept DEF StartInv, SameCall
<1>10. req'[r].pc = "done" /\ req'[r].answer \notin {"accepted", "reused"} => CallSound(r)'
  BY DEF CallSound
<1>11. \A q \in Requests : CallSound(q)'
  BY <1>9, <1>10 DEF CallOver
<1>12. \A q \in Requests : RowSound(q)'
  <2>1. SUFFICES ASSUME NEW q \in Requests PROVE RowSound(q)'
    OBVIOUS
  <2>2. RowSound(q)
    BY DEF StartInv
  <2>3. CASE q = r
    BY <1>1, <1>3, <2>2, <2>3 DEF RowSound, Exists
  <2>4. CASE q # r
    <3>1. run'[q] = run[q]
      BY <1>3, <2>4
    <3>2. Exists(q) => (q \in desiredState[run[q].host].vms => q \in desiredState'[run[q].host].vms)
      BY <1>4, <2>2, <2>4 DEF RowSound
    <3>3. run[q].state = "provisioning" => Exists(q)
      BY DEF Exists
    <3>4. QED
      BY <2>2, <3>1, <3>2, <3>3 DEF RowSound, Exists
  <2>5. QED
    BY <2>3, <2>4
<1>13. OneOfKey'
  <2>1. \A q \in Requests : Exists(q)' => Exists(q)
    BY <1>3 DEF Exists
  <2>2. QED
    BY <2>1 DEF StartInv, OneOfKey
<1>14. OneInSlot'
  <2>1. \A q \in Requests : run'[q].slot => run[q].slot
    BY <1>3
  <2>2. QED
    BY <2>1 DEF StartInv, OneInSlot
<1>15. CpuNotOversold'
  BY <1>5 DEF StartInv, CpuNotOversold, Total
<1>16. QED
  BY <1>3, <1>4, <1>7, <1>11, <1>12, <1>13, <1>14, <1>15 DEF StartInv, CallOver, others

LEMMA EndSteps ==
  ASSUME AdmissionConstants, StartInv, NEW r \in Requests, EndRun(r) \/ RunEnds(r)
  PROVE  StartInv'
<1>1. /\ UNCHANGED <<req, quota, reserve, actualState, hostAgent, rec, others>>
      /\ Exists(r) /\ run[r] \in RunRows /\ run \in [Requests -> RunRows]
  BY DEF EndRun, RunEnds, Exists, StartInv
<1>2. CallOver(r)
  <2>1. req' \in [Requests -> Calls]
    BY <1>1 DEF StartInv
  <2>2. \A q \in Requests : SameCall(q)
    BY <1>1 DEF SameCall
  <2>3. QED
    BY <2>1, <2>2 DEF CallOver
<1>3. CASE EndRun(r)
  <2> DEFINE x == [run[r] EXCEPT !.state = "teardown"]
  <2>1. run' = [run EXCEPT ![r] = x]
    BY <1>1, <1>3 DEF EndRun, RunRows
  <2>2. x \in RunRows /\ x.host = run[r].host /\ x.state = "teardown" /\ x.slot = run[r].slot
    BY <1>1 DEF RunRows
  <2>3. Undesired(r)
    BY <1>3 DEF EndRun, Undesired
  <2> HIDE DEF x
  <2>4. QED
    BY <1>1, <1>2, <2>1, <2>2, <2>3, RunLeaves
<1>4. CASE RunEnds(r)
  <2> DEFINE x == [run[r] EXCEPT !.state = "ended", !.slot = FALSE]
  <2>1. run' = [run EXCEPT ![r] = x] /\ Undesired(r)
    BY <1>1, <1>4 DEF RunEnds, RunRows, Undesired
  <2>2. x \in RunRows /\ x.host = run[r].host /\ x.state = "ended" /\ ~x.slot
    BY <1>1 DEF RunRows
  <2> HIDE DEF x
  <2>3. QED
    BY <1>1, <1>2, <2>1, <2>2, RunLeaves
<1>5. QED
  BY <1>3, <1>4

(* The cancel of a run whose account was revoked inside the commit. *)
LEMMA CancelStep ==
  ASSUME AdmissionConstants, StartInv, NEW r \in Requests, CancelBatch(r)
  PROVE  StartInv'
<1> DEFINE h == run[r].host
           doc == req[r].doc
           next == [version |-> doc.version + 1, vms |-> doc.vms \ {r}]
<1>1. /\ UNCHANGED <<quota, reserve, actualState, hostAgent, rec, others>>
      /\ req[r].pc = "cancelBatch"
  BY DEF CancelBatch, At
<1>2. /\ req \in [Requests -> Calls] /\ req[r] \in Calls /\ run \in [Requests -> RunRows]
      /\ run[r] \in RunRows /\ Exists(r) /\ h \in Hosts /\ AsRead(doc, h)
  <2>1. req \in [Requests -> Calls] /\ run \in [Requests -> RunRows] /\ CallSound(r) /\ RowSound(r)
    BY DEF StartInv
  <2>2. QED
    BY <1>1, <2>1 DEF CallSound, RowSound
<1>3. CASE run' = Torn(r) /\ Refuse(r, "revoked") /\ Undesired(r)
  <2>1. CallOver(r)
    <3> DEFINE x == [req[r] EXCEPT !.pc = "done", !.guard = FALSE, !.answer = "revoked", !.of = r]
    <3>1. req' = [req EXCEPT ![r] = x]
      BY <1>2, <1>3 DEF Refuse, Answered, Calls
    <3>2. "done" \in Pcs /\ "revoked" \in Answers
      BY DEF Pcs, Answers
    <3>3. x \in Calls
      BY <1>2, <3>2 DEF Calls
    <3>4. x.pc = "done" /\ x.answer = "revoked"
      BY <1>2 DEF Calls
    <3> HIDE DEF x
    <3>5. /\ req' \in [Requests -> Calls] /\ req'[r] = x
          /\ \A q \in Requests : q # r => req'[q] = req[q]
      BY <1>2, <3>1, <3>3
    <3>6. \A q \in Requests : q # r => SameCall(q)
      BY <3>5 DEF SameCall
    <3>7. QED
      BY <3>4, <3>5, <3>6 DEF CallOver
  <2>2. CASE run[r].state = "provisioning"
    <3> DEFINE x == [run[r] EXCEPT !.state = "teardown"]
    <3>1. run' = [run EXCEPT ![r] = x]
      BY <1>2, <1>3, <2>2 DEF Torn, RunRows
    <3>2. x \in RunRows /\ x.host = run[r].host /\ x.state = "teardown" /\ x.slot = run[r].slot
      BY <1>2 DEF RunRows
    <3> HIDE DEF x
    <3>3. QED
      BY <1>1, <1>2, <1>3, <2>1, <3>1, <3>2, RunLeaves
  <2>3. CASE run[r].state # "provisioning"
    <3>1. run' = [run EXCEPT ![r] = run[r]]
      BY <1>2, <1>3, <2>3 DEF Torn
    <3>2. QED
      BY <1>1, <1>2, <1>3, <2>1, <2>3, <3>1, RunLeaves DEF Exists
  <2>4. QED
    BY <2>2, <2>3
<1>4. CASE UNCHANGED <<run, desiredState>> /\ Refuse(r, "contended")
  <2>1. Quiet
    BY <1>4 DEF CancelBatch, Quiet, rowVars
  <2>2. QED
    BY <1>4, <2>1, CallRefused DEF Answers
<1>5. CASE /\ UNCHANGED <<run, desiredState>> /\ req[r].attempt # Attempts
           /\ req' = [req EXCEPT ![r].pc = "cancel", ![r].attempt = req[r].attempt + 1]
  <2> DEFINE x == [req[r] EXCEPT !.pc = "cancel", !.attempt = req[r].attempt + 1]
  <2>1. Quiet
    BY <1>5 DEF CancelBatch, Quiet, rowVars
  <2>2. req' = [req EXCEPT ![r] = x]
    BY <1>2, <1>5 DEF Calls
  <2>3. x \in Calls /\ x.pc = "cancel" /\ x.answer = req[r].answer /\ x.of = req[r].of
    <3>1. "cancel" \in Pcs /\ req[r].attempt + 1 \in 1..Attempts
      BY <1>2, <1>5 DEF Calls, Pcs, AdmissionConstants
    <3>2. x \in Calls
      BY <1>2, <3>1 DEF Calls
    <3>3. x.pc = "cancel" /\ x.answer = req[r].answer /\ x.of = req[r].of
      BY <1>2 DEF Calls
    <3>4. QED
      BY <3>2, <3>3
  <2> HIDE DEF x
  <2>4. req' \in [Requests -> Calls] /\ req'[r] = x /\ \A q \in Requests : q # r => req'[q] = req[q]
    BY <1>2, <2>2, <2>3
  <2>5. CallSound(r) /\ UNCHANGED run
    BY <1>5 DEF StartInv
  <2>6. CallSound(r)'
    BY <1>2, <2>3, <2>4, <2>5 DEF CallSound, Exists
  <2>7. QED
    BY <2>1, <2>4, <2>6, CallStep
<1>6. desiredState[h].version = doc.version => next = [version |-> desiredState[h].version + 1,
                                                     vms |-> desiredState[h].vms \ {r}]
  BY <1>2 DEF AsRead
<1>7. \/ run' = Torn(r) /\ Refuse(r, "revoked") /\ desiredState' = desiredState
      \/ /\ run' = Torn(r) /\ Refuse(r, "revoked") /\ desiredState[h].version = doc.version
         /\ desiredState' = [desiredState EXCEPT ![h] = next]
      \/ UNCHANGED <<run, desiredState>> /\ Refuse(r, "contended")
      \/ /\ UNCHANGED <<run, desiredState>> /\ req[r].attempt # Attempts
         /\ req' = [req EXCEPT ![r].pc = "cancel", ![r].attempt = req[r].attempt + 1]
  BY DEF CancelBatch
<1>8. run' = Torn(r) /\ Refuse(r, "revoked") /\ desiredState' = desiredState => StartInv'
  BY <1>3 DEF Undesired
<1>9. ASSUME run' = Torn(r), Refuse(r, "revoked"), desiredState[h].version = doc.version,
             desiredState' = [desiredState EXCEPT ![h] = next]
      PROVE  StartInv'
  <2>1. Undesired(r)
    BY <1>6, <1>9 DEF Undesired
  <2>2. QED
    BY <1>3, <1>9, <2>1
<1>10. QED
  BY <1>4, <1>5, <1>7, <1>8, <1>9

(* The commit adds a run that fits: its version was the one it planned on, *)
(* so nothing was charged to the host since.                               *)
LEMMA CommitLands ==
  ASSUME AdmissionConstants, StartInv, NEW r \in Requests, At(r, "commit"),
         ByKey(r) = {}, ActiveRuns(UserOf[r]) = {}, CasLands(r), Committed(r, TRUE),
         UNCHANGED <<actualState, hostAgent, rec, others>>
  PROVE  StartInv'
<1>0. PICK h \in Hosts : h = req[r].host
  BY DEF StartInv, CallSound, At
<1> DEFINE started == [state |-> "provisioning", host |-> h, slot |-> TRUE]
           doc == [version |-> req[r].doc.version + 1, vms |-> req[r].doc.vms \cup {r}]
           x == [req[r] EXCEPT !.pc = "fence"]
<1>1. /\ req \in [Requests -> Calls] /\ run \in [Requests -> RunRows]
      /\ DOMAIN desiredState = Hosts /\ quota \in [Requests -> BOOLEAN]
      /\ reserve \in [Requests -> ReserveStates] /\ CallSound(r) /\ RowSound(r)
      /\ UNCHANGED <<actualState, hostAgent, rec, drained, access, source, sweeping>>
  BY DEF StartInv, others
<1>2. req[r] \in Calls /\ req[r].pc = "commit" /\ req[r].doc \in Docs
  BY <1>1 DEF At, Calls
<1>3. /\ h \in Hosts /\ req[r].doc.version = desiredState[h].version
      /\ req[r].doc.vms = desiredState[h].vms /\ Fits(r, h)
  BY <1>0, <1>1, <1>2 DEF CallSound, CasLands, AsRead
<1>4. ~Exists(r) /\ ~quota[r] /\ ~run[r].slot
  BY <1>1 DEF ByKey, Exists, RowSound
<1>5. /\ run' = [run EXCEPT ![r] = started] /\ quota' = [quota EXCEPT ![r] = TRUE]
      /\ reserve' = [reserve EXCEPT ![r] = "pending"]
      /\ desiredState' = [desiredState EXCEPT ![h] = doc]
  BY <1>0 DEF Committed, RunInserted, QuotaInserted, ReservationInserted
<1>6. req' = [req EXCEPT ![r] = x] /\ x \in Calls /\ x.pc = "fence"
      /\ x.answer = req[r].answer /\ x.of = req[r].of
  BY <1>1, <1>2 DEF Committed, Step, Calls, Pcs
<1>7. started \in RunRows /\ started.state = "provisioning" /\ started.host = h /\ started.slot
  BY <1>3 DEF RunRows
<1>8. doc \in Docs /\ doc.version > desiredState[h].version /\ r \in doc.vms
      /\ desiredState[h].vms \subseteq doc.vms
  BY <1>2, <1>3 DEF Docs
<1> HIDE DEF started, doc, x
<1>9. /\ run' \in [Requests -> RunRows] /\ run'[r] = started /\ quota'[r] /\ reserve'[r] = "pending"
      /\ \A q \in Requests : q # r => /\ run'[q] = run[q] /\ quota'[q] = quota[q]
                                      /\ reserve'[q] = reserve[q]
      /\ quota' \in [Requests -> BOOLEAN] /\ reserve' \in [Requests -> ReserveStates]
  <2>1. "pending" \in ReserveStates
    BY DEF ReserveStates
  <2>2. QED
    BY <1>1, <1>5, <1>7, <2>1
<1>10. /\ desiredState'[h] = doc /\ DOMAIN desiredState' = Hosts
       /\ \A k \in Hosts : k # h => desiredState'[k] = desiredState[k]
  BY <1>1, <1>3, <1>5
<1>11. /\ req' \in [Requests -> Calls] /\ req'[r] = x
       /\ \A q \in Requests : q # r => req'[q] = req[q]
  BY <1>1, <1>6
<1>12. \A k \in Hosts : k # h => Charged(k)' = Charged(k)
  BY <1>4, <1>7, <1>9 DEF Charged
<1>13. Charged(h)' = Charged(h) \cup {r} /\ r \notin Charged(h)
  BY <1>4, <1>7, <1>9 DEF Charged
<1>14. RowsForward
  <2>1. \A q \in Requests : Exists(q) => Exists(q)' /\ run'[q].host = run[q].host
    BY <1>4, <1>9 DEF Exists
  <2>2. \A k \in Hosts : \/ desiredState'[k] = desiredState[k] /\ Charged(k)' \subseteq Charged(k)
                         \/ desiredState'[k].version > desiredState[k].version
    BY <1>8, <1>10, <1>12
  <2>3. QED
    BY <2>1, <2>2 DEF RowsForward
<1>15. \A k \in Hosts : HostTypes(k)'
  BY <1>1, <1>8, <1>10 DEF StartInv, HostTypes
<1>16. \A q \in Requests : CallSound(q)'
  <2>1. \A k \in Hosts : desiredState'[k] \in Docs
    BY <1>15 DEF HostTypes
  <2>2. \A q \in Requests : q # r => CallSound(q)'
    BY <1>11, <1>14, <2>1, CallKept DEF StartInv
  <2>3. x.answer \in {"accepted", "reused"} =>
          run'[x.of].state # "none" /\ UserOf[x.of] = UserOf[r] /\ KeyOf[x.of] = KeyOf[r]
    BY <1>1, <1>6, <1>14 DEF CallSound, RowsForward, Exists, Calls
  <2>4. run'[r].state # "none"
    BY <1>7, <1>9
  <2>5. CallSound(r)'
    BY <1>6, <1>11, <2>3, <2>4 DEF CallSound, Exists
  <2>6. QED
    BY <2>2, <2>5
<1>17. \A q \in Requests : RowSound(q)'
  <2>1. RowSound(r)'
    BY <1>3, <1>7, <1>8, <1>9, <1>10 DEF RowSound, Exists
  <2>2. ASSUME NEW q \in Requests, q # r PROVE RowSound(q)'
    <3>1. RowSound(q)
      BY DEF StartInv
    <3>2. run[q].state = "provisioning" => run[q].host \in Hosts
      BY <3>1 DEF RowSound, Exists
    <3>3. run[q].state = "provisioning" =>
            (q \in desiredState[run[q].host].vms => q \in desiredState'[run[q].host].vms)
      BY <1>8, <1>10, <3>2
    <3>4. QED
      BY <1>9, <2>2, <3>1, <3>3 DEF RowSound, Exists
  <2>3. QED
    BY <2>1, <2>2
<1>18. OneOfKey'
  <2>1. \A q \in Requests : Exists(q)' => Exists(q) \/ q = r
    BY <1>9 DEF Exists
  <2>2. \A q \in Requests : Exists(q) => UserOf[q] # UserOf[r] \/ KeyOf[q] # KeyOf[r]
    BY DEF ByKey, Exists
  <2>3. QED
    BY <2>1, <2>2 DEF StartInv, OneOfKey
<1>19. OneInSlot'
  <2>1. \A q \in Requests : run'[q].slot => run[q].slot \/ q = r
    BY <1>9
  <2>2. \A q \in Requests : run[q].slot => UserOf[q] # UserOf[r]
    BY DEF ActiveRuns
  <2>3. QED
    BY <2>1, <2>2 DEF StartInv, OneInSlot
<1>20. CpuNotOversold'
  <2>1. \A k \in Hosts : k # h => SumFunctionOnSet(Cpu, Charged(k)') <= Capacity[k]
    BY <1>12 DEF StartInv, CpuNotOversold, Total
  <2>2. SumFunctionOnSet(Cpu, Charged(h)') <= Capacity[h]
    <3> DEFINE S == Charged(h) \cup {r}
    <3>1. IsFiniteSet(S) /\ (\A q \in S : Cpu[q] \in Nat) /\ r \in S /\ S \ {r} = Charged(h)
      <4>1. S \subseteq Requests
        BY DEF Charged
      <4>2. IsFiniteSet(S)
        BY <4>1, FS_Subset DEF AdmissionConstants
      <4>3. QED
        BY <1>13, <4>1, <4>2 DEF AdmissionConstants
    <3>2. Charged(h)' = S
      BY <1>13
    <3> HIDE DEF S
    <3>3. /\ SumFunctionOnSet(Cpu, S) = Cpu[r] + SumFunctionOnSet(Cpu, S \ {r})
          /\ SumFunctionOnSet(Cpu, S) \in Nat
      BY <3>1, SumProperties
    <3>4. SumFunctionOnSet(Cpu, Charged(h)) + Cpu[r] <= Capacity[h]
      BY <1>3 DEF Fits, Total
    <3>5. SumFunctionOnSet(Cpu, Charged(h)) \in Nat /\ Cpu[r] \in Nat /\ Capacity[h] \in Nat
      <4>1. Charged(h) \subseteq Requests /\ Charged(h) \subseteq Charged(h)
        BY DEF Charged
      <4>2. SumFunctionOnSet(Cpu, Charged(h)) \in Nat
        BY <4>1, TotalMonotone DEF Total
      <4>3. QED
        BY <4>2 DEF AdmissionConstants
    <3>6. SumFunctionOnSet(Cpu, S \ {r}) = SumFunctionOnSet(Cpu, Charged(h))
      BY <3>1
    <3>7. SumFunctionOnSet(Cpu, S) <= Capacity[h]
      BY <3>3, <3>4, <3>5, <3>6
    <3>8. QED
      BY <3>2, <3>7
  <2>3. QED
    BY <2>1, <2>2 DEF CpuNotOversold, Total
<1>21. QED
  BY <1>1, <1>9, <1>10, <1>11, <1>15, <1>16, <1>17, <1>18, <1>19, <1>20 DEF StartInv

LEMMA CommitStep ==
  ASSUME AdmissionConstants, StartInv, NEW r \in Requests, CommitAdmissionBatch(r)
  PROVE  StartInv'
<1>1. At(r, "commit") /\ UNCHANGED <<actualState, hostAgent, rec, others>>
  BY DEF CommitAdmissionBatch
<1>2. \/ \E pc \in {"lost", "refused", "clash"} : Step(r, pc) /\ UNCHANGED rowVars
      \/ /\ ByKey(r) = {} /\ ActiveRuns(UserOf[r]) = {} /\ CasLands(r)
         /\ Committed(r, TRUE)
  BY DEF CommitAdmissionBatch
<1>3. CASE \E pc \in {"lost", "refused", "clash"} : Step(r, pc) /\ UNCHANGED rowVars
  <2>1. PICK pc \in {"lost", "refused", "clash"} : Step(r, pc) /\ UNCHANGED rowVars
    BY <1>3
  <2>2. Quiet /\ pc \in Pcs
    BY <1>1, <2>1 DEF Quiet, Pcs
  <2>3. QED
    BY <2>1, <2>2, CallStepped
<1>4. CASE ByKey(r) = {} /\ ActiveRuns(UserOf[r]) = {} /\ CasLands(r) /\ Committed(r, TRUE)
  BY <1>1, <1>4, CommitLands
<1>5. QED
  BY <1>2, <1>3, <1>4

-----------------------------------------------------------------------------
LEMMA StartInvInit ==
  ASSUME AdmissionConstants, StartInit PROVE StartInv
<1>1. /\ \A r \in Requests : /\ req[r].pc = "begin" /\ req[r].answer = "none"
                             /\ run[r].state = "none" /\ ~run[r].slot /\ ~quota[r]
      /\ \A h \in Hosts : Charged(h) = {}
  BY DEF StartInit, NoRun, Charged
<1>2. req \in [Requests -> Calls]
  <2> DEFINE x(r) == [pc |-> "begin", guard |-> FALSE, source |-> 0, host |-> NoHost,
        doc |-> [version |-> 0, vms |-> {}], fresh |-> FALSE, tried |-> {}, attempt |-> 1,
        answer |-> "none", of |-> r]
  <2>1. req = [r \in Requests |-> x(r)]
    BY DEF StartInit
  <2>2. /\ "begin" \in Pcs /\ "none" \in Answers /\ [version |-> 0, vms |-> {}] \in Docs
        /\ 1 \in 1..Attempts
    BY DEF Pcs, Answers, Docs, AdmissionConstants
  <2>3. \A r \in Requests : x(r) \in Calls
    BY <2>2 DEF Calls
  <2> HIDE DEF x
  <2>4. QED
    BY <2>1, <2>3
<1>3. run \in [Requests -> RunRows]
  BY DEF StartInit, NoRun, RunRows
<1>4. \A h \in Hosts : HostTypes(h)
  <2>1. IdleRec \in Recs
    BY DEF IdleRec, Recs, Docs, Reports
  <2>2. \A h \in Hosts : desiredState[h] \in Docs
    BY DEF StartInit, Docs
  <2>3. \A h \in Hosts : actualState[h] \in Reports /\ hostAgent[h] \in Reports
    BY DEF StartInit, Reports
  <2>4. \A h \in Hosts : rec[h] \in Recs
    BY <2>1 DEF StartInit
  <2>5. QED
    BY <2>2, <2>3, <2>4 DEF HostTypes
<1>5. \A r \in Requests : CallSound(r)
  BY <1>1 DEF CallSound
<1>6. \A r \in Requests : RowSound(r)
  BY <1>1 DEF RowSound, Exists
<1>7. OneOfKey /\ OneInSlot
  BY <1>1 DEF OneOfKey, OneInSlot, Exists
<1>8. CpuNotOversold
  <2>1. SumFunctionOnSet(Cpu, {}) = 0
    <3>1. IsFiniteSet({}) /\ Units(Cpu, {}) = {}
      BY FS_EmptySet DEF Units
    <3>2. SumFunctionOnSet(Cpu, {}) = Cardinality(Units(Cpu, {}))
      BY <3>1, SumIsUnits
    <3>3. QED
      BY <3>1, <3>2, FS_EmptySet
  <2>2. \A h \in Hosts : Capacity[h] \in Nat
    BY DEF AdmissionConstants
  <2>3. QED
    BY <1>1, <2>1, <2>2 DEF CpuNotOversold, Total
<1>9. /\ quota \in [Requests -> BOOLEAN] /\ reserve \in [Requests -> ReserveStates]
      /\ drained \in BOOLEAN /\ sweeping \in BOOLEAN
      /\ DOMAIN desiredState = Hosts /\ DOMAIN actualState = Hosts /\ DOMAIN hostAgent = Hosts
      /\ DOMAIN rec = Hosts
      /\ access \in [Users -> {"full", "content", "revoked"}] /\ source \in Nat
  BY DEF StartInit, ReserveStates
<1>10. QED
  BY <1>2, <1>3, <1>4, <1>5, <1>6, <1>7, <1>8, <1>9 DEF StartInv

LEMMA StartInvStep ==
  ASSUME AdmissionConstants, StartInv, [StartNext]_startVars PROVE StartInv'
<1>1. ASSUME NEW r \in Requests, StartSteps(r) \/ Crash(r) PROVE StartInv'
  <2>1. CASE \/ Begin(r) \/ ReadSource(r) \/ LookupKey(r) \/ BuildRun(r) \/ PrepareImages(r)
             \/ SelectHosts(r) \/ PlanFails(r) \/ Clash(r) \/ Refused(r) \/ Lost(r) \/ Crash(r)
    BY <2>1, EarlySteps
  <2>2. CASE (\E h \in Hosts : ReadDesired(r, h)) \/ ReadLedger(r) \/ RecheckGate(r)
    BY <2>2, PlanSteps
  <2>3. CASE Fence(r) \/ CancelRead(r)
    BY <2>3, LateSteps
  <2>4. CASE CancelBatch(r)
    BY <2>4, CancelStep
  <2>5. CASE CommitAdmissionBatch(r)
    BY <2>5, CommitStep
  <2>6. QED
    BY <1>1, <2>1, <2>2, <2>3, <2>4, <2>5 DEF StartSteps
<1>2. ASSUME NEW r \in Requests, EndRun(r) \/ RunEnds(r) PROVE StartInv'
  BY <1>2, EndSteps
<1>3. ASSUME NEW h \in Hosts, ReconcileSteps(h) PROVE StartInv'
  BY <1>3, ReconcileKept
<1>4. ASSUME NEW h \in Hosts, Offline(h) \/ StateReport(h) PROVE StartInv'
  BY <1>4, StaleSteps
<1>5. CASE \/ Drain \/ Publish \/ RegistrySweep \/ UNCHANGED startVars
           \/ \E u \in Users : Revoke(u)
           \/ \E r \in Requests : Expire(r)
           \/ \E h \in Hosts : ApplyDesired(h) \/ \E r \in Requests : AgentStop(h, r)
  BY <1>5, SideSteps
<1>6. QED
  BY <1>1, <1>2, <1>3, <1>4, <1>5 DEF StartNext, AgentSteps

(* What StartInv says of an observer. *)
LEMMA StartInvSound ==
  ASSUME StartInv
  PROVE  /\ StartTypes /\ CpuNotOversold /\ KeyNamesOneRun
         /\ "reconcile" \notin Events => AdmissionIsWhole
<1>1. KeyNamesOneRun
  <2>1. \A r \in Requests : req[r].answer \in {"accepted", "reused"} =>
          /\ req[r].of \in Requests /\ Exists(req[r].of)
          /\ UserOf[req[r].of] = UserOf[r] /\ KeyOf[req[r].of] = KeyOf[r]
    BY DEF StartInv, CallSound, Calls
  <2>2. QED
    BY <2>1 DEF KeyNamesOneRun, StartInv, OneOfKey
<1>2. ASSUME "reconcile" \notin Events PROVE AdmissionIsWhole
  <2>1. SUFFICES ASSUME NEW r \in Requests, run[r].state = "provisioning"
                 PROVE  /\ r \in desiredState[run[r].host].vms /\ quota[r] /\ reserve[r] # "none"
                        /\ ActiveRuns(UserOf[r]) = {r}
    BY DEF AdmissionIsWhole
  <2>2. /\ r \in desiredState[run[r].host].vms /\ quota[r] /\ reserve[r] # "none" /\ run[r].slot
    BY <1>2, <2>1 DEF StartInv, RowSound
  <2>3. \A q \in Requests : run[q].slot /\ UserOf[q] = UserOf[r] => q = r
    BY <2>2 DEF StartInv, OneInSlot
  <2>4. QED
    BY <2>2, <2>3 DEF ActiveRuns
<1>3. StartTypes
  <2>1. \A r \in Requests : req[r] \in Calls /\ run[r] \in RunRows /\ reserve[r] \in ReserveStates
    BY DEF StartInv
  <2>2. \A h \in Hosts :
          desiredState[h] \in Docs /\ hostAgent[h] \in Reports /\ actualState[h] \in Reports
    BY DEF StartInv, HostTypes
  <2>3. \A r \in Requests :
          /\ req[r].host \in Hosts \cup {NoHost} /\ req[r].of \in Requests
          /\ req[r].attempt \in 1..Attempts /\ req[r].tried \subseteq Hosts
    BY <2>1 DEF Calls
  <2>4. \A r \in Requests :
          /\ run[r].state \in {"none", "provisioning", "teardown", "ended"}
          /\ run[r].host \in Hosts \cup {NoHost} /\ run[r].slot \in BOOLEAN
          /\ reserve[r] \in {"none", "pending", "expired", "committed", "released"}
    BY <2>1 DEF RunRows, ReserveStates
  <2>5. \A h \in Hosts : /\ desiredState[h].version \in Nat /\ hostAgent[h].applied \in Nat
                          /\ desiredState[h].vms \cup hostAgent[h].vms \subseteq Requests
                          /\ actualState[h].vms \subseteq Requests
    BY <2>2 DEF Docs, Reports
  <2>6. QED
    BY <2>3, <2>4, <2>5 DEF StartTypes, StartInv
<1>4. QED
  BY <1>1, <1>2, <1>3 DEF StartInv

(* AdmissionSound, for any number of starts, users and hosts: whatever     *)
(* starts race each other, are retried, revoked, abandoned or told to end, *)
(* the quotas of a host fit its CPU, a key names one run, and a run, its   *)
(* desired VMs, its quota and its slot exist together.  The reconcile is    *)
(* left out: it may release the quota of a run committed between its two   *)
(* reads of the reservations.                                              *)
THEOREM AdmissionCorrect ==
  ASSUME AdmissionConstants, "reconcile" \notin Events
  PROVE  StartSpec => []AdmissionSound
<1>1. StartInit => StartInv
  BY StartInvInit
<1>2. StartInv /\ [StartNext]_startVars => StartInv'
  BY StartInvStep
<1>3. StartInv => AdmissionSound
  BY StartInvSound DEF AdmissionSound
<1>4. QED
  BY <1>1, <1>2, <1>3, PTL DEF StartSpec

(* The quotas fit the CPU and a key names one run with the reconcile and   *)
(* every other actor at work.                                              *)
THEOREM StartsCorrect ==
  ASSUME AdmissionConstants PROVE StartSpec => [](StartTypes /\ CpuNotOversold /\ KeyNamesOneRun)
<1>1. StartInit => StartInv
  BY StartInvInit
<1>2. StartInv /\ [StartNext]_startVars => StartInv'
  BY StartInvStep
<1>3. StartInv => StartTypes /\ CpuNotOversold /\ KeyNamesOneRun
  BY StartInvSound
<1>4. QED
  BY <1>1, <1>2, <1>3, PTL DEF StartSpec

-----------------------------------------------------------------------------
(* What a call is told, as a step moves it. *)
Told(r, a) == req'[r].answer = a /\ \A q \in Requests : q # r => req'[q].answer = req[q].answer
Untold == \A q \in Requests : req'[q].answer = req[q].answer

LEMMA AnswerTold ==
  ASSUME StartInv, NEW r \in Requests
  PROVE  /\ \A a, q : Answered(r, a, q) => Told(r, a)
         /\ \A a : Refuse(r, a) => Told(r, a)
         /\ Replay(r) => Told(r, "reused") \/ Told(r, "key_conflict")
         /\ \A pc : Step(r, pc) => Untold
<1>1. req \in [Requests -> Calls]
  BY DEF StartInv
<1>2. ASSUME NEW a, NEW q, Answered(r, a, q) PROVE Told(r, a)
  BY <1>1, <1>2 DEF Answered, Told, Calls
<1>3. ASSUME NEW a, Refuse(r, a) PROVE Told(r, a)
  BY <1>2, <1>3 DEF Refuse
<1>4. ASSUME Replay(r) PROVE Told(r, "reused") \/ Told(r, "key_conflict")
  BY <1>2, <1>3, <1>4 DEF Replay
<1>5. ASSUME NEW pc, Step(r, pc) PROVE Untold
  BY <1>1, <1>5 DEF Step, Untold, Calls
<1>6. QED
  BY <1>2, <1>3, <1>4, <1>5

(* A start says "active_run" only when it finds no run of its key. *)
LEMMA StartTells ==
  ASSUME AdmissionConstants, StartInv, NEW r \in Requests, StartSteps(r) \/ Crash(r)
  PROVE  \/ Untold
         \/ \E a \in Answers : Told(r, a) /\ (a = "active_run" => ByKey(r) = {})
<1> DEFINE Goal == Untold \/ \E a \in Answers : Told(r, a) /\ (a = "active_run" => ByKey(r) = {})
<1>1. req \in [Requests -> Calls] /\ req[r] \in Calls
  BY DEF StartInv
<1>2. access[UserOf[r]] \in {"full", "content", "revoked"}
  BY DEF StartInv, AdmissionConstants
<1>3. ASSUME NEW a \in Answers, Refuse(r, a), a = "active_run" => ByKey(r) = {} PROVE Goal
  BY <1>3, AnswerTold
<1>4. ASSUME NEW pc \in Pcs, Step(r, pc) PROVE Goal
  BY <1>4, AnswerTold
<1>5. Replay(r) => Goal
  BY AnswerTold DEF Answers
<1>6. Answered(r, "accepted", r) => Goal
  BY AnswerTold DEF Answers
<1>7. Untold => Goal
  OBVIOUS
<1> SUFFICES Goal
  OBVIOUS
<1> HIDE DEF Goal
<1>8. CASE Begin(r)
  <2>1. CASE drained \/ sweeping
    BY <1>3, <1>8, <2>1 DEF Begin, Answers
  <2>2. CASE ~drained /\ ~sweeping
    <3>1. req' = [req EXCEPT ![r].pc = "read", ![r].guard = TRUE]
      BY <1>8, <2>2 DEF Begin
    <3>2. QED
      BY <1>1, <1>7, <3>1 DEF Untold, Calls
  <2>3. QED
    BY <2>1, <2>2
<1>9. CASE ReadSource(r) \/ CancelRead(r) \/ Crash(r) \/ ReadLedger(r)
      \/ \E h \in Hosts : ReadDesired(r, h)
  <2>1. CASE ReadSource(r)
    BY <1>1, <1>7, <2>1 DEF Untold, Calls, ReadSource
  <2>2. CASE CancelRead(r)
    BY <1>1, <1>7, <2>2 DEF Untold, Calls, CancelRead
  <2>3. CASE Crash(r)
    BY <1>1, <1>7, <2>3 DEF Untold, Calls, Crash
  <2>4. CASE ReadLedger(r)
    BY <1>1, <1>7, <2>4 DEF Untold, Calls, ReadLedger
  <2>5. CASE \E h \in Hosts : ReadDesired(r, h)
    BY <1>1, <1>7, <2>5 DEF Untold, Calls, ReadDesired
  <2>6. QED
    BY <1>9, <2>1, <2>2, <2>3, <2>4, <2>5
<1>10. CASE LookupKey(r)
  <2>1. CASE access[UserOf[r]] # "full"
    BY <1>2, <1>3, <1>10, <2>1 DEF LookupKey, Answers
  <2>2. CASE access[UserOf[r]] = "full"
    BY <1>3, <1>4, <1>5, <1>10, <2>2 DEF LookupKey, Answers, Pcs
  <2>3. QED
    BY <2>1, <2>2
<1>11. CASE BuildRun(r) \/ PrepareImages(r) \/ RecheckGate(r) \/ PlanFails(r)
  <2>1. CASE BuildRun(r)
    BY <1>3, <1>4, <2>1 DEF BuildRun, Answers, Pcs
  <2>2. CASE PrepareImages(r)
    BY <1>3, <1>4, <1>5, <2>2 DEF PrepareImages, Answers, Pcs
  <2>3. CASE RecheckGate(r)
    BY <1>3, <1>4, <2>3 DEF RecheckGate, Answers, Pcs
  <2>4. CASE PlanFails(r)
    BY <1>3, <2>4 DEF PlanFails, Answers
  <2>5. QED
    BY <1>11, <2>1, <2>2, <2>3, <2>4
<1>12. CASE SelectHosts(r)
  <2> DEFINE rest == Hosts \ {h \in Hosts : Eligible(h) /\ FitsGeneric(r, h)}
  <2>1. \/ Refuse(r, "host_unavailable")
        \/ req' = [req EXCEPT ![r].pc = "plan", ![r].tried = rest]
    BY <1>12 DEF SelectHosts
  <2> HIDE DEF rest
  <2>2. req' = [req EXCEPT ![r].pc = "plan", ![r].tried = rest] => Untold
    BY <1>1 DEF Untold, Calls
  <2>3. QED
    BY <1>3, <1>7, <2>1, <2>2 DEF Answers
<1>13. CASE CommitAdmissionBatch(r)
  <2>1. \E pc \in {"lost", "refused", "clash", "fence"} : Step(r, pc)
    BY <1>13 DEF CommitAdmissionBatch, Committed
  <2>2. QED
    BY <1>4, <2>1 DEF Pcs
<1>14. CASE Clash(r) \/ Refused(r)
  <2>1. CASE Clash(r)
    BY <1>3, <1>5, <2>1 DEF Clash, Answers
  <2>2. CASE Refused(r)
    BY <1>3, <2>2 DEF Refused, Answers
  <2>3. QED
    BY <1>14, <2>1, <2>2
<1>15. CASE Lost(r) \/ CancelBatch(r)
  <2> DEFINE n == req[r].attempt + 1
  <2>1. \/ \E a \in {"drained", "revoked", "source_changed", "content", "contended"} : Refuse(r, a)
        \/ req' = [req EXCEPT ![r].pc = "select", ![r].tried = {}, ![r].fresh = FALSE,
                              ![r].attempt = n]
        \/ req' = [req EXCEPT ![r].pc = "cancel", ![r].attempt = n]
    BY <1>15 DEF Lost, CancelBatch
  <2> HIDE DEF n
  <2>2. \/ req' = [req EXCEPT ![r].pc = "select", ![r].tried = {}, ![r].fresh = FALSE,
                              ![r].attempt = n]
        \/ req' = [req EXCEPT ![r].pc = "cancel", ![r].attempt = n]
        => Untold
    BY <1>1 DEF Untold, Calls
  <2>3. QED
    BY <1>3, <1>7, <2>1, <2>2 DEF Answers
<1>16. CASE Fence(r)
  <2>1. \/ Answered(r, "accepted", r)
        \/ req' = [req EXCEPT ![r].pc = "cancel", ![r].attempt = 1]
    BY <1>16 DEF Fence
  <2>2. ASSUME req' = [req EXCEPT ![r].pc = "cancel", ![r].attempt = 1] PROVE Untold
    BY <1>1, <2>2 DEF Untold, Calls
  <2>3. QED
    BY <1>6, <1>7, <2>1, <2>2
<1>17. QED
  BY <1>8, <1>9, <1>10, <1>11, <1>12, <1>13, <1>14, <1>15, <1>16 DEF StartSteps

LEMMA OthersTellNothing ==
  ASSUME StartInv, [StartNext]_startVars,
         ~\E r \in Requests : StartSteps(r) \/ Crash(r)
  PROVE  Untold
<1>1. req \in [Requests -> Calls]
  BY DEF StartInv
<1>2. ASSUME NEW h \in Hosts,
             req' = [r \in Requests |-> IF req[r].host = h THEN [req[r] EXCEPT !.fresh = FALSE]
                                        ELSE req[r]]
      PROVE  Untold
  BY <1>1, <1>2 DEF Untold, Calls
<1>3. UNCHANGED req => Untold
  BY DEF Untold
<1>4. ASSUME NEW h \in Hosts, ReconcileSteps(h) PROVE UNCHANGED req
  BY <1>4 DEF ReconcileSteps, ReconcileRuns, ReconcileDesired, ReconcileActual, ReconcileReload,
              ReconcileRow, Reconcile
<1>5. ASSUME NEW h \in Hosts, AgentSteps(h) \/ Offline(h) PROVE Untold
  BY <1>2, <1>3, <1>5 DEF AgentSteps, ApplyDesired, StateReport, AgentStop, Offline
<1>6. ASSUME NEW r \in Requests, Expire(r) \/ EndRun(r) \/ RunEnds(r) PROVE UNCHANGED req
  BY <1>6 DEF Expire, EndRun, RunEnds
<1>7. CASE Drain \/ Publish \/ RegistrySweep \/ (\E u \in Users : Revoke(u)) \/ UNCHANGED startVars
  BY <1>3, <1>7 DEF Drain, Publish, RegistrySweep, Revoke, startVars
<1>8. QED
  BY <1>3, <1>4, <1>5, <1>6, <1>7 DEF StartNext

(* A retried start is never answered with "you already have an active run" *)
(* while the run of its own key exists, whatever the others do between its *)
(* reads: the index that refused it is read again before the answer.       *)
THEOREM RetryCorrect ==
  ASSUME AdmissionConstants PROVE StartSpec => RetryIsNotAConflict
<1>1. StartInit => StartInv
  BY StartInvInit
<1>2. StartInv /\ [StartNext]_startVars => StartInv'
  BY StartInvStep
<1>3. ASSUME StartInv, [StartNext]_startVars PROVE RetryIsNotAConflictStep
  <2>1. CASE \E r \in Requests : StartSteps(r) \/ Crash(r)
    <3>1. PICK r \in Requests : StartSteps(r) \/ Crash(r)
      BY <2>1
    <3>2. Untold \/ \E a \in Answers : Told(r, a) /\ (a = "active_run" => ByKey(r) = {})
      BY <1>3, <3>1, StartTells
    <3>3. QED
      BY <3>2 DEF RetryIsNotAConflictStep, Untold, Told
  <2>2. CASE ~\E r \in Requests : StartSteps(r) \/ Crash(r)
    BY <1>3, <2>2, OthersTellNothing DEF RetryIsNotAConflictStep, Untold
  <2>3. QED
    BY <2>1, <2>2
<1>4. QED
  BY <1>1, <1>2, <1>3, PTL DEF StartSpec, RetryIsNotAConflict

-----------------------------------------------------------------------------
(* Image promotion.  An attempt only moves forward: its identity, then its  *)
(* phase, then its detail.  So a compare-and-set on an attempt that was read *)
(* succeeds only if the attempt stood there all along.                      *)
Rank(phase) ==
  IF phase = "none" THEN 0 ELSE IF phase = "waiting" THEN 1 ELSE IF phase = "drained" THEN 2
  ELSE IF phase = "promoting" THEN 3 ELSE IF phase = "cleaning" THEN 4
  ELSE IF phase = "verifying" THEN 5 ELSE 6

Stamp(g) == 16 * g.id + 2 * Rank(g.phase) + (IF g.det THEN 1 ELSE 0)

IsAttempt(g) ==
  g \in [id : Nat, rev : {g.rev}, origin : {g.origin},
         phase : HOLDING \cup ENDED \cup {"waiting", "none"}, det : BOOLEAN]

FleetEmpty(rs) == \A x \in Runs : rs[x].st = "none"

(* What a tick knows: the phase of the attempt it read, and at its commit    *)
(* that no run is left if the attempt still stands and replaces an image.    *)
GoodTick(n, g, live, rs) ==
  /\ IsAttempt(n.g) /\ Stamp(n.g) <= Stamp(g)
  /\ n.pc = "hold" => n.g.phase = "waiting"
  /\ n.pc \in {"core", "commit", "already"} => n.g.phase = "promoting"
  /\ n.pc = "clean" => n.g.phase = "cleaning"
  /\ n.pc = "commit" /\ n.g = g /\ ImgOf[n.g.rev] # ImgOf[live] => FleetEmpty(rs)

(* Every run boots the live images: they are replaced only when none is left. *)
RunsSame(rs, live) ==
  /\ DOMAIN rs = Runs
  /\ \A x \in Runs : /\ rs[x] = [st |-> rs[x].st, img |-> rs[x].img]
                     /\ rs[x].st # "none" => rs[x].img = ImgOf[live]

Left == [{"ids", "heads", "starts", "admin", "faults"} -> Nat]

PromotionInv ==
  /\ IsAttempt(gate) /\ IsAttempt(adm.g) /\ left \in Left /\ gate.id + left.ids <= MaxAttempts
  /\ adm.pc \in {"record", "end"} => adm.g.phase \notin ENDED \cup {"none"}
  /\ DOMAIN tick = Ticks /\ \A t \in Ticks : GoodTick(tick[t], gate, rows, runs)
  /\ RunsSame(runs, rows)

LEMMA StampNat == ASSUME NEW g, IsAttempt(g) PROVE Stamp(g) \in Nat
BY DEF Stamp, IsAttempt, Rank

(* A tick that does nothing keeps what it knows while the attempt moves on. *)
LEMMA StaysGood ==
  ASSUME NEW n, NEW g, NEW h, NEW a, NEW b, NEW rs, NEW qs, IsAttempt(g), IsAttempt(h),
         GoodTick(n, g, a, rs), h = g \/ Stamp(h) > Stamp(g),
         a = b \/ ImgOf[a] = ImgOf[b] \/ FleetEmpty(qs),
         FleetEmpty(rs) => FleetEmpty(qs) \/ g.phase \notin HOLDING
  PROVE  GoodTick(n, h, b, qs)
<1>1. Stamp(g) \in Nat /\ Stamp(h) \in Nat /\ Stamp(n.g) \in Nat
  BY StampNat DEF GoodTick
<1>2. Stamp(n.g) <= Stamp(h)
  BY <1>1 DEF GoodTick
<1>3. ASSUME n.pc = "commit", n.g = h, ImgOf[n.g.rev] # ImgOf[b] PROVE FleetEmpty(qs)
  <2>1. h = g
    BY <1>1, <1>3 DEF GoodTick
  <2>2. CASE FleetEmpty(qs)
    BY <2>2
  <2>3. CASE ImgOf[a] = ImgOf[b]
    <3>1. FleetEmpty(rs) /\ g.phase = "promoting"
      BY <1>3, <2>1, <2>3 DEF GoodTick
    <3>2. QED
      BY <3>1 DEF HOLDING
  <2>4. QED
    BY <2>2, <2>3
<1>4. QED
  BY <1>2, <1>3 DEF GoodTick

(* A step of one tick. *)
LEMMA TickKept ==
  ASSUME PromotionInv, NEW t \in Ticks, NEW n, tick' = [tick EXCEPT ![t] = n], GoodTick(n, gate', rows', runs'),
         IsAttempt(gate'), gate' = gate \/ Stamp(gate') > Stamp(gate),
         rows' = rows \/ FleetEmpty(runs) \/ ImgOf[rows'] = ImgOf[rows], runs' = runs,
         adm' = adm, left' \in Left, gate'.id + left'.ids <= MaxAttempts
  PROVE  PromotionInv'
<1>1. ASSUME NEW s \in Ticks PROVE GoodTick(tick'[s], gate', rows', runs')
  <2>1. CASE s = t
    BY <2>1 DEF PromotionInv
  <2>2. CASE s # t
    <3>1. tick'[s] = tick[s] /\ GoodTick(tick[s], gate, rows, runs) /\ IsAttempt(gate)
      BY <2>2 DEF PromotionInv
    <3>2. QED
      BY <3>1, StaysGood
  <2>3. QED
    BY <2>1, <2>2
<1>2. DOMAIN tick' = Ticks
  BY DEF PromotionInv
<1>3. RunsSame(runs', rows')
  BY DEF PromotionInv, RunsSame, FleetEmpty
<1>4. QED
  BY <1>1, <1>2, <1>3 DEF PromotionInv

(* A step of another actor. *)
LEMMA OtherKept ==
  ASSUME PromotionInv, tick' = tick, IsAttempt(gate'), gate' = gate \/ Stamp(gate') > Stamp(gate),
         rows' = rows \/ FleetEmpty(runs') \/ ImgOf[rows'] = ImgOf[rows],
         FleetEmpty(runs) => FleetEmpty(runs') \/ gate.phase \notin HOLDING, RunsSame(runs', rows'),
         IsAttempt(adm'.g), adm'.pc \in {"record", "end"} => adm'.g.phase \notin ENDED \cup {"none"},
         left' \in Left, gate'.id + left'.ids <= MaxAttempts
  PROVE  PromotionInv'
<1>1. ASSUME NEW s \in Ticks PROVE GoodTick(tick'[s], gate', rows', runs')
  <2>1. GoodTick(tick[s], gate, rows, runs) /\ IsAttempt(gate)
    BY DEF PromotionInv
  <2>2. QED
    BY <2>1, StaysGood
<1>2. QED
  BY <1>1 DEF PromotionInv

LEMMA SpendLeft ==
  ASSUME left \in Left, NEW kind \in {"ids", "heads", "starts", "admin", "faults"}, Spend(kind)
  PROVE  left' \in Left /\ left'.ids <= left.ids /\ (kind = "ids" => left'.ids = left.ids - 1)
BY DEF Left, Spend

LEMMA NoTickGood ==
  ASSUME NEW g, IsAttempt(g), NEW live, NEW rs PROVE GoodTick(NoTick, g, live, rs)
<1>1. IsAttempt(NoAttempt) /\ Stamp(NoAttempt) = 0
  BY DEF NoAttempt, IsAttempt, Stamp, Rank
<1>2. Stamp(g) \in Nat
  BY StampNat
<1>3. QED
  BY <1>1, <1>2 DEF NoTick, GoodTick

(* The compare-and-set moves the attempt forward or leaves it. *)
LEMMA CasForward ==
  ASSUME IsAttempt(gate), NEW g, NEW next, IsAttempt(next), next = g \/ Stamp(next) > Stamp(g), Cas(g, next)
  PROVE  /\ IsAttempt(gate') /\ (gate' = gate \/ Stamp(gate') > Stamp(gate))
         /\ gate' \in {gate, next} /\ (gate = g => gate' = next)
BY DEF Cas

LEMMA ToForward ==
  ASSUME NEW g, IsAttempt(g), NEW phase \in HOLDING \cup ENDED, Rank(phase) > Rank(g.phase)
  PROVE  IsAttempt(To(g, phase)) /\ Stamp(To(g, phase)) > Stamp(g) /\ To(g, phase).id = g.id
<1>1. /\ To(g, phase).phase = phase /\ To(g, phase).det = FALSE /\ To(g, phase).id = g.id
      /\ IsAttempt(To(g, phase))
  BY DEF IsAttempt, To
<1>2. Rank(phase) \in Nat /\ Rank(g.phase) \in Nat /\ g.id \in Nat
  BY DEF Rank, IsAttempt
<1>3. QED
  BY <1>1, <1>2 DEF Stamp

LEMMA MovesKept ==
  ASSUME PromotionInv, NEW t \in Ticks, NEW next, IsAttempt(next), Stamp(next) > Stamp(tick[t].g),
         Moves(t, next), UNCHANGED <<rows, runs, adm>>, left' \in Left, left'.ids <= left.ids,
         gate = tick[t].g => next.id + left'.ids <= MaxAttempts, PromotionConstants
  PROVE  PromotionInv'
<1>1. IsAttempt(gate) /\ gate.id \in Nat /\ left.ids \in Nat /\ left'.ids \in Nat /\ MaxAttempts \in Nat
  BY DEF PromotionInv, IsAttempt, Left, PromotionConstants
<1>2. /\ IsAttempt(gate') /\ (gate' = gate \/ Stamp(gate') > Stamp(gate))
      /\ gate = tick[t].g => gate' = next
      /\ gate # tick[t].g => gate' = gate
  BY <1>1, CasForward DEF Moves, Cas
<1>3. gate'.id + left'.ids <= MaxAttempts
  BY <1>1, <1>2 DEF PromotionInv
<1>4. CASE gate = tick[t].g /\ next.phase \notin ENDED
  <2> DEFINE n == [pc |-> "step", g |-> next, rev |-> None]
  <2>1. tick' = [tick EXCEPT ![t] = n]
    BY <1>4 DEF Moves, SetTick
  <2>2. n.pc = "step" /\ n.g = next /\ gate' = next /\ Stamp(next) \in Nat
    BY <1>2, <1>4, StampNat
  <2> HIDE DEF n
  <2>3. GoodTick(n, gate', rows', runs')
    BY <2>2 DEF GoodTick
  <2>4. QED
    BY <1>2, <1>3, <2>1, <2>3, TickKept
<1>5. CASE ~(gate = tick[t].g /\ next.phase \notin ENDED)
  <2>1. tick' = [tick EXCEPT ![t] = NoTick]
    BY <1>5 DEF Moves, Ends
  <2>2. QED
    BY <1>2, <1>3, <2>1, NoTickGood, TickKept
<1>6. QED
  BY <1>4, <1>5

(* To a later phase of the same attempt. *)
LEMMA MovesToKept ==
  ASSUME PromotionInv, PromotionConstants, NEW t \in Ticks, NEW phase \in HOLDING \cup ENDED,
         Rank(phase) > Rank(tick[t].g.phase), Moves(t, To(tick[t].g, phase)),
         UNCHANGED <<rows, runs, adm>>, left' \in Left, left'.ids <= left.ids
  PROVE  PromotionInv'
<1>1. IsAttempt(tick[t].g)
  BY DEF PromotionInv, GoodTick
<1>2. /\ IsAttempt(To(tick[t].g, phase)) /\ Stamp(To(tick[t].g, phase)) > Stamp(tick[t].g)
      /\ To(tick[t].g, phase).id = tick[t].g.id
  BY <1>1, ToForward
<1>3. gate = tick[t].g => To(tick[t].g, phase).id + left'.ids <= MaxAttempts
  BY <1>2 DEF PromotionInv, IsAttempt, Left, PromotionConstants
<1>4. PICK next : next = To(tick[t].g, phase)
  OBVIOUS
<1>5. QED
  BY <1>2, <1>3, <1>4, MovesKept

LEMMA EndsKept ==
  ASSUME PromotionInv, PromotionConstants, NEW t \in Ticks, Ends(t), IsAttempt(gate'),
         gate' = gate \/ Stamp(gate') > Stamp(gate), gate'.id = gate.id, UNCHANGED <<rows, runs, adm>>,
         left' \in Left, left'.ids <= left.ids
  PROVE  PromotionInv'
<1>1. tick' = [tick EXCEPT ![t] = NoTick] /\ GoodTick(NoTick, gate', rows', runs')
  BY NoTickGood DEF Ends
<1>2. gate'.id + left'.ids <= MaxAttempts
  BY DEF PromotionInv, IsAttempt, Left, PromotionConstants
<1>3. QED
  BY <1>1, <1>2, TickKept

LEMMA WaitsKept ==
  ASSUME PromotionInv, PromotionConstants, NEW t \in Ticks, Waits(t), UNCHANGED <<rows, runs, adm>>,
         left' \in Left, left'.ids <= left.ids
  PROVE  PromotionInv'
<1> DEFINE g == tick[t].g
           next == [g EXCEPT !.det = TRUE]
<1>1. IsAttempt(g) /\ IsAttempt(gate)
  BY DEF PromotionInv, GoodTick
<1>2. IsAttempt(next) /\ next.id = g.id /\ (next = g \/ Stamp(next) > Stamp(g))
  <2>1. IsAttempt(next) /\ next.id = g.id /\ next.phase = g.phase /\ next.det = TRUE
    BY <1>1 DEF IsAttempt
  <2>2. CASE g.det
    BY <1>1, <2>2 DEF IsAttempt
  <2>3. CASE ~g.det
    BY <1>1, <2>1, <2>3 DEF IsAttempt, Stamp, Rank
  <2>4. QED
    BY <2>2, <2>3
<1>3. Cas(g, next) /\ Ends(t)
  BY DEF Waits
<1> HIDE DEF g, next
<1>4. /\ IsAttempt(gate') /\ (gate' = gate \/ Stamp(gate') > Stamp(gate))
      /\ gate = g => gate' = next
      /\ gate # g => gate' = gate
  BY <1>1, <1>2, <1>3, CasForward DEF Cas
<1>5. QED
  BY <1>2, <1>3, <1>4, EndsKept

(* To another place with the attempt the tick has, or with the one on record. *)
LEMMA SetTickKept ==
  ASSUME PromotionInv, PromotionConstants, NEW t \in Ticks, NEW pc, NEW g, SetTick(t, pc, g),
         UNCHANGED <<gate, rows, runs, adm, left>>, g \in {tick[t].g, gate},
         pc = "hold" => g.phase = "waiting",
         pc \in {"core", "commit", "already"} => g.phase = "promoting",
         pc = "clean" => g.phase = "cleaning",
         pc = "commit" /\ g = gate /\ ImgOf[g.rev] # ImgOf[rows] => FleetEmpty(runs)
  PROVE  PromotionInv'
<1> DEFINE n == [pc |-> pc, g |-> g, rev |-> None]
<1>1. tick' = [tick EXCEPT ![t] = n] /\ n.pc = pc /\ n.g = g
  BY DEF SetTick
<1> HIDE DEF n
<1>2. IsAttempt(gate) /\ IsAttempt(g) /\ Stamp(g) <= Stamp(gate)
  BY StampNat DEF PromotionInv, GoodTick
<1>3. GoodTick(n, gate', rows', runs')
  BY <1>1, <1>2 DEF GoodTick
<1>4. QED
  BY <1>1, <1>2, <1>3, TickKept DEF PromotionInv

(* The ticks. *)
LEMMA BeginKept ==
  ASSUME PromotionInv, PromotionConstants, NEW t \in Ticks, TickBegin(t) \/ StartAutomatic(t)
  PROVE  PromotionInv'
<1>1. /\ IsAttempt(gate) /\ IsAttempt(tick[t].g) /\ Stamp(tick[t].g) <= Stamp(gate) /\ left \in Left
      /\ gate.id + left.ids <= MaxAttempts
  BY DEF PromotionInv, GoodTick
<1>2. CASE TickBegin(t) /\ gate.phase \in ENDED \cup {"none"}
  <2> DEFINE n == [pc |-> "start", g |-> gate, rev |-> Pending]
  <2>1. tick' = [tick EXCEPT ![t] = n] /\ n.pc = "start" /\ n.g = gate
        /\ UNCHANGED <<gate, rows, runs, adm, left>>
    BY <1>2 DEF TickBegin, world
  <2> HIDE DEF n
  <2>2. GoodTick(n, gate', rows', runs')
    BY <1>1, <2>1, StampNat DEF GoodTick
  <2>3. QED
    BY <1>1, <2>1, <2>2, TickKept
<1>3. CASE TickBegin(t) /\ gate.phase \notin ENDED \cup {"none"}
  <2>1. SetTick(t, "step", gate) /\ UNCHANGED <<gate, rows, runs, adm, left>>
    BY <1>3 DEF TickBegin, world
  <2>2. QED
    BY <2>1, SetTickKept
<1>4. CASE StartAutomatic(t)
  <2> DEFINE next == NewAttempt(tick[t].rev, "auto")
  <2>1. /\ left' \in Left /\ left'.ids <= left.ids /\ left'.ids = left.ids - 1 /\ left.ids \in Nat
        /\ left.ids > 0
    BY <1>1, <1>4, SpendLeft DEF StartAutomatic, Spend, Left
  <2>2. /\ next.id = MaxAttempts + 1 - left.ids /\ next.phase = "waiting" /\ next.det = FALSE
        /\ next.id \in Nat /\ IsAttempt(next)
    BY <1>1, <2>1 DEF NewAttempt, IsAttempt, PromotionConstants
  <2>3. Moves(t, next) /\ UNCHANGED <<rows, runs, adm>>
    BY <1>4 DEF StartAutomatic
  <2> HIDE DEF next
  <2>4. Stamp(next) > Stamp(tick[t].g)
    <3>1. Stamp(gate) <= 16 * gate.id + 13 /\ gate.id \in Nat
      BY <1>1 DEF Stamp, Rank, IsAttempt
    <3>2. Stamp(next) >= 16 * next.id /\ next.id > gate.id
      BY <1>1, <2>1, <2>2, <3>1 DEF Stamp, Rank, PromotionConstants
    <3>3. Stamp(tick[t].g) \in Nat /\ Stamp(gate) \in Nat /\ Stamp(next) \in Nat
      BY <1>1, <2>2, StampNat
    <3>4. QED
      BY <1>1, <2>2, <3>1, <3>2, <3>3
  <2>5. next.id + left'.ids <= MaxAttempts
    BY <2>1, <2>2 DEF PromotionConstants
  <2>6. QED
    BY <2>1, <2>2, <2>3, <2>4, <2>5, MovesKept
<1>5. QED
  BY <1>2, <1>3, <1>4

LEMMA WaitingKept ==
  ASSUME PromotionInv, PromotionConstants, NEW t \in Ticks, Waiting(t) \/ TakeHold(t) \/ Drained(t)
  PROVE  PromotionInv'
<1>1. UNCHANGED <<rows, runs, adm, left>> /\ left' \in Left /\ left'.ids <= left.ids
  BY DEF Waiting, TakeHold, Drained, world, PromotionInv, Left
<1>2. CASE Waits(t)
  BY <1>1, <1>2, WaitsKept
<1>3. /\ Waiting(t) => tick[t].g.phase = "waiting"
      /\ TakeHold(t) => tick[t].g.phase = "waiting"
      /\ Drained(t) => tick[t].g.phase \in {"drained", "promoting"}
  BY DEF Waiting, TakeHold, Drained, AtPhase, PromotionInv, GoodTick
<1>4. ASSUME NEW phase \in {"yielded", "failed", "drained", "promoting"}, Moves(t, To(tick[t].g, phase)),
             phase = "drained" => tick[t].g.phase = "waiting",
             phase = "promoting" => tick[t].g.phase = "drained"
      PROVE  PromotionInv'
  <2>1. phase \in HOLDING \cup ENDED /\ Rank(phase) > Rank(tick[t].g.phase)
    BY <1>3, <1>4 DEF HOLDING, ENDED, Rank
  <2>2. QED
    BY <1>1, <1>4, <2>1, MovesToKept
<1>5. ASSUME NEW pc \in {"hold", "core"}, SetTick(t, pc, tick[t].g), UNCHANGED gate,
             pc = "hold" => tick[t].g.phase = "waiting", pc = "core" => tick[t].g.phase = "promoting"
      PROVE  PromotionInv'
  BY <1>1, <1>5, SetTickKept
<1>6. CASE Waiting(t)
  BY <1>2, <1>3, <1>4, <1>5, <1>6 DEF Waiting
<1>7. CASE TakeHold(t)
  BY <1>2, <1>3, <1>4, <1>7 DEF TakeHold
<1>8. CASE Drained(t)
  BY <1>2, <1>3, <1>4, <1>5, <1>8 DEF Drained
<1>9. QED
  BY <1>6, <1>7, <1>8

(* With a run left that boots an image to be replaced, none may be replaced. *)
LEMMA FreeOfRuns ==
  ASSUME PromotionInv, NEW r, ~InUse(r), ImgOf[r] # ImgOf[rows] PROVE FleetEmpty(runs)
BY DEF PromotionInv, RunsSame, InUse, FleetEmpty

LEMMA CoreKept ==
  ASSUME PromotionInv, PromotionConstants, NEW t \in Ticks, Core(t) PROVE PromotionInv'
<1>1. /\ UNCHANGED <<rows, runs, adm, left>> /\ left' \in Left /\ left'.ids <= left.ids
      /\ tick[t].g.phase = "promoting"
  BY DEF Core, world, PromotionInv, Left, GoodTick
<1>2. CASE Waits(t)
  BY <1>1, <1>2, WaitsKept
<1>3. CASE Moves(t, To(tick[t].g, "failed"))
  <2>1. "failed" \in HOLDING \cup ENDED /\ Rank("failed") > Rank(tick[t].g.phase)
    BY <1>1 DEF ENDED, Rank
  <2>2. QED
    BY <1>1, <1>3, <2>1, MovesToKept
<1>4. ASSUME NEW pc \in {"already", "commit"}, SetTick(t, pc, tick[t].g), UNCHANGED gate, ~InUse(tick[t].g.rev)
      PROVE  PromotionInv'
  <2>1. ImgOf[tick[t].g.rev] # ImgOf[rows] => FleetEmpty(runs)
    BY <1>4, FreeOfRuns
  <2>2. QED
    BY <1>1, <1>4, <2>1, SetTickKept
<1>5. QED
  BY <1>2, <1>3, <1>4 DEF Core

(* The swap: no run is left, or the images stay. *)
LEMMA CommitClear ==
  ASSUME PromotionInv, NEW t \in Ticks, Commit(t), rows' # rows
  PROVE  rows' = tick[t].g.rev /\ (FleetEmpty(runs) \/ ImgOf[rows'] = ImgOf[rows])
BY DEF Commit, PromotionInv, GoodTick

LEMMA CommitKept ==
  ASSUME PromotionInv, PromotionConstants, NEW t \in Ticks, Commit(t) PROVE PromotionInv'
<1>1. /\ UNCHANGED <<runs, adm, left>> /\ left' \in Left /\ left'.ids <= left.ids
      /\ tick[t].g.phase = "promoting" /\ IsAttempt(gate)
  BY DEF Commit, world, PromotionInv, Left, GoodTick
<1>2. CASE gate = tick[t].g
  <2> DEFINE n == [pc |-> "record", g |-> tick[t].g, rev |-> None]
  <2>1. "cleaning" \in HOLDING \cup ENDED /\ Rank("cleaning") > Rank(gate.phase)
    BY <1>1, <1>2 DEF HOLDING, Rank
  <2>2. gate' = To(gate, "cleaning") /\ tick' = [tick EXCEPT ![t] = n] /\ n.pc = "record" /\ n.g = gate
    BY <1>2 DEF Commit, Cas, SetTick
  <2> HIDE DEF n
  <2>3. IsAttempt(gate') /\ Stamp(gate') > Stamp(gate) /\ gate'.id = gate.id
    BY <1>1, <2>1, <2>2, ToForward
  <2>4. GoodTick(n, gate', rows', runs')
    BY <1>1, <2>2, <2>3, StampNat DEF GoodTick
  <2>5. rows' = rows \/ FleetEmpty(runs) \/ ImgOf[rows'] = ImgOf[rows]
    BY CommitClear
  <2>6. gate'.id + left'.ids <= MaxAttempts
    BY <1>1, <2>3 DEF PromotionInv
  <2>7. QED
    BY <1>1, <2>2, <2>3, <2>4, <2>5, <2>6, TickKept
<1>3. CASE gate # tick[t].g
  <2>1. Ends(t) /\ UNCHANGED <<gate, rows>>
    BY <1>3 DEF Commit
  <2>2. QED
    BY <1>1, <2>1, EndsKept
<1>4. QED
  BY <1>2, <1>3

LEMMA AfterCommitKept ==
  ASSUME PromotionInv, PromotionConstants, NEW t \in Ticks,
         Record(t) \/ CleaningRecords(t) \/ Cleaning(t) \/ Verifying(t) \/ TickDies(t)
  PROVE  PromotionInv'
<1>1. /\ UNCHANGED <<rows, runs, adm>> /\ IsAttempt(gate) /\ left \in Left
      /\ left' \in Left /\ left'.ids <= left.ids /\ (~Fault => left' = left)
  <2>1. UNCHANGED <<rows, runs, adm>> /\ (Fault \/ left' = left)
    BY DEF Record, CleaningRecords, Cleaning, Verifying, TickDies, world
  <2>2. IsAttempt(gate) /\ left \in Left
    BY DEF PromotionInv
  <2>3. QED
    BY <2>1, <2>2, SpendLeft DEF Fault, Left
<1>2. CASE Waits(t)
  BY <1>1, <1>2, WaitsKept
<1>3. ASSUME Ends(t), UNCHANGED gate PROVE PromotionInv'
  BY <1>1, <1>3, EndsKept
<1>4. ASSUME NEW phase \in {"cleaning", "verifying", "done"}, Moves(t, To(tick[t].g, phase)),
             Rank(phase) > Rank(tick[t].g.phase)
      PROVE  PromotionInv'
  <2>1. phase \in HOLDING \cup ENDED
    BY DEF HOLDING, ENDED
  <2>2. QED
    BY <1>1, <1>4, <2>1, MovesToKept
<1>5. CASE Record(t)
  <2>1. CASE tick[t].pc = "already"
    <3>1. Moves(t, To(tick[t].g, "cleaning")) /\ tick[t].g.phase = "promoting"
      BY <1>5, <2>1 DEF Record, PromotionInv, GoodTick
    <3>2. QED
      BY <1>4, <3>1 DEF Rank
  <2>2. CASE tick[t].pc # "already"
    <3>1. UNCHANGED gate /\ (Ends(t) \/ SetTick(t, "step", gate)) /\ left' = left
      BY <1>5, <2>2 DEF Record, world
    <3>2. QED
      BY <1>1, <1>3, <3>1, SetTickKept
  <2>3. QED
    BY <2>1, <2>2
<1>6. CASE CleaningRecords(t)
  <2>1. SetTick(t, "clean", tick[t].g) /\ tick[t].g.phase = "cleaning" /\ UNCHANGED <<gate, left>>
    BY <1>6 DEF CleaningRecords, AtPhase, world
  <2>2. QED
    BY <1>1, <2>1, SetTickKept
<1>7. CASE Cleaning(t)
  <2>1. tick[t].g.phase = "cleaning"
    BY <1>7 DEF Cleaning, PromotionInv, GoodTick
  <2>2. QED
    BY <1>2, <1>4, <1>7, <2>1 DEF Cleaning, Rank
<1>8. CASE Verifying(t)
  <2>1. tick[t].g.phase = "verifying"
    BY <1>8 DEF Verifying, AtPhase
  <2>2. QED
    BY <1>2, <1>4, <1>8, <2>1 DEF Verifying, Rank
<1>9. CASE TickDies(t)
  BY <1>3, <1>9 DEF TickDies
<1>10. QED
  BY <1>5, <1>6, <1>7, <1>8, <1>9

(* The other actors. *)
LEMMA RunsKept ==
  ASSUME PromotionInv, PromotionConstants, NEW x \in Runs, StartRun(x) \/ RunMoves(x) PROVE PromotionInv'
<1>1. /\ UNCHANGED <<gate, rows, tick, adm>> /\ IsAttempt(gate) /\ IsAttempt(adm.g) /\ left \in Left
      /\ RunsSame(runs, rows) /\ DOMAIN runs = Runs
  BY DEF StartRun, RunMoves, PromotionInv, RunsSame
<1>2. left' \in Left /\ left'.ids <= left.ids
  BY <1>1, SpendLeft DEF StartRun, RunMoves, Left
<1>3. FleetEmpty(runs) => FleetEmpty(runs') \/ gate.phase \notin HOLDING
  BY DEF StartRun, RunMoves, Held, FleetEmpty
<1>4. RunsSame(runs', rows')
  <2>1. CASE StartRun(x)
    BY <1>1, <2>1 DEF StartRun, RunsSame
  <2>2. CASE RunMoves(x)
    <3>1. PICK st : runs' = [runs EXCEPT ![x].st = st]
      BY <2>2 DEF RunMoves
    <3>2. runs'[x] = [runs[x] EXCEPT !.st = st] /\ runs[x].st # "none"
      BY <1>1, <2>2, <3>1 DEF RunMoves
    <3>3. runs'[x] = [st |-> st, img |-> runs[x].img] /\ runs'[x].img = ImgOf[rows]
      BY <1>1, <3>2 DEF RunsSame
    <3>4. QED
      BY <1>1, <3>1, <3>3 DEF RunsSame
  <2>3. QED
    BY <2>1, <2>2
<1>5. gate'.id + left'.ids <= MaxAttempts
  BY <1>1, <1>2 DEF PromotionInv, IsAttempt, Left, PromotionConstants
<1>6. adm'.pc \in {"record", "end"} => adm'.g.phase \notin ENDED \cup {"none"}
  BY <1>1 DEF PromotionInv
<1>7. QED
  BY <1>1, <1>2, <1>3, <1>4, <1>5, <1>6, OtherKept

(* A step that leaves the attempt, the ticks, the release and the runs alone. *)
LEMMA AsideKept ==
  ASSUME PromotionInv, PromotionConstants, UNCHANGED <<gate, tick, adm, runs>>,
         rows' = rows \/ FleetEmpty(runs) \/ ImgOf[rows'] = ImgOf[rows], left' \in Left, left'.ids <= left.ids
  PROVE  PromotionInv'
<1>1. IsAttempt(gate) /\ IsAttempt(adm.g) /\ left \in Left /\ RunsSame(runs, rows)
  BY DEF PromotionInv
<1>2. gate'.id + left'.ids <= MaxAttempts
  BY <1>1 DEF PromotionInv, IsAttempt, Left, PromotionConstants
<1>3. RunsSame(runs', rows')
  BY <1>1 DEF RunsSame, FleetEmpty
<1>4. adm'.pc \in {"record", "end"} => adm'.g.phase \notin ENDED \cup {"none"}
  BY DEF PromotionInv
<1>5. QED
  BY <1>1, <1>2, <1>3, <1>4, OtherKept

(* Promoting a commit that replaces a live image waits for its last run. *)
LEMMA PromoteClear ==
  ASSUME PromotionInv, Promote PROVE rows' = rows \/ FleetEmpty(runs) \/ ImgOf[rows'] = ImgOf[rows]
BY FreeOfRuns DEF Promote

LEMMA SourceKept ==
  ASSUME PromotionInv, PromotionConstants, NEW r \in Revs,
         PublicHead(r) \/ DoStep \/ PassDies \/ OperatorDrain \/ BoundPasses \/ HostsWarm
  PROVE  PromotionInv'
<1>1. left \in Left
  BY DEF PromotionInv
<1>2. CASE DoStep
  <2>1. /\ UNCHANGED <<gate, tick, adm, runs, left>>
        /\ rows' = rows \/ FleetEmpty(runs) \/ ImgOf[rows'] = ImgOf[rows]
    BY <1>2, PromoteClear DEF DoStep, RetargetLiveRev, Redeliver, PromoteTarget, WritePromoting,
         ApplyCatalogFirst, FinishPromotion, Promote, world
  <2>2. QED
    BY <1>1, <2>1, AsideKept DEF Left
<1>3. CASE PublicHead(r) \/ PassDies \/ OperatorDrain \/ BoundPasses \/ HostsWarm
  <2>1. /\ UNCHANGED <<gate, tick, adm, runs, rows>>
        /\ Spend("heads") \/ Spend("faults") \/ Spend("admin") \/ left' = left
    BY <1>3 DEF PublicHead, PassDies, OperatorDrain, BoundPasses, HostsWarm, Fault, world
  <2>2. left' \in Left /\ left'.ids <= left.ids
    BY <1>1, <2>1, SpendLeft DEF Left
  <2>3. QED
    BY <2>1, <2>2, AsideKept
<1>4. QED
  BY <1>2, <1>3

(* An administrator starts an attempt over one that holds no runs. *)
LEMMA StartKept ==
  ASSUME PromotionInv, PromotionConstants, NEW r \in Revs, StartImagePromotion(r) PROVE PromotionInv'
<1> DEFINE next == NewAttempt(r, "admin")
<1>1. /\ IsAttempt(gate) /\ IsAttempt(adm.g) /\ left \in Left /\ RunsSame(runs, rows)
      /\ gate.id + left.ids <= MaxAttempts /\ left.ids \in Nat
  BY DEF PromotionInv, Left
<1>2. left' \in Left /\ left'.ids = left.ids - 1 /\ left.ids > 0
  <2>1. left' = [[left EXCEPT !["ids"] = left["ids"] - 1] EXCEPT !["admin"] = left["admin"] - 1]
        /\ left["ids"] > 0 /\ left["admin"] > 0
    BY <1>1 DEF StartImagePromotion, Left
  <2>2. QED
    BY <1>1, <2>1 DEF Left
<1>3. /\ next.id = MaxAttempts + 1 - left.ids /\ next.phase = "waiting" /\ next.det = FALSE
      /\ next.id \in Nat /\ IsAttempt(next)
  BY <1>1, <1>2 DEF NewAttempt, IsAttempt, PromotionConstants
<1>4. gate' = next /\ UNCHANGED <<rows, runs, tick, adm>>
  BY DEF StartImagePromotion, Cas
<1> HIDE DEF next
<1>5. Stamp(next) > Stamp(gate)
  <2>1. Stamp(gate) <= 16 * gate.id + 13 /\ gate.id \in Nat
    BY <1>1 DEF Stamp, Rank, IsAttempt
  <2>2. Stamp(next) >= 16 * next.id /\ next.id > gate.id
    BY <1>1, <1>2, <1>3, <2>1 DEF Stamp, Rank, PromotionConstants
  <2>3. Stamp(gate) \in Nat /\ Stamp(next) \in Nat
    BY <1>1, <1>3, StampNat
  <2>4. QED
    BY <1>3, <2>1, <2>2, <2>3
<1>6. next.id + left'.ids <= MaxAttempts
  BY <1>1, <1>2, <1>3 DEF PromotionConstants
<1>7. adm'.pc \in {"record", "end"} => adm'.g.phase \notin ENDED \cup {"none"}
  BY <1>4 DEF PromotionInv
<1>8. QED
  BY <1>1, <1>2, <1>3, <1>4, <1>5, <1>6, <1>7, OtherKept

LEMMA ReleaseKept ==
  ASSUME PromotionInv, PromotionConstants, ReleaseRead \/ AdminStep PROVE PromotionInv'
<1>1. /\ IsAttempt(gate) /\ IsAttempt(adm.g) /\ left \in Left /\ RunsSame(runs, rows)
      /\ UNCHANGED <<rows, runs, tick>>
  BY DEF PromotionInv, ReleaseRead, AdminStep, ReleaseRecord, ReleaseEnd, world
<1>2. left' \in Left /\ left'.ids <= left.ids
  BY <1>1, SpendLeft DEF ReleaseRead, AdminStep, ReleaseRecord, ReleaseEnd, world, Left
<1>3. CASE ReleaseRead
  <2>1. adm'.g = gate /\ gate' = gate /\ gate.phase \notin ENDED \cup {"none"}
    BY <1>3 DEF ReleaseRead, NoTick
  <2>2. gate'.id + left'.ids <= MaxAttempts
    BY <1>1, <1>2, <2>1 DEF PromotionInv, IsAttempt, Left, PromotionConstants
  <2>3. QED
    BY <1>1, <1>2, <2>1, <2>2, OtherKept
<1>4. CASE ReleaseRecord
  <2>1. adm' = [adm EXCEPT !.pc = "end"] /\ adm.pc = "record" /\ gate' = gate
    BY <1>4 DEF ReleaseRecord
  <2>2. adm'.g = adm.g /\ adm.g.phase \notin ENDED \cup {"none"}
    BY <2>1 DEF PromotionInv
  <2>3. gate'.id + left'.ids <= MaxAttempts
    BY <1>1, <1>2, <2>1 DEF PromotionInv, IsAttempt, Left, PromotionConstants
  <2>4. QED
    BY <1>1, <1>2, <2>1, <2>2, <2>3, OtherKept
<1>5. CASE ReleaseEnd
  <2>1. PICK phase \in {"released", "cancelled"} : Cas(adm.g, To(adm.g, phase))
    BY <1>5 DEF ReleaseEnd
  <2>2. adm.g.phase \notin ENDED \cup {"none"} /\ adm' = NoTick
    BY <1>5 DEF ReleaseEnd, PromotionInv
  <2>3. phase \in HOLDING \cup ENDED /\ Rank(phase) > Rank(adm.g.phase)
    <3>1. adm.g.phase \in HOLDING \cup {"waiting"}
      BY <1>1, <2>2 DEF IsAttempt
    <3>2. QED
      BY <3>1 DEF HOLDING, ENDED, Rank
  <2> DEFINE next == To(adm.g, phase)
  <2>4. IsAttempt(next) /\ Stamp(next) > Stamp(adm.g) /\ next.id = adm.g.id
    BY <1>1, <2>3, ToForward
  <2> HIDE DEF next
  <2>5. /\ IsAttempt(gate') /\ (gate' = gate \/ Stamp(gate') > Stamp(gate))
        /\ gate = adm.g => gate' = next
        /\ gate # adm.g => gate' = gate
    BY <1>1, <2>1, <2>4, CasForward DEF Cas, next
  <2>6. gate'.id + left'.ids <= MaxAttempts
    BY <1>1, <1>2, <2>4, <2>5 DEF PromotionInv, IsAttempt, Left, PromotionConstants
  <2>7. IsAttempt(adm'.g) /\ adm'.pc = "idle"
    BY <2>2 DEF NoTick, NoAttempt, IsAttempt
  <2>8. QED
    BY <1>1, <1>2, <2>5, <2>6, <2>7, OtherKept
<1>6. QED
  BY <1>3, <1>4, <1>5 DEF AdminStep

LEMMA PromotionBegins == ASSUME PromotionConstants, Init PROVE PromotionInv
<1>1. IsAttempt(NoAttempt) /\ NoAttempt.id = 0
  BY DEF NoAttempt, IsAttempt
<1>2. left \in Left /\ left.ids = MaxAttempts
  BY DEF Init, Left, PromotionConstants
<1>3. gate = NoAttempt /\ adm.g = NoAttempt /\ adm.pc = "idle"
  BY DEF Init, NoTick
<1>4. DOMAIN tick = Ticks /\ \A t \in Ticks : GoodTick(tick[t], gate, rows, runs)
  BY <1>1, <1>3, NoTickGood DEF Init
<1>5. RunsSame(runs, rows)
  BY DEF Init, RunsSame
<1>6. QED
  BY <1>1, <1>2, <1>3, <1>4, <1>5 DEF PromotionInv, PromotionConstants

LEMMA PromotionStep == ASSUME PromotionInv, PromotionConstants, [Next]_vars PROVE PromotionInv'
<1>1. CASE UNCHANGED vars
  <2>1. UNCHANGED <<gate, tick, adm, runs, rows, left>>
    BY <1>1 DEF vars
  <2>2. QED
    BY <2>1, AsideKept DEF PromotionInv, Left
<1>2. CASE \E x \in Runs : StartRun(x) \/ RunMoves(x)
  BY <1>2, RunsKept
<1>3. CASE \E r \in Revs : PublicHead(r) \/ StartImagePromotion(r)
  BY <1>3, SourceKept, StartKept
<1>4. CASE DoStep \/ PassDies \/ OperatorDrain \/ BoundPasses \/ HostsWarm
  BY <1>4, SourceKept DEF PromotionConstants
<1>5. CASE \E t \in Ticks : TickStep(t) \/ TickDies(t)
  BY <1>5, BeginKept, WaitingKept, CoreKept, CommitKept, AfterCommitKept DEF TickStep
<1>6. CASE ReleaseRead \/ AdminStep
  BY <1>6, ReleaseKept
<1>7. QED
  BY <1>1, <1>2, <1>3, <1>4, <1>5, <1>6 DEF Next

(* Only a commit and the source's own promotion replace the catalog. *)
LEMMA SwapsWho ==
  ASSUME Next, rows' # rows PROVE Promote \/ \E t \in Ticks : Commit(t)
<1>1. CASE \E x \in Runs : StartRun(x) \/ RunMoves(x)
  BY <1>1 DEF StartRun, RunMoves
<1>2. CASE \E r \in Revs : PublicHead(r) \/ StartImagePromotion(r)
  BY <1>2 DEF PublicHead, StartImagePromotion
<1>3. CASE DoStep \/ PassDies
  BY <1>3 DEF DoStep, PassDies, RetargetLiveRev, Redeliver, PromoteTarget, WritePromoting,
       ApplyCatalogFirst, FinishPromotion
<1>4. CASE \E t \in Ticks : TickStep(t) \/ TickDies(t)
  BY <1>4 DEF TickStep, TickDies, TickBegin, StartAutomatic, Waiting, TakeHold, Drained, Core, Record,
       CleaningRecords, Cleaning, Verifying
<1>5. CASE ReleaseRead \/ AdminStep \/ OperatorDrain \/ BoundPasses \/ HostsWarm
  BY <1>5 DEF ReleaseRead, AdminStep, ReleaseRecord, ReleaseEnd, OperatorDrain, BoundPasses, HostsWarm
<1>6. QED
  BY <1>1, <1>2, <1>3, <1>4, <1>5 DEF Next

(* No image is replaced under a run that boots it, whatever ticks, passes, releases and run *)
(* starts overlap: image-promotion.ts' hold and the source's image-use check leave no gap.  *)
THEOREM SwapsIdle == ASSUME PromotionConstants PROVE Spec => SwapIsIdle
<1>1. Init => PromotionInv
  BY PromotionBegins
<1>2. PromotionInv /\ [Next]_vars => PromotionInv'
  BY PromotionStep
<1>3. PromotionInv /\ [Next]_vars => [SwapIsIdleStep]_vars
  <2> SUFFICES ASSUME PromotionInv, Next PROVE SwapIsIdleStep
    OBVIOUS
  <2>1. CASE rows' = rows
    BY <2>1 DEF SwapIsIdleStep
  <2>2. CASE rows' # rows
    <3>1. FleetEmpty(runs) \/ ImgOf[rows'] = ImgOf[rows]
      BY <2>2, SwapsWho, PromoteClear, CommitClear
    <3>2. QED
      BY <3>1 DEF SwapIsIdleStep, FleetEmpty
  <2>3. QED
    BY <2>1, <2>2
<1>4. QED
  BY <1>1, <1>2, <1>3, PTL DEF Spec, SwapIsIdle
=============================================================================
