------------------------ MODULE SafeQuarantineProofs ------------------------
(* Proofs about SafeQuarantine for any set of paths, names and samples and *)
(* any number of faults and edits.                                         *)
EXTENDS SafeQuarantine, TLAPS

(* What is known of the two files at each system call.  The invariants of  *)
(* the runs speak of the states a crash may leave; alone they are not      *)
(* inductive, since they do not say that the copy about to be verified is  *)
(* the sample when nobody disturbed it.                                    *)
SourceIntact ==
    Busy /\ ~job.userTouched /\ job.pc \in {"move", "copy", "verify", "remove", "failed"}
    => src[job.path].data = job.sha

CopyIntact ==
    Busy /\ ~job.adminTouched /\ job.path \in CrossDevice
         /\ job.pc \in {"remove", "chmod", "sidecar", "ok"}
    => vault[dest].data = job.sha

MoveIntact ==
    Undisturbed /\ job.pc \in {"verify", "remove", "chmod", "sidecar", "ok"}
    => vault[dest].data = job.sha

IInv == TypeOK /\ SourceIntact /\ CopyIntact /\ MoveIntact

-----------------------------------------------------------------------------
LEMMA FileFacts ==
    ASSUME TypeOK
    PROVE  /\ NoFile \in File
           /\ Busy => /\ job \in Job
                      /\ job.path \in Path /\ job.sha \in Sample
                      /\ dest \in Dest
                      /\ src[job.path] \in File /\ vault[dest] \in File
BY QuarantineAssumption DEF TypeOK, NoFile, File, Busy, Job, NoJob, dest, Dest

LEMMA InitTypeOK == Init => TypeOK
BY QuarantineAssumption DEF Init, TypeOK, File, NoFile, Dest, NoJob

\* The agent's own steps keep the types.
LEMMA AgentTypeOK == TypeOK /\ Agent => TypeOK'
<1> SUFFICES ASSUME TypeOK, Agent PROVE TypeOK'
  OBVIOUS
<1> USE QuarantineAssumption, FileFacts
<1>1. ASSUME NEW p \in Path, Detect(p) PROVE TypeOK'
  BY <1>1 DEF Detect, TypeOK, Job, Busy
<1>2. CASE Missing
  BY <1>2 DEF Missing, At, Goto, TypeOK, Job
<1>3. CASE Rename
  BY <1>3 DEF Rename, At, Goto, TypeOK, Job
<1>4. CASE CopyStart
  BY <1>4 DEF CopyStart, At, Goto, TypeOK, Job, File
<1>5. CASE CopyEnd
  BY <1>5 DEF CopyEnd, At, Goto, TypeOK, Job, File
<1>6. CASE VerifyMatches
  BY <1>6 DEF VerifyMatches, At, Goto, TypeOK, Job
<1>7. CASE VerifyFails
  BY <1>7 DEF VerifyFails, At, Goto, TypeOK, Job
<1>8. CASE RemoveSource
  BY <1>8 DEF RemoveSource, At, Goto, TypeOK, Job
<1>9. CASE Chmod
  BY <1>9 DEF Chmod, At, Goto, TypeOK, Job, File
<1>10. CASE WriteSidecar
  BY <1>10 DEF WriteSidecar, Record, At, Goto, TypeOK, Job
<1>11. CASE Return
  BY <1>11 DEF Return, TypeOK
<1>12. CASE CallFails
  BY <1>12 DEF CallFails, Fault, Goto, TypeOK, Job
<1>13. CASE ChmodFails
  BY <1>13 DEF ChmodFails, Fault, At, Goto, TypeOK, Job
<1>14. CASE SidecarFails
  BY <1>14 DEF SidecarFails, Record, Fault, At, Goto, TypeOK, Job
<1>15. CASE Crash
  BY <1>15 DEF Crash, Fault, TypeOK
<1> QED
  BY <1>1, <1>2, <1>3, <1>4, <1>5, <1>6, <1>7, <1>8, <1>9, <1>10, <1>11, <1>12,
     <1>13, <1>14, <1>15 DEF Agent

LEMMA TouchType ==
    ASSUME TypeOK, NEW byUser \in BOOLEAN, NEW byAdmin \in BOOLEAN, Touch(byUser, byAdmin)
    PROVE  job' \in Job \cup {NoJob}
BY DEF TypeOK, Touch, Busy, Job, NoJob

\* What users and admins do keeps the types.
LEMMA OthersTypeOK == TypeOK /\ Others => TypeOK'
<1> SUFFICES ASSUME TypeOK, Others PROVE TypeOK'
  OBVIOUS
<1> USE QuarantineAssumption, FileFacts
<1>1. ASSUME NEW p \in Path, NEW file \in File, UserWrite(p, file) PROVE TypeOK'
  <2>1. job' \in Job \cup {NoJob}
    BY <1>1, TouchType DEF UserWrite, Busy
  <2> QED
    BY <1>1, <2>1 DEF UserWrite, Edit, TypeOK
<1>2. ASSUME NEW d \in Dest, NEW p \in Path, AdminRestore(d, p) PROVE TypeOK'
  <2>1. job' \in Job \cup {NoJob}
    BY <1>2, TouchType DEF AdminRestore, Busy
  <2>2. [data |-> vault[d].data, exec |-> FALSE] \in File
    BY DEF TypeOK, File
  <2> QED
    BY <1>2, <2>1, <2>2 DEF AdminRestore, Edit, TypeOK
<1>3. ASSUME NEW d \in Dest, AdminDelete(d) PROVE TypeOK'
  <2>1. job' \in Job \cup {NoJob}
    BY <1>3, TouchType DEF AdminDelete, Busy, TypeOK
  <2>2. edits' \in 0..MaxEdits
    BY <1>3 DEF AdminDelete, Edit, TypeOK
  <2>3. sidecar' \in [Dest -> Path \cup {NoPath}] /\ src' = src
    BY <1>3 DEF AdminDelete, TypeOK
  <2>4. faults' \in 0..MaxFaults
    <3>1. UNCHANGED faults \/ Fault
      BY <1>3 DEF AdminDelete
    <3> QED
      BY <3>1 DEF Fault, TypeOK
  <2>5. vault' \in [Dest -> File]
    BY <1>3 DEF AdminDelete, TypeOK
  <2>6. quarantined' \subseteq Dest
    BY <1>3 DEF AdminDelete, TypeOK
  <2> QED
    BY <2>1, <2>2, <2>3, <2>4, <2>5, <2>6 DEF TypeOK
<1>4. ASSUME NEW data \in Sample, NEW exec \in BOOLEAN
      PROVE  [data |-> data, exec |-> exec] \in File
  BY DEF File
<1> QED
  BY <1>1, <1>2, <1>3, <1>4 DEF Others

(* Every reachable state is well typed.                                    *)
THEOREM TypeCorrect == Spec => []TypeOK
<1>1. TypeOK /\ [Next]_vars => TypeOK'
  <2>1. TypeOK /\ UNCHANGED vars => TypeOK'
    BY DEF TypeOK, vars
  <2> QED
    BY <2>1, AgentTypeOK, OthersTypeOK DEF Next
<1> QED
  BY InitTypeOK, <1>1, PTL DEF Spec

-----------------------------------------------------------------------------
LEMMA InitIInv == Init => IInv
BY InitTypeOK DEF Init, IInv, SourceIntact, CopyIntact, MoveIntact, Undisturbed, Busy

\* Each system call leaves the detected sample where the next one expects it.
LEMMA AgentIInv == IInv /\ Agent => SourceIntact' /\ CopyIntact' /\ MoveIntact'
<1> SUFFICES ASSUME IInv, Agent PROVE SourceIntact' /\ CopyIntact' /\ MoveIntact'
  OBVIOUS
<1> USE QuarantineAssumption, FileFacts DEF IInv
<1> USE DEF SourceIntact, CopyIntact, MoveIntact, Undisturbed, Busy, NoJob, At, Goto, dest
<1>1. ASSUME NEW p \in Path, Detect(p) PROVE SourceIntact' /\ CopyIntact' /\ MoveIntact'
  BY <1>1 DEF Detect
<1>2. CASE Missing
  BY <1>2 DEF Missing, TypeOK, Job
<1>3. CASE Rename
  BY <1>3 DEF Rename, TypeOK, Job
<1>4. CASE CopyStart
  BY <1>4 DEF CopyStart, TypeOK, Job
<1>5. CASE CopyEnd
  BY <1>5 DEF CopyEnd, TypeOK, Job, File
<1>6. CASE VerifyMatches
  BY <1>6 DEF VerifyMatches, TypeOK, Job
<1>7. CASE VerifyFails
  BY <1>7 DEF VerifyFails, TypeOK, Job
<1>8. CASE RemoveSource
  <2>1. CASE src[job.path].data = Nothing
    <3>1. job.userTouched
      BY <1>8, <2>1 DEF RemoveSource, TypeOK, Job
    <3> QED
      BY <1>8, <2>1, <3>1 DEF RemoveSource, TypeOK, Job
  <2>2. CASE src[job.path].data # Nothing
    BY <1>8, <2>2 DEF RemoveSource, TypeOK, Job
  <2> QED
    BY <2>1, <2>2
<1>9. CASE Chmod
  BY <1>9 DEF Chmod, TypeOK, Job, File
<1>10. CASE WriteSidecar
  BY <1>10 DEF WriteSidecar, TypeOK, Job
<1>11. CASE Return
  BY <1>11 DEF Return
<1>12. CASE CallFails
  BY <1>12 DEF CallFails, TypeOK, Job
<1>13. CASE ChmodFails
  BY <1>13 DEF ChmodFails, TypeOK, Job
<1>14. CASE SidecarFails
  BY <1>14 DEF SidecarFails, TypeOK, Job
<1>15. CASE Crash
  BY <1>15 DEF Crash
<1> QED
  BY <1>1, <1>2, <1>3, <1>4, <1>5, <1>6, <1>7, <1>8, <1>9, <1>10, <1>11, <1>12,
     <1>13, <1>14, <1>15 DEF Agent

(* A user's or an admin's change to one of the two files is recorded in    *)
(* the call, and one to any other file leaves both alone.                  *)
LEMMA OthersIInv == IInv /\ Others => SourceIntact' /\ CopyIntact' /\ MoveIntact'
<1> SUFFICES ASSUME IInv, Others PROVE SourceIntact' /\ CopyIntact' /\ MoveIntact'
  OBVIOUS
<1> USE QuarantineAssumption, FileFacts DEF IInv
<1> USE DEF SourceIntact, CopyIntact, MoveIntact, Undisturbed, Busy, NoJob, Touch, dest
<1>1. ASSUME NEW p \in Path, NEW file, UserWrite(p, file)
      PROVE  SourceIntact' /\ CopyIntact' /\ MoveIntact'
  BY <1>1 DEF UserWrite, TypeOK, Job
<1>2. ASSUME NEW d \in Dest, NEW p \in Path, AdminRestore(d, p)
      PROVE  SourceIntact' /\ CopyIntact' /\ MoveIntact'
  BY <1>2 DEF AdminRestore, TypeOK, Job
<1>3. ASSUME NEW d \in Dest, AdminDelete(d)
      PROVE  SourceIntact' /\ CopyIntact' /\ MoveIntact'
  <2>1. src' = src
    BY <1>3 DEF AdminDelete
  <2>2. CASE vault' = vault /\ job' = job
    BY <2>1, <2>2
  <2>3. CASE /\ vault' = [vault EXCEPT ![d] = NoFile]
             /\ Touch(FALSE, Busy /\ d = dest)
    BY <2>1, <2>3 DEF TypeOK, Job
  <2> QED
    BY <1>3, <2>2, <2>3 DEF AdminDelete
<1> QED
  BY <1>1, <1>2, <1>3 DEF Others

LEMMA Invariance == Spec => []IInv
<1>1. IInv /\ [Next]_vars => IInv'
  <2>1. IInv /\ UNCHANGED vars => IInv'
    BY DEF IInv, TypeOK, SourceIntact, CopyIntact, MoveIntact, Undisturbed, Busy, dest, vars
  <2>2. IInv /\ Next => TypeOK'
    BY AgentTypeOK, OthersTypeOK DEF IInv, Next
  <2> QED
    BY <2>1, <2>2, AgentIInv, OthersIInv DEF IInv, Next
<1> QED
  BY InitIInv, <1>1, PTL DEF Spec

LEMMA SafetyFromIInv == IInv => SampleSurvives /\ VerifiedCopy /\ FailureKeepsOriginal
BY QuarantineAssumption DEF IInv, TypeOK, SourceIntact, CopyIntact, MoveIntact, SampleSurvives, VerifiedCopy,
   FailureKeepsOriginal, Undisturbed, Busy, Job, NoJob

(* Killed between any two system calls, the agent leaves the detected      *)
(* sample whole at its path or in the quarantine.                          *)
THEOREM SampleSurvivesAlways == Spec => []SampleSurvives
BY Invariance, SafetyFromIInv, PTL

(* Across filesystems the source is removed only when the quarantine holds *)
(* the convicted bytes, whatever users write meanwhile.                    *)
THEOREM VerifiedCopyAlways == Spec => []VerifiedCopy
BY Invariance, SafetyFromIInv, PTL

\* A failed quarantine leaves the file where it was.
THEOREM FailureKeepsOriginalAlways == Spec => []FailureKeepsOriginal
BY Invariance, SafetyFromIInv, PTL
-----------------------------------------------------------------------------
(* What each call has achieved when the next one starts, up to the answer. *)
Emptied ==
    Busy /\ ~job.userTouched /\ job.pc \in {"chmod", "sidecar", "ok"}
    => src[job.path].data = Nothing

Stored ==
    Busy /\ ~job.adminTouched /\ job.pc \in {"chmod", "sidecar", "ok"}
    => vault[dest].data # Nothing

Disarmed ==
    Busy /\ ~job.adminTouched /\ faults = 0 =>
        /\ job.pc \in {"sidecar", "ok"} => ~vault[dest].exec
        /\ job.pc = "ok" => sidecar[dest] = job.path

\* Only a file on another filesystem is copied.
Copied == Busy /\ job.pc \in {"copy", "verify", "remove"} => job.path \in CrossDevice

IsolationInv == Emptied /\ Stored /\ Disarmed /\ Copied

LEMMA InitIsolation == Init => IsolationInv
BY DEF Init, IsolationInv, Emptied, Stored, Disarmed, Copied, Busy

\* Each call finds done what the calls before it were for.
LEMMA AgentIsolation == IInv /\ IsolationInv /\ Agent => IsolationInv'
<1> SUFFICES ASSUME IInv, IsolationInv, Agent PROVE IsolationInv'
  OBVIOUS
<1> USE QuarantineAssumption, FileFacts DEF IInv
<1> USE DEF IsolationInv, Emptied, Stored, Disarmed, Copied, CopyIntact, Busy, NoJob, NoFile,
            At, Goto, dest
<1>1. ASSUME NEW p \in Path, Detect(p) PROVE IsolationInv'
  BY <1>1 DEF Detect
<1>2. CASE Missing
  BY <1>2 DEF Missing, TypeOK, Job
<1>3. CASE Rename
  BY <1>3 DEF Rename, TypeOK, Job
<1>4. CASE CopyStart
  BY <1>4 DEF CopyStart, TypeOK, Job, File
<1>5. CASE CopyEnd
  BY <1>5 DEF CopyEnd, TypeOK, Job, File
<1>6. CASE VerifyMatches
  BY <1>6 DEF VerifyMatches, TypeOK, Job
<1>7. CASE VerifyFails
  BY <1>7 DEF VerifyFails, TypeOK, Job
<1>8. CASE RemoveSource
  BY <1>8 DEF RemoveSource, TypeOK, Job
<1>9. CASE Chmod
  BY <1>9 DEF Chmod, TypeOK, Job, File
<1>10. CASE WriteSidecar
  BY <1>10 DEF WriteSidecar, Record, TypeOK, Job
<1>11. CASE Return
  BY <1>11 DEF Return
<1>12. CASE CallFails
  BY <1>12 DEF CallFails, Fault, TypeOK, Job
<1>13. CASE ChmodFails
  BY <1>13 DEF ChmodFails, Fault, TypeOK, Job
<1>14. CASE SidecarFails
  BY <1>14 DEF SidecarFails, Fault, Record, TypeOK, Job
<1>15. CASE Crash
  BY <1>15 DEF Crash, Fault, TypeOK
<1> QED
  BY <1>1, <1>2, <1>3, <1>4, <1>5, <1>6, <1>7, <1>8, <1>9, <1>10, <1>11, <1>12,
     <1>13, <1>14, <1>15 DEF Agent

\* Interference is recorded in the call, and no failed removal goes uncounted.
LEMMA OthersIsolation == IInv /\ IsolationInv /\ Others => IsolationInv'
<1> SUFFICES ASSUME IInv, IsolationInv, Others PROVE IsolationInv'
  OBVIOUS
<1> USE QuarantineAssumption, FileFacts DEF IInv
<1> USE DEF IsolationInv, Emptied, Stored, Disarmed, Copied, Busy, NoJob, Touch, dest
<1>1. ASSUME NEW p \in Path, NEW file, UserWrite(p, file)
      PROVE  IsolationInv'
  BY <1>1 DEF UserWrite, TypeOK, Job
<1>2. ASSUME NEW d \in Dest, NEW p \in Path, AdminRestore(d, p)
      PROVE  IsolationInv'
  BY <1>2 DEF AdminRestore, TypeOK, Job
<1>3. ASSUME NEW d \in Dest, AdminDelete(d)
      PROVE  IsolationInv'
  <2>1. src' = src /\ sidecar' = [sidecar EXCEPT ![d] = NoPath]
    BY <1>3 DEF AdminDelete
  <2>2. CASE vault' = vault /\ job' = job /\ Fault
    BY <2>1, <2>2 DEF Fault, TypeOK, Job
  <2>3. CASE /\ vault' = [vault EXCEPT ![d] = NoFile]
             /\ Touch(FALSE, Busy /\ d = dest)
             /\ UNCHANGED faults
    BY <2>1, <2>3 DEF TypeOK, Job
  <2> QED
    BY <1>3, <2>2, <2>3 DEF AdminDelete
<1> QED
  BY <1>1, <1>2, <1>3 DEF Others

LEMMA IsolationInvariance == Spec => []IsolationInv
<1>1. IInv /\ IsolationInv /\ [Next]_vars => IsolationInv'
  <2>1. IsolationInv /\ UNCHANGED vars => IsolationInv'
    BY DEF IsolationInv, Emptied, Stored, Disarmed, Copied, Busy, dest, vars
  <2> QED
    BY <2>1, AgentIsolation, OthersIsolation DEF Next
<1> QED
  BY InitIsolation, <1>1, Invariance, PTL DEF Spec

(* What the call returns Ok for has happened, for any paths and failures:  *)
(* the path is empty and the sample in the quarantine, disarmed and with   *)
(* its sidecar when no call failed, unless somebody else interfered.       *)
THEOREM OkMeansIsolatedAlways == Spec => []OkMeansIsolated
<1>1. IInv /\ IsolationInv => OkMeansIsolated
  BY DEF IInv, MoveIntact, Undisturbed, IsolationInv, Emptied, Stored, Disarmed, OkMeansIsolated
<1> QED
  BY <1>1, Invariance, IsolationInvariance, PTL

\* Only users and administrators edit.
LEMMA EditsCounted ==
    /\ Agent => edits' = edits
    /\ TypeOK /\ Others => edits' = edits + 1 /\ edits \in Nat
<1>1. \A p \in Path : Detect(p) => edits' = edits
  BY DEF Detect
<1>2. Missing \/ Rename \/ CopyStart \/ CopyEnd => edits' = edits
  BY DEF Missing, Rename, CopyStart, CopyEnd
<1>3. VerifyMatches \/ VerifyFails \/ RemoveSource \/ Chmod => edits' = edits
  BY DEF VerifyMatches, VerifyFails, RemoveSource, Chmod
<1>4. WriteSidecar \/ Return \/ CallFails => edits' = edits
  BY DEF WriteSidecar, Return, CallFails
<1>5. ChmodFails \/ SidecarFails \/ Crash => edits' = edits
  BY DEF ChmodFails, SidecarFails, Crash
<1>6. ASSUME Others
      PROVE  edits' = edits + 1
  <2>1. \A p, file : UserWrite(p, file) => edits' = edits + 1
    BY DEF UserWrite, Edit
  <2>2. \A d, p : AdminRestore(d, p) => edits' = edits + 1
    BY DEF AdminRestore, Edit
  <2>3. \A d : AdminDelete(d) => edits' = edits + 1
    BY DEF AdminDelete, Edit
  <2> QED
    BY <1>6, <2>1, <2>2, <2>3 DEF Others
<1> QED
  BY <1>1, <1>2, <1>3, <1>4, <1>5, <1>6 DEF Agent, TypeOK

(* NothingDeletedFirst for any paths, users and admins: the two steps that *)
(* empty a path are the rename, which moves what is there, and the removal *)
(* of a source whose copy was verified.                                    *)
THEOREM NothingDeletedFirstAlways == Spec => NothingDeletedFirst
<1> DEFINE Kept(p) ==
      src[p].data # Nothing /\ src'[p].data = Nothing /\ edits' = edits =>
         /\ Busy /\ p = job.path
         /\ \/ vault'[dest].data = src[p].data
            \/ job.userTouched /\ vault'[dest].data = job.sha
            \/ job.adminTouched
<1>1. ASSUME IInv, IsolationInv, [Next]_vars, NEW p \in Path
      PROVE  Kept(p)
  <2> USE <1>1
  <2>1. CASE UNCHANGED src
    BY <2>1
  <2>2. CASE Rename
    BY <2>2, FileFacts DEF Rename, At, IInv, TypeOK
  <2>3. CASE RemoveSource
    <3>1. job.path \in CrossDevice /\ (job.adminTouched \/ vault[dest].data = job.sha)
      BY <2>3 DEF RemoveSource, At, IInv, IsolationInv, Copied, CopyIntact
    <3>2. job.userTouched \/ src[job.path].data = job.sha
      BY <2>3 DEF RemoveSource, At, IInv, SourceIntact
    <3>3. src'[p].data # src[p].data => p = job.path
      BY <2>3 DEF RemoveSource, IInv, TypeOK
    <3> QED
      BY <2>3, <3>1, <3>2, <3>3 DEF RemoveSource, At
  <2>4. CASE Others
    <3>1. edits' # edits
      BY <2>4, EditsCounted DEF IInv
    <3> QED
      BY <3>1
  <2> QED
    BY <2>1, <2>2, <2>3, <2>4
       DEF Next, Agent, vars, Detect, Missing, CopyStart, CopyEnd, VerifyMatches, VerifyFails,
           Chmod, WriteSidecar, Return, CallFails, ChmodFails, SidecarFails, Crash
<1>2. IInv /\ IsolationInv /\ [Next]_vars => [\A p \in Path : Kept(p)]_vars
  BY <1>1
<1> QED
  BY <1>2, Invariance, IsolationInvariance, PTL DEF Spec, NothingDeletedFirst

-----------------------------------------------------------------------------
(* While nobody edits, a name in quarantine holds its sample also during   *)
(* a call, except the one a copy is being made over.                       *)
Preserved(d) ==
    \/ vault[d].data = d[1]
    \/ faults > 0 /\ \E p \in CrossDevice : NameOf[p] = d[2]
    \/ Busy /\ job.pc = "copy" /\ d = dest

Undisputed ==
    /\ Busy => ~job.userTouched /\ ~job.adminTouched
    /\ \A d \in quarantined : Preserved(d)

DuplicatesInv == edits = 0 => Undisputed

LEMMA AgentUndisputed == IInv /\ IsolationInv /\ Undisputed /\ Agent => Undisputed'
<1> SUFFICES ASSUME IInv, IsolationInv, Undisputed, Agent PROVE Undisputed'
  OBVIOUS
<1>0. /\ TypeOK
      /\ Busy => ~job.userTouched /\ ~job.adminTouched
      /\ \A d \in quarantined : Preserved(d)
      /\ quarantined \subseteq Dest
      /\ Busy => dest[1] = job.sha /\ dest[2] = NameOf[job.path]
  BY DEF IInv, Undisputed, TypeOK, dest
<1> USE QuarantineAssumption, FileFacts, <1>0
<1> USE DEF Preserved, Busy, NoJob, NoFile, At, Goto
<1>1. ASSUME NEW p \in Path, Detect(p) PROVE Undisputed'
  BY <1>1 DEF Undisputed, Detect
<1>2. CASE Missing
  BY <1>2 DEF Undisputed, Missing, TypeOK, Job, dest
<1>3. CASE Rename
  <2>1. src[job.path].data = job.sha
    BY <1>3 DEF Rename, IInv, SourceIntact
  <2> QED
    BY <1>3, <2>1 DEF Undisputed, Rename, TypeOK, Job
<1>4. CASE CopyStart
  BY <1>4 DEF Undisputed, CopyStart, TypeOK, Job, dest
<1>5. CASE CopyEnd
  <2>1. src[job.path].data = job.sha
    BY <1>5 DEF CopyEnd, IInv, SourceIntact
  <2> QED
    BY <1>5, <2>1 DEF Undisputed, CopyEnd, TypeOK, Job, File
<1>6. CASE VerifyMatches
  BY <1>6 DEF Undisputed, VerifyMatches, TypeOK, Job
<1>7. CASE VerifyFails
  BY <1>7 DEF VerifyFails, IInv, MoveIntact, Undisturbed
<1>8. CASE RemoveSource
  BY <1>8 DEF Undisputed, RemoveSource, TypeOK, Job
<1>9. CASE Chmod
  BY <1>9 DEF Undisputed, Chmod, TypeOK, Job, File
<1>10. CASE WriteSidecar
  BY <1>10 DEF Undisputed, WriteSidecar, Record, TypeOK, Job
<1>11. CASE Return
  BY <1>11 DEF Undisputed, Return
<1>12. CASE CallFails
  BY <1>12 DEF Undisputed, CallFails, Fault, TypeOK, Job, IsolationInv, Copied
<1>13. CASE ChmodFails
  BY <1>13 DEF Undisputed, ChmodFails, Fault, TypeOK, Job
<1>14. CASE SidecarFails
  BY <1>14 DEF Undisputed, SidecarFails, Record, Fault, TypeOK, Job
<1>15. CASE Crash
  BY <1>15 DEF Undisputed, Crash, Fault, TypeOK, IsolationInv, Copied
<1> QED
  BY <1>1, <1>2, <1>3, <1>4, <1>5, <1>6, <1>7, <1>8, <1>9, <1>10, <1>11, <1>12,
     <1>13, <1>14, <1>15 DEF Agent

(* A duplicate is only lost to a copy that fails over it or to somebody    *)
(* else's hand, however often the same bytes are detected.                 *)
THEOREM DuplicatesKeptAloneAlways == Spec => []DuplicatesKeptAlone
<1>1. Init => DuplicatesInv
  BY DEF Init, DuplicatesInv, Undisputed, Busy
<1>2. IInv /\ IsolationInv /\ DuplicatesInv /\ [Next]_vars => DuplicatesInv'
  <2>1. DuplicatesInv /\ UNCHANGED vars => DuplicatesInv'
    BY DEF DuplicatesInv, Undisputed, Preserved, Busy, dest, vars
  <2>2. IInv /\ Others => edits' # 0
    BY EditsCounted DEF IInv
  <2> QED
    BY <2>1, <2>2, AgentUndisputed, EditsCounted DEF Next, DuplicatesInv
<1>3. DuplicatesInv => DuplicatesKeptAlone
  BY DEF DuplicatesInv, Undisputed, Preserved, DuplicatesKeptAlone
<1> QED
  BY <1>1, <1>2, <1>3, Invariance, IsolationInvariance, PTL DEF Spec
=============================================================================
