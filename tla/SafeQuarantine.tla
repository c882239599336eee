--------------------------- MODULE SafeQuarantine ---------------------------
(***************************************************************************)
(* quarantine_file of the agent (agent/src/quarantine_safe.rs), called     *)
(* through enforce_quarantine (policy_engine.rs), at the grain of its      *)
(* system calls: anything may happen to the files, and the agent may be    *)
(* killed, between two of them.  The admin entry points restore_file and   *)
(* delete_quarantined of the same file run beside it.                      *)
(*                                                                         *)
(* A file's bytes are a sample and its SHA-256 is the sample itself.  A    *)
(* quarantined file is named by the digest the agent computed when it saw  *)
(* the file and by the file's name, as dest_name is.                       *)
(***************************************************************************)
EXTENDS Integers

CONSTANTS
    Sample,        \* file contents
    Nothing,       \* no file
    Torn,          \* contents of a half-written copy
    Path, Name,    \* monitored paths and file names
    NameOf,        \* the last component of a path
    CrossDevice,   \* paths on another filesystem than the quarantine
    NoPath,        \* no sidecar
    MaxFaults,     \* bound on failed calls and crashes
    MaxEdits       \* bound on what users and admins do to files

ASSUME QuarantineAssumption ==
    /\ Nothing \notin Sample /\ Torn \notin Sample /\ Nothing # Torn
    /\ NameOf \in [Path -> Name]
    /\ CrossDevice \subseteq Path
    /\ NoPath \notin Path
    /\ MaxFaults \in Nat /\ MaxEdits \in Nat

VARIABLES
    src,       \* src[p]: the file at monitored path p
    vault,     \* vault[d]: the file at quarantine name d
    sidecar,   \* sidecar[d]: original_path recorded beside d
    job,       \* the quarantine_file call in progress
    quarantined,  \* history: quarantine names a call returned, holding the sample convicted
    faults, edits

vars == <<src, vault, sidecar, job, quarantined, faults, edits>>

Dest == Sample \X Name
File == [data: Sample \cup {Nothing, Torn}, exec: BOOLEAN]
NoFile == [data |-> Nothing, exec |-> FALSE]

(* pc is the next system call.  userTouched and adminTouched record that   *)
(* since the file was hashed somebody else changed the file at the path,   *)
(* or the one at the quarantine name.                                      *)
NoJob == [pc |-> "idle"]
Job == [pc: {"move", "copy", "verify", "remove", "chmod", "sidecar", "ok", "failed"},
        path: Path, sha: Sample, userTouched: BOOLEAN, adminTouched: BOOLEAN]

Busy == job # NoJob

\* Mutant of dest: the file's name alone.
destByName == <<CHOOSE sample \in Sample : TRUE, NameOf[job.path]>>

dest == <<job.sha, NameOf[job.path]>>

Init ==
    /\ src \in [Path -> [data: Sample \cup {Nothing}, exec: BOOLEAN]]
    /\ \A p \in Path : src[p].data = Nothing => ~src[p].exec
    /\ vault = [d \in Dest |-> NoFile]
    /\ sidecar = [d \in Dest |-> NoPath]
    /\ job = NoJob
    /\ quarantined = {}
    /\ faults = 0
    /\ edits = 0

Fault == faults < MaxFaults /\ faults' = faults + 1
At(pc) == Busy /\ job.pc = pc
Goto(pc) == job' = [job EXCEPT !.pc = pc]
Record == quarantined' = quarantined \cup {d \in {dest} : vault[d].data = job.sha}

-----------------------------------------------------------------------------
\* The event loop hashes a file, a rule or a verdict says it is malicious.
Detect(p) ==
    /\ ~Busy
    /\ src[p].data \in Sample
    /\ job' = [pc |-> "move", path |-> p, sha |-> src[p].data,
               userTouched |-> FALSE, adminTouched |-> FALSE]
    /\ UNCHANGED <<src, vault, sidecar, quarantined, faults, edits>>

\* Both exists() checks and a rename that finds no file end the same way.
Missing ==
    /\ At("move")
    /\ src[job.path].data = Nothing
    /\ Goto("failed")
    /\ UNCHANGED <<src, vault, sidecar, quarantined, faults, edits>>

\* rename() replaces whatever is at the destination.
Rename ==
    /\ At("move")
    /\ src[job.path].data # Nothing
    /\ job.path \notin CrossDevice
    /\ vault' = [vault EXCEPT ![dest] = src[job.path]]
    /\ src' = [src EXCEPT ![job.path] = NoFile]
    /\ Goto("chmod")
    /\ UNCHANGED <<sidecar, quarantined, faults, edits>>

\* Mutant: the source is removed before it is copied.
CopyStartDeletesFirst ==
    /\ At("move")
    /\ src[job.path].data # Nothing
    /\ job.path \in CrossDevice
    /\ vault' = [vault EXCEPT ![dest] = [data |-> Torn, exec |-> src[job.path].exec]]
    /\ src' = [src EXCEPT ![job.path] = NoFile]
    /\ Goto("copy")
    /\ UNCHANGED <<sidecar, quarantined, faults, edits>>

\* EXDEV: fs::copy creates or truncates the destination with the source's mode.
CopyStart ==
    /\ At("move")
    /\ src[job.path].data # Nothing
    /\ job.path \in CrossDevice
    /\ vault' = [vault EXCEPT ![dest] = [data |-> Torn, exec |-> src[job.path].exec]]
    /\ Goto("copy")
    /\ UNCHANGED <<src, sidecar, quarantined, faults, edits>>

(* What was read is the file as it is, or, if somebody wrote to it or      *)
(* replaced it meanwhile, as it was, or part of each.                      *)
CopyEnd ==
    /\ At("copy")
    /\ \E data \in IF job.userTouched THEN {src[job.path].data, job.sha, Torn} \ {Nothing}
                   ELSE {src[job.path].data} :
          vault' = [vault EXCEPT ![dest].data = data]
    /\ Goto("verify")
    /\ UNCHANGED <<src, sidecar, quarantined, faults, edits>>

\* Mutant: the copy is not hashed again.
VerifyMatchesAnything ==
    /\ At("verify")
    /\ Goto("remove")
    /\ UNCHANGED <<src, vault, sidecar, quarantined, faults, edits>>

VerifyMatches ==
    /\ At("verify")
    /\ vault[dest].data = job.sha
    /\ Goto("remove")
    /\ UNCHANGED <<src, vault, sidecar, quarantined, faults, edits>>

\* HashMismatch: the broken copy is removed, the original is kept.
VerifyFails ==
    /\ At("verify")
    /\ vault[dest].data # job.sha
    /\ vault' = [vault EXCEPT ![dest] = NoFile]
    /\ Goto("failed")
    /\ UNCHANGED <<src, sidecar, quarantined, faults, edits>>

\* remove_file fails when a user has removed the file first: the call returns Err.
RemoveSource ==
    /\ At("remove")
    /\ src' = [src EXCEPT ![job.path] = NoFile]
    /\ Goto(IF src[job.path].data = Nothing THEN "failed" ELSE "chmod")
    /\ UNCHANGED <<vault, sidecar, quarantined, faults, edits>>

Chmod ==
    /\ At("chmod")
    /\ vault' = [vault EXCEPT ![dest].exec = FALSE]
    /\ Goto("sidecar")
    /\ UNCHANGED <<src, sidecar, quarantined, faults, edits>>

\* Mutant: the sidecar records the file name, not the path.
WriteSidecarName ==
    /\ At("sidecar")
    /\ sidecar' = [sidecar EXCEPT ![dest] = NameOf[job.path]]
    /\ Record
    /\ Goto("ok")
    /\ UNCHANGED <<src, vault, faults, edits>>

WriteSidecar ==
    /\ At("sidecar")
    /\ sidecar' = [sidecar EXCEPT ![dest] = job.path]
    /\ Record
    /\ Goto("ok")
    /\ UNCHANGED <<src, vault, faults, edits>>

\* enforce_quarantine logs the result, runs pkill and returns to the event loop.
Return ==
    /\ Busy
    /\ job.pc \in {"ok", "failed"}
    /\ job' = NoJob
    /\ UNCHANGED <<src, vault, sidecar, quarantined, faults, edits>>

\* Mutant: the error path cleans up the source instead of the copy.
CallFailsCleansUp ==
    /\ Busy
    /\ job.pc \in {"move", "copy", "verify", "remove"}
    /\ Fault
    /\ src' = [src EXCEPT ![job.path] = NoFile]
    /\ Goto("failed")
    /\ UNCHANGED <<vault, sidecar, quarantined, edits>>

\* Mutant of CallFails: an error of remove_file is ignored.
CallFailsOrGoesOn ==
    /\ Busy
    /\ job.pc \in {"move", "copy", "verify", "remove"}
    /\ Fault
    /\ Goto(IF job.pc = "remove" THEN "chmod" ELSE "failed")
    /\ UNCHANGED <<src, vault, sidecar, quarantined, edits>>

(* rename, copy, the re-hash or remove_file fail: the call returns the     *)
(* error and leaves the copy, whole or not, where it is.                   *)
CallFails ==
    /\ Busy
    /\ job.pc \in {"move", "copy", "verify", "remove"}
    /\ Fault
    /\ Goto("failed")
    /\ UNCHANGED <<src, vault, sidecar, quarantined, edits>>

\* chmod and the sidecar are best effort.
ChmodFails ==
    /\ At("chmod")
    /\ Fault
    /\ Goto("sidecar")
    /\ UNCHANGED <<src, vault, sidecar, quarantined, edits>>

SidecarFails ==
    /\ At("sidecar")
    /\ Fault
    /\ Record
    /\ Goto("ok")
    /\ UNCHANGED <<src, vault, sidecar, edits>>

\* The agent dies; nothing it starts again with knows about the call.
Crash ==
    /\ Busy
    /\ Fault
    /\ job' = NoJob
    /\ UNCHANGED <<src, vault, sidecar, quarantined, edits>>

-----------------------------------------------------------------------------
Edit == edits < MaxEdits /\ edits' = edits + 1

Touch(byUser, byAdmin) ==
    job' = IF Busy THEN [job EXCEPT !.userTouched = @ \/ byUser,
                                    !.adminTouched = @ \/ byAdmin]
           ELSE job

\* A user creates, rewrites or removes a monitored file.
UserWrite(p, file) ==
    /\ Edit
    /\ src' = [src EXCEPT ![p] = file]
    /\ Touch(Busy /\ p = job.path, FALSE)
    /\ UNCHANGED <<vault, sidecar, quarantined, faults>>

(* restore_file: rename over whatever is at the path, mode 0o644; the      *)
(* sidecar stays.  A path on another filesystem cannot be restored: there  *)
(* is no copy fallback and rename changes nothing.                         *)
AdminRestore(d, p) ==
    /\ vault[d] # NoFile
    /\ p \notin CrossDevice
    /\ Edit
    /\ src' = [src EXCEPT ![p] = [data |-> vault[d].data, exec |-> FALSE]]
    /\ vault' = [vault EXCEPT ![d] = NoFile]
    /\ quarantined' = quarantined \ {d}
    /\ Touch(Busy /\ p = job.path, Busy /\ d = dest)
    /\ UNCHANGED <<sidecar, faults>>

\* delete_quarantined: the sidecar first, then the file, which may fail.
AdminDelete(d) ==
    /\ vault[d] # NoFile
    /\ Edit
    /\ sidecar' = [sidecar EXCEPT ![d] = NoPath]
    /\ \/ /\ vault' = [vault EXCEPT ![d] = NoFile]
          /\ quarantined' = quarantined \ {d}
          /\ Touch(FALSE, Busy /\ d = dest)
          /\ UNCHANGED faults
       \/ /\ Fault
          /\ UNCHANGED <<vault, quarantined, job>>
    /\ UNCHANGED src

Agent ==
    \/ \E p \in Path : Detect(p)
    \/ Missing \/ Rename \/ CopyStart \/ CopyEnd \/ VerifyMatches \/ VerifyFails
    \/ RemoveSource \/ Chmod \/ WriteSidecar \/ Return
    \/ CallFails \/ ChmodFails \/ SidecarFails \/ Crash

Others ==
    \/ \E p \in Path, data \in Sample, exec \in BOOLEAN :
          UserWrite(p, [data |-> data, exec |-> exec])
    \/ \E p \in Path : UserWrite(p, NoFile)
    \/ \E d \in Dest, p \in Path : AdminRestore(d, p)
    \/ \E d \in Dest : AdminDelete(d)

Next == Agent \/ Others

Spec == Init /\ [][Next]_vars

-----------------------------------------------------------------------------
TypeOK ==
    /\ src \in [Path -> File]
    /\ vault \in [Dest -> File]
    /\ sidecar \in [Dest -> Path \cup {NoPath}]
    /\ job \in Job \cup {NoJob}
    /\ quarantined \subseteq Dest
    /\ faults \in 0..MaxFaults
    /\ edits \in 0..MaxEdits

Undisturbed == Busy /\ ~job.userTouched /\ ~job.adminTouched

(* "We never delete first, avoiding data loss on crash mid-operation"      *)
(* (quarantine_safe.rs:7-8): at every point where the agent can be killed, *)
(* the detected sample is whole at its path or in the quarantine, unless   *)
(* somebody else changed one of the two files.                             *)
SampleSurvives ==
    Undisturbed => \/ src[job.path].data = job.sha
                   \/ vault[dest].data = job.sha

(* The copy across filesystems protects more (quarantine_safe.rs:136-145): *)
(* even when users write to the file while it is copied, the source is     *)
(* only removed once the quarantine holds exactly the bytes that were      *)
(* convicted.                                                              *)
VerifiedCopy ==
    Busy /\ job.path \in CrossDevice /\ ~job.adminTouched
         /\ job.pc \in {"remove", "chmod", "sidecar", "ok"}
    => vault[dest].data = job.sha

(* "If quarantine failed, the file is still at its original path"          *)
(* (policy_engine.rs:71).                                                  *)
FailureKeepsOriginal ==
    Undisturbed /\ job.pc = "failed" => src[job.path].data = job.sha

(* "The final quarantine path on success" (quarantine_safe.rs:97): when    *)
(* the call returns Ok, the file is no longer at its path and lies at the  *)
(* quarantine name, unless somebody else interfered after it was hashed;   *)
(* and if no call failed, not executable and with the sidecar that says    *)
(* where it came from.                                                     *)
OkMeansIsolated ==
    Busy /\ job.pc = "ok" =>
        /\ ~job.userTouched => src[job.path].data = Nothing
        /\ ~job.adminTouched =>
              /\ vault[dest].data # Nothing
              /\ ~job.userTouched => vault[dest].data = job.sha
              /\ faults = 0 => ~vault[dest].exec /\ sidecar[dest] = job.path

(* "preserve the original until we confirm the copy is intact"             *)
(* (quarantine_safe.rs:86), whatever users do meanwhile: the agent empties *)
(* a path only in its own call on that path, and only when the quarantine  *)
(* holds what was there or, for a copy users interfered with, what was     *)
(* convicted.                                                              *)
NothingDeletedFirst ==
    [][\A p \in Path :
          src[p].data # Nothing /\ src'[p].data = Nothing /\ edits' = edits =>
             /\ Busy /\ p = job.path
             /\ \/ vault'[dest].data = src[p].data
                \/ job.userTouched /\ vault'[dest].data = job.sha
                \/ job.adminTouched]_vars

(* What does hold of duplicates: while only the agent handles the files, a *)
(* sample that was quarantined stays there through any number of           *)
(* detections of the same bytes and name; only once something has failed,  *)
(* as a copy over it does, one whose name another filesystem has too may   *)
(* be gone.  Here the name's 16 digits stand for the whole digest.         *)
DuplicatesKeptAlone ==
    ~Busy /\ edits = 0 =>
        \A d \in quarantined :
            \/ vault[d].data = d[1]
            \/ faults > 0 /\ \E p \in CrossDevice : NameOf[p] = d[2]

(* quarantine_safe.rs:112: "Prefix with SHA-256 so duplicate detections    *)
(* don't overwrite each other": between two calls, a sample that was       *)
(* quarantined is still there unless an admin restored or deleted it.      *)
DuplicatesKept == ~Busy => \A d \in quarantined : vault[d].data = d[1]

(* quarantine_safe.rs:9: "Execute bits stripped immediately on isolation": *)
(* between two calls nothing executable lies in the quarantine.            *)
ExecuteBitsStripped == ~Busy => \A d \in Dest : ~vault[d].exec
=============================================================================
