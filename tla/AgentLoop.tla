----------------------------- MODULE AgentLoop ------------------------------
(***************************************************************************)
(* The endpoint agent: the file monitor and its channel (monitor.rs), the  *)
(* event loop (main.rs), the HTTP client (api_client.rs), the LRU cache    *)
(* (hash_engine.rs) and the offline queue (offline_queue.rs).              *)
(*                                                                         *)
(* The loop is one task that handles one event at a time; what runs beside *)
(* it are the watcher's thread, the users of the monitored files and the   *)
(* backend.  They act between any two awaits or file operations of the     *)
(* loop.  A file's content stands for its digest.  The backend is what     *)
(* VerdictService promises, over classes; AnalysisPipeline keeps that      *)
(* promise over risk scores.                                               *)
(*                                                                         *)
(* Not every file name is UTF-8.  The loop hashes, uploads and quarantines *)
(* the path it was given; the offline queue and the YARA scan have the     *)
(* path that to_string_lossy makes of it, which is Named.                  *)
(***************************************************************************)
EXTENDS LocalCache

CONSTANTS
    Path,            \* monitored paths
    Named,           \* Named[p]: the path that to_string_lossy of p names
    Nothing,         \* no file; not hashed; not uploaded
    Malicious,       \* the class that is quarantined
    YaraHits,        \* contents a local rule matches
    Refused,         \* paths whose name, contents whose size the API refuses
    NoticeSize,      \* events the kernel queues (fs.inotify.max_queued_events)
    ChannelSize,     \* mpsc::channel(100)
    UploadAttempts,  \* max_retries of upload_file
    PollAttempts,    \* polls of one task
    MaxFaults,       \* bound on failures and crashes of the agent
    MaxQueue,        \* bound on the queue's length at which users pause
    MaxOthers        \* bound on changes of files and what others ask the backend

ASSUME AgentAssumption ==
    /\ Nothing \notin Digest /\ Nothing \notin Path
    /\ Named \in [Path -> Path] /\ \A p \in Path : Named[Named[p]] = Named[p]
    /\ Malicious \in Class
    /\ YaraHits \subseteq Digest
    /\ Refused \subseteq Path \cup Digest
    /\ NoticeSize \in Nat \ {0} /\ ChannelSize \in Nat \ {0}
    /\ UploadAttempts \in Nat \ {0}
    /\ PollAttempts \in Nat \ {0}
    /\ MaxFaults \in Nat /\ MaxQueue \in Nat /\ MaxOthers \in Nat

VARIABLES
    file,      \* file[p]: the content at path p
    notices,   \* the kernel's events the watcher has yet to pass on, by path
    channel,   \* the event channel
    pc,        \* where the loop is
    event,     \* the event in hand
    tries,     \* attempts of the upload or polls of the task in hand
    todo,      \* flush_offline_queue: events still to look at
    kept,      \* flush_offline_queue: remaining
    queue,     \* the entries of the offline queue file
    tail,      \* how its last line ends: "clean", "open" or "partial"
    cache,     \* the LRU cache
    status,    \* status[h]: how far the backend is with h
    grounds,   \* grounds[h]: the classes the evidence on h supports
    known,     \* known[h]: the classes the backend may answer for h
    owed,      \* history: files hashed and not yet dealt with
    lost,      \* history: hashed files a failure made the agent forget
    missed,    \* history: paths whose last event was lost before they were hashed
    misread,   \* history: digests, each with other bytes that were read for it
    faults, others

fileVars == <<file, notices>>
flushVars == <<todo, kept>>
queueVars == <<queue, tail>>
backendVars == <<status, grounds, known>>
envVars == <<fileVars, channel, backendVars, others>>
history == <<owed, lost, missed, misread>>
vars == <<file, notices, channel, pc, event, tries, todo, kept, queue, tail,
          cache, status, grounds, known, owed, lost, missed, misread, faults,
          others>>

Entry == [path: Path, sha: Digest]
NoEvent == [path |-> Nothing, sha |-> Nothing, sent |-> Nothing]
Event == [path: Path, sha: Digest \cup {Nothing}, sent: Digest \cup {Nothing}]
InHand == [path |-> event.path, sha |-> event.sha]
Queued == [path |-> Named[event.path], sha |-> event.sha]

Backend == INSTANCE VerdictService WITH File <- Digest, Verdict <- Class

Init ==
    /\ file \in [Path -> Digest \cup {Nothing}]
    /\ notices = <<>>
    /\ channel = <<>>
    /\ pc = "recv"
    /\ event = NoEvent
    /\ tries = 0
    /\ todo = <<>> /\ kept = <<>>
    /\ queue = <<>> /\ tail = "clean"
    /\ cache = EmptyCache
    /\ Backend!Init
    /\ owed = {} /\ lost = {} /\ missed = {} /\ misread = {}
    /\ faults = 0 /\ others = 0

Fault == faults < MaxFaults /\ faults' = faults + 1

Another == others < MaxOthers /\ others' = others + 1

-----------------------------------------------------------------------------
\* Paths with an event that the agent has still to answer by hashing them.
Pending ==
    Range(notices) \cup Range(channel)
    \cup IF pc \in {"flush", "flush_lookup", "hash"} THEN {event.path} ELSE {}

\* An event for p is lost; it matters if none is left.
Overlooked(p) == missed' = IF p \in Pending' THEN missed ELSE missed \cup {p}

(* The kernel queues an event while there is room, and drops it otherwise; *)
(* what notify says of an overflow, monitor.rs ignores.                    *)
Notify(p) ==
    IF Len(notices) < NoticeSize
    THEN /\ notices' = Append(notices, p)
         /\ missed' = missed \ {p}
    ELSE /\ UNCHANGED notices
         /\ Overlooked(p)

\* The users of the monitored files: a file is created, or written and closed.
Write(p, content) ==
    /\ Another
    /\ file' = [file EXCEPT ![p] = content]
    /\ UNCHANGED <<channel, pc, event, tries, flushVars, queueVars, cache,
                   backendVars, owed, lost, misread, faults>>
    /\ Notify(p)

\* A file opened for writing and closed unchanged is an event all the same.
CloseWrite(p) ==
    /\ file[p] # Nothing
    /\ Len(queue) < MaxQueue
    /\ UNCHANGED <<file, channel, pc, event, tries, flushVars, queueVars,
                   cache, backendVars, owed, lost, misread, faults, others>>
    /\ Notify(p)

(* Of these the watcher passes nothing on: a file is removed, renamed into *)
(* place or away, or written through a descriptor that stays open.         *)
ChangeQuietly(p, content) ==
    /\ Another
    /\ file' = [file EXCEPT ![p] = content]
    /\ UNCHANGED <<notices, channel, pc, event, tries, flushVars, queueVars,
                   cache, backendVars, history, faults>>

\* path.is_file() for the event the watcher has in hand.
IsFile == file[Head(notices)] # Nothing

Passed(sent) ==
    /\ notices # <<>>
    /\ notices' = Tail(notices)
    /\ channel' = IF sent THEN Append(channel, Head(notices)) ELSE channel
    /\ UNCHANGED <<file, pc, event, tries, flushVars, queueVars, cache,
                   backendVars, owed, lost, misread, others>>

\* Mutant of Deliver: the channel has no bound.
DeliverUnbounded == Passed(IsFile) /\ UNCHANGED <<missed, faults>>

\* Mutant of Deliver: try_send, its error ignored.
DeliverOrDrop ==
    /\ Passed(IsFile /\ Len(channel) < ChannelSize)
    /\ UNCHANGED <<missed, faults>>

(* The watcher's callback: is_file, then a send that blocks its thread     *)
(* while the channel is full.                                              *)
Deliver ==
    /\ notices # <<>>
    /\ IsFile => Len(channel) < ChannelSize
    /\ Passed(IsFile)
    /\ UNCHANGED <<missed, faults>>

\* is_file is false of a file whose metadata cannot be read, too.
DeliverFails ==
    /\ notices # <<>>
    /\ IsFile
    /\ Fault
    /\ Passed(FALSE)
    /\ Overlooked(Head(notices))

agentVars == <<fileVars, channel, pc, event, tries, flushVars, queueVars,
               cache, history, faults>>

\* The analysis of a submitted file ends, with a verdict or without one.
Analyse(h) == Backend!Settle(h) /\ UNCHANGED <<agentVars, others>>

\* Uploads of other endpoints, redeliveries, new evidence, expired copies.
Elsewhere ==
    /\ Another
    /\ Backend!Next
    /\ UNCHANGED agentVars

-----------------------------------------------------------------------------
(* enforce_quarantine of what is at p under digest h: nothing if the file  *)
(* is gone; a call that fails leaves the file and is only logged, as does  *)
(* one that copies to another filesystem and finds other bytes             *)
(* (HashMismatch).  SafeQuarantine has its steps.                          *)
Enforce(p, h) ==
    \/ /\ file' = [file EXCEPT ![p] = Nothing]
       /\ UNCHANGED faults
    \/ /\ file[p] \notin {h, Nothing}
       /\ UNCHANGED <<file, faults>>
    \/ /\ file[p] # Nothing
       /\ Fault
       /\ UNCHANGED file

\* apply_policy: other classes are logged.
ApplyPolicy(p, h, class) ==
    IF class = Malicious THEN Enforce(p, h) ELSE UNCHANGED <<file, faults>>

\* A read that came after the file in hand was hashed found these bytes.
ReadAgain(bytes) ==
    misread' = misread \cup
                  {[sha |-> h, read |-> bytes] : h \in {event.sha} \ {bytes}}

\* The end of an iteration: processing_queue.remove and the next recv.
Done ==
    /\ pc' = "recv"
    /\ event' = NoEvent
    /\ tries' = 0

\* A queue file that cannot be opened passes for an empty one.
Receive ==
    /\ pc = "recv"
    /\ channel # <<>>
    /\ event' = [NoEvent EXCEPT !.path = Head(channel)]
    /\ channel' = Tail(channel)
    /\ \/ todo' = queue /\ UNCHANGED faults
       \/ queue # <<>> /\ todo' = <<>> /\ Fault
    /\ pc' = IF todo' = <<>> THEN "hash" ELSE "flush"
    /\ UNCHANGED <<fileVars, tries, kept, queueVars, cache, backendVars,
                   history, others>>

(* flush_offline_queue drops an entry when exists() is false of its path:  *)
(* the file is gone, or, which it does not tell apart, its metadata cannot *)
(* be read.                                                                *)
FlushGone ==
    /\ pc = "flush"
    /\ todo # <<>>
    /\ \/ /\ file[Head(todo).path] = Nothing
          /\ owed' = owed \ {Head(todo)}
          /\ UNCHANGED <<lost, faults>>
       \/ /\ file[Head(todo).path] # Nothing
          /\ Fault
          /\ lost' = lost \cup (owed \cap {Head(todo)})
          /\ UNCHANGED owed
    /\ todo' = Tail(todo)
    /\ UNCHANGED <<envVars, pc, event, tries, kept, queueVars, cache, missed,
                   misread>>

FlushAsk ==
    /\ pc = "flush"
    /\ todo # <<>>
    /\ file[Head(todo).path] # Nothing
    /\ pc' = "flush_lookup"
    /\ UNCHANGED <<envVars, event, tries, flushVars, queueVars, cache,
                   history, faults>>

\* Ok(Some(verdict)): cached and enforced.
FlushVerdictAt(p) ==
    /\ pc = "flush_lookup"
    /\ LET e == Head(todo)
       IN  /\ \E v \in known[e.sha] :
                 /\ cache' = Stored(cache, e.sha, v)
                 /\ ApplyPolicy(p, e.sha, v)
           /\ owed' = owed \ {e}
    /\ todo' = Tail(todo)
    /\ pc' = "flush"
    /\ UNCHANGED <<notices, others, channel, event, tries, queueVars,
                   backendVars, lost, missed, misread>>

FlushVerdict == FlushVerdictAt(Head(todo).path)

\* Mutant of FlushFound: the verdict is applied to the file just received.
FlushFoundInHand == FlushVerdictAt(event.path) /\ UNCHANGED kept

\* Mutant of FlushFound: the entry remains although its verdict was applied.
FlushFoundKept == FlushVerdict /\ kept' = Append(kept, Head(todo))

FlushFound == FlushVerdict /\ UNCHANGED kept

\* Ok(None), or an error.
FlushNoVerdict(failed) ==
    /\ pc = "flush_lookup"
    /\ IF failed THEN Fault
       ELSE known[Head(todo).sha] = {} /\ UNCHANGED faults
    /\ todo' = Tail(todo)
    /\ pc' = "flush"
    /\ UNCHANGED <<envVars, event, tries, queueVars, cache, history>>

\* Mutant of FlushUnknown: an entry whose lookup failed is not kept.
FlushUnknownDropped ==
    \E failed \in BOOLEAN :
       /\ FlushNoVerdict(failed)
       /\ kept' = IF failed THEN kept ELSE Append(kept, Head(todo))

\* Either way the entry stays.
FlushUnknown ==
    /\ \E failed \in BOOLEAN : FlushNoVerdict(failed)
    /\ kept' = Append(kept, Head(todo))

Rewrite ==
    /\ pc = "flush"
    /\ todo = <<>>
    /\ queue' = kept
    /\ tail' = "clean"
    /\ kept' = <<>>
    /\ pc' = "hash"
    /\ UNCHANGED <<envVars, event, tries, todo, cache, history, faults>>

(* fs::write truncates before it writes: a failure, or the end of the      *)
(* process, leaves the old file or a prefix of the new one, its last line  *)
(* perhaps cut short or without its newline.                               *)
RewriteCut ==
    \/ UNCHANGED queueVars
    \/ \E n \in 0..Len(kept), end \in {"clean", "open", "partial"} :
          /\ queue' = SubSeq(kept, 1, n)
          /\ tail' = end
          /\ end = "open" => n > 0

Forgotten(entries) ==
    {e \in owed : e \in Range(entries) /\ e \notin Range(queue')}

\* flush_offline_queue returns the error; the loop logs it and goes on.
RewriteFails ==
    /\ pc = "flush"
    /\ todo = <<>>
    /\ Fault
    /\ RewriteCut
    /\ lost' = lost \cup Forgotten(queue)
    /\ kept' = <<>>
    /\ pc' = "hash"
    /\ UNCHANGED <<envVars, event, tries, todo, cache, owed, missed, misread>>

-----------------------------------------------------------------------------
\* Hash the file; one that is gone is skipped.
HashFile ==
    /\ pc = "hash"
    /\ IF file[event.path] = Nothing
       THEN Done /\ UNCHANGED <<owed, lost>>
       ELSE LET e == [path |-> event.path, sha |-> file[event.path]]
            IN  /\ event' = [event EXCEPT !.sha = e.sha]
                /\ owed' = owed \cup {e}
                /\ lost' = lost \ {e}
                /\ pc' = "yara"
                /\ UNCHANGED tries
    /\ UNCHANGED <<envVars, flushVars, queueVars, cache, missed, misread,
                   faults>>

\* An unreadable file is skipped as well.
HashFails ==
    /\ pc = "hash"
    /\ file[event.path] # Nothing
    /\ Fault
    /\ Done
    /\ UNCHANGED <<envVars, flushVars, queueVars, cache, owed, lost, misread>>
    /\ Overlooked(event.path)

\* A verdict for the event in hand: cached under its digest and enforced.
Conclude(class) ==
    /\ cache' = Stored(cache, event.sha, class)
    /\ ApplyPolicy(event.path, event.sha, class)
    /\ owed' = owed \ {InHand}
    /\ Done
    /\ UNCHANGED <<notices, others, channel, flushVars, queueVars,
                   backendVars, lost, missed, misread>>

\* The path scan_file opens: it takes a string.
Scanned == Named[event.path]

\* scan_file reads the file again, on a thread the loop waits for.
YaraMatch ==
    /\ pc = "yara"
    /\ file[Scanned] \in YaraHits
    /\ ReadAgain(file[Scanned])
    /\ pc' = "yara_hit"
    /\ UNCHANGED <<envVars, event, tries, flushVars, queueVars, cache, owed,
                   lost, missed, faults>>

\* Once the loop goes on, it convicts the digest of what was read first.
YaraEnforce == pc = "yara_hit" /\ Conclude(Malicious)

\* No match; or an error, if only because the file is gone.
YaraPasses ==
    /\ pc = "yara"
    /\ \/ file[Scanned] \notin YaraHits /\ UNCHANGED faults
       \/ Fault
    /\ pc' = "cache"
    /\ UNCHANGED <<envVars, event, tries, flushVars, queueVars, cache,
                   history>>

CacheHit ==
    /\ pc = "cache"
    /\ event.sha \in Held(cache)
    /\ cache' = Read(cache, event.sha)
    /\ ApplyPolicy(event.path, event.sha, cache.verdict[event.sha])
    /\ owed' = owed \ {InHand}
    /\ Done
    /\ UNCHANGED <<notices, others, channel, flushVars, queueVars,
                   backendVars, lost, missed, misread>>

CacheMiss ==
    /\ pc = "cache"
    /\ event.sha \notin Held(cache)
    /\ pc' = "lookup"
    /\ UNCHANGED <<envVars, event, tries, flushVars, queueVars, cache,
                   history, faults>>

LookupFound == pc = "lookup" /\ \E v \in known[event.sha] : Conclude(v)

LookupMiss ==
    /\ pc = "lookup"
    /\ known[event.sha] = {}
    /\ pc' = "upload"
    /\ UNCHANGED <<envVars, event, tries, flushVars, queueVars, cache,
                   history, faults>>

LookupFails ==
    /\ pc = "lookup"
    /\ Fault
    /\ pc' = "enqueue"
    /\ UNCHANGED <<envVars, event, tries, flushVars, queueVars, cache,
                   history>>

\* A content the backend has a task for, whatever became of it, is deduplicated.
Submitted(h) ==
    IF status[h] = "none" THEN Backend!Submit(h)
    ELSE UNCHANGED backendVars

\* An extension that is not allowed, or too many bytes: an error, no task.
Refuses == event.path \in Refused \/ file[event.path] \in Refused

\* try_upload_file reads the file again, and sends what it reads.
UploadOk ==
    /\ pc = "upload"
    /\ file[event.path] # Nothing /\ ~Refuses
    /\ event' = [event EXCEPT !.sent = file[event.path]]
    /\ Submitted(file[event.path])
    /\ ReadAgain(file[event.path])
    /\ tries' = 0
    /\ pc' = "poll"
    /\ UNCHANGED <<fileVars, channel, flushVars, queueVars, cache, owed, lost,
                   missed, faults, others>>

(* The file is gone or refused, as it will be at every attempt, or no      *)
(* answer comes: then the backend has the file or not.                     *)
UploadFails ==
    /\ pc = "upload"
    /\ \/ /\ file[event.path] = Nothing \/ Refuses
          /\ UNCHANGED <<backendVars, faults>>
       \/ /\ file[event.path] # Nothing /\ ~Refuses
          /\ Fault
          /\ Submitted(file[event.path]) \/ UNCHANGED backendVars
    /\ IF tries + 1 >= UploadAttempts
       THEN tries' = 0 /\ pc' = "enqueue"
       ELSE tries' = tries + 1 /\ UNCHANGED pc
    /\ UNCHANGED <<fileVars, channel, event, flushVars, queueVars, cache,
                   history, others>>

PollCompleted ==
    /\ pc = "poll"
    /\ status[event.sent] = "completed"
    /\ \E v \in known[event.sent] : Conclude(v)

\* Still running, or a response that says nothing: poll again.
PollAgain ==
    /\ pc = "poll"
    /\ tries + 1 < PollAttempts
    /\ tries' = tries + 1
    /\ UNCHANGED <<envVars, pc, event, flushVars, queueVars, cache, history,
                   faults>>

\* Mutant of PollGivesUp: no answer passes for a benign one.
PollGivesUpAllows ==
    /\ pc = "poll"
    /\ tries + 1 >= PollAttempts \/ status[event.sent] = "failed"
    /\ \E class \in Class \ {Malicious} : Conclude(class)

\* The last poll without a verdict, or the task reported FAILED.
PollGivesUp ==
    /\ pc = "poll"
    /\ tries + 1 >= PollAttempts \/ status[event.sent] = "failed"
    /\ tries' = 0
    /\ pc' = "enqueue"
    /\ UNCHANGED <<envVars, event, flushVars, queueVars, cache, history, faults>>

-----------------------------------------------------------------------------
(* The line is appended to whatever the file ends with.  After a cut line  *)
(* it becomes part of it; after a line without its newline it spoils that  *)
(* one too.  load_all skips what does not parse.                           *)
Appended(entries, end, e) ==
    CASE end = "clean" -> Append(entries, e)
      [] end = "open" -> Front(entries)
      [] end = "partial" -> entries

Enqueue ==
    /\ pc = "enqueue"
    /\ queue' = Appended(queue, tail, Queued)
    /\ tail' = "clean"
    /\ lost' = lost \cup Forgotten(Append(queue, Queued))
    /\ Done
    /\ UNCHANGED <<envVars, flushVars, cache, owed, missed, misread, faults>>

(* A write that fails or the end of the process: nothing, part of a line,  *)
(* or a line without its newline.                                          *)
EnqueueCut ==
    \/ UNCHANGED queueVars
    \/ /\ queue' = IF tail = "open" THEN Front(queue) ELSE queue
       /\ tail' = "partial"
    \/ /\ queue' = Appended(queue, tail, Queued)
       /\ tail' = IF tail = "clean" THEN "open" ELSE "partial"

\* enqueue_offline ignores the error.
EnqueueFails ==
    /\ pc = "enqueue"
    /\ Fault
    /\ EnqueueCut
    /\ lost' = lost \cup Forgotten(Append(queue, Queued))
    /\ Done
    /\ UNCHANGED <<envVars, flushVars, cache, owed, missed, misread>>

(* The agent dies and is started again: cache, channel, the kernel's       *)
(* events and the event in hand are gone, the queue file is there, cut if  *)
(* it was being written.  Nothing scans the directory at startup.          *)
Crash ==
    /\ Fault
    /\ \/ UNCHANGED queueVars
       \/ pc = "flush" /\ todo = <<>> /\ RewriteCut
       \/ pc = "enqueue" /\ EnqueueCut
    /\ lost' = lost \cup (owed \ Range(queue'))
    /\ missed' = missed \cup {p \in Pending : file[p] # Nothing}
    /\ channel' = <<>> /\ notices' = <<>>
    /\ todo' = <<>> /\ kept' = <<>>
    /\ cache' = EmptyCache
    /\ misread' = {}
    /\ Done
    /\ UNCHANGED <<file, others, backendVars, owed>>

-----------------------------------------------------------------------------
LoopStep ==
    \/ Receive
    \/ FlushGone \/ FlushAsk \/ FlushFound \/ FlushUnknown \/ Rewrite
    \/ HashFile \/ YaraMatch \/ YaraEnforce \/ YaraPasses \/ CacheHit \/ CacheMiss
    \/ LookupFound \/ LookupMiss \/ UploadOk \/ UploadFails
    \/ PollCompleted \/ PollAgain \/ PollGivesUp \/ Enqueue

LoopFailure ==
    RewriteFails \/ HashFails \/ LookupFails \/ EnqueueFails \/ Crash

Users ==
    \E p \in Path :
       \/ CloseWrite(p)
       \/ \E content \in Digest : Write(p, content)
       \/ \E content \in Digest \cup {Nothing} : ChangeQuietly(p, content)

Environment ==
    \/ Users
    \/ Deliver \/ DeliverFails
    \/ \E h \in Digest : Analyse(h)
    \/ Elsewhere

Next == LoopStep \/ LoopFailure \/ Environment

Spec == Init /\ [][Next]_vars

(* The loop is one task whose sleeps are bounded; that each of its HTTP    *)
(* requests ends is an assumption, for the client sets no timeout.  The    *)
(* watcher's thread is blocked only by a full channel, which stays that    *)
(* way until the loop takes a path out.  Nothing obliges users to write,   *)
(* the backend to finish an analysis (after a failed upload or a lost      *)
(* message it may never do so), or anything to fail.                       *)
Fairness == WF_vars(LoopStep) /\ WF_vars(Deliver)

FairSpec == Spec /\ Fairness

-----------------------------------------------------------------------------
TypeOK ==
    /\ file \in [Path -> Digest \cup {Nothing}]
    /\ notices \in Seq(Path) /\ Len(notices) <= NoticeSize
    /\ channel \in Seq(Path) /\ Len(channel) <= ChannelSize
    /\ pc \in {"recv", "flush", "flush_lookup", "hash", "yara",
               "yara_hit", "cache", "lookup", "upload", "poll", "enqueue"}
    /\ event \in Event \cup {NoEvent}
    /\ (event = NoEvent) <=> (pc = "recv")
    /\ (event.sha = Nothing)
       <=> (pc \in {"recv", "flush", "flush_lookup", "hash"})
    /\ pc = "poll" => event.sent # Nothing
    /\ pc = "flush_lookup" => todo # <<>>
    /\ tries \in 0..(UploadAttempts + PollAttempts)
    /\ todo \in Seq(Entry) /\ kept \in Seq(Entry)
    /\ queue \in Seq(Entry)
    /\ tail \in {"clean", "open", "partial"}
    /\ tail = "open" => queue # <<>>
    /\ cache \in Cache
    /\ status \in [Digest -> {"none", "completed"} \cup Backend!Progress]
    /\ grounds \in [Digest -> SUBSET Class]
    /\ known \in [Digest -> SUBSET Class]
    /\ owed \subseteq Entry
    /\ lost \subseteq Entry
    /\ missed \subseteq Path
    /\ misread \subseteq [sha: Digest, read: Digest]
    /\ faults \in 0..MaxFaults
    /\ others \in 0..MaxOthers

(* hash_engine.rs keeps a map and an order beside each other through gets, *)
(* overwrites and evictions: the order lists exactly the digests held, so  *)
(* that what is evicted was cached and everything cached can be evicted.   *)
CacheInStep == InStep(cache)

(* "Simple bounded LRU cache" (hash_engine.rs:8): never more verdicts than *)
(* cache_capacity, save one when that is 0.                                *)
CacheBounded == Bounded(cache)

(* main.rs: a file that was hashed is quarantined, alerted on or allowed,  *)
(* or it is in hand or in the offline queue, or a failure lost it: a crash *)
(* with the event in hand, a write of the queue file that failed, a line   *)
(* spoilt by the end of the line before, or metadata that could not be     *)
(* read at a flush (main.rs:334).  Neither the flush itself nor a crash    *)
(* during its lookups loses an entry.  This is said of files whose name is *)
(* UTF-8 only: any other is queued under a path it does not have, and its  *)
(* entry is dropped, or its verdict applied there, without a failure.      *)
Accounted ==
    \A e \in owed :
        Named[e.path] = e.path =>
            e \in lost \cup Range(queue) \cup {i \in {InHand} : event.sha # Nothing}

(* A file with an event on its way, in the kernel's queue, with the        *)
(* watcher, in the channel or before the loop, is hashed as it is, unless  *)
(* it changes first or a failure or an overflow of the kernel's queue      *)
(* loses the last event of it: the bounded channel, the blocked watcher    *)
(* and the flush never keep an event for ever (monitor.rs:20).  A change   *)
(* without an event, as a rename into place is, is not covered: nothing    *)
(* makes the agent look.                                                   *)
NoticedIsHashed ==
    \A p \in Path, h \in Digest :
        file[p] = h /\ p \in Pending ~>
            \/ file[p] # h
            \/ InHand = [path |-> p, sha |-> h]
            \/ p \in missed

(* The flush looks digests up and never uploads (main.rs:343).  While file *)
(* events keep arriving, an entry leaves the queue for good all the same   *)
(* once the backend knows a verdict, whatever lines were cut, rewritten or *)
(* queued again.  Where the backend never knows one, because it never got  *)
(* the file or its task is stuck, an entry may stay.                       *)
QueueDrains ==
    \A e \in Entry :
        []<>(pc = "hash") =>
            \/ <>[](e \notin Range(queue))
            \/ <>[](known[e.sha] = {})

\* What the evidence on a digest, or a local rule, says.
Supports(h, class) == class \in grounds[h] \/ (h \in YaraHits /\ class = Malicious)

(* What the agent may take to be said of a digest: also what is said of    *)
(* bytes that it read in their place since it was started.                 *)
TakenToSupport(h, class) ==
    \/ Supports(h, class)
    \/ \E m \in misread : m.sha = h /\ Supports(m.read, class)

(* main.rs:97 calls the cache one "for known hashes": the evidence on a    *)
(* digest, or a rule, supports the verdict that is held for it.            *)
CachedVerdictOfDigest == \A h \in Held(cache) : Supports(h, cache.verdict[h])

(* What does hold of the cache: a verdict it keeps for a digest is one     *)
(* that evidence or a rule supports, through flushes, lookups, polls and   *)
(* evictions, for the digest itself or for other bytes that were read in   *)
(* its place, when a file with that digest changed between two of the      *)
(* reads of one event (main.rs:138, 155, 226) or the scan opened another   *)
(* file, its name not being UTF-8.                                         *)
CachedVerdictSupported == \A h \in Held(cache) : TakenToSupport(h, cache.verdict[h])

\* The file at p goes, and no user removed it.
Taken(p) == file[p] # Nothing /\ file'[p] = Nothing /\ others' = others

(* "Detected: YARA hit or backend verdict=malicious" (DOCS.md:354).  The   *)
(* flush applies the verdict on a queued digest to whatever is at the path *)
(* by then (main.rs:341), and the loop reads the file up to three times;   *)
(* still, a file is only taken from a path for an event in hand or queued  *)
(* that names this path, with a digest that is convicted, or was taken to  *)
(* be: bytes read in its place are.  The latter may be far from the file:  *)
(* a digest misread at one path stays in the cache as malicious, and an    *)
(* innocent file with that digest is then taken from another path, where   *)
(* convicted bytes have never been.                                        *)
TakenForCause ==
    [][\A p \in Path : Taken(p) =>
          \E e \in Range(queue) \cup {i \in {InHand} : event.sha # Nothing} :
             e.path = p /\ TakenToSupport(e.sha, Malicious)]_vars
=============================================================================
