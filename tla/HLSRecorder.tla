---------------------------- MODULE HLSRecorder ----------------------------
(***************************************************************************)
(* The HLS clip recorder: RecordClip and UpdateClipMetadata of             *)
(* internal/recording/hls_recorder.go as cmd/nesd-record-hls drives them.  *)
(* A clip is what an FFmpeg process writes until its source ends or the    *)
(* recording is stopped; its metadata go to a sidecar file and into the    *)
(* list of the directory's manifest, first without and then with the       *)
(* source's closing state.  Recordings of one process share a mutex,       *)
(* recordings of two processes only the directory.  Every recording has a  *)
(* file name of its own: names carry the second a recording starts in.     *)
(***************************************************************************)
EXTENDS Sequences, Naturals, FiniteSets

CONSTANTS
  Recorders,
  Processes,
  ProcessOf,  \* the process a recording runs in: whose manifestMu it takes
  None,
  MaxCrashes  \* bound

\* A clip's metadata: with the source's closing state, with FFmpeg's error.
Clips == [of : Recorders, ended : BOOLEAN, failed : BOOLEAN]

ASSUME RecorderAssumption ==
  /\ ProcessOf \in [Recorders -> Processes]
  /\ None \notin Recorders \union Clips
  /\ MaxCrashes \in Nat

VARIABLES
  place,              \* "idle", "wait", "grace", "sidecar", "lock", "read", "write", "fetch",
                      \* "done" or "dead"
  process,            \* FFmpeg: "none", "running", "ok", "failed" or "killed"
  stopped,            \* the recording's context is done
  closing,            \* the metadata are those with the source's closing state
  err,                \* RecordClip has returned an error
  clip,               \* the metadata in memory
  copy,               \* the manifest as read, under the mutex
  mutex,              \* manifestMu of each process
  sidecar, manifest,  \* the files
  crashes

running == <<process, stopped>>
files == <<sidecar, manifest>>
recorderVars ==
  <<place, process, stopped, closing, err, clip, copy, mutex, sidecar, manifest, crashes>>

Clip(r, failed) == [of |-> r, ended |-> FALSE, failed |-> failed]

RecorderInit ==
  /\ place = [r \in Recorders |-> "idle"] /\ process = [r \in Recorders |-> "none"]
  /\ stopped = [r \in Recorders |-> FALSE] /\ closing = [r \in Recorders |-> FALSE]
  /\ err = [r \in Recorders |-> FALSE] /\ clip = [r \in Recorders |-> None]
  /\ copy = [r \in Recorders |-> << >>] /\ mutex = [p \in Processes |-> None]
  /\ sidecar = [r \in Recorders |-> None] /\ manifest = << >> /\ crashes = 0

Goes(r, next) == place' = [place EXCEPT ![r] = next]

-----------------------------------------------------------------------------
(* RecordClip: FFmpeg. *)

StartRecording(r) ==
  /\ place[r] = "idle" /\ Goes(r, "wait") /\ process' = [process EXCEPT ![r] = "running"]
  /\ UNCHANGED <<stopped, closing, err, clip, copy, mutex, files, crashes>>

\* A wrong URL, no directory, no FFmpeg: there is no clip to write anything about.
StartFails(r) ==
  /\ place[r] = "idle" /\ Goes(r, "done") /\ err' = [err EXCEPT ![r] = TRUE]
  /\ UNCHANGED <<running, closing, clip, copy, mutex, files, crashes>>

\* FFmpeg exits by itself, its source at an end, or on SIGTERM, which it may ignore.
Exit(r) ==
  /\ process[r] = "running"
  /\ \E how \in {"ok", "failed"} : process' = [process EXCEPT ![r] = how]
  /\ UNCHANGED <<place, stopped, closing, err, clip, copy, mutex, files, crashes>>

\* An interrupt, or the recording's duration is over; after FFmpeg nothing looks at it.
StopRecording(r) ==
  /\ ~stopped[r] /\ place[r] = "wait"
  /\ stopped' = [stopped EXCEPT ![r] = TRUE]
  /\ UNCHANGED <<place, process, closing, err, clip, copy, mutex, files, crashes>>

\* exec.CommandContext kills FFmpeg when the context is done, whatever waitForCommand does.
ContextKills(r) ==
  /\ stopped[r] /\ place[r] \in {"wait", "grace"} /\ process[r] = "running"
  /\ process' = [process EXCEPT ![r] = "killed"]
  /\ UNCHANGED <<place, stopped, closing, err, clip, copy, mutex, files, crashes>>

\* FFmpeg has ended and is reaped.  The metadata of a clip that is over: an error that only
\* says the context is done is none.
Finish(r, failed) ==
  /\ Goes(r, "sidecar") /\ process' = [process EXCEPT ![r] = "none"]
  /\ clip' = [clip EXCEPT ![r] = Clip(r, failed)]
  /\ err' = [err EXCEPT ![r] = failed]
  /\ UNCHANGED <<stopped, closing, copy, mutex, files, crashes>>

Waited(r) ==
  /\ place[r] = "wait" /\ process[r] # "running"
  /\ Finish(r, process[r] # "ok")

\* waitForCommand sees the context done first: SIGTERM, and stopTimeout begins.
Terminate(r) ==
  /\ place[r] = "wait" /\ stopped[r] /\ Goes(r, "grace")
  /\ UNCHANGED <<running, closing, err, clip, copy, mutex, files, crashes>>

Terminated(r) ==
  /\ place[r] = "grace" /\ process[r] # "running" /\ Finish(r, FALSE)

\* Mutant: waitForCommand waits for FFmpeg however long it takes to go.
StopTimeoutNever(r) == FALSE /\ UNCHANGED recorderVars

\* FFmpeg has not gone in time: SIGKILL, which it cannot ignore.
StopTimeout(r) == place[r] = "grace" /\ Finish(r, FALSE)

-----------------------------------------------------------------------------
(* writeClipMetadata and UpdateClipMetadata. *)

\* What follows a recording's metadata: main asks the source for its closing state, and
\* after that only reports.
After(r) == IF closing[r] THEN "done" ELSE "fetch"

\* writeJSONFile: a whole file is renamed into place, or none.
WriteSidecar(r) ==
  /\ place[r] = "sidecar" /\ Goes(r, "lock")
  /\ sidecar' = [sidecar EXCEPT ![r] = clip[r]]
  /\ UNCHANGED <<running, closing, err, clip, copy, mutex, manifest, crashes>>

WriteFailed(r) ==
  /\ Goes(r, After(r))
  /\ err' = [err EXCEPT ![r] = @ \/ ~closing[r]]
  /\ UNCHANGED <<running, closing, clip, copy, files, crashes>>

SidecarFails(r) == place[r] = "sidecar" /\ WriteFailed(r) /\ UNCHANGED mutex

Lock(r) ==
  /\ place[r] = "lock" /\ mutex[ProcessOf[r]] = None /\ Goes(r, "read")
  /\ mutex' = [mutex EXCEPT ![ProcessOf[r]] = r]
  /\ UNCHANGED <<running, closing, err, clip, copy, files, crashes>>

ReadManifest(r) ==
  /\ place[r] = "read" /\ Goes(r, "write")
  /\ copy' = [copy EXCEPT ![r] = manifest]
  /\ UNCHANGED <<running, closing, err, clip, mutex, files, crashes>>

\* Mutant: the closing state is appended as another clip.
ListedTwice(clips, c, update) == Append(clips, c)

\* The manifest's clips with c: its first entry is replaced by an update.
Listed(clips, c, update) ==
  LET entries == {i \in 1 .. Len(clips) : clips[i].of = c.of}
  IN IF update /\ entries # {}
     THEN [clips EXCEPT ![CHOOSE i \in entries : \A j \in entries : i <= j] = c]
     ELSE Append(clips, c)

Unlock(r) ==
  mutex' = [mutex EXCEPT ![ProcessOf[r]] = IF @ = r THEN None ELSE @]

WriteManifest(r) ==
  /\ place[r] = "write" /\ Goes(r, After(r)) /\ Unlock(r)
  /\ manifest' = Listed(copy[r], clip[r], closing[r])
  /\ copy' = [copy EXCEPT ![r] = << >>]
  /\ UNCHANGED <<running, closing, err, clip, sidecar, crashes>>

ManifestFails(r) == place[r] \in {"read", "write"} /\ WriteFailed(r) /\ Unlock(r)

\* main, after RecordClip: with the closing state the clip's metadata are written again.
FetchEnd(r) ==
  /\ place[r] = "fetch" /\ Goes(r, "sidecar")
  /\ closing' = [closing EXCEPT ![r] = TRUE]
  /\ clip' = [clip EXCEPT ![r].ended = TRUE]
  /\ UNCHANGED <<running, err, copy, mutex, files, crashes>>

FetchFails(r) ==
  /\ place[r] = "fetch" /\ Goes(r, "done")
  /\ UNCHANGED <<running, closing, err, clip, copy, mutex, files, crashes>>

\* A process dies, its memory and mutex with it; FFmpeg, in a group of its own, goes on.
Crash(p) ==
  /\ crashes < MaxCrashes /\ crashes' = crashes + 1
  /\ place' = [r \in Recorders |->
              IF ProcessOf[r] = p /\ place[r] \notin {"idle", "done"} THEN "dead" ELSE place[r]]
  /\ mutex' = [mutex EXCEPT ![p] = None]
  /\ LET Lost(memory, empty) ==
           [r \in Recorders |-> IF place'[r] = "dead" THEN empty ELSE memory[r]]
     IN /\ copy' = Lost(copy, << >>) /\ clip' = Lost(clip, None)
        /\ closing' = Lost(closing, FALSE) /\ err' = Lost(err, FALSE)
  /\ UNCHANGED <<running, files>>

\* Bound: each recorder records once.
Done == /\ \A r \in Recorders : place[r] \in {"done", "dead"} /\ process[r] # "running"
        /\ UNCHANGED recorderVars

Goroutine(r) ==
  \/ Waited(r) \/ Terminate(r) \/ Terminated(r) \/ StopTimeout(r)
  \/ WriteSidecar(r) \/ SidecarFails(r)
  \/ Lock(r) \/ ReadManifest(r) \/ WriteManifest(r) \/ ManifestFails(r)
  \/ FetchEnd(r) \/ FetchFails(r)

RecorderNext ==
  \/ \E r \in Recorders :
       \/ StartRecording(r) \/ StartFails(r) \/ StopRecording(r)
       \/ Exit(r) \/ ContextKills(r) \/ Goroutine(r)
  \/ \E p \in Processes : Crash(p)
  \/ Done

\* A recorder goes on; FFmpeg need not.
Fairness == \A r \in Recorders : WF_recorderVars(Goroutine(r))

RecorderSpec == RecorderInit /\ [][RecorderNext]_recorderVars /\ Fairness

-----------------------------------------------------------------------------
RecorderTypeOK ==
  /\ place \in [Recorders -> {"idle", "wait", "grace", "sidecar", "lock", "read", "write",
                              "fetch", "done", "dead"}]
  /\ process \in [Recorders -> {"none", "running", "ok", "failed", "killed"}]
  /\ stopped \in [Recorders -> BOOLEAN]
  /\ closing \in [Recorders -> BOOLEAN] /\ err \in [Recorders -> BOOLEAN]
  /\ clip \in [Recorders -> Clips \union {None}] /\ sidecar \in [Recorders -> Clips \union {None}]
  /\ copy \in [Recorders -> Seq(Clips)] /\ manifest \in Seq(Clips)
  /\ mutex \in [Processes -> Recorders \union {None}] /\ crashes \in 0 .. MaxCrashes

Entries(r) == {i \in DOMAIN manifest : manifest[i].of = r}

\* However recordings end, fail and crash: one that returned without an error has exactly one
\* entry in the manifest, and an entry never says more than the clip's sidecar: the closing
\* state is in the file before it is in the list.
ManifestSound ==
  RecorderTypeOK /\
  \A r \in Recorders :
    /\ place[r] = "done" /\ ~err[r] => Cardinality(Entries(r)) = 1
    /\ \A i \in Entries(r) : sidecar[r] # None /\ (manifest[i].ended => sidecar[r].ended)

\* The manifest is cumulative: a clip once in it stays in it, the closing state too, whatever
\* other recordings write at the same time.
ManifestKeeps ==
  [][\A i \in DOMAIN manifest :
       \E j \in DOMAIN manifest' : /\ manifest'[j].of = manifest[i].of
                                   /\ manifest[i].ended => manifest'[j].ended]_recorderVars

\* A recording that is stopped returns from waiting for FFmpeg, one that will not die included.
StoppedReturns ==
  \A r \in Recorders : (stopped[r] /\ place[r] = "wait") ~> place[r] \notin {"wait", "grace"}
=============================================================================
