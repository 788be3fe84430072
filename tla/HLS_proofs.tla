----------------------------- MODULE HLS_proofs -----------------------------
(***************************************************************************)
(* Proofs about the HLS stream and its recordings: no frame of the stream  *)
(* is lost unaccounted or played out of order, for any capacities and any  *)
(* number of frames and starts; and the manifest of a directory that one   *)
(* process records into, for any number of recordings and crashes.         *)
(***************************************************************************)
EXTENDS HLSStreamer, HLSRecorder, SequenceTheorems, FiniteSetTheorems, TLAPS

---------------------------------------------------------------------------
\* HLSRecorder: the manifest.

\* All recordings take the same mutex.
SharedProcess == \A q, r \in Recorders : ProcessOf[q] = ProcessOf[r]

Early == {"idle", "wait", "grace"}
Writing == {"sidecar", "lock", "read", "write"}

Known(r) == \E i \in DOMAIN manifest : manifest[i].of = r

\* The manifest is read and written back by whoever holds the mutex, and by nobody else.
Exclusive ==
  \A r \in Recorders :
    /\ place[r] \in {"read", "write"} => mutex[ProcessOf[r]] = r
    /\ place[r] = "write" => copy[r] = manifest

\* What a recording is about to write, and what its sidecar already says.
Carried ==
  \A r \in Recorders :
    /\ place[r] \in Writing \union {"fetch"} =>
         clip[r] \in Clips /\ clip[r].of = r /\ clip[r].ended = closing[r]
    /\ place[r] \in {"lock", "read", "write"} => sidecar[r] = clip[r]

\* When a recording has its entry: not before its first write, and from then on if that
\* succeeded.
Entered ==
  \A r \in Recorders :
    /\ place[r] \in Early \union {"fetch"} => ~closing[r]
    /\ place[r] \in Early \/ (place[r] \in Writing /\ ~closing[r]) => ~Known(r)
    /\ ~err[r] /\ (place[r] \in {"fetch", "done"} \/ (place[r] \in Writing /\ closing[r])) =>
         Known(r)

Once == \A i, j \in DOMAIN manifest : manifest[i].of = manifest[j].of => i = j

Backed ==
  \A i \in DOMAIN manifest :
    LET r == manifest[i].of IN sidecar[r] \in Clips /\ (manifest[i].ended => sidecar[r].ended)

RecorderInv == RecorderTypeOK /\ Exclusive /\ Carried /\ Entered /\ Once /\ Backed

USE RecorderAssumption DEF RecorderAssumption

LEMMA InvInit == RecorderInit => RecorderInv
<1> SUFFICES ASSUME RecorderInit PROVE RecorderInv
  OBVIOUS
<1>1. DOMAIN manifest = {} /\ manifest \in Seq(Clips)
  BY DEF RecorderInit
<1>2. RecorderTypeOK
  <2>1. << >> \in Seq(Clips)
    BY EmptySeq
  <2> QED
    BY <1>1, <2>1 DEF RecorderInit, RecorderTypeOK
<1>3. Exclusive /\ Carried
  BY DEF RecorderInit, Exclusive, Carried, Writing
<1>4. Entered
  BY <1>1 DEF RecorderInit, Entered, Known, Writing, Early
<1> QED
  BY <1>1, <1>2, <1>3, <1>4 DEF RecorderInv, Once, Backed

\* FFmpeg and what stops it are no part of the invariant but for their types.
LEMMA OutsideStep ==
  ASSUME RecorderInv, NEW r \in Recorders, StopRecording(r) \/ Exit(r) \/ ContextKills(r)
  PROVE  RecorderInv'
<1>1. UNCHANGED <<place, clip, copy, mutex, sidecar, manifest, closing, err, crashes>>
  BY DEF StopRecording, Exit, ContextKills, files
<1>2. RecorderTypeOK'
  BY <1>1 DEF RecorderInv, RecorderTypeOK, StopRecording, Exit, ContextKills
<1> QED
  BY <1>1, <1>2 DEF RecorderInv, Exclusive, Carried, Entered, Once, Backed, Known

\* A recording begins, or does not, or has its FFmpeg terminated.
LEMMA StartStep ==
  ASSUME RecorderInv, NEW r \in Recorders, StartRecording(r) \/ StartFails(r) \/ Terminate(r)
  PROVE  RecorderInv'
<1>1. UNCHANGED <<clip, copy, mutex, sidecar, manifest, closing, crashes>>
  BY DEF StartRecording, StartFails, Terminate, files, running
<1>2. PICK to \in Early \union {"done"} :
        /\ place' = [place EXCEPT ![r] = to]
        /\ to = "done" => err' = [err EXCEPT ![r] = TRUE]
        /\ to # "done" => err' = err
  BY DEF StartRecording, StartFails, Terminate, Goes, Early
<1>3. place[r] \in Early
  BY DEF StartRecording, StartFails, Terminate, Early
<1>4. RecorderTypeOK'
  BY <1>1, <1>2 DEF RecorderInv, RecorderTypeOK, StartRecording, StartFails, Terminate, running, Early
<1>5. Exclusive' /\ Carried'
  BY <1>1, <1>2 DEF RecorderInv, RecorderTypeOK, Exclusive, Carried, Early, Writing
<1>6. Entered'
  BY <1>1, <1>2, <1>3 DEF RecorderInv, RecorderTypeOK, Entered, Known, Early, Writing
<1> QED
  BY <1>1, <1>4, <1>5, <1>6 DEF RecorderInv, Once, Backed

\* FFmpeg is gone, or killed: the metadata are those of a clip not yet closed.
LEMMA FinishStep ==
  ASSUME RecorderInv, NEW r \in Recorders, Waited(r) \/ Terminated(r) \/ StopTimeout(r)
  PROVE  RecorderInv'
<1>1. PICK failed \in BOOLEAN : Finish(r, failed)
  BY DEF Waited, Terminated, StopTimeout
<1>2. place[r] \in Early
  BY DEF Waited, Terminated, StopTimeout, Early
<1>3. /\ UNCHANGED <<stopped, copy, mutex, sidecar, manifest, closing, crashes>>
      /\ place' = [place EXCEPT ![r] = "sidecar"] /\ process' = [process EXCEPT ![r] = "none"]
      /\ clip' = [clip EXCEPT ![r] = Clip(r, failed)] /\ err' = [err EXCEPT ![r] = failed]
  BY <1>1 DEF Finish, Goes, files
<1>4. Clip(r, failed) \in Clips /\ Clip(r, failed).of = r /\ Clip(r, failed).ended = FALSE
  BY DEF Clip, Clips
<1>5. RecorderTypeOK'
  BY <1>3, <1>4 DEF RecorderInv, RecorderTypeOK
<1>6. closing[r] = FALSE
  BY <1>2 DEF RecorderInv, RecorderTypeOK, Entered
<1>7. Exclusive'
  BY <1>3 DEF RecorderInv, RecorderTypeOK, Exclusive
<1>8. Carried'
  BY <1>3, <1>4, <1>6 DEF RecorderInv, RecorderTypeOK, Carried, Writing
<1>9. Entered'
  BY <1>2, <1>3 DEF RecorderInv, RecorderTypeOK, Entered, Known, Early, Writing
<1> QED
  BY <1>3, <1>5, <1>7, <1>8, <1>9 DEF RecorderInv, Once, Backed

LEMMA SidecarStep ==
  ASSUME RecorderInv, NEW r \in Recorders, WriteSidecar(r)
  PROVE  RecorderInv'
<1>1. /\ UNCHANGED <<running, closing, err, clip, copy, mutex, manifest, crashes>>
      /\ place[r] = "sidecar" /\ place' = [place EXCEPT ![r] = "lock"]
      /\ sidecar' = [sidecar EXCEPT ![r] = clip[r]]
  BY DEF WriteSidecar, Goes
<1>2. clip[r] \in Clips /\ clip[r].ended = closing[r]
  BY <1>1 DEF RecorderInv, Carried, Writing
<1>3. RecorderTypeOK'
  BY <1>1, <1>2 DEF RecorderInv, RecorderTypeOK, running
<1>4. Exclusive' /\ Carried'
  BY <1>1, <1>2 DEF RecorderInv, RecorderTypeOK, Exclusive, Carried, Writing
<1>5. Entered'
  BY <1>1 DEF RecorderInv, RecorderTypeOK, Entered, Known, Early, Writing
<1>6. Backed'
  <2>1. Known(r) => closing[r]
    BY <1>1 DEF RecorderInv, Entered, Writing
  <2> QED
    BY <1>1, <1>2, <2>1 DEF RecorderInv, RecorderTypeOK, Backed, Known
<1> QED
  BY <1>1, <1>3, <1>4, <1>5, <1>6 DEF RecorderInv, Once

\* What a recording of the process does at the mutex and at its end, without the manifest.
LEMMA PassStep ==
  ASSUME RecorderInv, NEW r \in Recorders, SharedProcess,
         SidecarFails(r) \/ Lock(r) \/ ReadManifest(r) \/ ManifestFails(r) \/ FetchFails(r)
  PROVE  RecorderInv'
<1>1. UNCHANGED <<running, closing, clip, sidecar, manifest, crashes>>
  BY DEF SidecarFails, Lock, ReadManifest, ManifestFails, FetchFails, WriteFailed, files
<1>2. CASE Lock(r)
  <2>1. /\ place[r] = "lock" /\ place' = [place EXCEPT ![r] = "read"]
        /\ mutex[ProcessOf[r]] = None /\ mutex' = [mutex EXCEPT ![ProcessOf[r]] = r]
        /\ UNCHANGED <<err, copy>>
    BY <1>2 DEF Lock, Goes
  <2>2. RecorderTypeOK'
    BY <1>1, <2>1 DEF RecorderInv, RecorderTypeOK, running
  <2>3. \A q \in Recorders : place[q] \notin {"read", "write"}
    BY <2>1 DEF RecorderInv, Exclusive, SharedProcess
  <2>4. Exclusive' /\ Carried'
    BY <1>1, <2>1, <2>3 DEF RecorderInv, RecorderTypeOK, Exclusive, Carried, Writing
  <2>5. Entered'
    BY <1>1, <2>1 DEF RecorderInv, RecorderTypeOK, Entered, Known, Early, Writing
  <2> QED
    BY <1>1, <2>2, <2>4, <2>5 DEF RecorderInv, Once, Backed
<1>3. CASE ReadManifest(r)
  <2>1. /\ place[r] = "read" /\ place' = [place EXCEPT ![r] = "write"]
        /\ copy' = [copy EXCEPT ![r] = manifest] /\ UNCHANGED <<err, mutex>>
    BY <1>3 DEF ReadManifest, Goes
  <2>2. RecorderTypeOK'
    BY <1>1, <2>1 DEF RecorderInv, RecorderTypeOK, running
  <2>3. Exclusive' /\ Carried'
    BY <1>1, <2>1 DEF RecorderInv, RecorderTypeOK, Exclusive, Carried, Writing
  <2>4. Entered'
    BY <1>1, <2>1 DEF RecorderInv, RecorderTypeOK, Entered, Known, Early, Writing
  <2> QED
    BY <1>1, <2>2, <2>3, <2>4 DEF RecorderInv, Once, Backed
<1>4. CASE FetchFails(r)
  <2>1. /\ place[r] = "fetch" /\ place' = [place EXCEPT ![r] = "done"]
        /\ UNCHANGED <<err, copy, mutex>>
    BY <1>4 DEF FetchFails, Goes
  <2>2. RecorderTypeOK'
    BY <1>1, <2>1 DEF RecorderInv, RecorderTypeOK, running
  <2>3. Exclusive' /\ Carried'
    BY <1>1, <2>1 DEF RecorderInv, RecorderTypeOK, Exclusive, Carried, Writing
  <2>4. Entered'
    BY <1>1, <2>1 DEF RecorderInv, RecorderTypeOK, Entered, Known, Early, Writing
  <2> QED
    BY <1>1, <2>2, <2>3, <2>4 DEF RecorderInv, Once, Backed
<1>5. CASE SidecarFails(r) \/ ManifestFails(r)
  <2>1. /\ place[r] \in Writing /\ place' = [place EXCEPT ![r] = IF closing[r] THEN "done" ELSE "fetch"]
        /\ err' = [err EXCEPT ![r] = @ \/ ~closing[r]] /\ copy' = copy
    BY <1>5 DEF SidecarFails, ManifestFails, WriteFailed, Goes, After, Writing
  <2>2. \/ UNCHANGED mutex
        \/ mutex' = [mutex EXCEPT ![ProcessOf[r]] = IF @ = r THEN None ELSE @]
    BY <1>5 DEF SidecarFails, ManifestFails, Unlock
  <2>3. RecorderTypeOK'
    BY <1>1, <2>1, <2>2 DEF RecorderInv, RecorderTypeOK, running
  <2>4. \A q \in Recorders \ {r} : mutex[ProcessOf[q]] = q => mutex'[ProcessOf[q]] = q
    BY <2>2 DEF RecorderInv, RecorderTypeOK
  <2>5. Exclusive' /\ Carried'
    BY <1>1, <2>1, <2>4 DEF RecorderInv, RecorderTypeOK, Exclusive, Carried, Writing
  <2>6. Entered'
    BY <1>1, <2>1 DEF RecorderInv, RecorderTypeOK, Entered, Known, Early, Writing
  <2> QED
    BY <1>1, <2>3, <2>5, <2>6 DEF RecorderInv, Once, Backed
<1> QED
  BY <1>2, <1>3, <1>4, <1>5

LEMMA FetchEndStep ==
  ASSUME RecorderInv, NEW r \in Recorders, FetchEnd(r)
  PROVE  RecorderInv'
<1>1. /\ UNCHANGED <<running, err, copy, mutex, sidecar, manifest, crashes>>
      /\ place[r] = "fetch" /\ place' = [place EXCEPT ![r] = "sidecar"]
      /\ closing' = [closing EXCEPT ![r] = TRUE]
      /\ clip' = [clip EXCEPT ![r].ended = TRUE]
  BY DEF FetchEnd, Goes, files
<1>2. clip[r] \in Clips /\ clip[r].of = r
  BY <1>1 DEF RecorderInv, Carried
<1>3. clip'[r] \in Clips /\ clip'[r].of = r /\ clip'[r].ended = TRUE
  BY <1>1, <1>2 DEF Clips, RecorderInv, RecorderTypeOK
<1>4. \A q \in Recorders \ {r} : clip'[q] = clip[q]
  BY <1>1 DEF RecorderInv, RecorderTypeOK
<1>5. RecorderTypeOK'
  <2>1. clip' \in [Recorders -> Clips \union {None}]
    BY <1>1, <1>3, <1>4 DEF RecorderInv, RecorderTypeOK
  <2> QED
    BY <1>1, <2>1 DEF RecorderInv, RecorderTypeOK, running
<1>6. Exclusive' /\ Carried'
  BY <1>1, <1>3, <1>4 DEF RecorderInv, RecorderTypeOK, Exclusive, Carried, Writing
<1>7. Entered'
  BY <1>1 DEF RecorderInv, RecorderTypeOK, Entered, Known, Early, Writing
<1> QED
  BY <1>1, <1>5, <1>6, <1>7 DEF RecorderInv, Once, Backed

LEMMA CrashStep ==
  ASSUME RecorderInv, NEW p \in Processes, Crash(p), SharedProcess
  PROVE  RecorderInv'
<1>1. /\ UNCHANGED <<running, files>> /\ mutex' = [mutex EXCEPT ![p] = None]
      /\ crashes < MaxCrashes /\ crashes' = crashes + 1
  BY DEF Crash
<1>2. \A r \in Recorders :
        place'[r] = IF ProcessOf[r] = p /\ place[r] \notin {"idle", "done"} THEN "dead" ELSE place[r]
  BY DEF Crash
<1>3. \A r \in Recorders :
        IF place'[r] = "dead"
        THEN copy'[r] = << >> /\ clip'[r] = None /\ closing'[r] = FALSE /\ err'[r] = FALSE
        ELSE copy'[r] = copy[r] /\ clip'[r] = clip[r] /\ closing'[r] = closing[r] /\ err'[r] = err[r]
  BY DEF Crash
<1>4. RecorderTypeOK'
  <2>1. << >> \in Seq(Clips)
    BY EmptySeq
  <2>2. /\ place' = [r \in Recorders |-> place'[r]] /\ copy' = [r \in Recorders |-> copy'[r]]
        /\ clip' = [r \in Recorders |-> clip'[r]] /\ err' = [r \in Recorders |-> err'[r]]
        /\ closing' = [r \in Recorders |-> closing'[r]]
    BY Zenon DEF Crash
  <2>3. ASSUME NEW r \in Recorders
        PROVE  /\ copy'[r] \in Seq(Clips) /\ clip'[r] \in Clips \union {None}
               /\ closing'[r] \in BOOLEAN /\ err'[r] \in BOOLEAN
    <3>1. /\ copy[r] \in Seq(Clips) /\ clip[r] \in Clips \union {None}
          /\ closing[r] \in BOOLEAN /\ err[r] \in BOOLEAN
      BY DEF RecorderInv, RecorderTypeOK
    <3>2. CASE place'[r] = "dead"
      BY <1>3, <2>1, <3>2, Zenon
    <3>3. CASE place'[r] # "dead"
      BY <1>3, <3>1, <3>3, Zenon
    <3> QED
      BY <3>2, <3>3
  <2>4. /\ copy' \in [Recorders -> Seq(Clips)] /\ clip' \in [Recorders -> Clips \union {None}]
        /\ closing' \in [Recorders -> BOOLEAN] /\ err' \in [Recorders -> BOOLEAN]
    BY <2>2, <2>3, Zenon
  <2>5. place' \in [Recorders -> {"idle", "wait", "grace", "sidecar", "lock", "read", "write",
                                  "fetch", "done", "dead"}]
    BY <1>2, <2>2 DEF RecorderInv, RecorderTypeOK
  <2> QED
    BY <1>1, <2>4, <2>5 DEF RecorderInv, RecorderTypeOK, running, files
<1>5. Exclusive' /\ Carried'
  BY <1>1, <1>2, <1>3 DEF RecorderInv, RecorderTypeOK, Exclusive, Carried, Writing, files
<1>6. Entered'
  BY <1>1, <1>2, <1>3 DEF RecorderInv, RecorderTypeOK, Entered, Known, Early, Writing, files
<1> QED
  BY <1>1, <1>4, <1>5, <1>6 DEF RecorderInv, Once, Backed, files

\* The list with a clip is the list with an entry of it replaced, or with it at the end.
LEMMA ListedCases ==
  ASSUME NEW clips \in Seq(Clips), NEW c \in Clips, NEW update \in BOOLEAN,
         \A i, j \in 1 .. Len(clips) : clips[i].of = clips[j].of => i = j
  PROVE  \/ update /\ \E k \in 1 .. Len(clips) :
              clips[k].of = c.of /\ Listed(clips, c, update) = [clips EXCEPT ![k] = c]
         \/ /\ update => \A k \in 1 .. Len(clips) : clips[k].of # c.of
            /\ Listed(clips, c, update) = Append(clips, c)
<1> DEFINE entries == {i \in 1 .. Len(clips) : clips[i].of = c.of}
<1> DEFINE first == CHOOSE i \in entries : \A j \in entries : i <= j
<1>1. CASE update /\ entries # {}
  <2>1. \E i \in entries : \A j \in entries : i <= j
    <3>1. PICK i \in entries : TRUE
      BY <1>1
    <3>2. \A j \in entries : i = j
      BY <3>1
    <3> QED
      BY <3>1, <3>2
  <2>2. first \in entries
    BY <2>1
  <2>3. Listed(clips, c, update) = [clips EXCEPT ![first] = c]
    BY <1>1 DEF Listed
  <2> QED
    BY <1>1, <2>2, <2>3
<1>2. CASE ~update \/ entries = {}
  <2>1. Listed(clips, c, update) = Append(clips, c)
    BY <1>2 DEF Listed
  <2> QED
    BY <1>2, <2>1
<1> QED
  BY <1>1, <1>2

LEMMA ManifestStep ==
  ASSUME RecorderInv, NEW r \in Recorders, WriteManifest(r), SharedProcess
  PROVE  RecorderInv'
<1>1. /\ UNCHANGED <<running, closing, err, clip, sidecar, crashes>> /\ copy' = [copy EXCEPT ![r] = << >>]
      /\ place[r] = "write" /\ place' = [place EXCEPT ![r] = IF closing[r] THEN "done" ELSE "fetch"]
      /\ mutex' = [mutex EXCEPT ![ProcessOf[r]] = IF @ = r THEN None ELSE @]
  BY DEF WriteManifest, Goes, After, Unlock
<1>2. /\ manifest \in Seq(Clips) /\ DOMAIN manifest = 1 .. Len(manifest) /\ Len(manifest) \in Nat
      /\ closing[r] \in BOOLEAN
  BY LenProperties DEF RecorderInv, RecorderTypeOK
<1>3. clip[r] \in Clips /\ clip[r].of = r /\ clip[r].ended = closing[r] /\ sidecar[r] = clip[r]
  BY <1>1 DEF RecorderInv, Carried, Writing
<1>4. mutex[ProcessOf[r]] = r /\ manifest' = Listed(manifest, clip[r], closing[r])
  BY <1>1 DEF RecorderInv, Exclusive, WriteManifest
<1>5. ~closing[r] => ~Known(r)
  BY <1>1 DEF RecorderInv, Entered, Writing
<1>6. \/ \E k \in 1 .. Len(manifest) :
            manifest[k].of = r /\ manifest' = [manifest EXCEPT ![k] = clip[r]]
      \/ /\ \A k \in 1 .. Len(manifest) : manifest[k].of # r
         /\ manifest' = Append(manifest, clip[r])
  <2>1. \A i, j \in 1 .. Len(manifest) : manifest[i].of = manifest[j].of => i = j
    BY <1>2 DEF RecorderInv, Once
  <2> QED
    <3>1. \/ closing[r] /\ \E k \in 1 .. Len(manifest) :
                manifest[k].of = clip[r].of
                /\ Listed(manifest, clip[r], closing[r]) = [manifest EXCEPT ![k] = clip[r]]
          \/ /\ closing[r] => \A k \in 1 .. Len(manifest) : manifest[k].of # clip[r].of
             /\ Listed(manifest, clip[r], closing[r]) = Append(manifest, clip[r])
      <4> DEFINE c == clip[r]
                 u == closing[r]
                 m == manifest
      <4>1. c \in Clips /\ u \in BOOLEAN /\ m \in Seq(Clips)
        BY <1>2, <1>3
      <4>2. \A i, j \in 1 .. Len(m) : m[i].of = m[j].of => i = j
        BY <2>1
      <4> HIDE DEF c, u, m
      <4>3. \/ u /\ \E k \in 1 .. Len(m) :
                  m[k].of = c.of /\ Listed(m, c, u) = [m EXCEPT ![k] = c]
            \/ /\ u => \A k \in 1 .. Len(m) : m[k].of # c.of
               /\ Listed(m, c, u) = Append(m, c)
        BY <4>1, <4>2, ListedCases
      <4> QED
        BY <4>3 DEF c, u, m
    <3>2. ~closing[r] => \A k \in 1 .. Len(manifest) : manifest[k].of # r
      BY <1>2, <1>5 DEF Known
    <3> QED
      BY <1>3, <1>4, <3>1, <3>2
\* In both cases there is exactly one place that holds the clip, and the others are as before.
<1>7. PICK k \in 1 .. Len(manifest) + 1 :
        /\ manifest' \in Seq(Clips) /\ DOMAIN manifest' = DOMAIN manifest \union {k}
        /\ manifest'[k] = clip[r] /\ (k \in DOMAIN manifest => manifest[k].of = r)
        /\ \A i \in DOMAIN manifest \ {k} : manifest'[i] = manifest[i] /\ manifest[i].of # r
  <2>1. CASE \E k \in 1 .. Len(manifest) :
               manifest[k].of = r /\ manifest' = [manifest EXCEPT ![k] = clip[r]]
    <3>1. PICK k \in 1 .. Len(manifest) :
               manifest[k].of = r /\ manifest' = [manifest EXCEPT ![k] = clip[r]]
      BY <2>1
    <3>2. /\ manifest' \in Seq(Clips) /\ Len(manifest') = Len(manifest)
          /\ \A j \in 1 .. Len(manifest) : manifest'[j] = IF j = k THEN clip[r] ELSE manifest[j]
      BY <1>2, <1>3, <3>1, ExceptSeq
    <3>3. DOMAIN manifest' = DOMAIN manifest \union {k}
      BY <1>2, <3>1
    <3>4. \A i \in DOMAIN manifest \ {k} : manifest[i].of # r
      BY <1>2, <3>1 DEF RecorderInv, Once
    <3> QED
      BY <1>2, <3>1, <3>2, <3>3, <3>4
  <2>2. CASE /\ \A k \in 1 .. Len(manifest) : manifest[k].of # r
             /\ manifest' = Append(manifest, clip[r])
    <3>1. /\ manifest' \in Seq(Clips) /\ Len(manifest') = Len(manifest) + 1
          /\ \A i \in 1 .. Len(manifest) : manifest'[i] = manifest[i]
          /\ manifest'[Len(manifest) + 1] = clip[r]
      BY <1>2, <1>3, <2>2, AppendProperties
    <3>2. DOMAIN manifest' = 1 .. Len(manifest) + 1
      BY <3>1, LenProperties
    <3>3. 1 .. Len(manifest) + 1 = (1 .. Len(manifest)) \union {Len(manifest) + 1}
      BY <1>2
    <3>4. Len(manifest) + 1 \in 1 .. Len(manifest) + 1
      BY <1>2
    <3> QED
      BY <1>2, <2>2, <3>1, <3>2, <3>3, <3>4
  <2> QED
    BY <1>6, <2>1, <2>2
<1>8. Known(r)' /\ \A q \in Recorders \ {r} : Known(q)' <=> Known(q)
  <2>1. Known(r)'
    BY <1>3, <1>7 DEF Known
  <2>2. ASSUME NEW q \in Recorders \ {r}, Known(q) PROVE Known(q)'
    <3>1. PICK i \in DOMAIN manifest : manifest[i].of = q
      BY <2>2 DEF Known
    <3>2. i # k
      BY <1>7, <3>1
    <3> QED
      BY <1>7, <3>1, <3>2 DEF Known
  <2>3. ASSUME NEW q \in Recorders \ {r}, Known(q)' PROVE Known(q)
    <3>1. PICK i \in DOMAIN manifest' : manifest'[i].of = q
      BY <2>3 DEF Known
    <3>2. i # k /\ i \in DOMAIN manifest
      BY <1>3, <1>7, <3>1
    <3> QED
      BY <1>7, <3>1, <3>2 DEF Known
  <2> QED
    BY <2>1, <2>2, <2>3
<1>9. RecorderTypeOK'
  <2>1. << >> \in Seq(Clips)
    BY EmptySeq
  <2> QED
    BY <1>1, <1>7, <2>1 DEF RecorderInv, RecorderTypeOK, running
<1>10. Exclusive'
  <2>1. \A q \in Recorders \ {r} : place'[q] = place[q] /\ place[q] \notin {"read", "write"}
    BY <1>1, <1>4 DEF RecorderInv, RecorderTypeOK, Exclusive, SharedProcess
  <2> QED
    BY <1>1, <2>1 DEF RecorderInv, RecorderTypeOK, Exclusive
<1>11. Carried'
  BY <1>1 DEF RecorderInv, RecorderTypeOK, Carried, Writing
<1>12. Entered'
  BY <1>1, <1>8 DEF RecorderInv, RecorderTypeOK, Entered, Early, Writing
<1>13. Once'
  <2> SUFFICES ASSUME NEW i \in DOMAIN manifest', NEW j \in DOMAIN manifest',
                      manifest'[i].of = manifest'[j].of
               PROVE  i = j
    BY DEF Once
  <2>1. CASE i # k /\ j # k
    BY <1>7, <2>1 DEF RecorderInv, Once
  <2>2. CASE i = k \/ j = k
    BY <1>3, <1>7, <2>2
  <2> QED
    BY <2>1, <2>2
<1>14. Backed'
  <2> SUFFICES ASSUME NEW i \in DOMAIN manifest'
               PROVE  LET q == manifest'[i].of
                      IN sidecar'[q] \in Clips /\ (manifest'[i].ended => sidecar'[q].ended)
    BY DEF Backed
  <2>1. CASE i = k
    BY <1>1, <1>3, <1>7, <2>1
  <2>2. CASE i # k
    BY <1>1, <1>7, <2>2 DEF RecorderInv, Backed
  <2> QED
    BY <2>1, <2>2
<1> QED
  BY <1>9, <1>10, <1>11, <1>12, <1>13, <1>14 DEF RecorderInv

LEMMA RecorderStep ==
  ASSUME SharedProcess, RecorderInv, [RecorderNext]_recorderVars
  PROVE  RecorderInv'
<1>1. ASSUME NEW r \in Recorders,
             \/ StartRecording(r) \/ StartFails(r) \/ StopRecording(r)
             \/ Exit(r) \/ ContextKills(r) \/ Terminate(r)
      PROVE  RecorderInv'
  BY <1>1, StartStep, OutsideStep
<1>2. ASSUME NEW r \in Recorders, Waited(r) \/ Terminated(r) \/ StopTimeout(r)
      PROVE  RecorderInv'
  BY <1>2, FinishStep
<1>3. ASSUME NEW r \in Recorders, WriteSidecar(r) \/ WriteManifest(r) \/ FetchEnd(r)
      PROVE  RecorderInv'
  BY <1>3, SidecarStep, ManifestStep, FetchEndStep
<1>4. ASSUME NEW r \in Recorders,
             SidecarFails(r) \/ Lock(r) \/ ReadManifest(r) \/ ManifestFails(r) \/ FetchFails(r)
      PROVE  RecorderInv'
  BY <1>4, PassStep
<1>5. ASSUME NEW p \in Processes, Crash(p) PROVE RecorderInv'
  BY <1>5, CrashStep
<1>6. CASE UNCHANGED recorderVars
  BY <1>6 DEF recorderVars, RecorderInv, RecorderTypeOK, Exclusive, Carried, Entered, Once, Backed,
              Known
<1>7. Done => UNCHANGED recorderVars
  BY DEF Done
<1> QED
  BY <1>1, <1>2, <1>3, <1>4, <1>5, <1>6, <1>7 DEF RecorderNext, Goroutine

LEMMA InvSound == RecorderInv => ManifestSound
<1> SUFFICES ASSUME RecorderInv PROVE ManifestSound
  OBVIOUS
<1>1. ASSUME NEW r \in Recorders, place[r] = "done", ~err[r]
      PROVE  Cardinality(Entries(r)) = 1
  <2>1. PICK i \in DOMAIN manifest : manifest[i].of = r
    BY <1>1 DEF RecorderInv, Entered, Known
  <2>2. Entries(r) = {i}
    BY <2>1 DEF RecorderInv, Once, Entries
  <2> QED
    BY <2>2, FS_Singleton
<1>2. ASSUME NEW r \in Recorders, NEW i \in Entries(r)
      PROVE  sidecar[r] # None /\ (manifest[i].ended => sidecar[r].ended)
  BY <1>2 DEF RecorderInv, Backed, Entries
<1> QED
  BY <1>1, <1>2 DEF ManifestSound, RecorderInv

\* A process that records alone into its directory: every recording that returned without an
\* error is in the manifest exactly once, and the manifest never says more than the sidecars,
\* for any number of recordings, failing writes and crashes.
THEOREM ManifestIsSound == ASSUME SharedProcess PROVE RecorderSpec => []ManifestSound
<1>1. RecorderInit => RecorderInv
  BY InvInit
<1>2. RecorderInv /\ [RecorderNext]_recorderVars => RecorderInv'
  BY RecorderStep
<1>3. RecorderInv => ManifestSound
  BY InvSound
<1> QED
  BY <1>1, <1>2, <1>3, PTL DEF RecorderSpec

---------------------------------------------------------------------------
\* HLSStreamer: the frames.

InHands == {"offer", "evict", "retry"}
Places == InHands \union {"off", "select", "lock", "drain", "done"}

PumpType == [at : Places, medium : Media, frame : Frames, dropped : 0 .. 2]
WriterType == [at : {"off", "select", "write", "ended"}, frame : Frames]

StreamTypes ==
  /\ starts \in 0 .. MaxStarts /\ ctxDone \in BOOLEAN
  /\ stopping \in {"no", "waiting", "reaping"}
  /\ ffmpeg \in {"none", "alive", "dead"}
  /\ frameCh \in Seq(Frames) /\ Len(frameCh) <= FrameCapacity
  /\ frameClosed \in BOOLEAN /\ queueClosed \in BOOLEAN
  /\ pump \in PumpType
  /\ queue \in [Media -> Seq(Frames)] /\ \A m \in Media : Len(queue[m]) <= BufferCapacity
  /\ writer \in [Media -> WriterType]
  /\ heard \in [Media -> Seq(Frames)]
  /\ offered \in Frames
  /\ stats \in [written : Nat, dropped : Nat, refused : Nat]

\* Where the pump is while the streamer stands, and what its last select finds.
Phases ==
  /\ ~Running => pump.at \in {"off", "done"}
  /\ stopping # "no" => Running
  /\ stopping = "reaping" => pump.at = "done"
  /\ pump.at = "retry" => Room

\* A frame makes room at most once on each pipe.
Drops ==
  /\ pump.dropped <= IF pump.at \notin InHands THEN 2 ELSE IF pump.medium = "audio" THEN 0 ELSE 1
  /\ stats.dropped <= 2 * stats.written
  /\ stats.written + stats.refused <= offered

Numbers == FrameCapacity \in Nat \ {0} /\ BufferCapacity \in Nat \ {0} /\ MaxFrames \in Nat
           /\ MaxStarts \in Nat

LEMMA StreamNumbers == Numbers
BY HLSAssumption DEF HLSAssumption, Numbers

LEMMA Idle ==
  /\ \A at \in Places : Pump(at) \in PumpType /\ Pump(at).at = at /\ Pump(at).medium = "audio"
                        /\ Pump(at).dropped = 0
  /\ \A at \in {"off", "select", "write", "ended"} : Writer(at) \in WriterType
  /\ 0 \in Frames /\ \A x \in Frames : x \in Nat
  /\ \A x \in Frames : x < MaxFrames => x + 1 \in Frames
BY StreamNumbers DEF Numbers, Frames, Pump, Writer, PumpType, WriterType, Media, NoFrame

LEMMA StreamStarts == Init => StreamTypes /\ Phases /\ Drops /\ Accounting
<1> SUFFICES ASSUME Init PROVE StreamTypes /\ Phases /\ Drops /\ Accounting
  OBVIOUS
<1>1. /\ starts = 0 /\ ctxDone = FALSE /\ stopping = "no" /\ ffmpeg = "none"
      /\ frameCh = <<>> /\ frameClosed = FALSE /\ pump = Pump("off") /\ queue = Both(<<>>)
      /\ queueClosed = FALSE /\ writer = Both(Writer("off")) /\ heard = Both(<<>>)
      /\ offered = 0 /\ stats = NoStats
  BY DEF Init
<1>2. "off" \in Places
  BY DEF Places
<1>3. StreamTypes
  <2>1. Both(<<>>) \in [Media -> Seq(Frames)] /\ \A m \in Media : Len(Both(<<>>)[m]) <= BufferCapacity
    BY StreamNumbers DEF Both, Numbers
  <2>2. Both(Writer("off")) \in [Media -> WriterType]
    BY Idle DEF Both
  <2>3. NoStats \in [written : Nat, dropped : Nat, refused : Nat]
    BY DEF NoStats
  <2>4. Pump("off") \in PumpType
    BY <1>2, Idle
  <2>6. <<>> \in Seq(Frames) /\ Len(<<>>) <= FrameCapacity /\ 0 \in Frames
    BY Idle, StreamNumbers DEF Numbers
  <2> QED
    <3>1. 0 \in 0 .. MaxStarts
      BY StreamNumbers DEF Numbers
    <3> QED
      BY <1>1, <2>1, <2>2, <2>3, <2>4, <2>6, <3>1 DEF StreamTypes
<1>4. Phases /\ Drops /\ Accounting
  BY <1>1, <1>2, Idle DEF Phases, Drops, Accounting, Running, NoStats, InHands
<1> QED
  BY <1>3, <1>4

LEMMA TypesKeep ==
  ASSUME StreamTypes, Phases, Drops, Next PROVE StreamTypes'
<1> USE StreamNumbers DEF StreamTypes, Numbers
<1>0. stats = [written |-> stats.written, dropped |-> stats.dropped, refused |-> stats.refused]
      /\ stats.written \in Nat /\ stats.dropped \in Nat /\ stats.refused \in Nat
  OBVIOUS
<1>1. Frames \subseteq Nat /\ 0 \in Frames /\ Media = {"audio", "video"}
  BY DEF Frames, Media
<1>2. CASE Start
  <2>1. Both(<<>>) \in [Media -> Seq(Frames)] /\ \A m \in Media : Len(Both(<<>>)[m]) <= BufferCapacity
    BY StreamNumbers DEF Both, Numbers
  <2>2. Both(Writer("select")) \in [Media -> WriterType]
    BY Idle DEF Both
  <2>3. NoStats \in [written : Nat, dropped : Nat, refused : Nat]
    BY DEF NoStats
  <2>4. Pump("select") \in PumpType
    BY Idle DEF Places
  <2>5. starts + 1 \in 0 .. MaxStarts
    BY <1>2, StreamNumbers DEF Start, Numbers
  <2>6. <<>> \in Seq(Frames) /\ Len(<<>>) <= FrameCapacity /\ 0 \in Frames
    BY Idle, StreamNumbers DEF Numbers
  <2> QED
    BY <1>2, <2>1, <2>2, <2>3, <2>4, <2>5, <2>6 DEF Start
<1>3. CASE WriteFrame
  <2>1. offered + 1 \in Frames
    BY <1>3, Idle DEF WriteFrame
  <2>2. CASE Len(frameCh) < FrameCapacity
    <3>1. frameCh' = Append(frameCh, offered + 1) /\ frameCh \in Seq(Frames)
      BY <1>3, <2>2 DEF WriteFrame
    <3>2. frameCh' \in Seq(Frames) /\ Len(frameCh') = Len(frameCh) + 1 /\ Len(frameCh) \in Nat
      BY <2>1, <3>1, AppendProperties
    <3> QED
      BY <1>3, <2>1, <2>2, <3>1, <3>2 DEF WriteFrame
  <2>3. CASE ~(Len(frameCh) < FrameCapacity)
    <3>1. stats' = [stats EXCEPT !.refused = @ + 1] /\ frameCh' = frameCh
      BY <1>3, <2>3 DEF WriteFrame
    <3>2. stats' \in [written : Nat, dropped : Nat, refused : Nat]
      <4>1. stats' = [written |-> stats.written, dropped |-> stats.dropped,
                      refused |-> stats.refused + 1]
        BY <3>1
      <4> HIDE DEF StreamTypes
      <4> QED
        BY <1>0, <4>1
    <3> QED
      BY <1>3, <2>1, <3>1, <3>2 DEF WriteFrame
  <2> QED
    BY <2>2, <2>3
<1>4. CASE Stop \/ StopJoins \/ Shutdown \/ FFmpegDies
  BY <1>4 DEF Stop, StopJoins, Shutdown, FFmpegDies
<1>5. CASE StopReaps
  BY <1>1, <1>5 DEF StopReaps, Both
<1>6. CASE PumpLeaves \/ PumpEnds
  <2>1. Pump("drain") \in PumpType /\ Pump("done") \in PumpType
    BY Idle DEF Places
  <2> QED
    BY <1>6, <2>1 DEF PumpLeaves, PumpEnds
<1>7. CASE PumpTakes
  <2>1. frameCh # <<>> /\ frameCh' = Tail(frameCh)
    BY <1>7 DEF PumpTakes
  <2>2. /\ Head(frameCh) \in Frames /\ Tail(frameCh) \in Seq(Frames)
        /\ Len(Tail(frameCh)) = Len(frameCh) - 1 /\ Len(frameCh) \in Nat
    BY <2>1, HeadTailProperties
  <2> QED
    BY <1>1, <1>7, <2>1, <2>2 DEF PumpTakes, Places, InHands, PumpType
<1>8. CASE PumpCounts
  <2>1. /\ stats' = [stats EXCEPT !.written = @ + 1, !.dropped = @ + pump.dropped]
        /\ pump' = Pump("select") /\ pump.dropped \in Nat /\ "select" \in Places
    BY <1>8 DEF PumpCounts, Places, PumpType
  <2>2. stats' \in [written : Nat, dropped : Nat, refused : Nat]
    <3>1. stats' = [written |-> stats.written + 1, dropped |-> stats.dropped + pump.dropped,
                    refused |-> stats.refused]
      BY <2>1
    <3> HIDE DEF StreamTypes
    <3> QED
      BY <1>0, <2>1, <3>1
  <2>3. pump' \in PumpType
    BY <2>1, Idle
  <2> QED
    BY <1>8, <2>2, <2>3 DEF PumpCounts
<1>9. ASSUME NEW drops \in 0 .. 1, pump.at \in InHands
      PROVE  Sent(drops) \in PumpType
  <2>1. pump \in PumpType /\ pump.dropped \in 0 .. 2
    BY DEF PumpType
  <2>2. pump.dropped <= 1
    BY <1>9, <2>1 DEF Drops
  <2> QED
    <3>1. pump.dropped + drops \in 0 .. 2 /\ "video" \in Media /\ "offer" \in Places /\ "lock" \in Places
      BY <2>1, <2>2 DEF Media, Places, InHands
    <3> HIDE DEF StreamTypes
    <3> QED
      BY <2>1, <3>1 DEF Sent, PumpType
<1>10. ASSUME queue' = [queue EXCEPT ![pump.medium] = Append(@, pump.frame)], Room
       PROVE  queue' \in [Media -> Seq(Frames)] /\ \A m \in Media : Len(queue'[m]) <= BufferCapacity
  <2>1. pump.medium \in Media /\ pump.frame \in Frames
    BY DEF PumpType
  <2>2. Append(queue[pump.medium], pump.frame) \in Seq(Frames)
        /\ Len(Append(queue[pump.medium], pump.frame)) = Len(queue[pump.medium]) + 1
        /\ Len(queue[pump.medium]) \in Nat
    BY <2>1
  <2> QED
    BY <1>10, <2>1, <2>2 DEF Room
<1>11. CASE Offer
  <2>1. CASE Room
    <3>1. pump' = Sent(0) /\ queue' = [queue EXCEPT ![pump.medium] = Append(@, pump.frame)]
      BY <1>11, <2>1 DEF Offer
    <3>2. pump' \in PumpType
      BY <1>9, <1>11, <3>1 DEF Offer, InHands
    <3> QED
      BY <1>10, <1>11, <2>1, <3>1, <3>2 DEF Offer
  <2>2. CASE ~Room
    BY <1>11, <2>2 DEF Offer, InHands, Places, PumpType
  <2> QED
    BY <2>1, <2>2
<1>12. CASE Evict
  <2>1. pump.medium \in Media
    BY DEF PumpType
  <2>2. queue[pump.medium] # <<>> =>
          /\ Tail(queue[pump.medium]) \in Seq(Frames)
          /\ Len(Tail(queue[pump.medium])) = Len(queue[pump.medium]) - 1
          /\ Len(queue[pump.medium]) \in Nat
    BY <2>1, HeadTailProperties
  <2>3. queue' \in [Media -> Seq(Frames)] /\ \A m \in Media : Len(queue'[m]) <= BufferCapacity
    BY <1>12, <2>1, <2>2 DEF Evict
  <2> QED
    BY <1>12, <2>3 DEF Evict, InHands, Places, PumpType
<1>13. CASE Retry
  <2>1. CASE Room
    BY <1>9, <1>10, <1>13, <2>1 DEF Retry, InHands
  <2>2. CASE ~Room
    BY <1>13, <2>2 DEF Retry, Phases
  <2> QED
    BY <2>1, <2>2
<1>14. ASSUME NEW m \in Media, WriterLeaves(m) PROVE StreamTypes'
  BY <1>14, Idle DEF WriterLeaves
<1>15. ASSUME NEW m \in Media, WriterTakes(m) PROVE StreamTypes'
  <2>1. /\ Head(queue[m]) \in Frames /\ Tail(queue[m]) \in Seq(Frames)
        /\ Len(Tail(queue[m])) = Len(queue[m]) - 1 /\ Len(queue[m]) \in Nat
    BY <1>15, HeadTailProperties DEF WriterTakes
  <2>2. queue' \in [Media -> Seq(Frames)] /\ \A n \in Media : Len(queue'[n]) <= BufferCapacity
    BY <1>15, <2>1 DEF WriterTakes
  <2>3. writer' \in [Media -> WriterType]
    BY <1>15, <2>1 DEF WriterTakes, WriterType
  <2> QED
    BY <1>15, <2>2, <2>3 DEF WriterTakes
<1>16. ASSUME NEW m \in Media, WriterWrites(m) PROVE StreamTypes'
  <2>1. writer[m].frame \in Frames /\ heard[m] \in Seq(Frames)
    BY DEF WriterType
  <2>2. Append(heard[m], writer[m].frame) \in Seq(Frames)
    BY <2>1
  <2>3. heard' \in [Media -> Seq(Frames)]
    BY <1>16, <2>2 DEF WriterWrites
  <2>4. writer' \in [Media -> WriterType]
    BY <1>16, Idle DEF WriterWrites
  <2> QED
    BY <1>16, <2>3, <2>4 DEF WriterWrites
<1> QED
  BY <1>2, <1>3, <1>4, <1>5, <1>6, <1>7, <1>8, <1>11, <1>12, <1>13, <1>14, <1>15, <1>16
     DEF Next, PumpSteps, WriterSteps, StopSteps

LEMMA PhasesKeep ==
  ASSUME StreamTypes, Phases, Next PROVE Phases'
<1> USE DEF Phases, Running, Room
<1>0. pump \in PumpType /\ pump.medium \in Media /\ BufferCapacity \in Nat \ {0}
  BY StreamNumbers DEF StreamTypes, PumpType, Numbers
<1>1. CASE Start
  BY <1>1, Idle DEF Start, MutexFree, Places
<1>2. CASE WriteFrame \/ Shutdown
  BY <1>2 DEF WriteFrame, Shutdown
<1>3. CASE Stop \/ StopJoins
  BY <1>3 DEF Stop, StopJoins
<1>4. CASE StopReaps
  BY <1>4 DEF StopReaps
<1>5. CASE FFmpegDies
  BY <1>5 DEF FFmpegDies
<1>6. CASE PumpLeaves \/ PumpEnds \/ PumpCounts
  <2>1. pump.at \notin {"done", "off"} /\ pump'.at \in {"drain", "done", "select"}
    BY <1>6, Idle DEF PumpLeaves, PumpEnds, PumpCounts, Places
  <2>2. UNCHANGED <<stopping, ffmpeg>>
    BY <1>6 DEF PumpLeaves, PumpEnds, PumpCounts
  <2> QED
    BY <2>1, <2>2
<1>7. CASE PumpTakes
  BY <1>7 DEF PumpTakes
<1>8. CASE Offer
  <2>1. pump.at = "offer" /\ pump'.at \in {"offer", "lock", "evict"}
    BY <1>0, <1>8 DEF Offer, Sent, PumpType
  <2> QED
    BY <1>8, <2>1 DEF Offer
<1>9. CASE Evict
  <2>1. /\ pump.at = "evict" /\ pump'.at = "retry" /\ pump'.medium = pump.medium
        /\ queue' = [queue EXCEPT ![pump.medium] = IF @ = <<>> THEN @ ELSE Tail(@)]
        /\ UNCHANGED <<stopping, ffmpeg>>
    BY <1>0, <1>9 DEF Evict, PumpType
  <2>2. queue[pump.medium] \in Seq(Frames) /\ Len(queue[pump.medium]) <= BufferCapacity
    BY <1>0 DEF StreamTypes
  <2>3. Len(queue'[pump.medium]) < BufferCapacity
    <3>1. CASE queue[pump.medium] = <<>>
      BY <1>0, <2>1, <3>1 DEF StreamTypes
    <3>2. CASE queue[pump.medium] # <<>>
      <4>1. Len(Tail(queue[pump.medium])) = Len(queue[pump.medium]) - 1 /\ Len(queue[pump.medium]) \in Nat
        BY <2>2, <3>2, HeadTailProperties
      <4> QED
        BY <1>0, <2>1, <2>2, <3>2, <4>1 DEF StreamTypes
    <3> QED
      BY <3>1, <3>2
  <2> QED
    BY <2>1, <2>3
<1>10. CASE Retry
  <2>1. pump.at = "retry" /\ pump'.at \in {"offer", "lock"}
    BY <1>0, <1>10 DEF Retry, Sent, PumpType
  <2> QED
    BY <1>10, <2>1 DEF Retry
<1>11. ASSUME NEW m \in Media, WriterLeaves(m) \/ WriterWrites(m) PROVE Phases'
  BY <1>11 DEF WriterLeaves, WriterWrites
<1>12. ASSUME NEW m \in Media, WriterTakes(m) PROVE Phases'
  <2>1. /\ queue[m] # <<>> /\ queue' = [queue EXCEPT ![m] = Tail(@)]
        /\ UNCHANGED <<stopping, ffmpeg, pump>>
    BY <1>12 DEF WriterTakes
  <2>2. Len(Tail(queue[m])) = Len(queue[m]) - 1 /\ Len(queue[m]) \in Nat
    BY <2>1, HeadTailProperties DEF StreamTypes
  <2>3. pump.at = "retry" => Len(queue'[pump.medium]) < BufferCapacity
    BY <1>0, <2>1, <2>2 DEF StreamTypes
  <2> QED
    BY <2>1, <2>3
<1> QED
  BY <1>1, <1>2, <1>3, <1>4, <1>5, <1>6, <1>7, <1>8, <1>9, <1>10, <1>11, <1>12
     DEF Next, PumpSteps, WriterSteps, StopSteps

\* What the counters say, with the frame in the pump's hands.
CountInv == Drops /\ Accounting

LEMMA CountsKeep ==
  ASSUME StreamTypes, Phases, CountInv, Next PROVE CountInv'
<1>1. /\ stats.written \in Nat /\ stats.dropped \in Nat /\ stats.refused \in Nat
      /\ stats = [written |-> stats.written, dropped |-> stats.dropped, refused |-> stats.refused]
      /\ offered \in Nat /\ pump \in PumpType /\ pump.dropped \in Nat /\ pump.medium \in Media
      /\ Len(frameCh) \in Nat /\ frameCh \in Seq(Frames)
  BY Idle DEF StreamTypes, PumpType
<1>2. CASE Start
  <2>1. /\ stats' = [written |-> 0, dropped |-> 0, refused |-> 0] /\ offered' = 0 /\ frameCh' = <<>>
        /\ pump'.at = "select" /\ pump'.dropped = 0
    BY <1>2, Idle DEF Start, NoStats, Places
  <2> QED
    BY <2>1 DEF CountInv, Drops, Accounting, InHands
<1>3. CASE WriteFrame
  <2>1. offered' = offered + 1 /\ UNCHANGED <<pump, ffmpeg>> /\ Running
    BY <1>3 DEF WriteFrame
  <2>2. CASE Len(frameCh) < FrameCapacity
    <3>1. Len(frameCh') = Len(frameCh) + 1 /\ stats' = stats
      BY <1>1, <1>3, <2>2 DEF WriteFrame
    <3> QED
      <4>1. Drops'
        BY <1>1, <2>1, <3>1 DEF CountInv, Drops, Accounting, Running
      <4>2. Accounting'
        BY <1>1, <2>1, <3>1 DEF CountInv, Accounting, Running
      <4> QED
        BY <4>1, <4>2 DEF CountInv
  <2>3. CASE ~(Len(frameCh) < FrameCapacity)
    <3>1. /\ frameCh' = frameCh /\ stats'.refused = stats.refused + 1
          /\ stats'.written = stats.written /\ stats'.dropped = stats.dropped
      BY <1>1, <1>3, <2>3 DEF WriteFrame
    <3> QED
      <4>1. Drops'
        BY <1>1, <2>1, <3>1 DEF CountInv, Drops, Accounting, Running
      <4>2. Accounting'
        BY <1>1, <2>1, <3>1 DEF CountInv, Accounting, Running
      <4> QED
        BY <4>1, <4>2 DEF CountInv
  <2> QED
    BY <2>2, <2>3
<1>4. CASE Stop \/ StopJoins \/ Shutdown \/ FFmpegDies \/ \E m \in Media : WriterSteps(m)
  <2>1. UNCHANGED <<pump, stats, offered, frameCh>> /\ (Running' <=> Running)
    BY <1>4 DEF Stop, StopJoins, Shutdown, FFmpegDies, WriterSteps, WriterLeaves, WriterTakes,
       WriterWrites, Running
  <2> QED
    BY <2>1 DEF CountInv, Drops, Accounting
<1>5. CASE StopReaps
  <2>1. UNCHANGED <<pump, stats, offered>> /\ ~Running'
    BY <1>5 DEF StopReaps, Running
  <2> QED
    BY <2>1 DEF CountInv, Drops, Accounting
<1>6. CASE PumpLeaves \/ PumpEnds
  <2>1. /\ pump.at \in {"select", "drain"} /\ pump'.at \in {"drain", "done"} /\ pump'.dropped = 0
        /\ UNCHANGED <<stats, offered, frameCh, ffmpeg>>
    BY <1>6, Idle DEF PumpLeaves, PumpEnds, Places
  <2> QED
    BY <2>1 DEF CountInv, Drops, Accounting, Running, InHands
<1>7. CASE PumpTakes
  <2>1. /\ pump.at = "select" /\ pump'.at = "offer" /\ pump'.dropped = 0 /\ frameCh # <<>>
        /\ frameCh' = Tail(frameCh) /\ UNCHANGED <<stats, offered, ffmpeg>>
    BY <1>7 DEF PumpTakes
  <2>2. Len(Tail(frameCh)) = Len(frameCh) - 1
    BY <1>1, <2>1, HeadTailProperties
  <2> QED
    BY <1>1, <2>1, <2>2 DEF CountInv, Drops, Accounting, Running, InHands
<1>8. CASE PumpCounts
  <2>1. /\ pump.at = "lock" /\ pump'.at = "select" /\ pump'.dropped = 0
        /\ stats'.written = stats.written + 1 /\ stats'.dropped = stats.dropped + pump.dropped
        /\ stats'.refused = stats.refused /\ UNCHANGED <<frameCh, offered, ffmpeg>>
    BY <1>1, <1>8, Idle DEF PumpCounts, Places
  <2>2. Running /\ pump.dropped <= 2
    BY <2>1 DEF Phases, CountInv, Drops, InHands
  <2>3. offered = stats.refused + Len(frameCh) + stats.written + 1
    BY <2>1, <2>2 DEF CountInv, Accounting
  <2>4. stats.dropped <= 2 * stats.written /\ stats.written + stats.refused <= offered
    BY DEF CountInv, Drops
  <2>5. /\ stats'.dropped <= 2 * stats'.written /\ stats'.written + stats'.refused <= offered'
        /\ offered' = stats'.refused + Len(frameCh') + stats'.written
    <3>1. Len(frameCh') = Len(frameCh) /\ offered' = offered
      BY <2>1
    <3>2. stats.dropped + pump.dropped <= 2 * (stats.written + 1)
      BY <1>1, <2>2, <2>4
    <3>3. /\ stats.written + 1 + stats.refused <= offered
          /\ offered = stats.refused + Len(frameCh) + (stats.written + 1)
      BY <1>1, <2>3
    <3> QED
      BY <2>1, <3>1, <3>2, <3>3
  <2>6. Drops'
    BY <2>1, <2>5 DEF Drops, InHands
  <2>7. Accounting'
    BY <1>1, <2>1, <2>5 DEF Accounting
  <2> QED
    BY <2>6, <2>7 DEF CountInv
<1>9. CASE Offer \/ Evict \/ Retry
  <2>1. /\ pump.at \in InHands /\ UNCHANGED <<stats, offered, frameCh, ffmpeg>>
    BY <1>9 DEF Offer, Evict, Retry, InHands
  <2>2. pump.dropped <= (IF pump.medium = "audio" THEN 0 ELSE 1)
    BY <2>1 DEF CountInv, Drops
  <2>3. /\ pump'.at \in InHands \union {"lock"}
        /\ pump'.dropped <= IF pump'.at \notin InHands THEN 2 ELSE IF pump'.medium = "audio" THEN 0 ELSE 1
    <3>1. ASSUME NEW drops \in 0 .. 1, pump' = Sent(drops)
          PROVE  /\ pump'.at \in InHands \union {"lock"}
                 /\ pump'.dropped <= IF pump'.at \notin InHands THEN 2
                                     ELSE IF pump'.medium = "audio" THEN 0 ELSE 1
      BY <1>1, <2>2, <3>1 DEF Sent, PumpType, InHands, Media
    <3>2. ASSUME NEW at \in InHands, pump' = [pump EXCEPT !.at = at]
          PROVE  /\ pump'.at \in InHands \union {"lock"}
                 /\ pump'.dropped <= IF pump'.at \notin InHands THEN 2
                                     ELSE IF pump'.medium = "audio" THEN 0 ELSE 1
      BY <1>1, <2>2, <3>2 DEF PumpType, InHands
    <3>3. pump' \in {Sent(0), Sent(1)} \union {[pump EXCEPT !.at = at] : at \in InHands}
      BY <1>9 DEF Offer, Evict, Retry, InHands
    <3> QED
      BY <3>1, <3>2, <3>3
  <2> QED
    BY <1>1, <2>1, <2>3 DEF CountInv, Drops, Accounting, Running, InHands
<1> QED
  BY <1>2, <1>3, <1>4, <1>5, <1>6, <1>7, <1>8, <1>9 DEF Next, PumpSteps, StopSteps

\* Frames of one set before those of another.
Below(S, T) == \A x \in S, y \in T : x < y

LEMMA Lists ==
  ASSUME NEW s \in Seq(Frames)
  PROVE  /\ Range(<<>>) = {} /\ Increasing(<<>>) /\ Range(s) \subseteq Frames
         /\ \A x \in Frames : /\ Range(Append(s, x)) = Range(s) \union {x}
                              /\ Increasing(s) /\ Below(Range(s), {x}) => Increasing(Append(s, x))
         /\ s # <<>> => /\ Range(s) = {Head(s)} \union Range(Tail(s))
                        /\ Increasing(s) => Increasing(Tail(s)) /\ Below({Head(s)}, Range(Tail(s)))
<1>0. \A x \in Frames : x \in Nat
  BY Idle
<1>1. Range(<<>>) = {} /\ Increasing(<<>>) /\ Range(s) \subseteq Frames
  BY DEF Range, Increasing
<1>2. ASSUME NEW x \in Frames
      PROVE  /\ Range(Append(s, x)) = Range(s) \union {x}
             /\ Increasing(s) /\ Below(Range(s), {x}) => Increasing(Append(s, x))
  <2> DEFINE t == Append(s, x)
  <2>1. /\ t \in Seq(Frames) /\ Len(t) = Len(s) + 1 /\ Len(s) \in Nat
        /\ \A i \in 1 .. Len(s) : t[i] = s[i]
        /\ t[Len(s) + 1] = x
    BY AppendProperties, LenProperties
  <2>2. DOMAIN s = 1 .. Len(s) /\ DOMAIN t = 1 .. Len(t)
    BY <2>1
  <2>3. \A i \in DOMAIN t : i \in DOMAIN s \/ i = Len(s) + 1
    BY <2>1, <2>2
  <2> HIDE DEF t
  <2>4. Range(t) = Range(s) \union {x}
    BY <2>1, <2>2, <2>3 DEF Range
  <2>5. ASSUME Increasing(s), Below(Range(s), {x}) PROVE Increasing(t)
    <3> SUFFICES ASSUME NEW i \in DOMAIN t, NEW j \in DOMAIN t, i < j PROVE t[i] < t[j]
      BY DEF Increasing
    <3>1. i \in DOMAIN s
      BY <2>1, <2>2
    <3>2. CASE j \in DOMAIN s
      BY <2>1, <2>2, <2>5, <3>1, <3>2 DEF Increasing
    <3>3. CASE j = Len(s) + 1
      BY <2>1, <2>2, <2>5, <3>1, <3>3 DEF Below, Range
    <3> QED
      BY <2>3, <3>2, <3>3
  <2> QED
    BY <2>4, <2>5 DEF t
<1>3. ASSUME s # <<>>
      PROVE  /\ Range(s) = {Head(s)} \union Range(Tail(s))
             /\ Increasing(s) => Increasing(Tail(s)) /\ Below({Head(s)}, Range(Tail(s)))
  <2> DEFINE t == Tail(s)
  <2>1. /\ t \in Seq(Frames) /\ Len(t) = Len(s) - 1 /\ Len(s) \in Nat \ {0} /\ Head(s) = s[1]
        /\ \A i \in 1 .. Len(t) : t[i] = s[i + 1]
    BY <1>3, HeadTailProperties, EmptySeq
  <2>2. DOMAIN s = 1 .. Len(s) /\ DOMAIN t = 1 .. Len(t)
    BY <2>1
  <2> HIDE DEF t
  <2>3. /\ \A i \in DOMAIN t : i + 1 \in DOMAIN s /\ i + 1 > 1 /\ t[i] = s[i + 1]
        /\ \A i \in DOMAIN s : i = 1 \/ (i - 1 \in DOMAIN t /\ t[i - 1] = s[i])
        /\ 1 \in DOMAIN s
    BY <2>1, <2>2
  <2>4. Range(s) = {Head(s)} \union Range(t)
    <3>1. ASSUME NEW y \in Range(s) PROVE y \in {Head(s)} \union Range(t)
      <4>1. PICK i \in DOMAIN s : y = s[i]
        BY DEF Range
      <4> QED
        BY <2>1, <2>3, <4>1 DEF Range
    <3>2. ASSUME NEW y \in {Head(s)} \union Range(t) PROVE y \in Range(s)
      <4>1. CASE y = Head(s)
        BY <2>1, <2>3, <4>1 DEF Range
      <4>2. CASE y \in Range(t)
        <5>1. PICK i \in DOMAIN t : y = t[i]
          BY <4>2 DEF Range
        <5> QED
          BY <2>3, <5>1 DEF Range
      <4> QED
        BY <4>1, <4>2
    <3> QED
      BY <3>1, <3>2
  <2>5. ASSUME Increasing(s) PROVE Increasing(t) /\ Below({Head(s)}, Range(t))
    <3>1. Increasing(t)
      <4> SUFFICES ASSUME NEW i \in DOMAIN t, NEW j \in DOMAIN t, i < j PROVE t[i] < t[j]
        BY DEF Increasing
      <4>1. i + 1 \in DOMAIN s /\ j + 1 \in DOMAIN s /\ i + 1 < j + 1
        BY <2>1, <2>2, <2>3
      <4>2. s[i + 1] < s[j + 1]
        BY <2>5, <4>1 DEF Increasing
      <4> QED
        BY <2>3, <4>2
    <3>2. Below({Head(s)}, Range(t))
      <4> SUFFICES ASSUME NEW i \in DOMAIN t PROVE Head(s) < t[i]
        BY DEF Below, Range
      <4>1. 1 \in DOMAIN s /\ i + 1 \in DOMAIN s /\ 1 < i + 1
        BY <2>1, <2>2, <2>3
      <4>2. s[1] < s[i + 1]
        BY <2>5, <4>1 DEF Increasing
      <4> QED
        BY <2>1, <2>3, <4>2
    <3> QED
      BY <3>1, <3>2
  <2> QED
    BY <2>4, <2>5 DEF t
<1> QED
  BY <1>1, <1>2, <1>3

LEMMA Appended ==
  ASSUME NEW s \in Seq(Frames), NEW x \in Frames
  PROVE  /\ Range(Append(s, x)) = Range(s) \union {x}
         /\ Increasing(s) /\ Below(Range(s), {x}) => Increasing(Append(s, x))
BY Lists

LEMMA Joined ==
  ASSUME NEW s \in Seq(Frames), NEW t \in Seq(Frames)
  PROVE  /\ s \o t \in Seq(Frames) /\ Range(s \o t) = Range(s) \union Range(t)
         /\ Increasing(s) /\ Increasing(t) /\ Below(Range(s), Range(t)) => Increasing(s \o t)
<1> DEFINE u == s \o t
<1>1. /\ u \in Seq(Frames) /\ Len(u) = Len(s) + Len(t) /\ Len(s) \in Nat /\ Len(t) \in Nat
      /\ \A i \in 1 .. Len(s) + Len(t) : u[i] = IF i <= Len(s) THEN s[i] ELSE t[i - Len(s)]
  BY ConcatProperties, LenProperties
<1>2. DOMAIN s = 1 .. Len(s) /\ DOMAIN t = 1 .. Len(t) /\ DOMAIN u = 1 .. Len(s) + Len(t)
  BY <1>1
<1>3. Range(u) = Range(s) \union Range(t)
  BY RangeConcatenation
<1> HIDE DEF u
<1>4. ASSUME Increasing(s), Increasing(t), Below(Range(s), Range(t)) PROVE Increasing(u)
  <2> SUFFICES ASSUME NEW i \in DOMAIN u, NEW j \in DOMAIN u, i < j PROVE u[i] < u[j]
    BY DEF Increasing
  <2>1. CASE j <= Len(s)
    <3>1. i \in DOMAIN s /\ j \in DOMAIN s /\ u[i] = s[i] /\ u[j] = s[j]
      BY <1>1, <1>2, <2>1
    <3> QED
      BY <1>4, <3>1 DEF Increasing
  <2>2. CASE i > Len(s)
    <3>1. /\ i - Len(s) \in DOMAIN t /\ j - Len(s) \in DOMAIN t /\ i - Len(s) < j - Len(s)
          /\ u[i] = t[i - Len(s)] /\ u[j] = t[j - Len(s)]
      BY <1>1, <1>2, <2>2
    <3> QED
      BY <1>4, <3>1 DEF Increasing
  <2>3. CASE i <= Len(s) /\ j > Len(s)
    <3>1. i \in DOMAIN s /\ j - Len(s) \in DOMAIN t /\ u[i] = s[i] /\ u[j] = t[j - Len(s)]
      BY <1>1, <1>2, <2>3
    <3> QED
      BY <1>4, <3>1 DEF Below, Range
  <2> QED
    BY <1>1, <1>2, <2>1, <2>2, <2>3
<1> QED
  BY <1>1, <1>3, <1>4 DEF u

\* The frame in a writer's hands, and the one in the pump's.
Held(m) == IF writer[m].at = "write" THEN {writer[m].frame} ELSE {}
Hand(m) == IF pump.at \in InHands /\ (pump.medium = "audio" \/ m = "video") THEN {pump.frame} ELSE {}

\* Five stations in their order.
Chain(a, b, c, d, e) ==
  Below(a, b \union c \union d \union e) /\ Below(b, c \union d \union e) /\ Below(c, d \union e)
  /\ Below(d, e)

\* The pump is done with this pipe.
Passed(m) == pump.at = "lock" \/ (pump.at \in InHands /\ pump.medium = "video" /\ m = "audio")

Ordered(m) ==
  /\ Increasing(heard[m]) /\ Increasing(queue[m]) /\ Increasing(frameCh)
  /\ Chain(Range(heard[m]), Held(m), Range(queue[m]), Hand(m), Range(frameCh))
  /\ \A x \in Range(heard[m]) \union Held(m) \union Range(queue[m]) \union Hand(m) \union Range(frameCh) :
       x <= offered
  /\ Passed(m) /\ writer[m].at # "ended" =>
       pump.frame \in Range(heard[m]) \union Held(m) \union Range(queue[m])

OrderInv == \A m \in Media : Ordered(m)

LEMMA OrderShown == StreamTypes /\ OrderInv => NewestKept
<1> SUFFICES ASSUME StreamTypes, OrderInv, NEW m \in Media
             PROVE  /\ Increasing(Pipeline(m))
                    /\ pump.at = "lock" /\ writer[m].at # "ended" =>
                         \E i \in DOMAIN Pipeline(m) : Pipeline(m)[i] = pump.frame
  BY DEF NewestKept
<1> DEFINE a == heard[m]
           b == IF writer[m].at = "write" THEN <<writer[m].frame>> ELSE <<>>
           c == queue[m]
           d == InHand(m)
<1>1. /\ a \in Seq(Frames) /\ b \in Seq(Frames) /\ c \in Seq(Frames) /\ d \in Seq(Frames)
      /\ frameCh \in Seq(Frames)
  BY DEF StreamTypes, InHand, PumpType, WriterType
<1>2. Range(b) = Held(m) /\ Increasing(b) /\ Range(d) = Hand(m) /\ Increasing(d)
  BY DEF Range, Held, Hand, InHand, Increasing, InHands
<1>3. /\ Increasing(a) /\ Increasing(c) /\ Increasing(frameCh)
      /\ Chain(Range(a), Range(b), Range(c), Range(d), Range(frameCh))
  BY <1>2 DEF OrderInv, Ordered
<1>4. Pipeline(m) = (((a \o b) \o c) \o d) \o frameCh
  BY DEF Pipeline
<1>5. Passed(m) /\ writer[m].at # "ended" => pump.frame \in Range(a) \union Range(b) \union Range(c)
  BY <1>2 DEF OrderInv, Ordered
<1> HIDE DEF a, b, c, d
<1>6. /\ Below(Range(a), Range(b)) /\ Below(Range(a) \union Range(b), Range(c))
      /\ Below(Range(a) \union Range(b) \union Range(c), Range(d))
      /\ Below(Range(a) \union Range(b) \union Range(c) \union Range(d), Range(frameCh))
  BY <1>3 DEF Chain, Below
<1>7. /\ a \o b \in Seq(Frames) /\ Range(a \o b) = Range(a) \union Range(b) /\ Increasing(a \o b)
  BY <1>1, <1>2, <1>3, <1>6, Joined
<1>8. /\ (a \o b) \o c \in Seq(Frames)
      /\ Range((a \o b) \o c) = Range(a) \union Range(b) \union Range(c)
      /\ Increasing((a \o b) \o c)
  <2> DEFINE ab == a \o b
  <2>1. ab \in Seq(Frames) /\ Range(ab) = Range(a) \union Range(b) /\ Increasing(ab)
    BY <1>7
  <2> HIDE DEF ab
  <2>2. Below(Range(ab), Range(c))
    BY <1>6, <2>1
  <2>3. ab \o c \in Seq(Frames) /\ Range(ab \o c) = Range(ab) \union Range(c)
    BY <1>1, <2>1, Joined
  <2>4. Increasing(ab \o c)
    BY <1>1, <1>3, <2>1, <2>2, Joined
  <2> QED
    BY <2>1, <2>3, <2>4 DEF ab
<1> DEFINE abc == (a \o b) \o c
           abcd == abc \o d
<1> HIDE DEF abc
<1>9. /\ abcd \in Seq(Frames)
      /\ Range(abcd) = Range(a) \union Range(b) \union Range(c) \union Range(d)
      /\ Increasing(abcd)
  <2>1. /\ abc \in Seq(Frames) /\ Increasing(abc)
        /\ Range(abc) = Range(a) \union Range(b) \union Range(c)
    BY <1>8 DEF abc
  <2>2. abc \o d \in Seq(Frames) /\ Range(abc \o d) = Range(abc) \union Range(d)
    BY <1>1, <2>1, Joined
  <2>3. Below(Range(abc), Range(d))
    BY <1>6, <2>1
  <2>4. Increasing(abc \o d)
    BY <1>1, <1>2, <2>1, <2>3, Joined
  <2> QED
    BY <2>1, <2>2, <2>4
<1> HIDE DEF abcd
<1>10. /\ Increasing(Pipeline(m))
       /\ Range(Pipeline(m)) = Range(a) \union Range(b) \union Range(c) \union Range(d) \union Range(frameCh)
  <2>1. Pipeline(m) = abcd \o frameCh
    BY <1>4 DEF abcd, abc
  <2>2. Below(Range(abcd), Range(frameCh))
    BY <1>6, <1>9
  <2>3. Range(abcd \o frameCh) = Range(abcd) \union Range(frameCh)
    BY <1>1, <1>9, Joined
  <2>4. Increasing(abcd \o frameCh)
    BY <1>1, <1>3, <1>9, <2>2, Joined
  <2> QED
    BY <1>9, <2>1, <2>3, <2>4
<1> QED
  BY <1>5, <1>10 DEF Range, Passed

LEMMA OrderStarts == Init => OrderInv
<1> SUFFICES ASSUME Init, NEW m \in Media PROVE Ordered(m)
  BY DEF OrderInv
<1>1. heard[m] = <<>> /\ queue[m] = <<>> /\ frameCh = <<>> /\ Held(m) = {} /\ Hand(m) = {} /\ ~Passed(m)
  BY DEF Init, Both, Writer, Pump, Held, Hand, InHands, Passed
<1>2. Range(<<>>) = {} /\ Increasing(<<>>)
  BY DEF Range, Increasing
<1> QED
  BY <1>1, <1>2 DEF Ordered, Chain, Below

\* What the steps leave alone on one pipe.
Still(m) == UNCHANGED <<heard[m], queue[m], writer[m], frameCh, offered>>

LEMMA OrderKeeps ==
  ASSUME StreamTypes, Phases, OrderInv, Next PROVE OrderInv'
<1> SUFFICES ASSUME NEW m \in Media PROVE Ordered(m)'
  BY DEF OrderInv
<1>0. /\ Ordered(m) /\ Media = {"audio", "video"}
      /\ heard[m] \in Seq(Frames) /\ queue[m] \in Seq(Frames) /\ frameCh \in Seq(Frames)
      /\ writer[m] \in WriterType /\ pump \in PumpType /\ pump.frame \in Frames
      /\ pump.medium \in Media /\ offered \in Nat
  BY Idle DEF OrderInv, StreamTypes, PumpType, Media
<1>1. CASE Start
  <2>1. /\ heard'[m] = <<>> /\ queue'[m] = <<>> /\ frameCh' = <<>> /\ Held(m)' = {} /\ Hand(m)' = {}
        /\ ~Passed(m)'
    BY <1>1, Idle DEF Start, Both, Writer, Places, Held, Hand, InHands, Passed
  <2> QED
    BY <1>0, <2>1, Lists DEF Ordered, Chain, Below
<1>2. CASE WriteFrame
  <2>1. /\ UNCHANGED <<heard, queue, writer, pump>> /\ offered' = offered + 1
        /\ offered + 1 \in Frames /\ frameCh' \in {frameCh, Append(frameCh, offered + 1)}
    BY <1>2, Idle DEF WriteFrame, StreamTypes
  <2>2. Held(m)' = Held(m) /\ Hand(m)' = Hand(m) /\ (Passed(m)' <=> Passed(m))
    BY <2>1 DEF Held, Hand, Passed
  <2>3. Below(Range(frameCh), {offered + 1})
    BY <1>0, Idle, Lists DEF Ordered, Below
  <2>4. Increasing(frameCh') /\ Range(frameCh') \subseteq Range(frameCh) \union {offered + 1}
    BY <1>0, <2>1, <2>3, Appended DEF Ordered
  <2>5. \A x \in Range(heard[m]) \union Held(m) \union Range(queue[m]) \union Hand(m) \union Range(frameCh) :
          x \in Nat /\ x <= offered
    <3>1. Range(heard[m]) \subseteq Frames /\ Range(queue[m]) \subseteq Frames
      BY <1>0, Lists
    <3>2. Range(frameCh) \subseteq Frames
      BY <1>0, Lists
    <3>3. Held(m) \subseteq Frames /\ Hand(m) \subseteq Frames
      BY <1>0 DEF Held, Hand, WriterType
    <3> QED
      BY <1>0, <3>1, <3>2, <3>3, Idle DEF Ordered
  <2>6. Chain(Range(heard[m]), Held(m), Range(queue[m]), Hand(m), Range(frameCh'))
    BY <1>0, <2>4, <2>5 DEF Ordered, Chain, Below
  <2> QED
    BY <1>0, <2>1, <2>2, <2>4, <2>5, <2>6 DEF Ordered
<1>3. ASSUME Still(m), pump.at \notin InHands, pump'.at \notin InHands, pump'.at # "lock" \/ pump' = pump
      PROVE  Ordered(m)'
  <2>1. Held(m)' = Held(m) /\ Hand(m)' = Hand(m) /\ (Passed(m)' => Passed(m) /\ pump'.frame = pump.frame)
    BY <1>3 DEF Still, Held, Hand, Passed
  <2> QED
    BY <1>0, <1>3, <2>1 DEF Ordered, Still
<1>4. CASE Stop \/ StopJoins \/ Shutdown \/ FFmpegDies
  <2>1. Still(m) /\ pump' = pump
    BY <1>4 DEF Stop, StopJoins, Shutdown, FFmpegDies, Still
  <2>2. Held(m)' = Held(m) /\ Hand(m)' = Hand(m) /\ (Passed(m)' <=> Passed(m))
    BY <2>1 DEF Still, Held, Hand, Passed
  <2> QED
    BY <1>0, <2>1, <2>2 DEF Ordered, Still
<1>5. CASE StopReaps
  <2>1. /\ heard' = heard /\ writer' = writer /\ pump' = pump /\ offered' = offered
        /\ frameCh' = <<>> /\ queue'[m] = <<>> /\ pump.at = "done"
    BY <1>5 DEF StopReaps, Both, Phases
  <2>2. Held(m)' = Held(m) /\ Hand(m)' = {} /\ ~Passed(m)'
    BY <2>1 DEF Held, Hand, Passed, InHands
  <2> QED
    BY <1>0, <2>1, <2>2, Lists DEF Ordered, Chain, Below
<1>6. CASE PumpLeaves \/ PumpEnds \/ PumpCounts
  <2>1. /\ Still(m) /\ pump.at \in {"select", "drain", "lock"} /\ pump'.at \in {"drain", "done", "select"}
    BY <1>6, Idle DEF PumpLeaves, PumpEnds, PumpCounts, Still, Places
  <2> QED
    BY <1>3, <2>1 DEF InHands
<1>7. CASE PumpTakes
  <2>1. /\ UNCHANGED <<heard, queue, writer, offered>> /\ pump.at = "select" /\ frameCh # <<>>
        /\ frameCh' = Tail(frameCh) /\ pump'.at = "offer" /\ pump'.medium = "audio"
        /\ pump'.frame = Head(frameCh)
    BY <1>7 DEF PumpTakes
  <2>2. Held(m)' = Held(m) /\ Hand(m) = {} /\ Hand(m)' = {Head(frameCh)} /\ ~Passed(m)'
    BY <2>1 DEF Held, Hand, Passed, InHands
  <2>3. /\ Range(frameCh) = {Head(frameCh)} \union Range(frameCh')
        /\ Increasing(frameCh') /\ Below({Head(frameCh)}, Range(frameCh'))
    BY <1>0, <2>1, Lists DEF Ordered
  <2>4. Chain(Range(heard[m]), Held(m), Range(queue[m]), {Head(frameCh)}, Range(frameCh'))
    BY <1>0, <2>3 DEF Ordered, Chain, Below
  <2> QED
    BY <1>0, <2>1, <2>2, <2>3, <2>4 DEF Ordered
<1>8. ASSUME pump.at \in InHands, NEW drops, pump' = Sent(drops),
             queue' = [queue EXCEPT ![pump.medium] = Append(@, pump.frame)],
             UNCHANGED <<heard, writer, frameCh, offered>>
      PROVE  Ordered(m)'
  <2>0. Held(m)' = Held(m) /\ pump'.frame = pump.frame
    BY <1>0, <1>8 DEF Held, Sent, PumpType
  <2>1. CASE m = pump.medium
    <3>1. Hand(m) = {pump.frame} /\ Hand(m)' = {}
      BY <1>0, <1>8, <2>1 DEF Hand, Sent, PumpType, InHands
    <3>2. queue'[m] = Append(queue[m], pump.frame)
      BY <1>0, <1>8, <2>1 DEF StreamTypes
    <3>3. Below(Range(queue[m]), {pump.frame})
      BY <1>0, <3>1 DEF Ordered, Chain, Below
    <3>4. Range(queue'[m]) = Range(queue[m]) \union {pump.frame} /\ Increasing(queue'[m])
      BY <1>0, <3>2, <3>3, Appended DEF Ordered
    <3>5. Chain(Range(heard[m]), Held(m), Range(queue'[m]), {}, Range(frameCh))
      BY <1>0, <3>1, <3>4 DEF Ordered, Chain, Below
    <3> QED
      BY <1>0, <1>8, <2>0, <3>1, <3>4, <3>5 DEF Ordered
  <2>2. CASE m # pump.medium
    <3>1. Hand(m)' = Hand(m) /\ (Passed(m)' => Passed(m))
      BY <1>0, <1>8, <2>2 DEF Hand, Sent, PumpType, InHands, Passed
    <3>2. queue'[m] = queue[m]
      BY <1>0, <1>8, <2>2 DEF StreamTypes
    <3> QED
      BY <1>0, <1>8, <2>0, <3>1, <3>2 DEF Ordered
  <2> QED
    BY <2>1, <2>2
<1>9. CASE Offer
  <2>1. CASE Room
    BY <1>8, <1>9, <2>1 DEF Offer, InHands
  <2>2. CASE ~Room
    <3>1. /\ Still(m) /\ pump' = [pump EXCEPT !.at = "evict"] /\ pump.at = "offer"
      BY <1>9, <2>2 DEF Offer, Still
    <3>2. Held(m)' = Held(m) /\ Hand(m)' = Hand(m) /\ (Passed(m)' <=> Passed(m)) /\ pump'.frame = pump.frame
      BY <1>0, <3>1 DEF Still, Held, Hand, Passed, PumpType, InHands
    <3> QED
      BY <1>0, <3>1, <3>2 DEF Ordered, Still
  <2> QED
    BY <2>1, <2>2
<1>10. CASE Evict
  <2>1. /\ UNCHANGED <<heard, writer, frameCh, offered>> /\ pump.at = "evict"
        /\ pump' = [pump EXCEPT !.at = "retry"]
        /\ queue' = [queue EXCEPT ![pump.medium] = IF @ = <<>> THEN @ ELSE Tail(@)]
    BY <1>10 DEF Evict
  <2>2. Held(m)' = Held(m) /\ Hand(m)' = Hand(m) /\ (Passed(m)' <=> Passed(m)) /\ pump'.frame = pump.frame
    BY <1>0, <2>1 DEF Held, Hand, Passed, PumpType, InHands
  <2>3. CASE m = pump.medium
    <3>1. queue'[m] = IF queue[m] = <<>> THEN queue[m] ELSE Tail(queue[m])
      BY <1>0, <2>1, <2>3 DEF StreamTypes
    <3>2. Range(queue'[m]) \subseteq Range(queue[m]) /\ Increasing(queue'[m])
      BY <1>0, <3>1, Lists DEF Ordered
    <3>3. ~Passed(m)
      BY <1>0, <2>1, <2>3 DEF Passed
    <3>4. Chain(Range(heard[m]), Held(m), Range(queue'[m]), Hand(m), Range(frameCh))
      BY <1>0, <3>2 DEF Ordered, Chain, Below
    <3> QED
      BY <1>0, <2>1, <2>2, <3>2, <3>3, <3>4 DEF Ordered
  <2>4. CASE m # pump.medium
    <3>1. queue'[m] = queue[m]
      BY <1>0, <2>1, <2>4 DEF StreamTypes
    <3> QED
      BY <1>0, <2>1, <2>2, <3>1 DEF Ordered
  <2> QED
    BY <2>3, <2>4
<1>11. CASE Retry
  <2>1. Room /\ pump.at = "retry"
    BY <1>11 DEF Retry, Phases
  <2>2. queue' = [queue EXCEPT ![pump.medium] = Append(@, pump.frame)]
    BY <1>11, <2>1 DEF Retry
  <2> QED
    BY <1>8, <1>11, <2>1, <2>2 DEF Retry, InHands
<1>12. ASSUME NEW n \in Media, n # m, WriterSteps(n) PROVE Ordered(m)'
  <2>1. Still(m) /\ pump' = pump
    BY <1>0, <1>12 DEF WriterSteps, WriterLeaves, WriterTakes, WriterWrites, Still, StreamTypes
  <2>2. Held(m)' = Held(m) /\ Hand(m)' = Hand(m) /\ (Passed(m)' <=> Passed(m))
    BY <2>1 DEF Still, Held, Hand, Passed
  <2> QED
    BY <1>0, <2>1, <2>2 DEF Ordered, Still
<1>13. ASSUME WriterLeaves(m) PROVE Ordered(m)'
  <2>1. /\ UNCHANGED <<heard, queue, frameCh, offered, pump>>
        /\ writer[m].at = "select" /\ writer'[m].at = "ended"
    BY <1>0, <1>13 DEF WriterLeaves, Writer, StreamTypes
  <2>2. Held(m)' = {} /\ Held(m) = {} /\ Hand(m)' = Hand(m)
    BY <2>1 DEF Held, Hand
  <2> QED
    BY <1>0, <2>1, <2>2 DEF Ordered
<1>14. ASSUME WriterTakes(m) PROVE Ordered(m)'
  <2>1. /\ UNCHANGED <<heard, frameCh, offered, pump>> /\ queue[m] # <<>>
        /\ queue'[m] = Tail(queue[m]) /\ writer[m].at = "select"
        /\ writer'[m] = [at |-> "write", frame |-> Head(queue[m])]
    BY <1>0, <1>14 DEF WriterTakes, StreamTypes
  <2>2. /\ Held(m) = {} /\ Held(m)' = {Head(queue[m])} /\ Hand(m)' = Hand(m)
        /\ (Passed(m)' <=> Passed(m)) /\ writer'[m].at # "ended"
    BY <2>1 DEF Held, Hand, Passed
  <2>3. /\ Range(queue[m]) = {Head(queue[m])} \union Range(queue'[m])
        /\ Increasing(queue'[m]) /\ Below({Head(queue[m])}, Range(queue'[m]))
    BY <1>0, <2>1, Lists DEF Ordered
  <2>4. Chain(Range(heard[m]), {Head(queue[m])}, Range(queue'[m]), Hand(m), Range(frameCh))
    BY <1>0, <2>2, <2>3 DEF Ordered, Chain, Below
  <2> QED
    BY <1>0, <2>1, <2>2, <2>3, <2>4 DEF Ordered
<1>15. ASSUME WriterWrites(m) PROVE Ordered(m)'
  <2>0. /\ UNCHANGED <<queue, frameCh, offered, pump>> /\ writer[m].at = "write"
        /\ Hand(m)' = Hand(m) /\ (Passed(m)' <=> Passed(m)) /\ writer'[m].at # "write"
        /\ writer[m].frame \in Frames
    BY <1>0, <1>15 DEF WriterWrites, Writer, Hand, Passed, StreamTypes, WriterType
  <2>1. Held(m) = {writer[m].frame} /\ Held(m)' = {}
    BY <2>0 DEF Held
  <2>2. CASE ffmpeg = "alive"
    <3>1. heard'[m] = Append(heard[m], writer[m].frame)
      BY <1>0, <1>15, <2>2 DEF WriterWrites, StreamTypes
    <3>2. Below(Range(heard[m]), {writer[m].frame})
      BY <1>0, <2>1 DEF Ordered, Chain, Below
    <3>3. Range(heard'[m]) = Range(heard[m]) \union {writer[m].frame} /\ Increasing(heard'[m])
      <4>1. heard[m] \in Seq(Frames) /\ writer[m].frame \in Frames /\ Increasing(heard[m])
        BY <1>0, <2>0 DEF Ordered
      <4> QED
        BY <3>1, <3>2, <4>1, Appended
    <3>4. Chain(Range(heard'[m]), {}, Range(queue[m]), Hand(m), Range(frameCh))
      BY <1>0, <2>1, <3>3 DEF Ordered, Chain, Below
    <3>5. writer[m].at # "ended"
      BY <2>0
    <3> QED
      BY <1>0, <2>0, <2>1, <3>3, <3>4, <3>5 DEF Ordered
  <2>3. CASE ffmpeg # "alive"
    <3>1. heard' = heard /\ writer'[m].at = "ended"
      BY <1>0, <1>15, <2>3 DEF WriterWrites, Writer, StreamTypes
    <3>2. Chain(Range(heard[m]), {}, Range(queue[m]), Hand(m), Range(frameCh))
      BY <1>0 DEF Ordered, Chain, Below
    <3> QED
      BY <1>0, <2>0, <2>1, <3>1, <3>2 DEF Ordered
  <2> QED
    BY <2>2, <2>3
<1>16. ASSUME NEW n \in Media, WriterSteps(n) PROVE Ordered(m)'
  BY <1>12, <1>13, <1>14, <1>15, <1>16 DEF WriterSteps
<1> QED
  BY <1>1, <1>2, <1>4, <1>5, <1>6, <1>7, <1>9, <1>10, <1>11, <1>16 DEF Next, PumpSteps, StopSteps

StreamInv == StreamTypes /\ Phases /\ CountInv /\ OrderInv

LEMMA StreamKeeps == StreamInv /\ [Next]_vars => StreamInv'
<1> SUFFICES ASSUME StreamInv, [Next]_vars PROVE StreamInv'
  OBVIOUS
<1>1. CASE Next
  BY <1>1, TypesKeep, PhasesKeep, CountsKeep, OrderKeeps DEF StreamInv, CountInv
<1>2. CASE UNCHANGED vars
  <2>1. StreamTypes' /\ Phases' /\ CountInv'
    BY <1>2 DEF vars, StreamInv, StreamTypes, Phases, CountInv, Drops, Accounting, Running, Room
  <2>2. OrderInv'
    <3> SUFFICES ASSUME NEW m \in Media PROVE Ordered(m)'
      BY DEF OrderInv
    <3>1. Held(m)' = Held(m) /\ Hand(m)' = Hand(m) /\ (Passed(m)' <=> Passed(m))
      BY <1>2 DEF vars, Held, Hand, Passed
    <3> QED
      BY <1>2, <3>1 DEF vars, StreamInv, OrderInv, Ordered
  <2> QED
    BY <2>1, <2>2 DEF StreamInv
<1> QED
  BY <1>1, <1>2

LEMMA TypesShown == StreamTypes /\ CountInv => TypeOK
<1> SUFFICES ASSUME StreamTypes, CountInv PROVE TypeOK
  OBVIOUS
<1>1. /\ stats.written \in Nat /\ stats.dropped \in Nat /\ stats.refused \in Nat
      /\ stats = [written |-> stats.written, dropped |-> stats.dropped, refused |-> stats.refused]
      /\ offered \in 0 .. MaxFrames /\ MaxFrames \in Nat
  BY StreamNumbers DEF StreamTypes, Frames, Numbers
<1>2. stats.written + stats.refused <= offered /\ stats.dropped <= 2 * stats.written
  BY DEF CountInv, Drops
<1>3. /\ stats.written \in 0 .. MaxFrames /\ stats.refused \in 0 .. MaxFrames
      /\ stats.dropped \in 0 .. 2 * MaxFrames
  BY <1>1, <1>2
<1>4. stats \in [written : Frames, dropped : 0 .. 2 * MaxFrames, refused : Frames]
  BY <1>1, <1>3 DEF Frames
<1>5. /\ pump.at \in {"off", "select", "offer", "evict", "retry", "lock", "drain", "done"}
      /\ pump.medium \in Media /\ pump.frame \in Frames /\ pump.dropped \in 0 .. 2
  BY DEF StreamTypes, PumpType, Places, InHands
<1>6. \A m \in Media :
        /\ queue[m] \in Seq(Frames) /\ Len(queue[m]) <= BufferCapacity
        /\ writer[m].at \in {"off", "select", "write", "ended"}
        /\ writer[m].frame \in Frames
        /\ heard[m] \in Seq(Frames)
  BY DEF StreamTypes, WriterType
<1> QED
  BY <1>4, <1>5, <1>6 DEF StreamTypes, TypeOK

\* Whatever the pump, the encoder's two pipes, a dying FFmpeg and restarts do between them, what
\* a pipe has received, holds and still has to receive is in the order WriteFrame took it; the
\* frame the pump has just passed on is never the one enqueueLatest threw out to make room; and
\* every frame WriteFrame was offered is queued, refused, written or in the pump's hands.
\* (HLSStreamer in internal/streaming/hls.go: WriteFrame, pump, enqueueLatest, the writers.)
THEOREM StreamKeepsFrames == Spec => []FramesKept
<1>1. Init => StreamInv
  BY StreamStarts, OrderStarts DEF StreamInv, CountInv
<1>2. StreamInv => FramesKept
  BY TypesShown, OrderShown DEF StreamInv, CountInv, FramesKept
<1> QED
  BY <1>1, <1>2, StreamKeeps, PTL DEF Spec
===========================================================================
