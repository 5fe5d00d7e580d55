------------------------ MODULE VideoRotationProofs -------------------------
(***************************************************************************)
(* Proofs about VideoRotation, for every number of sessions and clients.   *)
(***************************************************************************)
EXTENDS VideoRotation, TLAPS

(* What the properties rest on: the file being recorded belongs to the     *)
(* session mVideoCounter points at, except between the two assignments,    *)
(* which nobody makes before start; and it is never the file of a handler  *)
(* that came while it was saved.                                           *)
CurrentIsCounted == /\ elapse # "pick" => currentFile[1] = videoCounter
                    /\ main = "created" => elapse = "none"
SavedIsNotCurrent ==
  \A c \in Clients :
    /\ handler[c].phase \in {"open", "stream"} /\ handler[c].saved
    /\ handler[c].readingVideo = RecordedFile(handler[c].session)
    => handler[c].readingVideo # currentFile
Inductive == /\ TypeOK /\ CurrentIsCounted /\ SessionsReadTheirOwn
             /\ SavedIsNotCurrent /\ ReadersKeepTheirVideo

(* The counter stays within the sessions when it wraps.                    *)
LEMMA NextVideoIsSession ==
  ASSUME videoCounter \in Sessions
  PROVE  NextVideo \in Sessions
  BY RotationAssumption DEF NextVideo, Sessions

(* A file is one of its session's two files.                               *)
LEMMA FileOfSession ==
  ASSUME NEW f \in Files
  PROVE  f[1] \in Sessions /\ f \in {RecordedFile(f[1]), TmpFile(f[1])}
<1>1. PICK s \in Sessions, b \in BOOLEAN : f = <<s, b>>
  BY DEF Files
<1>2. f[1] = s /\ b \in {TRUE, FALSE}
  BY <1>1
<1> QED
  BY <1>1, <1>2 DEF RecordedFile, TmpFile

(* The two files of a session are files, and NoFile is none.               *)
LEMMA FilesOfSession ==
  ASSUME NEW s \in Sessions
  PROVE  /\ RecordedFile(s) \in Files /\ TmpFile(s) \in Files
         /\ RecordedFile(s)[1] = s /\ TmpFile(s)[1] = s
         /\ RecordedFile(s) # TmpFile(s) /\ NoFile \notin Files
  BY RotationAssumption DEF Files, RecordedFile, TmpFile, Sessions

(* What is recorded next is a file of the session, and its own file only   *)
(* when no handler has that one.                                           *)
LEMMA FileForSession ==
  ASSUME NEW s \in Sessions
  PROVE  /\ FileFor(s) \in Files /\ FileFor(s)[1] = s
         /\ FileFor(s) = RecordedFile(s) =>
              \A c \in Clients : handler[c].phase # "none" /\ handler[c].session = s
                                   => handler[c].readingVideo # RecordedFile(s)
  BY FilesOfSession DEF FileFor, ClientsReadingVideo

(* No file holds anything and no handler exists at first.                  *)
LEMMA InductiveInit == Init => Inductive
<1> SUFFICES ASSUME Init PROVE Inductive
  OBVIOUS
<1>1. 0 \in Sessions
  BY RotationAssumption DEF Sessions
<1>2. TypeOK
  BY <1>1, FilesOfSession DEF Init, TypeOK, NoHandler, Handlers
<1>3. CurrentIsCounted /\ SessionsReadTheirOwn
  BY <1>1, FilesOfSession DEF Init, CurrentIsCounted, SessionsReadTheirOwn
<1>4. SavedIsNotCurrent /\ ReadersKeepTheirVideo
  BY DEF Init, SavedIsNotCurrent, ReadersKeepTheirVideo, NoHandler
<1> QED
  BY <1>2, <1>3, <1>4 DEF Inductive

(* A step that leaves the handlers, the current file, the sessions' videos *)
(* and the files alone leaves the three properties alone.                  *)
LEMMA Untouched ==
  ASSUME Inductive, UNCHANGED <<handler, currentFile, readingVideo, holds>>
  PROVE  SessionsReadTheirOwn' /\ SavedIsNotCurrent' /\ ReadersKeepTheirVideo'
  BY DEF Inductive, SessionsReadTheirOwn, SavedIsNotCurrent, ReadersKeepTheirVideo

(* The thread that starts and stops the emitter.                           *)
LEMMA MainStep ==
  ASSUME Inductive, Start \/ Stop \/ StopStep
  PROVE  Inductive'
<1>1. UNCHANGED <<handler, currentFile, readingVideo, holds>>
  BY DEF Start, Stop, StopStep, NotifyOne, JoinThreads, sessionVars
<1>2. TypeOK'
  BY DEF Inductive, TypeOK, Start, Stop, StopStep, NotifyOne, JoinThreads, sessionVars,
         published
<1>3. CurrentIsCounted'
  BY DEF Inductive, CurrentIsCounted, Start, Stop, StopStep, NotifyOne, JoinThreads
<1> QED
  BY <1>1, <1>2, <1>3, Untouched DEF Inductive

(* The recorder opens, and so empties, only the current file.              *)
LEMMA RecorderStep ==
  ASSUME Inductive, LiveStep
  PROVE  Inductive'
<1>1. UNCHANGED <<handler, currentFile, readingVideo, elapse, videoCounter, main>>
  BY DEF LiveStep, LiveCheck, LiveFrame, sessionVars
<1>2. TypeOK'
  BY DEF Inductive, TypeOK, LiveStep, LiveCheck, LiveFrame, sessionVars, published
<1>3. CurrentIsCounted' /\ SessionsReadTheirOwn' /\ SavedIsNotCurrent'
  BY <1>1 DEF Inductive, CurrentIsCounted, SessionsReadTheirOwn, SavedIsNotCurrent
<1>4. \A f \in Files : f # currentFile => holds'[f] = holds[f]
  BY DEF Inductive, TypeOK, LiveStep, LiveCheck, LiveFrame
<1>5. ReadersKeepTheirVideo'
  <2> SUFFICES ASSUME NEW c \in Clients,
                      handler[c].phase = "stream", handler[c].saved,
                      handler[c].readingVideo = RecordedFile(handler[c].session)
               PROVE  holds'[handler[c].readingVideo] = handler[c].sees
    BY <1>1 DEF ReadersKeepTheirVideo
  <2>1. handler[c].session \in Sessions
    BY DEF Inductive, TypeOK, Handlers
  <2>2. handler[c].readingVideo \in Files
    BY <2>1, FilesOfSession
  <2>3. handler[c].readingVideo # currentFile
    BY DEF Inductive, SavedIsNotCurrent
  <2> QED
    BY <1>4, <2>2, <2>3 DEF Inductive, ReadersKeepTheirVideo
<1> QED
  BY <1>2, <1>3, <1>5 DEF Inductive

(* The thread that changes the file.                                       *)
LEMMA TimerStep ==
  ASSUME Inductive, ElapseStep
  PROVE  Inductive'
<1> USE DEF elapseUnchanged
<1> USE DEF published
<1>1. CASE ElapseCheck \/ WaitTest \/ WaitBlock \/ WaitTimeout \/ UpdateOnDemandStream
  <2>1. UNCHANGED <<handler, currentFile, readingVideo, holds>>
    BY <1>1 DEF ElapseCheck, WaitTest, WaitBlock, WaitTimeout, UpdateOnDemandStream
  <2>2. TypeOK'
    BY <1>1 DEF Inductive, TypeOK, ElapseCheck, WaitTest, WaitBlock, WaitTimeout,
                UpdateOnDemandStream
  <2>3. CurrentIsCounted'
    BY <1>1 DEF Inductive, CurrentIsCounted, ElapseCheck, WaitTest, WaitBlock, WaitTimeout,
                UpdateOnDemandStream
  <2> QED
    BY <2>1, <2>2, <2>3, Untouched DEF Inductive
<1>2. CASE CountVideo
  <2>1. UNCHANGED <<handler, currentFile, readingVideo, holds>> /\ elapse' = "pick"
    BY <1>2 DEF CountVideo
  <2>2. TypeOK'
    BY <1>2, NextVideoIsSession DEF Inductive, TypeOK, CountVideo
  <2>3. CurrentIsCounted'
    BY <1>2, <2>1 DEF Inductive, CurrentIsCounted, CountVideo
  <2> QED
    BY <2>1, <2>2, <2>3, Untouched DEF Inductive
<1>3. CASE SetReadingVideo
  <2>1. /\ readingVideo' = [readingVideo EXCEPT ![videoCounter] = currentFile]
        /\ currentFile \in {RecordedFile(videoCounter), TmpFile(videoCounter)}
        /\ videoCounter \in Sessions /\ currentFile \in Files
    BY <1>3, FileOfSession
    DEF Inductive, TypeOK, CurrentIsCounted, SetReadingVideo, EndedSession
  <2>2. TypeOK' /\ CurrentIsCounted'
    BY <1>3, <2>1 DEF Inductive, TypeOK, CurrentIsCounted, SetReadingVideo
  <2>3. SessionsReadTheirOwn'
    BY <2>1 DEF Inductive, TypeOK, SessionsReadTheirOwn
  <2>4. SavedIsNotCurrent' /\ ReadersKeepTheirVideo'
    BY <1>3 DEF Inductive, SavedIsNotCurrent, ReadersKeepTheirVideo, SetReadingVideo
  <2> QED
    BY <2>2, <2>3, <2>4 DEF Inductive
<1>4. CASE PickFile
  <2>1. /\ currentFile' = FileFor(videoCounter) /\ videoCounter \in Sessions
        /\ UNCHANGED <<handler, readingVideo, holds, videoCounter>>
    BY <1>4 DEF Inductive, TypeOK, PickFile
  <2>2. TypeOK'
    BY <1>4, <2>1, FileForSession DEF Inductive, TypeOK, PickFile
  <2>3. CurrentIsCounted'
    BY <1>4, <2>1, FileForSession DEF Inductive, CurrentIsCounted, PickFile
  <2>4. SessionsReadTheirOwn' /\ ReadersKeepTheirVideo'
    BY <2>1 DEF Inductive, SessionsReadTheirOwn, ReadersKeepTheirVideo
  <2>5. SavedIsNotCurrent'
    <3> SUFFICES ASSUME NEW c \in Clients,
                        handler[c].phase \in {"open", "stream"},
                        handler[c].readingVideo = RecordedFile(handler[c].session),
                        handler[c].readingVideo = FileFor(videoCounter)
                 PROVE  FALSE
      BY <2>1 DEF SavedIsNotCurrent
    <3>1. handler[c].session \in Sessions
      BY DEF Inductive, TypeOK, Handlers
    <3>2. handler[c].session = videoCounter
      <4>1. FileFor(videoCounter)[1] = videoCounter
        BY <2>1, FileForSession
      <4>2. RecordedFile(handler[c].session)[1] = handler[c].session
        BY <3>1, FilesOfSession
      <4>3. RecordedFile(handler[c].session) = FileFor(videoCounter)
        OBVIOUS
      <4> QED
        BY <4>1, <4>2, <4>3
    <3> QED
      BY <2>1, <3>2, FileForSession
  <2> QED
    BY <2>2, <2>3, <2>4, <2>5 DEF Inductive
<1> QED
  BY <1>1, <1>2, <1>3, <1>4 DEF ElapseStep

(* The mutex of the list is given back, by this emitter's thread or by     *)
(* another's.                                                              *)
LEMMA StreamsStep ==
  ASSUME Inductive, StreamMessageSent \/ OthersLockStreams
  PROVE  Inductive'
<1>1. UNCHANGED <<handler, currentFile, readingVideo, holds>>
  BY DEF StreamMessageSent, OthersLockStreams, elapseUnchanged, emitterVars, sessionVars
<1>2. TypeOK'
  BY DEF Inductive, TypeOK, StreamMessageSent, OthersLockStreams, elapseUnchanged,
         emitterVars, sessionVars
<1>3. CurrentIsCounted'
  BY DEF Inductive, CurrentIsCounted, StreamMessageSent, OthersLockStreams, elapseUnchanged,
         emitterVars
<1> QED
  BY <1>1, <1>2, <1>3, Untouched DEF Inductive

(* A client that comes reads what its session names; its thread opens that *)
(* file and sees what the file holds.                                      *)
LEMMA SessionStep ==
  ASSUME Inductive, JoinHandler \/ \E c \in Clients : HandlerStep(c) \/ ClientStep(c)
  PROVE  Inductive'
<1>1. UNCHANGED <<emitterVars, readingVideo, period, holds, published>>
  BY DEF JoinHandler, HandlerStep, ClientStep, OpenVideo, EndOfVideo, BlockInSend, Leave,
         Connect
<1>2. CurrentIsCounted' /\ SessionsReadTheirOwn'
  BY <1>1 DEF Inductive, CurrentIsCounted, SessionsReadTheirOwn, emitterVars
<1>3. ASSUME NEW c \in Clients, NEW h \in Handlers,
             handler' = [handler EXCEPT ![c] = h], leaving' \in Clients \cup {NoClient},
             h.phase \in {"open", "stream"} /\ h.saved
               /\ h.readingVideo = RecordedFile(h.session) => h.readingVideo # currentFile,
             h.phase = "stream" /\ h.saved
               /\ h.readingVideo = RecordedFile(h.session) => holds[h.readingVideo] = h.sees
      PROVE  Inductive'
  <2>1. handler' \in [Clients -> Handlers] /\ handler'[c] = h
        /\ \A d \in Clients : d # c => handler'[d] = handler[d]
    BY <1>3 DEF Inductive, TypeOK
  <2>2. TypeOK'
    BY <1>1, <1>3, <2>1 DEF Inductive, TypeOK, emitterVars, published
  <2>3. SavedIsNotCurrent'
    BY <1>1, <1>3, <2>1 DEF Inductive, SavedIsNotCurrent, emitterVars
  <2>4. ReadersKeepTheirVideo'
    BY <1>1, <1>3, <2>1 DEF Inductive, ReadersKeepTheirVideo
  <2> QED
    BY <1>2, <2>2, <2>3, <2>4 DEF Inductive
<1>4. CASE JoinHandler
  <2>1. leaving \in Clients /\ NoHandler \in Handlers
    BY <1>4, RotationAssumption
    DEF JoinHandler, Inductive, TypeOK, NoHandler, Handlers, Sessions
  <2> QED
    BY <1>3, <1>4, <2>1 DEF JoinHandler, NoHandler
<1>5. ASSUME NEW c \in Clients, Leave(c) PROVE Inductive'
  <2>1. UNCHANGED <<handler, currentFile, readingVideo, holds>>
    BY <1>1, <1>5 DEF Leave, emitterVars
  <2>2. TypeOK'
    BY <1>1, <1>5 DEF Inductive, TypeOK, Leave, emitterVars, published
  <2> QED
    BY <1>2, <2>1, <2>2, Untouched DEF Inductive
<1>6. ASSUME NEW c \in Clients, NEW s \in Sessions, Connect(c, s) PROVE Inductive'
  <2> DEFINE h == [session |-> s, phase |-> "open", readingVideo |-> readingVideo[s],
                   saved |-> readingVideo[s] # currentFile, sees |-> 0]
  <2>1. h \in Handlers
    BY DEF Inductive, TypeOK, Handlers
  <2>2. handler' = [handler EXCEPT ![c] = h] /\ leaving' \in Clients \cup {NoClient}
    BY <1>6 DEF Connect, Inductive, TypeOK
  <2>3. /\ h.phase = "open"
        /\ h.saved => h.readingVideo # currentFile
    OBVIOUS
  <2> HIDE DEF h
  <2> QED
    BY <1>3, <2>1, <2>2, <2>3
<1>7. ASSUME NEW c \in Clients, HandlerStep(c) PROVE Inductive'
  <2>0. handler[c] \in Handlers /\ leaving \in Clients \cup {NoClient}
        /\ handler \in [Clients -> Handlers]
    BY DEF Inductive, TypeOK
  <2>1. CASE EndOfVideo(c)
    <3> DEFINE h == [handler[c] EXCEPT !.phase = "ended", !.readingVideo = NoFile]
    <3>1. h \in Handlers /\ h.phase = "ended"
      BY <2>0 DEF Handlers
    <3>2. handler' = [handler EXCEPT ![c] = h] /\ leaving' = leaving
      BY <2>0, <2>1 DEF EndOfVideo
    <3> HIDE DEF h
    <3> QED
      BY <1>3, <2>0, <3>1, <3>2
  <2>2. CASE OpenVideo(c) /\ handler'[c].phase = "ended"
    <3> DEFINE h == [handler[c] EXCEPT !.phase = "ended"]
    <3>1. h \in Handlers /\ h.phase = "ended"
      BY <2>0 DEF Handlers
    <3>2. handler' = [handler EXCEPT ![c] = h] /\ leaving' = leaving
      BY <2>0, <2>2 DEF OpenVideo, Handlers
    <3> HIDE DEF h
    <3> QED
      BY <1>3, <2>0, <3>1, <3>2
  <2>3. CASE OpenVideo(c) /\ handler'[c].phase # "ended"
    <3> DEFINE f == handler[c].readingVideo
               h == [handler[c] EXCEPT !.phase = "stream", !.sees = holds[f]]
    <3>1. /\ f \in Files /\ handler[c].phase = "open"
          /\ handler' = [handler EXCEPT ![c] = h] /\ leaving' = leaving
      BY <2>0, <2>3, ZenonT(30) DEF OpenVideo, Handlers
    <3>2. h \in Handlers
      BY <2>0, <3>1 DEF Handlers, Inductive, TypeOK
    <3>3. /\ h.sees = holds[h.readingVideo] /\ h.readingVideo = f
          /\ h.saved = handler[c].saved /\ h.session = handler[c].session
      BY <2>0 DEF Handlers
    <3>4. h.saved /\ h.readingVideo = RecordedFile(h.session) => h.readingVideo # currentFile
      BY <3>1, <3>3 DEF Inductive, SavedIsNotCurrent
    <3> HIDE DEF h
    <3> QED
      BY <1>3, <2>0, <3>1, <3>2, <3>3, <3>4
  <2>4. CASE BlockInSend(c)
    <3> DEFINE h == [handler[c] EXCEPT !.phase = "blocked"]
    <3>1. h \in Handlers /\ h.phase = "blocked"
      BY <2>0 DEF Handlers
    <3>2. handler' = [handler EXCEPT ![c] = h] /\ leaving' \in Clients \cup {NoClient}
      BY <2>0, <2>4 DEF BlockInSend
    <3> HIDE DEF h
    <3> QED
      BY <1>3, <3>1, <3>2
  <2> QED
    BY <1>7, <2>1, <2>2, <2>3, <2>4 DEF HandlerStep
<1> QED
  BY <1>4, <1>5, <1>6, <1>7 DEF ClientStep

(* Every step keeps the invariant.                                         *)
LEMMA InductiveNext == Inductive /\ [Next]_vars => Inductive'
<1> SUFFICES ASSUME Inductive, [Next]_vars PROVE Inductive'
  OBVIOUS
<1>1. CASE UNCHANGED vars
  <2>1. TypeOK' /\ CurrentIsCounted'
    BY <1>1 DEF vars, emitterVars, sessionVars, published, Inductive, TypeOK, CurrentIsCounted
  <2> QED
    BY <1>1, <2>1, Untouched DEF vars, emitterVars, sessionVars, Inductive
<1>2. CASE Next
  BY <1>2, MainStep, RecorderStep, TimerStep, StreamsStep, SessionStep DEF Next
<1> QED
  BY <1>1, <1>2

(* The invariant holds in every reachable state.                           *)
LEMMA InductiveHolds == Spec => []Inductive
  BY InductiveInit, InductiveNext, PTL DEF Spec

(* Every variable keeps its type.                                          *)
THEOREM TypeCorrect == Spec => []TypeOK
<1>1. Inductive => TypeOK
  BY DEF Inductive
<1> QED
  BY <1>1, InductiveHolds, PTL

(* A client that came to read its session's own file while that was saved  *)
(* keeps the recording it opened, for every number of videos and clients   *)
(* (getClientsReadingVideo); of the .tmp file nothing is said.             *)
THEOREM ReadersSafe == Spec => []ReadersKeepTheirVideo
<1>1. Inductive => ReadersKeepTheirVideo
  BY DEF Inductive
<1> QED
  BY <1>1, InductiveHolds, PTL

(* A session never names a file of another session.                        *)
THEOREM SessionsSafe == Spec => []SessionsReadTheirOwn
<1>1. Inductive => SessionsReadTheirOwn
  BY DEF Inductive
<1> QED
  BY <1>1, InductiveHolds, PTL

-----------------------------------------------------------------------------
(* The latest recording of session s, when the files go round in order and *)
(* the recording of the present period, or of the next one while its file  *)
(* is being picked, belongs to the session mVideoCounter points at.        *)
Latest(s, present) ==
  IF s < videoCounter THEN (present + s) - videoCounter
  ELSE IF present + s > videoCounter + MaxVideos
       THEN (present + s) - (videoCounter + MaxVideos) ELSE 0

(* The list names the latest recording of every session; between listing   *)
(* the video that has ended and counting on, that one is ahead.            *)
ListFollowsCounter ==
  LET present == IF elapse = "pick" THEN period + 1 ELSE period IN
    /\ videoCounter < present
    /\ \A s \in Sessions :
         listed[s] = IF elapse \in {"send", "count"} /\ s = videoCounter THEN period
                     ELSE Latest(s, present)

(* What mVideoCounter becomes.                                             *)
LEMMA Wraps ==
  ASSUME videoCounter \in Sessions
  PROVE  NextVideo = IF videoCounter = MaxVideos - 1 THEN 0 ELSE videoCounter + 1
<1>1. MaxVideos \in Nat /\ MaxVideos > 1 /\ videoCounter \in Nat /\ videoCounter < MaxVideos
  BY RotationAssumption DEF Sessions
<1>2. CASE videoCounter = MaxVideos - 1
  BY <1>1, <1>2 DEF NextVideo
<1>3. CASE videoCounter # MaxVideos - 1
  <2>1. videoCounter + 1 \in 0..(MaxVideos - 1)
    BY <1>1, <1>3
  <2>2. \A n \in 0..(MaxVideos - 1) : n % MaxVideos = n
    BY <1>1
  <2> QED
    BY <1>3, <2>1, <2>2 DEF NextVideo
<1> QED
  BY <1>2, <1>3

(* Nothing is listed at first.                                             *)
LEMMA FollowsInit == Init => ListFollowsCounter
  BY RotationAssumption DEF Init, ListFollowsCounter, Latest, Sessions

(* Every step keeps the list in order: the three that list, count and pick *)
(* move it on by one recording.                                            *)
LEMMA FollowsNext ==
  ASSUME Inductive, ListFollowsCounter, [Next]_vars
  PROVE  ListFollowsCounter'
<1>1. /\ MaxVideos \in Nat /\ MaxVideos > 1 /\ period \in Nat
      /\ Sessions \subseteq Nat /\ \A s \in Sessions : s < MaxVideos
      /\ videoCounter \in Sessions
      /\ listed \in [Sessions -> Nat]
  BY RotationAssumption DEF Sessions, Inductive, TypeOK
<1>2. ASSUME UNCHANGED <<videoCounter, period, listed>>,
             \/ elapse' = elapse
             \/ elapse \in {"send", "count"} /\ elapse' \in {"send", "count"}
             \/ elapse \notin {"send", "count", "pick"} /\ elapse' \notin {"send", "count", "pick"}
      PROVE  ListFollowsCounter'
  BY <1>2 DEF ListFollowsCounter, Latest
<1> USE DEF elapseUnchanged, published
<1>3. CASE UpdateOnDemandStream
  <2>1. /\ elapse = "list" /\ elapse' = "send" /\ UNCHANGED <<videoCounter, period>>
        /\ listed' = [listed EXCEPT ![videoCounter] = period]
    BY <1>3 DEF UpdateOnDemandStream
  <2>2. \A s \in Sessions : listed'[s] = IF s = videoCounter THEN period ELSE listed[s]
    BY <1>1, <2>1
  <2> QED
    BY <2>1, <2>2 DEF ListFollowsCounter, Latest
<1>4. CASE CountVideo
  <2>1. /\ elapse = "count" /\ elapse' = "pick" /\ UNCHANGED <<period, listed>>
        /\ videoCounter' = IF videoCounter = MaxVideos - 1 THEN 0 ELSE videoCounter + 1
    BY <1>1, <1>4, Wraps DEF CountVideo
  <2>2. /\ videoCounter < period
        /\ \A s \in Sessions :
             listed[s] = IF s = videoCounter THEN period ELSE Latest(s, period)
    BY <2>1 DEF ListFollowsCounter
  <2>3. ASSUME NEW s \in Sessions
        PROVE  listed[s] = IF s < videoCounter' THEN (period + 1 + s) - videoCounter'
                           ELSE IF period + 1 + s > videoCounter' + MaxVideos
                                THEN (period + 1 + s) - (videoCounter' + MaxVideos) ELSE 0
    <3>1. /\ listed[s] = IF s = videoCounter THEN period ELSE Latest(s, period)
          /\ s \in Nat /\ s < MaxVideos /\ videoCounter \in Nat /\ videoCounter < MaxVideos
      BY <1>1, <2>2
    <3> QED
      BY <1>1, <2>1, <2>2, <3>1 DEF Latest
  <2> QED
    BY <1>1, <2>1, <2>2, <2>3 DEF ListFollowsCounter, Latest
<1>5. CASE PickFile
  <2>1. /\ elapse = "pick" /\ elapse' = "check" /\ UNCHANGED <<videoCounter, listed>>
        /\ period' = period + 1
    BY <1>5 DEF PickFile
  <2> QED
    BY <2>1 DEF ListFollowsCounter, Latest
<1>6. CASE ElapseCheck \/ WaitTest \/ WaitBlock \/ WaitTimeout \/ SetReadingVideo
             \/ StreamMessageSent
  BY <1>2, <1>6 DEF ElapseCheck, WaitTest, WaitBlock, WaitTimeout, SetReadingVideo,
                    StreamMessageSent
<1>7. CASE \/ Start \/ Stop \/ StopStep \/ LiveStep \/ JoinHandler \/ OthersLockStreams
           \/ \E c \in Clients : HandlerStep(c) \/ ClientStep(c)
  <2>1. UNCHANGED <<videoCounter, period, listed>>
    BY <1>7 DEF Start, Stop, StopStep, NotifyOne, JoinThreads, LiveStep, LiveCheck, LiveFrame,
                JoinHandler, HandlerStep, OpenVideo, EndOfVideo, BlockInSend, ClientStep,
                Leave, Connect, OthersLockStreams, emitterVars
  <2>2. elapse' = elapse \/ (main = "created" /\ elapse' = "check")
          \/ (elapse = "wait" /\ elapse' = "test")
    BY <1>7 DEF Start, Stop, StopStep, NotifyOne, JoinThreads, LiveStep, LiveCheck, LiveFrame,
                JoinHandler, HandlerStep, OpenVideo, EndOfVideo, BlockInSend, ClientStep,
                Leave, Connect, OthersLockStreams, emitterVars
  <2>3. main = "created" => elapse = "none"
    BY DEF Inductive, CurrentIsCounted
  <2> QED
    BY <1>2, <2>1, <2>2, <2>3
<1>8. CASE UNCHANGED vars
  BY <1>2, <1>8 DEF vars, emitterVars
<1> QED
  BY <1>3, <1>4, <1>5, <1>6, <1>7, <1>8 DEF Next, ElapseStep

(* The published list names the latest recordings, as many as there are    *)
(* sessions, however often the files have gone round and for every number  *)
(* of sessions (mVideoCounter, updateOnDemandStream).                      *)
THEOREM ListedSafe == Spec => []ListedAreTheLatest
<1>1. ASSUME TypeOK, ListFollowsCounter PROVE ListedAreTheLatest
  <2> SUFFICES ASSUME elapse \notin {"send", "count", "pick"}
               PROVE  {listed[s] : s \in Sessions} \ {0} =
                        {p \in 1..(period - 1) : p + MaxVideos >= period}
    BY DEF ListedAreTheLatest
  <2>1. /\ MaxVideos \in Nat /\ MaxVideos > 1 /\ period \in Nat /\ videoCounter \in Nat
        /\ videoCounter < MaxVideos /\ videoCounter < period
        /\ \A s \in Sessions : s \in Nat /\ s < MaxVideos /\ listed[s] = Latest(s, period)
    BY <1>1, RotationAssumption DEF TypeOK, Sessions, ListFollowsCounter
  <2>2. ASSUME NEW s \in Sessions, listed[s] # 0
        PROVE  listed[s] \in 1..(period - 1) /\ listed[s] + MaxVideos >= period
    <3>1. s \in Nat /\ s < MaxVideos /\ listed[s] = Latest(s, period)
      BY <2>1
    <3> QED
      BY <2>1, <2>2, <3>1 DEF Latest
  <2>3. ASSUME NEW p \in 1..(period - 1), p + MaxVideos >= period
        PROVE  \E s \in Sessions : listed[s] = p /\ p # 0
    <3>1. CASE period <= videoCounter + p
      <4> DEFINE s == (videoCounter + p) - period
      <4>1. s \in Sessions /\ s < videoCounter /\ (period + s) - videoCounter = p
        BY <2>1, <3>1 DEF Sessions
      <4>2. listed[s] = p
        BY <2>1, <4>1 DEF Latest
      <4> QED
        BY <4>1, <4>2
    <3>2. CASE period > videoCounter + p
      <4> DEFINE s == (videoCounter + MaxVideos + p) - period
      <4>1. /\ s \in Sessions /\ s >= videoCounter
            /\ period + s > videoCounter + MaxVideos
            /\ (period + s) - (videoCounter + MaxVideos) = p
        BY <2>1, <2>3, <3>2 DEF Sessions
      <4>2. listed[s] = p
        BY <2>1, <4>1 DEF Latest
      <4> QED
        BY <4>1, <4>2
    <3> QED
      BY <2>1, <3>1, <3>2
  <2> QED
    BY <2>2, <2>3
<1>2. Inductive => TypeOK
  BY DEF Inductive
<1> QED
  BY <1>1, <1>2, FollowsInit, FollowsNext, InductiveHolds, PTL DEF Spec
=============================================================================
