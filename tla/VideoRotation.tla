--------------------------- MODULE VideoRotation ----------------------------
(***************************************************************************)
(* One EnterpriseEmitter: its two threads (liveStreamingLoop records the   *)
(* camera, timeStreamElapseLoop changes the file every 15 minutes), its    *)
(* on-demand sessions with the handlers that read the recorded files, and  *)
(* the list of videos the NetworkManager publishes.                        *)
(*                                                                         *)
(* Session s records into its own file or, while a handler reads that one, *)
(* into its .tmp file.  A file is known by what it holds: the number of    *)
(* the recording period in which the recorder last opened (truncated) it.  *)
(***************************************************************************)
EXTENDS Naturals

CONSTANTS
  MaxVideos,    \* MAX_VIDEOS, the number of on-demand sessions
  Clients,      \* the RTSP clients
  TcpClients,   \* those that have their packets sent over the RTSP connection
  CameraFails,  \* whether a file may fail to open or the camera to deliver
  MaxPeriods,   \* bound: the recording periods looked at
  NoFile, NoClient

ASSUME RotationAssumption ==
  /\ MaxVideos \in Nat \ {0, 1}
  /\ CameraFails \in BOOLEAN
  /\ MaxPeriods \in Nat \ {0}
  /\ TcpClients \subseteq Clients
  /\ NoFile \notin (0..(MaxVideos - 1)) \X BOOLEAN
  /\ NoClient \notin Clients

Sessions == 0..(MaxVideos - 1)
RecordedFile(s) == <<s, FALSE>>
TmpFile(s)      == <<s, TRUE>>
Files == Sessions \X BOOLEAN

VARIABLES
  running,        \* mThreadRunningFlag
  videoCounter,   \* mVideoCounter
  currentFile,    \* mCurrentRecordingFile
  recordingFile,  \* recording_file of liveStreamingLoop
  live, elapse,   \* where the two threads are
  main,           \* where the thread that calls start and stop is
  readingVideo,   \* OnDemandSession::mReadingVideo of every session
  handler,        \* the OnDemandHandler of every client
  leaving,        \* the client whose handler the event loop joins
  period,         \* the number of the recording period
  holds,          \* the period whose recording a file holds, 0 = no such file
  listed,         \* the period whose recording the NetworkManager lists for a session
  streamsInfo     \* who has the NetworkManager's mStreamsInfoMutex

emitterVars == <<running, videoCounter, currentFile, recordingFile, live, elapse, main>>
sessionVars == <<readingVideo, handler, leaving>>
published == <<listed, streamsInfo>>
vars == <<emitterVars, sessionVars, period, holds, published>>

(* reading_video, whether it was a saved video when the client came (and   *)
(* not the current file), and the period of the recording that was opened. *)
Handlers == [session : Sessions, phase : {"none", "open", "stream", "blocked", "ended"},
             readingVideo : Files \cup {NoFile}, saved : BOOLEAN, sees : Nat]
NoHandler == [session |-> 0, phase |-> "none", readingVideo |-> NoFile, saved |-> FALSE,
              sees |-> 0]

TypeOK ==
  /\ running \in BOOLEAN
  /\ videoCounter \in Sessions
  /\ currentFile \in Files
  /\ recordingFile \in Files \cup {NoFile}
  /\ live \in {"none", "check", "frame", "end"}
  /\ elapse \in {"none", "check", "test", "block", "wait", "advertise", "list", "send",
                 "count", "pick", "end"}
  /\ main \in {"created", "started", "notify", "joinElapse", "joinLive", "stopped"}
  /\ readingVideo \in [Sessions -> Files \cup {NoFile}]
  /\ handler \in [Clients -> Handlers]
  /\ leaving \in Clients \cup {NoClient}
  /\ period \in Nat
  /\ holds \in [Files -> Nat]
  /\ listed \in [Sessions -> Nat]
  /\ streamsInfo \in {"free", "elapse", "others"}

Init ==
  /\ running = FALSE
  /\ videoCounter = 0
  /\ currentFile = RecordedFile(0)
  /\ recordingFile = NoFile
  /\ live = "none" /\ elapse = "none" /\ main = "created"
  /\ readingVideo = [s \in Sessions |-> NoFile]
  /\ handler = [c \in Clients |-> NoHandler]
  /\ leaving = NoClient
  /\ period = 1
  /\ holds = [f \in Files |-> 0]
  /\ listed = [s \in Sessions |-> 0]
  /\ streamsInfo = "free"

(* mMutexRunning is held across two steps only while timeStreamElapseLoop  *)
(* waits for a session's mReadingMutex, which the event loop holds while   *)
(* it joins a handler of that session.                                     *)
RunningMutexFree == elapse # "pick"
ReadingMutexFree(s) == leaving # NoClient => handler[leaving].session # s

-----------------------------------------------------------------------------
(* start and stop.                                                         *)
Start ==
  /\ main = "created"
  /\ running' = TRUE
  /\ live' = "check" /\ elapse' = "check" /\ main' = "started"
  /\ UNCHANGED <<videoCounter, currentFile, recordingFile, sessionVars, period, holds, published>>

Stop ==
  /\ main = "started" /\ RunningMutexFree
  /\ running' = FALSE
  /\ main' = "notify"
  /\ UNCHANGED <<videoCounter, currentFile, recordingFile, live, elapse, sessionVars,
                 period, holds, published>>

(* notify_one: nothing happens unless the other thread blocks already.     *)
NotifyOne ==
  /\ main = "notify"
  /\ main' = "joinElapse"
  /\ elapse' = IF elapse = "wait" THEN "test" ELSE elapse
  /\ UNCHANGED <<running, videoCounter, currentFile, recordingFile, live, sessionVars,
                 period, holds, published>>

JoinThreads ==
  /\ \/ main = "joinElapse" /\ elapse = "end" /\ main' = "joinLive"
     \/ main = "joinLive" /\ live = "end" /\ main' = "stopped"
  /\ UNCHANGED <<running, videoCounter, currentFile, recordingFile, live, elapse, sessionVars,
                 period, holds, published>>

-----------------------------------------------------------------------------
(* liveStreamingLoop.                                                      *)

LiveForever == FALSE                    \* a slip
LiveLeaves == ~running

(* The head of the loop under mMutexRunning: leave, open the file that has *)
(* become current (which truncates it), or go on.                          *)
LiveCheck ==
  /\ live = "check" /\ RunningMutexFree
  /\ \/ /\ LiveLeaves
        /\ live' = "end"
        /\ UNCHANGED <<recordingFile, holds>>
     \/ /\ ~LiveLeaves /\ currentFile # recordingFile
        /\ recordingFile' = currentFile
        /\ \/ live' = "frame" /\ holds' = [holds EXCEPT ![currentFile] = period]
           \/ CameraFails /\ live' = "end"
              /\ holds' \in {holds, [holds EXCEPT ![currentFile] = period]}
     \/ /\ ~LiveLeaves /\ currentFile = recordingFile
        /\ live' = "frame"
        /\ UNCHANGED <<recordingFile, holds>>
  /\ UNCHANGED <<running, videoCounter, currentFile, elapse, main, sessionVars, period, published>>

(* One picture: pushed to the live session and written, or the camera is   *)
(* at its end.                                                             *)
LiveFrame ==
  /\ live = "frame"
  /\ live' \in {"check"} \cup (IF CameraFails THEN {"end"} ELSE {})
  /\ UNCHANGED <<running, videoCounter, currentFile, recordingFile, elapse, main, sessionVars,
                 period, holds, published>>

-----------------------------------------------------------------------------
(* timeStreamElapseLoop.                                                   *)
elapseUnchanged == <<running, recordingFile, live, main, handler, leaving, holds>>

ElapseCheck ==
  /\ elapse = "check" /\ RunningMutexFree
  /\ elapse' = IF running THEN "test" ELSE "end"
  /\ UNCHANGED <<elapseUnchanged, videoCounter, currentFile, readingVideo, period, published>>

(* wait_for tests its predicate and then blocks; its mutex is local to the *)
(* thread, so stop may run between the two.                                *)
WaitTest ==
  /\ elapse = "test"
  /\ elapse' = IF running THEN "block" ELSE "check"
  /\ UNCHANGED <<elapseUnchanged, videoCounter, currentFile, readingVideo, period, published>>

WaitBlock ==
  /\ elapse = "block"
  /\ elapse' = "wait"
  /\ UNCHANGED <<elapseUnchanged, videoCounter, currentFile, readingVideo, period, published>>

(* The 15 minutes are over.                                                *)
WaitTimeout ==
  /\ elapse = "wait" /\ (running => period < MaxPeriods)
  /\ elapse' = IF running THEN "advertise" ELSE "check"
  /\ UNCHANGED <<elapseUnchanged, videoCounter, currentFile, readingVideo, period, published>>

SameVideo == videoCounter               \* a slip
NextVideo == (videoCounter + 1) % MaxVideos

(* setReadingVideo on the session of the period that ends.                 *)
EndedSession == videoCounter
SetReadingVideo ==
  /\ elapse = "advertise" /\ ReadingMutexFree(EndedSession)
  /\ readingVideo' = [readingVideo EXCEPT ![EndedSession] = currentFile]
  /\ elapse' = "list"
  /\ UNCHANGED <<elapseUnchanged, videoCounter, currentFile, period, published>>

(* NetworkManager::updateOnDemandStream for that session's address: the    *)
(* entry is renewed under mStreamsInfoMutex, which is held while the list  *)
(* is sent to every user; a send blocks as long as a user reads nothing.   *)
UpdateOnDemandStream ==
  /\ elapse = "list" /\ streamsInfo = "free"
  /\ streamsInfo' = "elapse"
  /\ listed' = [listed EXCEPT ![videoCounter] = period]
  /\ elapse' = "send"
  /\ UNCHANGED <<elapseUnchanged, videoCounter, currentFile, readingVideo, period>>

StreamMessageSent ==
  /\ elapse = "send"
  /\ streamsInfo' = "free"
  /\ elapse' = "count"
  /\ UNCHANGED <<elapseUnchanged, videoCounter, currentFile, readingVideo, period, listed>>

(* The other emitters and the handlers that answer GET_STREAMS take the    *)
(* same mutex; one whose send throws never gives it back.                  *)
OthersLockStreams ==
  /\ \/ streamsInfo = "free" /\ streamsInfo' = "others"
     \/ streamsInfo = "others" /\ streamsInfo' = "free"
  /\ UNCHANGED <<emitterVars, sessionVars, period, holds, listed>>

CountVideo ==
  /\ elapse = "count"
  /\ videoCounter' = NextVideo
  /\ elapse' = "pick"
  /\ UNCHANGED <<elapseUnchanged, currentFile, readingVideo, period, published>>

(* getClientsReadingVideo: every handler of the session whose              *)
(* reading_video is the file, also one whose thread has failed to open it. *)
OnlyStreaming(s, f) ==                  \* a slip
  {c \in Clients : handler[c].phase = "stream" /\ handler[c].readingVideo = f}
ClientsReadingVideo(s, f) ==
  {c \in Clients : /\ handler[c].phase # "none"
                   /\ handler[c].session = s /\ handler[c].readingVideo = f}

FileFor(s) ==
  IF ClientsReadingVideo(s, RecordedFile(s)) # {} THEN TmpFile(s) ELSE RecordedFile(s)

PickFile ==
  /\ elapse = "pick" /\ ReadingMutexFree(videoCounter)
  /\ currentFile' = FileFor(videoCounter)
  /\ period' = period + 1
  /\ elapse' = "check"
  /\ UNCHANGED <<elapseUnchanged, videoCounter, readingVideo, published>>

-----------------------------------------------------------------------------
(* OnDemandSession: the event loop adds and removes clients, one at a time;*)
(* each has a thread that reads the file.                                  *)

(* The connected callback: the handler remembers the session's video.      *)
Connect(c, s) ==
  /\ leaving = NoClient /\ handler[c].phase = "none"
  /\ handler' = [handler EXCEPT ![c] =
       [session |-> s, phase |-> "open", readingVideo |-> readingVideo[s],
        saved |-> readingVideo[s] # currentFile, sees |-> 0]]
  /\ UNCHANGED <<emitterVars, readingVideo, leaving, period, holds, published>>

(* Opening fails without a file name, and may fail on a file that has not  *)
(* been recorded (one of an earlier run of the program may be there) or    *)
(* that the recorder has just truncated; reading_video keeps its value.    *)
OpenVideo(c) ==
  LET f == handler[c].readingVideo IN
  /\ handler[c].phase = "open"
  /\ \/ /\ f # NoFile
        /\ handler' = [handler EXCEPT ![c].phase = "stream", ![c].sees = holds[f]]
     \/ /\ f # NoFile => holds[f] = 0 \/ f = recordingFile
        /\ handler' = [handler EXCEPT ![c].phase = "ended"]
  /\ UNCHANGED <<emitterVars, readingVideo, leaving, period, holds, published>>

(* The end of onDemandLoop: end of file, a send that fails, told to stop.  *)
EndOfVideo(c) ==
  /\ handler[c].phase = "stream"
  /\ handler' = [handler EXCEPT ![c].phase = "ended", ![c].readingVideo = NoFile]
  /\ UNCHANGED <<emitterVars, readingVideo, leaving, period, holds, published>>

(* The loop joins from inside TcpConnection::Close, which holds the mutex  *)
(* that a thread sending over the RTSP connection waits for.               *)
BlockInSend(c) ==
  /\ handler[c].phase = "stream" /\ leaving = c /\ c \in TcpClients
  /\ handler' = [handler EXCEPT ![c].phase = "blocked"]
  /\ UNCHANGED <<emitterVars, readingVideo, leaving, period, holds, published>>

(* The disconnected callback: tell the thread to stop, then join it.       *)
Leave(c) ==
  /\ leaving = NoClient /\ handler[c].phase # "none"
  /\ leaving' = c
  /\ UNCHANGED <<emitterVars, readingVideo, handler, period, holds, published>>

JoinHandler ==
  /\ leaving # NoClient
  /\ handler[leaving].phase = "ended"
  /\ handler' = [handler EXCEPT ![leaving] = NoHandler]
  /\ leaving' = NoClient
  /\ UNCHANGED <<emitterVars, readingVideo, period, holds, published>>

-----------------------------------------------------------------------------
ElapseStep == \/ ElapseCheck \/ WaitTest \/ WaitBlock \/ WaitTimeout
              \/ SetReadingVideo \/ UpdateOnDemandStream \/ CountVideo \/ PickFile
LiveStep == LiveCheck \/ LiveFrame
StopStep == NotifyOne \/ JoinThreads
HandlerStep(c) == OpenVideo(c) \/ EndOfVideo(c) \/ BlockInSend(c)
ClientStep(c) == Leave(c) \/ \E s \in Sessions : Connect(c, s)

Next == \/ Start \/ Stop \/ StopStep \/ LiveStep \/ ElapseStep \/ JoinHandler
        \/ StreamMessageSent \/ OthersLockStreams
        \/ \E c \in Clients : HandlerStep(c) \/ ClientStep(c)

Spec == Init /\ [][Next]_vars

(* The threads run, the timer runs out, a handler's thread comes to its    *)
(* end or blocks; a send to the users need not return, the mutex need not  *)
(* be given back, and clients and the user's <ENTER> owe nothing.          *)
Fairness ==
  /\ WF_vars(StopStep) /\ WF_vars(LiveStep) /\ SF_vars(ElapseStep) /\ WF_vars(JoinHandler)
  /\ \A c \in Clients : WF_vars(HandlerStep(c))
FairSpec == Spec /\ Fairness

-----------------------------------------------------------------------------
(* A client that came to read its session's own file while that was not    *)
(* the one to record into keeps the recording it opened, however late its  *)
(* thread starts and however often the files go round                      *)
(* (getClientsReadingVideo).  The same is not so of the .tmp file: its     *)
(* readers are not asked for, and it is picked again, and truncated under  *)
(* them, when the own file still has a reader.                             *)
ReadersKeepTheirVideo ==
  \A c \in Clients :
    /\ handler[c].phase = "stream" /\ handler[c].saved
    /\ handler[c].readingVideo = RecordedFile(handler[c].session)
    => holds[handler[c].readingVideo] = handler[c].sees

(* What a session is told to read is one of its own two files: the counter *)
(* and the current file change together (timeStreamElapseLoop).            *)
SessionsReadTheirOwn ==
  \A s \in Sessions : readingVideo[s] \in {NoFile, RecordedFile(s), TmpFile(s)}

(* Between two changes the published list names the latest recordings, as  *)
(* many as there are sessions (mVideoCounter, updateOnDemandStream).       *)
ListedAreTheLatest ==
  elapse \notin {"send", "count", "pick"} =>
    {listed[s] : s \in Sessions} \ {0} =
      {p \in 1..(period - 1) : p + MaxVideos >= period}

(* stop returns: both threads see mThreadRunningFlag, even if notify_one   *)
(* comes before the wait, and nobody keeps mMutexRunning or a session's    *)
(* mReadingMutex for ever.  This takes that mStreamsInfoMutex comes free   *)
(* again and again, and that no joined thread is left waiting in Send.     *)
StopReturns ==
  /\ []<>(streamsInfo = "free")
  /\ \A c \in Clients : []<>(handler[c].phase # "blocked")
  => (main = "notify" ~> main = "stopped")
=============================================================================
