--------------------------- MODULE StreamRegistry ---------------------------
(***************************************************************************)
(* What the streaming server promises to the clients of its on-demand      *)
(* sessions, without threads, locks or queues: a connection owns its       *)
(* descriptor from accept to release, streams of a session begin only for  *)
(* an open connection that has described it, and a connection is released  *)
(* only when the stream it described last is over.                         *)
(***************************************************************************)
CONSTANTS Conns, Sessions, Fds, NoConn, NoSession

VARIABLES
  phase,     \* how far each connection is in its life
  owner,     \* the connection that owns a descriptor
  current,   \* the session a connection has described last
  streams    \* the pairs <<s, c>> that are being streamed

vars == <<phase, owner, current, streams>>

TypeOK ==
  /\ phase \in [Conns -> {"new", "open", "closed", "gone"}]
  /\ owner \in [Fds -> Conns \cup {NoConn}]
  /\ current \in [Conns -> Sessions \cup {NoSession}]
  /\ streams \subseteq Sessions \X Conns

Init ==
  /\ phase = [c \in Conns |-> "new"]
  /\ owner = [fd \in Fds |-> NoConn]
  /\ current = [c \in Conns |-> NoSession]
  /\ streams = {}

Connect(c, fd) ==
  /\ phase[c] = "new" /\ owner[fd] = NoConn
  /\ phase' = [phase EXCEPT ![c] = "open"]
  /\ owner' = [owner EXCEPT ![fd] = c]
  /\ UNCHANGED <<current, streams>>

Describe(c, s) ==
  /\ phase[c] = "open"
  /\ current' = [current EXCEPT ![c] = s]
  /\ UNCHANGED <<phase, owner, streams>>

Begin(s, c) ==
  /\ phase[c] = "open" /\ current[c] = s
  /\ <<s, c>> \notin streams
  /\ streams' = streams \cup {<<s, c>>}
  /\ UNCHANGED <<phase, owner, current>>

End(stream) ==
  /\ stream \in streams
  /\ streams' = streams \ {stream}
  /\ UNCHANGED <<phase, owner, current>>

Close(c) ==
  /\ phase[c] = "open"
  /\ phase' = [phase EXCEPT ![c] = "closed"]
  /\ UNCHANGED <<owner, current, streams>>

Release(c, fd) ==
  /\ phase[c] = "closed" /\ owner[fd] = c
  /\ <<current[c], c>> \notin streams
  /\ phase' = [phase EXCEPT ![c] = "gone"]
  /\ owner' = [owner EXCEPT ![fd] = NoConn]
  /\ UNCHANGED <<current, streams>>

Next ==
  \/ \E c \in Conns :
       \/ \E fd \in Fds : Connect(c, fd) \/ Release(c, fd)
       \/ \E s \in Sessions : Describe(c, s) \/ Begin(s, c)
       \/ Close(c)
  \/ \E stream \in streams : End(stream)

Spec == Init /\ [][Next]_vars
=============================================================================
