------------------------- MODULE LiveSessionProofs --------------------------
(***************************************************************************)
(* Proofs about LiveSession, for every number of sessions, connections,    *)
(* descriptors and multicast addresses.                                    *)
(***************************************************************************)
EXTENDS LiveSession, WellFoundedInduction, TLAPS

(* Only a complete session has a group, and no two have the same: the      *)
(* address is drawn in the step that completes the session.                *)
GroupsAreApart ==
  /\ \A s \in Sessions : group[s] # None => created[s] = "ready"
  /\ \A s, t \in Sessions : s # t /\ group[s] # None => group[s] # group[t]

(* The event loop works for a connection that has a session and a          *)
(* descriptor, and is open until it is being removed.                      *)
LoopHasConnection ==
  /\ \A c \in Conns : fdOf[c] # None <=> phase[c] \in {"open", "closed"}
  /\ loop.pc # "idle" =>
       /\ loop.conn \in Conns /\ session[loop.conn] # None
       /\ phase[loop.conn] = IF loop.pc = "addClient" THEN "open" ELSE "closed"

(* What a connection is bound to it has described: its session, the group  *)
(* it receives, and the sessions it is listed in while it is open.         *)
BoundToAsked ==
  /\ \A c \in Conns : session[c] # None => session[c] \in asked[c]
  /\ \A c \in Conns : rtp[c].to \in Groups => \E s \in asked[c] : group[s] = rtp[c].to
  /\ \A s \in Sessions, fd \in Fds : LET c == clients[s][fd] IN
       c # None => phase[c] # "new" /\ (phase[c] = "open" => s \in asked[c])

(* What a session answered when it was complete it goes on answering.      *)
AnsweredWhenReady ==
  \A s \in Sessions \ early : sdp[s] # None => created[s] = "ready" /\ sdp[s] = Media(s)

(* Frames are pushed once the session is complete, and on one with a group *)
(* a packet only passes over entries that it has found ended and cleared.  *)
PassedAreCleared ==
  \A s \in Sessions :
    /\ push[s].pc # "idle" => created[s] = "ready"
    /\ push[s].pc = "write" => Beyond(s) # {}
    /\ push[s].pc \in {"client", "write"} /\ group[s] # None =>
         /\ push[s].sent = 0 /\ ~push[s].failed
         /\ \A fd \in Fds : fd <= push[s].at => clients[s][fd] = None

Inductive == /\ TypeOK /\ GroupsAreApart /\ LoopHasConnection
             /\ BoundToAsked /\ AnsweredWhenReady /\ PassedAreCleared

(* A set of numbers that is not empty has a least one.                     *)
LEMMA HasLeast ==
  ASSUME NEW S \in SUBSET Nat, S # {}
  PROVE  \E n \in S : \A m \in S : n <= m
<1>1. PICK n \in S : \A m \in S : ~ (<<m, n>> \in OpToRel(<, Nat))
  BY NatLessThanWellFounded, WFMin
<1>2. ASSUME NEW m \in S PROVE n <= m
  <2>1. m \in Nat /\ n \in Nat
    OBVIOUS
  <2>2. ~(m < n)
    BY <1>1, <2>1 DEF OpToRel
  <2> QED
    BY <2>1, <2>2
<1> QED
  BY <1>2

(* The next entry of clients_ is the first one after the last that was     *)
(* looked at: all the descriptors between them have none.                  *)
LEMMA NextIsFirst ==
  ASSUME TypeOK, NEW s \in Sessions, Beyond(s) # {}
  PROVE  /\ NextFd(s) \in Fds /\ NextFd(s) \in Nat /\ push[s].at \in Nat
         /\ NextFd(s) > push[s].at /\ clients[s][NextFd(s)] \in Conns
         /\ \A fd \in Fds : fd > push[s].at /\ fd <= NextFd(s) /\ clients[s][fd] # None
                              => fd = NextFd(s)
<1>1. Beyond(s) \in SUBSET Nat /\ Fds \subseteq Nat
  BY LiveAssumption DEF Beyond
<1>2. PICK least \in Beyond(s) : \A other \in Beyond(s) : least <= other
  BY <1>1, HasLeast
<1>3. NextFd(s) \in Beyond(s) /\ \A other \in Beyond(s) : NextFd(s) <= other
  BY <1>2 DEF NextFd
<1>4. NextFd(s) \in Fds /\ NextFd(s) > push[s].at /\ clients[s][NextFd(s)] # None
  BY <1>3 DEF Beyond
<1>5. clients[s][NextFd(s)] \in Conns /\ push[s].at \in Nat
  BY <1>4 DEF TypeOK
<1>6. \A fd \in Fds : fd > push[s].at /\ clients[s][fd] # None => NextFd(s) <= fd
  BY <1>3 DEF Beyond
<1>7. ASSUME NEW other \in Fds, other > push[s].at, other <= NextFd(s), clients[s][other] # None
      PROVE  other = NextFd(s)
  <2>1. NextFd(s) <= other
    BY <1>6, <1>7, Zenon
  <2>2. NextFd(s) \in Nat /\ other \in Nat
    BY <1>1, <1>4
  <2> QED
    BY <1>7, <2>1, <2>2
<1>8. NextFd(s) \in Nat
  BY <1>1, <1>4
<1> QED
  BY <1>4, <1>5, <1>7, <1>8, Zenon

(* What the commands and the emitters do to an RtpConnection: all but      *)
(* SETUP keep the address it sends to.                                     *)
LEMMA Records ==
  ASSUME TypeOK, NEW c \in Conns
  PROVE  /\ [rtp[c] EXCEPT !.made = TRUE] \in Rtp /\ [rtp[c] EXCEPT !.made = TRUE].to = rtp[c].to
         /\ \A play \in BOOLEAN : LET r == [rtp[c] EXCEPT !.play = play] IN
              r \in Rtp /\ r.to = rtp[c].to
         /\ TornDown(rtp[c]) \in Rtp /\ TornDown(rtp[c]).to = rtp[c].to
         /\ \A t \in Transports, to \in Groups \cup {None, "peer"} :
              LET r == [rtp[c] EXCEPT !.mode = t, !.to = to] IN r \in Rtp /\ r.to = to
<1>1. rtp[c] \in Rtp
  BY DEF TypeOK
<1> QED
  BY <1>1 DEF Rtp, TornDown

(* What a step leaves alone keeps the parts that are about it.             *)
LEMMA Kept ==
  ASSUME Inductive
  PROVE  /\ UNCHANGED <<created, group>> => GroupsAreApart'
         /\ UNCHANGED <<fdOf, phase, session, loop>> => LoopHasConnection'
         /\ /\ UNCHANGED <<session, asked, phase, clients, group>>
            /\ \A c \in Conns : rtp'[c].to = rtp[c].to
            => BoundToAsked'
         /\ UNCHANGED serverVars => AnsweredWhenReady'
         /\ UNCHANGED <<created, group, push, clients>> => PassedAreCleared'
<1>1. UNCHANGED <<created, group>> => GroupsAreApart'
  BY DEF Inductive, GroupsAreApart
<1>2. UNCHANGED <<fdOf, phase, session, loop>> => LoopHasConnection'
  BY DEF Inductive, LoopHasConnection
<1>3. ASSUME UNCHANGED <<session, asked, phase, clients, group>>,
             \A c \in Conns : rtp'[c].to = rtp[c].to
      PROVE  BoundToAsked'
  BY <1>3 DEF Inductive, BoundToAsked
<1>4. UNCHANGED serverVars => AnsweredWhenReady'
  BY DEF Inductive, AnsweredWhenReady, Media, serverVars
<1>5. UNCHANGED <<created, group, push, clients>> => PassedAreCleared'
  BY DEF Inductive, PassedAreCleared, Beyond
<1> QED
  BY <1>1, <1>2, <1>3, <1>4, <1>5

(* At first there is no connection, no client and no answer.               *)
LEMMA InductiveInit == Init => Inductive
<1> SUFFICES ASSUME Init PROVE Inductive
  OBVIOUS
<1> USE DEF Init, NoRtp, NoPush, Idle
<1>1. TypeOK
  BY LiveAssumption DEF TypeOK, Stages, LoopPcs, Rtp
<1>2. GroupsAreApart /\ LoopHasConnection /\ AnsweredWhenReady /\ PassedAreCleared
  BY DEF GroupsAreApart, LoopHasConnection, AnsweredWhenReady, PassedAreCleared, Beyond
<1>3. BoundToAsked
  BY LiveAssumption DEF BoundToAsked
<1> QED
  BY <1>1, <1>2, <1>3 DEF Inductive

(* The main thread: a session gets its group, which no other has, when it  *)
(* becomes complete, and neither changes after that.                       *)
LEMMA CreationStep ==
  ASSUME Inductive, NEW s \in Sessions, AddSession(s) \/ AddSource(s) \/ StartMulticast(s)
  PROVE  Inductive'
<1> USE DEF AddSession, AddSource, StartMulticast, Creates
<1>1. /\ UNCHANGED <<early, sdp, connVars, clients, loop, owner, push>>
      /\ created[s] # "ready"
      /\ \E stage \in Stages : created' = [created EXCEPT ![s] = stage]
      /\ \/ group' = group
         \/ /\ created'[s] = "ready"
            /\ \E g \in FreeAddresses \cup {None} : group' = [group EXCEPT ![s] = g]
  BY DEF Stages, Inductive, TypeOK
<1>2. PICK stage \in Stages : created' = [created EXCEPT ![s] = stage]
  BY <1>1
<1>3. \E g \in FreeAddresses \cup {None} : /\ group' = [group EXCEPT ![s] = g]
                                           /\ g # None => stage = "ready"
  <2>1. group[s] = None /\ group = [group EXCEPT ![s] = None]
    BY <1>1 DEF Inductive, TypeOK, GroupsAreApart
  <2>2. created'[s] = stage
    BY <1>2 DEF Inductive, TypeOK
  <2> QED
    BY <1>1, <2>1, <2>2
<1>4. PICK g \in FreeAddresses \cup {None} : /\ group' = [group EXCEPT ![s] = g]
                                             /\ g # None => stage = "ready"
  BY <1>3
<1>5. g \in Groups \cup {None}
  BY DEF FreeAddresses
<1> HIDE DEF AddSession, AddSource, StartMulticast, Creates
<1>6. TypeOK'
  BY <1>1, <1>2, <1>4, <1>5 DEF Inductive, TypeOK, connVars
<1>7. GroupsAreApart'
  <2>1. \A t \in Sessions \ {s} : group'[t] = group[t] /\ created'[t] = created[t]
    BY <1>2, <1>4 DEF Inductive, TypeOK
  <2>2. group'[s] = g /\ created'[s] = stage
    BY <1>2, <1>4 DEF Inductive, TypeOK
  <2>3. g # None => \A t \in Sessions : group[t] # g
    BY DEF FreeAddresses
  <2> QED
    BY <1>4, <2>1, <2>2, <2>3 DEF Inductive, GroupsAreApart
<1>8. LoopHasConnection'
  BY <1>1, Kept DEF connVars
<1>9. BoundToAsked'
  <2>1. \A t \in Sessions : group[t] \in Groups => group'[t] = group[t]
    BY <1>1, <1>4, LiveAssumption DEF Inductive, TypeOK, GroupsAreApart
  <2> QED
    BY <1>1, <2>1 DEF Inductive, TypeOK, BoundToAsked, connVars
<1>10. AnsweredWhenReady'
  <2>1. sdp[s] # None => s \in early
    BY <1>1 DEF Inductive, AnsweredWhenReady
  <2>2. \A t \in Sessions \ {s} : created'[t] = created[t] /\ Media(t)' = Media(t)
    BY <1>2, <1>4 DEF Inductive, TypeOK, Media
  <2>3. early' = early /\ sdp' = sdp
    BY <1>1
  <2> QED
    BY <2>1, <2>2, <2>3 DEF Inductive, AnsweredWhenReady
<1>11. PassedAreCleared'
  <2>1. push[s].pc = "idle"
    BY <1>1 DEF Inductive, PassedAreCleared, Beyond
  <2>2. /\ \A t \in Sessions \ {s} : created'[t] = created[t] /\ group'[t] = group[t]
        /\ push' = push /\ clients' = clients
    BY <1>1, <1>2, <1>4 DEF Inductive, TypeOK
  <2> QED
    BY <2>1, <2>2 DEF Inductive, PassedAreCleared, Beyond
<1> QED
  BY <1>6, <1>7, <1>8, <1>9, <1>10, <1>11 DEF Inductive

(* A connection gets a descriptor that nobody has; no list names it yet.   *)
LEMMA AcceptStep ==
  ASSUME Inductive, NEW c \in Conns, Accept(c)
  PROVE  Inductive'
<1>1. /\ UNCHANGED <<serverVars, session, rtp, asked, describes, clients, loop, owner, push>>
      /\ phase[c] = "new" /\ phase' = [phase EXCEPT ![c] = "open"] /\ loop.pc = "idle"
      /\ \E fd \in Fds : fdOf' = [fdOf EXCEPT ![c] = fd]
  BY DEF Accept
<1>2. PICK fd \in Fds : fdOf' = [fdOf EXCEPT ![c] = fd]
  BY <1>1
<1>3. TypeOK'
  BY <1>1, <1>2 DEF Inductive, TypeOK, serverVars
<1>4. LoopHasConnection'
  BY <1>1, <1>2, LiveAssumption DEF Inductive, TypeOK, LoopHasConnection
<1>5. BoundToAsked'
  BY <1>1 DEF Inductive, TypeOK, BoundToAsked, serverVars
<1> QED
  BY <1>1, <1>3, <1>4, <1>5, Kept DEF Inductive, serverVars

(* DESCRIBE binds the connection to a session that it has then described.  *)
LEMMA DescribeStep ==
  ASSUME Inductive, NEW c \in Conns, NEW s \in Sessions, Describe(c, s)
  PROVE  Inductive'
<1>1. /\ UNCHANGED <<serverVars, clients, fdOf, phase, owner, push>>
      /\ loop.pc = "idle" /\ phase[c] = "open"
      /\ describes' \in 0..MaxDescribes
      /\ rtp' = [rtp EXCEPT ![c].made = TRUE]
  BY LiveAssumption DEF Describe, Command, Inductive, TypeOK
<1>2. rtp' \in [Conns -> Rtp] /\ \A d \in Conns : rtp'[d].to = rtp[d].to
  <2> DEFINE r == [rtp[c] EXCEPT !.made = TRUE]
  <2>1. r \in Rtp /\ r.to = rtp[c].to
    BY Records, Zenon DEF Inductive
  <2>2. rtp' = [rtp EXCEPT ![c] = r]
    BY <1>1
  <2> HIDE DEF r
  <2> QED
    BY <2>1, <2>2 DEF Inductive, TypeOK
<1>3. CASE UNCHANGED <<session, asked, loop>>
  <2>1. TypeOK'
    BY <1>1, <1>2, <1>3 DEF Inductive, TypeOK, serverVars
  <2> QED
    BY <1>1, <1>2, <1>3, <2>1, Kept DEF Inductive, serverVars
<1>4. CASE /\ session' = [session EXCEPT ![c] = s]
           /\ asked' = [asked EXCEPT ![c] = @ \cup {s}]
           /\ loop' = [pc |-> "addClient", conn |-> c]
  <2>1. TypeOK'
    BY <1>1, <1>2, <1>4 DEF Inductive, TypeOK, serverVars, LoopPcs
  <2>2. LoopHasConnection'
    BY <1>1, <1>4, LiveAssumption DEF Inductive, TypeOK, LoopHasConnection
  <2>3. BoundToAsked'
    <3>1. s \in asked'[c] /\ session'[c] = s
      BY <1>4 DEF Inductive, TypeOK
    <3>2. /\ \A d \in Conns : asked[d] \subseteq asked'[d]
          /\ \A d \in Conns \ {c} : session'[d] = session[d]
      BY <1>4 DEF Inductive, TypeOK
    <3>3. \A d \in Conns : session'[d] # None => session'[d] \in asked'[d]
      BY <3>1, <3>2 DEF Inductive, BoundToAsked
    <3>4. \A d \in Conns : rtp'[d].to \in Groups => \E t \in asked'[d] : group'[t] = rtp'[d].to
      BY <1>1, <1>2, <3>2 DEF Inductive, BoundToAsked, serverVars
    <3>5. \A t \in Sessions, fd \in Fds : clients[t][fd] # None => clients[t][fd] \in Conns
      BY DEF Inductive, TypeOK
    <3> QED
      BY <1>1, <3>2, <3>3, <3>4, <3>5 DEF Inductive, BoundToAsked
  <2> QED
    BY <1>1, <2>1, <2>2, <2>3, Kept DEF Inductive, serverVars
<1> QED
  BY <1>3, <1>4 DEF Describe

(* The other commands change the connection's RtpConnection only, and only *)
(* a SETUP the address its packets go to: to the group of its session.     *)
LEMMA CommandStep ==
  ASSUME Inductive, NEW c \in Conns, Setup(c) \/ Play(c) \/ Teardown(c)
  PROVE  Inductive'
<1>1. /\ UNCHANGED <<serverVars, session, asked, describes, clients, loop>>
      /\ UNCHANGED <<fdOf, phase, owner, push>>
  BY DEF Setup, Play, Teardown, Command
<1>2. /\ rtp' \in [Conns -> Rtp]
      /\ \A d \in Conns : rtp'[d].to \in Groups =>
           rtp'[d].to = rtp[d].to \/ (session[d] # None /\ rtp'[d].to = group[session[d]])
  <2>1. SUFFICES \E r \in Rtp :
          /\ rtp' = [rtp EXCEPT ![c] = r]
          /\ r.to \in Groups => r.to \in {rtp[c].to} \cup {group[t] : t \in {session[c]} \ {None}}
    BY DEF Inductive, TypeOK
  <2>2. CASE Play(c)
    <3> DEFINE play == rtp[c].play \/ rtp[c].mode # None
               r == [rtp[c] EXCEPT !.play = play]
    <3>1. play \in BOOLEAN /\ rtp' = [rtp EXCEPT ![c] = r]
      BY <2>2 DEF Play, Inductive, TypeOK, Rtp
    <3>2. r \in Rtp /\ r.to = rtp[c].to
      <4> HIDE DEF play
      <4> QED
        BY <3>1, Records, Zenon DEF Inductive
    <3> HIDE DEF r
    <3> QED
      BY <3>1, <3>2
  <2>3. CASE Teardown(c)
    <3>1. TornDown(rtp[c]) \in Rtp /\ TornDown(rtp[c]).to = rtp[c].to
      BY Records, Zenon DEF Inductive
    <3>2. rtp' = [rtp EXCEPT ![c] = TornDown(rtp[c])]
      BY <2>3 DEF Teardown
    <3> QED
      BY <3>1, <3>2, Zenon
  <2>4. CASE Setup(c)
    <3>1. PICK t \in Transports :
            IF session[c] # None /\ Accepted(session[c], t)
            THEN rtp' = [rtp EXCEPT ![c].mode = t, ![c].to = Destination(session[c], t)]
            ELSE rtp' = rtp
      BY <2>4 DEF Setup
    <3>2. CASE session[c] # None /\ Accepted(session[c], t)
      <4> DEFINE to == Destination(session[c], t)
                 r == [rtp[c] EXCEPT !.mode = t, !.to = to]
      <4>1. /\ to \in Groups \cup {None, "peer"}
            /\ to \in Groups => to = group[session[c]]
        BY <3>2, LiveAssumption DEF Destination, Inductive, TypeOK
      <4>2. rtp' = [rtp EXCEPT ![c] = r]
        BY <3>1, <3>2
      <4>3. r \in Rtp /\ r.to = to
        <5> HIDE DEF to
        <5> QED
          BY <4>1, Records, ZenonT(30) DEF Inductive
      <4> HIDE DEF r, to
      <4> QED
        BY <3>2, <4>1, <4>2, <4>3
    <3>3. CASE ~(session[c] # None /\ Accepted(session[c], t))
      <4>1. rtp' = [rtp EXCEPT ![c] = rtp[c]] /\ rtp[c] \in Rtp
        BY <3>1, <3>3 DEF Inductive, TypeOK
      <4> QED
        BY <4>1, Zenon
    <3> QED
      BY <3>2, <3>3
  <2> QED
    BY <2>2, <2>3, <2>4
<1>3. TypeOK'
  BY <1>1, <1>2 DEF Inductive, TypeOK, serverVars
<1>4. BoundToAsked'
  BY <1>1, <1>2 DEF Inductive, BoundToAsked, serverVars
<1> QED
  BY <1>1, <1>3, <1>4, Kept DEF Inductive, serverVars

(* Where the loop is in the middle of a command or of closing, it has a    *)
(* connection with a session and a descriptor.                             *)
LEMMA LoopHas ==
  ASSUME Inductive, loop.pc # "idle"
  PROVE  /\ loop.conn \in Conns /\ session[loop.conn] \in Sessions /\ fdOf[loop.conn] \in Fds
         /\ loop.pc \in {"addClient", "lookUp", "removeClient"}
         /\ session[loop.conn] \in asked[loop.conn]
         /\ phase[loop.conn] = IF loop.pc = "addClient" THEN "open" ELSE "closed"
<1>1. /\ loop.conn \in Conns /\ session[loop.conn] # None
      /\ phase[loop.conn] = IF loop.pc = "addClient" THEN "open" ELSE "closed"
  BY DEF Inductive, LoopHasConnection
<1>2. fdOf[loop.conn] # None
  BY <1>1 DEF Inductive, LoopHasConnection
<1>3. session[loop.conn] \in asked[loop.conn]
  BY <1>1 DEF Inductive, BoundToAsked
<1>4. /\ session[loop.conn] \in Sessions /\ fdOf[loop.conn] \in Fds
      /\ loop.pc \in {"addClient", "lookUp", "removeClient"}
  BY <1>1, <1>2 DEF Inductive, TypeOK, LoopPcs
<1> QED
  BY <1>1, <1>3, <1>4

(* The loop never changes a list while a packet goes through it.           *)
LEMMA ListChange ==
  ASSUME Inductive, NEW s \in Sessions, NEW fd \in Fds, NEW d \in Conns \cup {None},
         clients' = [clients EXCEPT ![s][fd] = d], MapUnlocked(s),
         UNCHANGED <<created, group, push>>
  PROVE  /\ clients' \in [Sessions -> [Fds -> Conns \cup {None}]]
         /\ clients'[s][fd] = d
         /\ \A t \in Sessions, other \in Fds :
              <<t, other>> # <<s, fd>> => clients'[t][other] = clients[t][other]
         /\ PassedAreCleared'
<1>1. /\ clients' \in [Sessions -> [Fds -> Conns \cup {None}]]
      /\ clients'[s][fd] = d
      /\ \A t \in Sessions, other \in Fds :
           <<t, other>> # <<s, fd>> => clients'[t][other] = clients[t][other]
  BY DEF Inductive, TypeOK
<1>2. \A t \in Sessions : push[t].pc \in {"client", "write"} => t # s
  BY DEF MapUnlocked
<1>3. PassedAreCleared'
  BY <1>1, <1>2 DEF Inductive, PassedAreCleared, Beyond
<1> QED
  BY <1>1, <1>3

(* AddClient lists the connection in the session it has just described,    *)
(* and keeps the first answer.                                             *)
LEMMA AddClientStep ==
  ASSUME Inductive, AddClient
  PROVE  Inductive'
<1> DEFINE c == loop.conn
           s == session[c]
           d == IF clients[s][fdOf[c]] = None THEN c ELSE clients[s][fdOf[c]]
<1>1. /\ c \in Conns /\ s \in Sessions /\ fdOf[c] \in Fds /\ s \in asked[c] /\ phase[c] = "open"
  BY LoopHas DEF AddClient, Continues
<1>2. /\ UNCHANGED <<created, group, session, rtp, asked>>
      /\ UNCHANGED <<fdOf, phase, describes, owner, push>>
      /\ MapUnlocked(s) /\ loop' = Idle
      /\ sdp' = [sdp EXCEPT ![s] = SdpMessage(s)]
      /\ early' = IF created[s] = "ready" THEN early ELSE early \cup {s}
      /\ clients' = [clients EXCEPT ![s][fdOf[c]] = d]
  BY DEF AddClient, Continues
<1>3. d \in Conns \cup {None} /\ d # None
  <2>1. clients[s][fdOf[c]] \in Conns \cup {None}
    BY <1>1 DEF Inductive, TypeOK
  <2>2. c # None
    BY <1>1, LiveAssumption
  <2> QED
    BY <1>1, <2>1, <2>2
<1>4. /\ clients' \in [Sessions -> [Fds -> Conns \cup {None}]]
      /\ clients'[s][fdOf[c]] = d
      /\ \A t \in Sessions, other \in Fds :
           <<t, other>> # <<s, fdOf[c]>> => clients'[t][other] = clients[t][other]
      /\ PassedAreCleared'
  <2> HIDE DEF d, s, c
  <2> QED
    BY <1>1, <1>2, <1>3, ListChange, Zenon
<1>5. SdpMessage(s) \in Groups \cup {None, "empty", "unicast"}
  BY <1>1 DEF SdpMessage, Media, Inductive, TypeOK
<1>6. TypeOK'
  <2> HIDE DEF d, s, c
  <2> QED
    BY <1>1, <1>2, <1>4, <1>5 DEF Inductive, TypeOK, Idle, LoopPcs
<1>7. LoopHasConnection'
  BY <1>2 DEF Inductive, LoopHasConnection, Idle
<1>8. BoundToAsked'
  <2>1. phase[d] # "new" /\ (phase[d] = "open" => s \in asked[d])
    BY <1>1, <1>3 DEF Inductive, BoundToAsked
  <2>2. ASSUME NEW t \in Sessions, NEW fd \in Fds, clients'[t][fd] # None
        PROVE  /\ phase[clients'[t][fd]] # "new"
               /\ phase[clients'[t][fd]] = "open" => t \in asked[clients'[t][fd]]
    <3>1. CASE <<t, fd>> = <<s, fdOf[c]>>
      BY <1>4, <2>1, <3>1
    <3>2. CASE <<t, fd>> # <<s, fdOf[c]>>
      <4>1. clients'[t][fd] = clients[t][fd]
        BY <1>4, <2>2, <3>2
      <4> QED
        BY <2>2, <4>1 DEF Inductive, BoundToAsked
    <3> QED
      BY <3>1, <3>2
  <2> HIDE DEF d, s, c
  <2> QED
    BY <1>2, <2>2 DEF Inductive, BoundToAsked
<1>9. AnsweredWhenReady'
  <2>1. \A t \in Sessions : Media(t)' = Media(t)
    BY <1>2 DEF Media
  <2>2. \A t \in Sessions \ {s} : sdp'[t] = sdp[t] /\ (t \in early' <=> t \in early)
    BY <1>2 DEF Inductive, TypeOK
  <2>3. sdp'[s] = SdpMessage(s)
    BY <1>1, <1>2 DEF Inductive, TypeOK
  <2>4. s \notin early' => created[s] = "ready" /\ s \notin early
    BY <1>2
  <2>5. s \notin early' /\ SdpMessage(s) # None => SdpMessage(s) = Media(s)
    BY <1>1, <2>4 DEF Inductive, AnsweredWhenReady, SdpMessage
  <2>6. created' = created
    BY <1>2
  <2> HIDE DEF d, s, c
  <2> QED
    BY <1>1, <2>1, <2>2, <2>3, <2>4, <2>5, <2>6 DEF Inductive, AnsweredWhenReady
<1> HIDE DEF d, s, c
<1> QED
  BY <1>2, <1>4, <1>6, <1>7, <1>8, <1>9, Kept DEF Inductive

(* A closing connection keeps its session until it is out of the list.     *)
LEMMA ClosingStep ==
  ASSUME Inductive, OnClose \/ RemoveClient \/ \E c \in Conns : Close(c)
  PROVE  Inductive'
<1>1. CASE OnClose
  <2>1. /\ UNCHANGED <<serverVars, session, rtp, asked, clients, fdOf, phase, describes, owner, push>>
        /\ loop.pc = "lookUp" /\ loop' = [loop EXCEPT !.pc = "removeClient"]
    BY <1>1 DEF OnClose, Continues
  <2>2. TypeOK'
    BY <2>1 DEF Inductive, TypeOK, serverVars, LoopPcs
  <2>3. LoopHasConnection'
    BY <2>1 DEF Inductive, TypeOK, LoopHasConnection
  <2> QED
    BY <2>1, <2>2, <2>3, Kept DEF Inductive, serverVars
<1>2. CASE RemoveClient
  <2> DEFINE s == session[loop.conn]
             fd == fdOf[loop.conn]
  <2>1. /\ UNCHANGED <<serverVars, session, rtp, asked, fdOf, phase, describes, owner, push>>
        /\ clients' = [clients EXCEPT ![s][fd] = None]
        /\ MapUnlocked(s) /\ loop' = Idle
        /\ s \in Sessions /\ fd \in Fds
    BY <1>2, LoopHas DEF RemoveClient, Continues
  <2>2. UNCHANGED <<created, group>>
    BY <2>1 DEF serverVars
  <2>3. /\ clients' \in [Sessions -> [Fds -> Conns \cup {None}]]
        /\ clients'[s][fd] = None
        /\ \A t \in Sessions, other \in Fds :
             <<t, other>> # <<s, fd>> => clients'[t][other] = clients[t][other]
        /\ PassedAreCleared'
    <3> HIDE DEF s, fd
    <3> QED
      BY <2>1, <2>2, ListChange
  <2>4. TypeOK' /\ LoopHasConnection'
    <3> HIDE DEF s, fd
    <3> QED
      BY <2>1, <2>3 DEF Inductive, TypeOK, LoopHasConnection, Idle, LoopPcs, serverVars
  <2>5. BoundToAsked'
    <3>1. \A t \in Sessions, other \in Fds :
            clients'[t][other] # None => clients'[t][other] = clients[t][other]
      BY <2>3
    <3> HIDE DEF s, fd
    <3> QED
      BY <2>1, <3>1 DEF Inductive, BoundToAsked, serverVars
  <2> HIDE DEF s, fd
  <2> QED
    BY <2>1, <2>3, <2>4, <2>5, Kept DEF Inductive, serverVars
<1>3. ASSUME NEW c \in Conns, Close(c) PROVE Inductive'
  <2>1. /\ UNCHANGED <<serverVars, fdOf, session, rtp, asked, describes, clients, owner, push>>
        /\ loop.pc = "idle" /\ phase[c] = "open" /\ phase' = [phase EXCEPT ![c] = "closed"]
        /\ loop' = IF session[c] = None THEN Idle ELSE [pc |-> "lookUp", conn |-> c]
    BY <1>3 DEF Close
  <2>2. TypeOK'
    BY <2>1 DEF Inductive, TypeOK, serverVars, LoopPcs, Idle
  <2>3. LoopHasConnection'
    BY <2>1 DEF Inductive, TypeOK, LoopHasConnection, Idle
  <2>4. BoundToAsked'
    BY <2>1 DEF Inductive, TypeOK, BoundToAsked, serverVars
  <2> QED
    BY <2>1, <2>2, <2>3, <2>4, Kept DEF Inductive, serverVars
<1> QED
  BY <1>1, <1>2, <1>3

(* A connection that has ended is bound to nothing.                        *)
LEMMA RemoveConnectionStep ==
  ASSUME Inductive, NEW c \in Conns, RemoveConnection(c)
  PROVE  Inductive'
<1>1. /\ UNCHANGED <<serverVars, describes, clients, loop, owner, push>>
      /\ loop.pc = "idle" /\ phase[c] = "closed" /\ phase' = [phase EXCEPT ![c] = "gone"]
      /\ fdOf' = [fdOf EXCEPT ![c] = None] /\ session' = [session EXCEPT ![c] = None]
      /\ asked' = [asked EXCEPT ![c] = {}] /\ rtp' = [rtp EXCEPT ![c] = NoRtp]
  BY DEF RemoveConnection
<1>2. NoRtp \in Rtp /\ NoRtp.to = None
  BY DEF NoRtp, Rtp
<1>3. TypeOK'
  BY <1>1, <1>2 DEF Inductive, TypeOK, serverVars
<1>4. LoopHasConnection'
  BY <1>1 DEF Inductive, TypeOK, LoopHasConnection
<1>5. /\ phase'[c] = "gone" /\ session'[c] = None /\ rtp'[c].to \notin Groups
      /\ \A d \in Conns \ {c} : /\ phase'[d] = phase[d] /\ session'[d] = session[d]
                                /\ asked'[d] = asked[d] /\ rtp'[d] = rtp[d]
  BY <1>1, <1>2, LiveAssumption DEF Inductive, TypeOK
<1>6. \A t \in Sessions, fd \in Fds : clients[t][fd] # None => clients[t][fd] \in Conns
  BY DEF Inductive, TypeOK
<1>7. BoundToAsked'
  BY <1>1, <1>5, <1>6 DEF Inductive, BoundToAsked, serverVars
<1> QED
  BY <1>1, <1>3, <1>4, <1>7, Kept DEF Inductive, serverVars

(* One thread at a time pushes: no other session's does.                   *)
LEMMA OnePusher ==
  ASSUME Inductive, NEW s \in Sessions, push[s].pc # "idle"
  PROVE  owner = s /\ \A t \in Sessions \ {s} : push[t].pc = "idle"
  BY DEF Inductive, TypeOK

(* A frame goes to a complete session, one at a time.                      *)
LEMMA FrameStep ==
  ASSUME Inductive, NEW s \in Sessions, PushFrame(s) \/ NextPacket(s) \/ FrameDone(s)
  PROVE  Inductive'
<1>1. UNCHANGED <<serverVars, connVars, clients, loop>>
  BY DEF PushFrame, NextPacket, FrameDone
<1> SUFFICES TypeOK' /\ PassedAreCleared'
  BY <1>1, Kept DEF Inductive, serverVars, connVars
<1>2. /\ push[s] \in [pc : {"idle", "packet", "client", "write", "stuck"}, left : 0..MaxPackets,
                      at : Nat, sent : Nat, failed : BOOLEAN]
      /\ MaxPackets \in Nat
  BY LiveAssumption DEF Inductive, TypeOK
<1>3. CASE PushFrame(s)
  <2>1. PICK n \in 1..MaxPackets : push' = [push EXCEPT ![s].pc = "packet", ![s].left = n]
    BY <1>3 DEF PushFrame
  <2>2. owner' = s /\ owner = None /\ created[s] = "ready"
    BY <1>3 DEF PushFrame, Unlocked, Complete
  <2>3. \A t \in Sessions : push[t].pc = "idle"
    BY <2>2, LiveAssumption DEF Inductive, TypeOK
  <2>4. n \in 0..MaxPackets
    BY <1>2
  <2>5. TypeOK'
    BY <1>1, <1>2, <2>1, <2>2, <2>3, <2>4, ZenonT(30) DEF Inductive, TypeOK, serverVars, connVars
  <2>6. PassedAreCleared'
    BY <1>1, <2>1, <2>2, <2>3 DEF Inductive, TypeOK, PassedAreCleared, Beyond, serverVars
  <2> QED
    BY <2>5, <2>6
<1>4. CASE NextPacket(s)
  <2> DEFINE p == [NoPush EXCEPT !.pc = "client", !.left = push[s].left - 1]
  <2>1. /\ push' = [push EXCEPT ![s] = p] /\ owner' = owner /\ push[s].pc = "packet"
        /\ p \in [pc : {"idle", "packet", "client", "write", "stuck"}, left : 0..MaxPackets,
                  at : Nat, sent : Nat, failed : BOOLEAN]
        /\ p.pc = "client" /\ p.sent = 0 /\ ~p.failed /\ p.at = 0
    <3>1. push[s].pc = "packet" /\ push[s].left > 0 /\ push' = [push EXCEPT ![s] = p]
          /\ owner' = owner
      BY <1>4 DEF NextPacket
    <3>2. push[s].left - 1 \in 0..MaxPackets
      BY <1>2, <3>1
    <3> QED
      BY <3>1, <3>2 DEF NoPush
  <2>2. \A fd \in Fds : ~(fd <= 0)
    BY LiveAssumption
  <2> HIDE DEF p
  <2>3. TypeOK'
    BY <1>1, <2>1 DEF Inductive, TypeOK, serverVars, connVars
  <2>4. PassedAreCleared'
    BY <1>1, <2>1, <2>2 DEF Inductive, TypeOK, PassedAreCleared, Beyond, serverVars
  <2> QED
    BY <2>3, <2>4
<1>5. CASE FrameDone(s)
  <2>1. /\ push' = [push EXCEPT ![s] = NoPush] /\ owner' = None /\ push[s].pc = "packet"
        /\ NoPush \in [pc : {"idle", "packet", "client", "write", "stuck"}, left : 0..MaxPackets,
                       at : Nat, sent : Nat, failed : BOOLEAN]
        /\ NoPush.pc = "idle"
    BY <1>2, <1>5 DEF FrameDone, NoPush
  <2>2. \A t \in Sessions \ {s} : push[t].pc = "idle"
    BY <2>1, OnePusher
  <2>3. TypeOK'
    BY <1>1, <2>1, <2>2, LiveAssumption DEF Inductive, TypeOK, serverVars, connVars
  <2>4. PassedAreCleared'
    BY <1>1, <2>1 DEF Inductive, TypeOK, PassedAreCleared, Beyond, serverVars
  <2> QED
    BY <2>3, <2>4
<1> QED
  BY <1>3, <1>4, <1>5

(* A packet goes to one entry after the other; an entry whose connection   *)
(* has ended is cleared, and on a session with a group only such an entry  *)
(* lets the packet go on.                                                  *)
LEMMA PacketStep ==
  ASSUME Inductive, NEW s \in Sessions,
         SendToClient(s) \/ SendOverTcp(s) \/ EndOfClients(s)
  PROVE  Inductive'
<1> DEFINE Pushes == [pc : {"idle", "packet", "client", "write", "stuck"}, left : 0..MaxPackets,
                      at : Nat, sent : Nat, failed : BOOLEAN]
           fd == NextFd(s)
           c == clients[s][fd]
<1>1. UNCHANGED <<serverVars, fdOf, phase, session, asked, describes, loop, owner>>
  BY DEF SendToClient, SendOverTcp, EndOfClients, connVars
<1>2. push[s] \in Pushes /\ push[s].pc \in {"client", "write"}
  BY DEF Inductive, TypeOK, SendToClient, SendOverTcp, EndOfClients
<1>3. ASSUME NEW p \in Pushes, push' = [push EXCEPT ![s] = p], p.pc # "idle",
             rtp' \in [Conns -> Rtp], \A d \in Conns : rtp'[d].to = rtp[d].to,
             clients' = clients, p.pc = "client" => group[s] = None,
             p.pc = "write" => push[s].pc = "client" /\ p = [push[s] EXCEPT !.pc = "write"]
                               /\ Beyond(s) # {}
      PROVE  Inductive'
  <2>1. TypeOK'
    BY <1>1, <1>2, <1>3 DEF Inductive, TypeOK, serverVars
  <2>2. PassedAreCleared'
    <3>1. \A t \in Sessions \ {s} : push'[t] = push[t]
      BY <1>3 DEF Inductive, TypeOK
    <3>2. push'[s] = p
      BY <1>3 DEF Inductive, TypeOK
    <3>3. p.pc = "write" => /\ p.at = push[s].at /\ p.sent = push[s].sent
                            /\ p.failed = push[s].failed
      BY <1>2, <1>3
    <3> QED
      BY <1>1, <1>2, <1>3, <3>1, <3>2, <3>3 DEF Inductive, PassedAreCleared, Beyond, serverVars
  <2> QED
    BY <1>1, <1>3, <2>1, <2>2, Kept DEF Inductive, serverVars
<1>4. CASE EndOfClients(s)
  <2> DEFINE p == [push[s] EXCEPT !.pc = "packet"]
  <2>1. /\ push' = [push EXCEPT ![s] = p] /\ clients' = clients /\ rtp' = rtp
        /\ p \in Pushes /\ p.pc = "packet"
    BY <1>2, <1>4 DEF EndOfClients, connVars
  <2>2. rtp \in [Conns -> Rtp]
    BY DEF Inductive, TypeOK
  <2> HIDE DEF Pushes, p
  <2> QED
    BY <1>3, <2>1, <2>2
<1>5. CASE SendToClient(s) \/ SendOverTcp(s)
  <2>1. Beyond(s) # {}
    BY <1>5 DEF SendToClient, SendOverTcp, Inductive, PassedAreCleared
  <2>2. /\ fd \in Fds /\ fd \in Nat /\ push[s].at \in Nat /\ fd > push[s].at /\ c \in Conns
        /\ \A other \in Fds : other > push[s].at /\ other <= fd /\ clients[s][other] # None
                              => other = fd
    BY <2>1, NextIsFirst, Zenon DEF Inductive
  <2>3. Visited(s) \in Pushes /\ Visited(s).pc \in {"packet", "client"}
        /\ (Visited(s).pc = "client" => group[s] = None)
    <3>1. NextFd(s) \in Nat
      BY <2>2
    <3> QED
      BY <1>2, <3>1 DEF Visited, Breaks
  <2>4. rtp \in [Conns -> Rtp]
    BY DEF Inductive, TypeOK
  <2>5. CASE /\ push[s].pc = "client"
             /\ clients' = [clients EXCEPT ![s][fd] = None]
             /\ push' = [push EXCEPT ![s].at = fd] /\ rtp' = rtp
    <3> HIDE DEF c, fd
    <3>1. /\ clients' \in [Sessions -> [Fds -> Conns \cup {None}]]
          /\ clients'[s][fd] = None
          /\ \A t \in Sessions, other \in Fds :
               <<t, other>> # <<s, fd>> => clients'[t][other] = clients[t][other]
      BY <2>2, <2>5 DEF Inductive, TypeOK
    <3>2. /\ push' \in [Sessions -> Pushes] /\ push'[s] = [push[s] EXCEPT !.at = fd]
          /\ \A t \in Sessions \ {s} : push'[t] = push[t]
      <4> DEFINE p == [push[s] EXCEPT !.at = fd]
      <4>1. p \in Pushes /\ push' = [push EXCEPT ![s] = p] /\ push \in [Sessions -> Pushes]
        BY <1>2, <2>2, <2>5 DEF Inductive, TypeOK
      <4> HIDE DEF p, Pushes
      <4>2. /\ push' \in [Sessions -> Pushes] /\ push'[s] = p
            /\ \A t \in Sessions \ {s} : push'[t] = push[t]
        BY <4>1
      <4> QED
        BY <4>2 DEF p
    <3>3. /\ push'[s].pc = "client" /\ push'[s].at = fd /\ push'[s].sent = push[s].sent
          /\ push'[s].failed = push[s].failed
      BY <1>2, <2>5, <3>2
    <3>4. TypeOK'
      <4>1. \A t \in Sessions : push'[t].pc = push[t].pc
        BY <1>2, <2>5, <3>2, <3>3
      <4> QED
        BY <1>1, <2>4, <2>5, <3>1, <3>2, <4>1 DEF Inductive, TypeOK, serverVars
    <3>5. BoundToAsked'
      <4>1. \A t \in Sessions, other \in Fds :
              clients'[t][other] # None => clients'[t][other] = clients[t][other]
        BY <3>1
      <4> QED
        BY <1>1, <2>5, <4>1 DEF Inductive, BoundToAsked, serverVars
    <3>6. PassedAreCleared'
      <4>1. \A t \in Sessions \ {s} : push[t].pc = "idle"
        BY <1>2, OnePusher
      <4>2. created[s] = "ready" /\ created' = created /\ group' = group
        BY <1>1, <1>2 DEF Inductive, PassedAreCleared, Beyond, serverVars
      <4>3. ASSUME group[s] # None
            PROVE  /\ push[s].sent = 0 /\ ~push[s].failed
                   /\ \A other \in Fds : other <= push[s].at => clients[s][other] = None
        BY <1>2, <4>3 DEF Inductive, PassedAreCleared, Beyond
      <4>4. ASSUME group[s] # None, NEW other \in Fds, other <= fd
            PROVE  clients'[s][other] = None
        <5>1. other \in Nat
          BY LiveAssumption
        <5>2. CASE other = fd
          BY <3>1, <5>2
        <5>3. CASE other # fd
          <6>1. clients'[s][other] = clients[s][other]
            BY <3>1, <5>3
          <6>2. CASE other <= push[s].at
            BY <4>3, <4>4, <6>1, <6>2
          <6>3. CASE other > push[s].at
            BY <2>2, <4>4, <5>3, <6>1, <6>3
          <6> QED
            BY <2>2, <5>1, <6>2, <6>3
        <5> QED
          BY <5>2, <5>3
      <4> QED
        BY <3>2, <3>3, <4>1, <4>2, <4>3, <4>4 DEF PassedAreCleared, Beyond
    <3> QED
      BY <1>1, <2>5, <3>4, <3>5, <3>6, Kept DEF Inductive, serverVars
  <2>6. CASE push' = [push EXCEPT ![s] = Visited(s)] /\ UNCHANGED <<clients, rtp>>
    <3> HIDE DEF Pushes, c, fd
    <3> QED
      BY <1>3, <2>3, <2>4, <2>6
  <2>7. CASE push' = [push EXCEPT ![s] = [Visited(s) EXCEPT !.sent = @ + 1]] /\ UNCHANGED <<clients, rtp>>
    <3> DEFINE p == [Visited(s) EXCEPT !.sent = @ + 1]
    <3>1. p \in Pushes /\ p.pc = Visited(s).pc
      <4> QED
        BY <2>3
    <3>2. push' = [push EXCEPT ![s] = p]
      BY <2>7
    <3> HIDE DEF p, Pushes, c, fd
    <3> QED
      BY <1>3, <2>3, <2>4, <2>7, <3>1, <3>2
  <2>8. CASE /\ rtp' = [rtp EXCEPT ![c] = TornDown(@)] /\ clients' = clients
             /\ push' = [push EXCEPT ![s] = [Visited(s) EXCEPT !.failed = TRUE]]
    <3> DEFINE p == [Visited(s) EXCEPT !.failed = TRUE]
    <3>1. p \in Pushes /\ p.pc = Visited(s).pc
      <4> QED
        BY <2>3
    <3>2. push' = [push EXCEPT ![s] = p] /\ rtp' = [rtp EXCEPT ![c] = TornDown(rtp[c])]
      BY <2>8
    <3>3. TornDown(rtp[c]) \in Rtp /\ TornDown(rtp[c]).to = rtp[c].to
      BY <2>2, Records, Zenon DEF Inductive
    <3>4. rtp' \in [Conns -> Rtp] /\ \A d \in Conns : rtp'[d].to = rtp[d].to
      <4> HIDE DEF c
      <4> QED
        BY <2>4, <3>2, <3>3
    <3> HIDE DEF p, Pushes, c, fd
    <3> QED
      BY <1>3, <2>3, <2>8, <3>1, <3>2, <3>4
  <2>9. CASE push' = [push EXCEPT ![s].pc = "stuck"] /\ UNCHANGED <<clients, rtp>>
    <3> DEFINE p == [push[s] EXCEPT !.pc = "stuck"]
    <3>1. p \in Pushes /\ p.pc = "stuck" /\ push' = [push EXCEPT ![s] = p]
      BY <1>2, <2>9
    <3> HIDE DEF p, Pushes, c, fd
    <3> QED
      BY <1>3, <2>4, <2>9, <3>1
  <2>13. CASE push' = [push EXCEPT ![s] = [Visited(s) EXCEPT !.failed = TRUE]] /\ UNCHANGED <<clients, rtp>>
    <3> DEFINE p == [Visited(s) EXCEPT !.failed = TRUE]
    <3>1. p \in Pushes /\ p.pc = Visited(s).pc
      BY <2>3
    <3>2. push' = [push EXCEPT ![s] = p]
      BY <2>13
    <3> HIDE DEF p, Pushes, c, fd
    <3> QED
      BY <1>3, <2>3, <2>4, <2>13, <3>1, <3>2
  <2>10. CASE /\ push[s].pc = "client" /\ UNCHANGED <<clients, rtp>>
              /\ push' = [push EXCEPT ![s] = [@ EXCEPT !.pc = "write"]]
    <3> DEFINE p == [push[s] EXCEPT !.pc = "write"]
    <3>1. p \in Pushes /\ p.pc = "write" /\ push' = [push EXCEPT ![s] = p]
      BY <1>2, <2>10
    <3>2. p = [push[s] EXCEPT !.pc = "write"]
      OBVIOUS
    <3> HIDE DEF p, Pushes, c, fd
    <3> QED
      BY <1>3, <2>1, <2>4, <2>10, <3>1, <3>2
  <2>11. CASE SendToClient(s)
    BY <2>5, <2>6, <2>7, <2>8, <2>10, <2>11 DEF SendToClient
  <2>12. CASE SendOverTcp(s)
    BY <2>7, <2>9, <2>12, <2>13 DEF SendOverTcp, connVars
  <2> QED
    BY <1>5, <2>11, <2>12
<1> QED
  BY <1>4, <1>5

(* Every step keeps the invariant.                                         *)
LEMMA InductiveNext == Inductive /\ [Next]_vars => Inductive'
<1> SUFFICES ASSUME Inductive, [Next]_vars PROVE Inductive'
  OBVIOUS
<1>1. CASE UNCHANGED vars
  <2>1. TypeOK'
    BY <1>1 DEF vars, serverVars, connVars, Inductive, TypeOK
  <2> QED
    BY <1>1, <2>1, Kept DEF vars, serverVars, connVars, Inductive
<1>2. CASE Next
  BY <1>2, CreationStep, FrameStep, PacketStep, AcceptStep, CommandStep, DescribeStep,
     ClosingStep, RemoveConnectionStep, AddClientStep DEF Next, Push
<1> QED
  BY <1>1, <1>2

(* The invariant holds in every reachable state.                           *)
LEMMA InductiveHolds == Spec => []Inductive
  BY InductiveInit, InductiveNext, PTL DEF Spec

(* Every variable keeps its type, and mutex_ belongs to the one thread     *)
(* that pushes a frame (RtspServer::PushFrame).                            *)
THEOREM TypeCorrect == Spec => []TypeOK
<1>1. Inductive => TypeOK
  BY DEF Inductive
<1> QED
  BY <1>1, InductiveHolds, PTL

(* A listed client receives the group of another session only if it has    *)
(* described both, whatever the clients ask for and in whatever order      *)
(* (MulticastAddr::GetAddr, HandleCmdSetup, AddClient).                    *)
THEOREM StraysSafe == Spec => []StraysOnlyIfDescribed
<1>1. ASSUME Inductive PROVE StraysOnlyIfDescribed
  <2> SUFFICES ASSUME NEW s \in Sessions, NEW other \in Sessions, NEW fd \in Fds,
                      clients[s][fd] # None, phase[clients[s][fd]] = "open",
                      rtp[clients[s][fd]].to # None, rtp[clients[s][fd]].to = group[other]
               PROVE  {s, other} \subseteq asked[clients[s][fd]]
    BY DEF StraysOnlyIfDescribed
  <2> DEFINE c == clients[s][fd]
  <2>1. c \in Conns /\ asked[c] \subseteq Sessions /\ group[other] \in Groups
    BY <1>1 DEF Inductive, TypeOK
  <2>2. s \in asked[c]
    BY <1>1 DEF Inductive, BoundToAsked
  <2>3. PICK t \in asked[c] : group[t] = group[other]
    BY <1>1, <2>1 DEF Inductive, BoundToAsked
  <2>4. t = other
    BY <1>1, <2>1, <2>3, LiveAssumption DEF Inductive, GroupsAreApart
  <2> QED
    BY <2>2, <2>3, <2>4
<1> QED
  BY <1>1, InductiveHolds, PTL

(* The answer names the group unless somebody asked too early, for every   *)
(* number of sessions and order of requests (GetSdpMessage).               *)
THEOREM SdpSafe == Spec => []SdpNamesGroup
<1>1. Inductive => SdpNamesGroup
  BY DEF Inductive, AnsweredWhenReady, SdpNamesGroup, Media
<1> QED
  BY <1>1, InductiveHolds, PTL

(* Only the session's own emitter ends its packets.                        *)
LEMMA EndsItsOwnPacket ==
  ASSUME Inductive, Next, NEW s \in Sessions, SilentFor(s)
  PROVE  SendToClient(s) \/ SendOverTcp(s) \/ EndOfClients(s)
<1>1. push[s].pc \in {"client", "write"} /\ push' # push
  BY DEF SilentFor
<1>2. PICK t \in Sessions : PushFrame(t) \/ Push(t)
  BY <1>1 DEF Next, AddSession, AddSource, StartMulticast, Creates, Accept, Setup, Play, Teardown,
              Close, RemoveConnection, Describe, Command, AddClient, OnClose, RemoveClient, Continues
<1>3. CASE PushFrame(t)
  BY <1>1, <1>3, OnePusher, LiveAssumption DEF PushFrame, Unlocked
<1>4. CASE Push(t)
  <2>1. push[t].pc # "idle"
    BY <1>4 DEF Push, NextPacket, FrameDone, SendToClient, SendOverTcp, EndOfClients
  <2>2. t = s
    BY <1>1, <2>1, OnePusher
  <2> QED
    BY <1>1, <1>4, <2>2 DEF Push, NextPacket, FrameDone
<1> QED
  BY <1>2, <1>3, <1>4

(* On a session with a group a packet that reaches nobody met a connection *)
(* that does not play or is closing over TCP, a send that failed, or only  *)
(* entries that had ended: for every number of connections in the list     *)
(* (MediaSession::AddSource, TcpConnection::Send).                         *)
THEOREM SilentSafe == Spec => SilentOnlyIfDeafClient
<1> DEFINE Excused(s) ==
      \/ push'[s].failed
      \/ \A fd \in Fds : clients'[s][fd] = None
      \/ \E fd \in Fds : /\ clients[s][fd] # None
                         /\ phase[clients[s][fd]] # "gone" /\ Deaf(clients[s][fd])
<1>1. ASSUME Inductive, Next, NEW s \in Sessions, SilentFor(s), group[s] # None
      PROVE  Excused(s)
  <2> DEFINE fd == NextFd(s)
             c == clients[s][fd]
  <2>1. push'[s].pc = "packet" /\ push'[s].sent = 0
    BY <1>1 DEF SilentFor
  <2>2. CASE EndOfClients(s)
    <3>1. clients' = clients /\ \A other \in Fds : other > push[s].at => clients[s][other] = None
      BY <2>2 DEF EndOfClients, Beyond
    <3>2. \A other \in Fds : other <= push[s].at => clients[s][other] = None
      BY <1>1, <2>2 DEF Inductive, PassedAreCleared, EndOfClients
    <3>3. ASSUME NEW other \in Fds PROVE other > push[s].at \/ other <= push[s].at
      <4>1. push[s].at \in Nat
        BY <1>1 DEF Inductive, TypeOK
      <4>2. other \in Nat
        BY LiveAssumption
      <4> QED
        BY <4>1, <4>2
    <3> QED
      BY <3>1, <3>2, <3>3
  <2>3. push \in [Sessions -> [pc : {"idle", "packet", "client", "write", "stuck"},
                              left : 0..MaxPackets, at : Nat, sent : Nat, failed : BOOLEAN]]
    BY <1>1 DEF Inductive, TypeOK
  <2>4. push[s].sent \in Nat /\ Visited(s).sent = push[s].sent
    BY <2>3 DEF Visited
  <2>5. push' # [push EXCEPT ![s] = [Visited(s) EXCEPT !.sent = @ + 1]]
    <3> DEFINE p == [Visited(s) EXCEPT !.sent = @ + 1]
    <3>1. p.sent = push[s].sent + 1 /\ p.sent # 0
      BY <2>4 DEF Visited
    <3>2. push' = [push EXCEPT ![s] = p] => push'[s] = p
      BY <2>3
    <3> QED
      BY <2>1, <3>1, <3>2
  <2>6. push' = [push EXCEPT ![s] = [Visited(s) EXCEPT !.failed = TRUE]] => push'[s].failed
    BY <2>3 DEF Visited
  <2>7. CASE SendToClient(s)
    <3>1. Beyond(s) # {}
      BY <2>7 DEF SendToClient
    <3>2. fd \in Fds /\ c # None
      <4>1. fd \in Fds /\ c \in Conns
        BY <1>1, <3>1, NextIsFirst, Zenon DEF Inductive
      <4> QED
        BY <4>1, LiveAssumption
    <3>3. CASE phase[c] # "gone" /\ Deaf(c)
      BY <3>2, <3>3
    <3>4. push' # [push EXCEPT ![s].at = fd] \/ push[s].pc # "client"
      BY <2>1, <2>3
    <3>5. push' # [push EXCEPT ![s] = [@ EXCEPT !.pc = "write"]]
      BY <2>1, <2>3
    <3> QED
      BY <2>5, <2>6, <2>7, <3>3, <3>4, <3>5 DEF SendToClient, Deaf
  <2>8. CASE SendOverTcp(s)
    <3>1. push' # [push EXCEPT ![s].pc = "stuck"]
      BY <2>1, <2>3
    <3> QED
      BY <2>5, <2>6, <2>8, <3>1 DEF SendOverTcp
  <2> QED
    BY <1>1, <2>2, <2>7, <2>8, EndsItsOwnPacket
<1> HIDE DEF Excused
<1>2. ASSUME Inductive, [Next]_vars
      PROVE  [\A s \in Sessions : SilentFor(s) /\ group[s] # None => Excused(s)]_vars
  BY <1>1, <1>2
<1> USE DEF Excused
<1> QED
  BY <1>2, InductiveHolds, PTL DEF Spec, SilentOnlyIfDeafClient
=============================================================================
