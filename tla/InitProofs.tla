----------------------------- MODULE InitProofs -----------------------------
(***************************************************************************)
(* init listens where it can hear sysmaster, and there is one sysmaster at *)
(* most, for any set of pids, any timeout and any number of faults.        *)
(*                                                                         *)
(* The second rests on the SIGCHLD that makes init execute itself anew: it *)
(* tells of the sysmaster that is the last one only while no signal has    *)
(* reaped its process before, which do_recycle and the wait for            *)
(* switch-root see to.                                                     *)
(***************************************************************************)
EXTENDS Init, SequenceTheorems, TLAPS

\* No orphan has the pid of a sysmaster, and every pid is one.
PidsDiffer == Sysmasters \cap Orphans = {} /\ "" \notin ProcessSet

Phase == {"none", "exec", "boot", "up", "stuck", "hung", "leaving", "zombie"}

Conn == [pid : ProcessSet, open : BOOLEAN, msg : BOOLEAN]

\* Each field of its type; cnt, due, sent, switch and faults decide nothing here.
ItType ==
  [state : {"Reexec", "Run", "Unrecover"}, need_reexec : BOOLEAN, switching : BOOLEAN,
   pid : Sysmasters \cup {""}, cnt : Int, online : {"listen", "connect"},
   conn : Conn \cup {NoConn}, backlog : Seq(Conn), chld : ProcessSet \cup {""},
   sigs : SUBSET Signals, due : BOOLEAN, sent : BOOLEAN, proc : [ProcessSet -> Phase],
   switch : BOOLEAN, faults : Int]

Heard(m) ==
  /\ m.state = "Run" => m.online = "connect"
  /\ m.state = "Reexec" /\ ~m.need_reexec => m.online = "listen"
  /\ m.online = "connect" <=> m.conn # NoConn

One(m) == m.pid \in Sysmasters /\ \A p \in Sysmasters : is_living(m.proc[p]) => p = m.pid

\* Until init is told to give up, a SIGCHLD that is pending tells of a zombie; what is
\* pending for switch-root is not recoverable.
Told(m) ==
  /\ m.switching => m.state = "Unrecover"
  /\ (m.state # "Unrecover" \/ m.switching) /\ m.chld # "" => m.proc[m.chld] = "zombie"

Sound(m) == m \in ItType /\ Heard(m) /\ One(m) /\ Told(m)

\* What holds within a handler, too.
Linked(m) == m.online = "connect" <=> m.conn # NoConn

Base(m) == m \in ItType /\ Linked(m) /\ One(m) /\ Told(m)

\* t differs from m in nothing that Sound depends on.
Like(m, t) ==
  /\ t \in ItType /\ t.state = m.state /\ t.need_reexec = m.need_reexec
  /\ t.switching = m.switching /\ t.pid = m.pid /\ t.online = m.online
  /\ t.conn = NoConn <=> m.conn = NoConn
  /\ t.chld = m.chld /\ t.proc = m.proc

-----------------------------------------------------------------------------
(* Processes *)

LEMMA LikeOK ==
  ASSUME NEW m, NEW t, Sound(m), Like(m, t)
  PROVE  Sound(t)
<1>1. Heard(t)
  BY DEF Sound, Like, Heard
<1>2. One(t)
  BY DEF Sound, Like, One
<1>3. Told(t)
  BY DEF Sound, Like, Told
<1>4. QED
  BY <1>1, <1>2, <1>3 DEF Sound, Like

LEMMA NoneIsNone ==
  ASSUME PidsDiffer
  PROVE  NoConn \notin Conn
  BY DEF NoConn, Conn, PidsDiffer

\* A connection that is shut or told something stays one, and none stays none.
LEMMA ConnsLike ==
  ASSUME PidsDiffer, NEW m \in ItType, NEW f, NEW b, NEW t,
         b \in Seq(Conn), f \in Conn \cup {NoConn}, f = NoConn <=> m.conn = NoConn,
         t = [m EXCEPT !.conn = f, !.backlog = b]
  PROVE  Like(m, t)
  BY ZenonT(60) DEF Like, ItType

LEMMA Mapped ==
  ASSUME NEW b \in Seq(Conn), NEW g, DOMAIN g = DOMAIN b, \A i \in DOMAIN b : g[i] \in Conn,
         g = [i \in DOMAIN b |-> g[i]]
  PROVE  g \in Seq(Conn)
<1>1. Len(b) \in Nat /\ DOMAIN b = 1..Len(b)
  BY LenProperties
<1>2. g \in [1..Len(b) -> Conn]
  BY <1>1
<1>3. QED
  BY <1>1, <1>2, SeqDef

LEMMA HangUp ==
  ASSUME PidsDiffer, NEW m \in ItType, NEW p \in ProcessSet
  PROVE  Like(m, hang_up(m, p))
<1> DEFINE shut(c) == IF c.pid = p THEN [c EXCEPT !.open = FALSE] ELSE c
           b == [i \in DOMAIN m.backlog |-> shut(m.backlog[i])]
<1>1. m.backlog \in Seq(Conn) /\ m.conn \in Conn \cup {NoConn}
  BY DEF ItType
<1>2. \A c \in Conn : shut(c) \in Conn
  BY DEF Conn
<1>3. NoConn.pid = "" /\ NoConn \notin Conn
  BY NoneIsNone DEF NoConn
<1>4. shut(NoConn) = NoConn
  BY <1>3 DEF PidsDiffer
<1>5. b \in Seq(Conn)
  <2>1. \A i \in DOMAIN m.backlog : m.backlog[i] \in Conn
    BY <1>1, ElementOfSeq, LenProperties
  <2>2. \A i \in DOMAIN m.backlog : b[i] \in Conn
    BY <1>2, <2>1
  <2>3. DOMAIN b = DOMAIN m.backlog /\ b = [i \in DOMAIN m.backlog |-> b[i]]
    OBVIOUS
  <2> HIDE DEF b
  <2>4. QED
    BY <1>1, <2>2, <2>3, Mapped
<1>6. shut(m.conn) \in Conn \cup {NoConn} /\ (shut(m.conn) = NoConn <=> m.conn = NoConn)
  BY <1>1, <1>2, <1>3, <1>4
<1>7. hang_up(m, p) = [m EXCEPT !.conn = shut(m.conn), !.backlog = b]
  BY DEF hang_up, ItType
<1>8. QED
  BY <1>5, <1>6, <1>7, ConnsLike

\* A process that is not a zombie may go to any phase, if it is the sysmaster or does
\* not live thereafter.
LEMMA PhaseOK ==
  ASSUME NEW m, Sound(m), NEW p \in ProcessSet, NEW ph \in Phase, NEW t,
         m.proc[p] # "zombie", is_living(ph) => p = m.pid \/ p \notin Sysmasters,
         t = [m EXCEPT !.proc[p] = ph]
  PROVE  Sound(t)
<1>1. /\ t \in ItType /\ t.state = m.state /\ t.need_reexec = m.need_reexec
      /\ t.switching = m.switching /\ t.pid = m.pid /\ t.online = m.online
      /\ t.conn = m.conn /\ t.chld = m.chld /\ t.proc = [m.proc EXCEPT ![p] = ph]
      /\ m.proc \in [ProcessSet -> Phase] /\ m.chld \in ProcessSet \cup {""}
  BY DEF Sound, ItType
<1>2. Heard(t)
  BY <1>1 DEF Sound, Heard
<1>3. \A q \in ProcessSet : t.proc[q] = IF q = p THEN ph ELSE m.proc[q]
  BY <1>1, ZenonT(60)
<1>4. One(t)
  <2>1. \A q \in Sysmasters : q \in ProcessSet
    BY DEF ProcessSet
  <2>2. One(m) /\ t.pid = m.pid
    BY <1>1 DEF Sound
  <2>3. QED
    BY <1>3, <2>1, <2>2 DEF One
<1>5. Told(t)
  <2>1. m.chld # "" /\ m.proc[m.chld] = "zombie" => t.proc[m.chld] = "zombie"
    BY <1>3, <1>1
  <2>2. Told(m)
    BY DEF Sound
  <2>3. QED
    BY <1>1, <2>1, <2>2 DEF Told
<1>6. QED
  BY <1>1, <1>2, <1>4, <1>5 DEF Sound

LEMMA EndOK ==
  ASSUME PidsDiffer, NEW m, Sound(m), NEW p \in ProcessSet
  PROVE  /\ Sound(end(m, p)) /\ end(m, p).pid = m.pid /\ end(m, p).state = m.state
         /\ ~is_living(end(m, p).proc[p])
<1>1. CASE ~is_living(m.proc[p])
  BY <1>1 DEF end
<1>2. CASE is_living(m.proc[p])
  <2> DEFINE h == hang_up(m, p)
             chld == IF m.chld = "" THEN p ELSE m.chld
             t == end(m, p)
  <2>1. Like(m, h) /\ Sound(h)
    BY HangUp, LikeOK DEF Sound
  <2>2. h.chld = m.chld /\ h.proc = m.proc /\ h.pid = m.pid /\ h.state = m.state
    BY <2>1 DEF Like
  <2>3. t = [h EXCEPT !.proc[p] = "zombie", !.chld = chld]
    BY <1>2, <2>2 DEF end
  <2>4. h \in ItType /\ chld \in ProcessSet \cup {""} /\ "zombie" \in Phase
    BY <2>1, <2>2 DEF Like, ItType, Phase
  <2> HIDE DEF h, t, chld
  <2>5. /\ t \in ItType /\ t.state = h.state /\ t.need_reexec = h.need_reexec
        /\ t.switching = h.switching /\ t.pid = h.pid /\ t.online = h.online
        /\ t.conn = h.conn /\ t.chld = chld /\ t.proc = [h.proc EXCEPT ![p] = "zombie"]
        /\ h.proc \in [ProcessSet -> Phase] /\ h.chld \in ProcessSet \cup {""}
    BY <2>3, <2>4 DEF ItType
  <2>6. Heard(t)
    BY <2>1, <2>5 DEF Sound, Heard
  <2>7. \A q \in ProcessSet : t.proc[q] = IF q = p THEN "zombie" ELSE h.proc[q]
    BY <2>5
  <2>8. One(t)
    <3>1. \A q \in Sysmasters : q \in ProcessSet
      BY DEF ProcessSet
    <3>2. One(h) /\ t.pid = h.pid
      BY <2>1, <2>5 DEF Sound
    <3>3. QED
      BY <2>7, <3>1, <3>2 DEF One, is_living
  <2>9. Told(t)
    <3>1. h.chld # "" /\ h.proc[h.chld] = "zombie" => t.chld = h.chld /\ t.proc[t.chld] = "zombie"
      BY <2>7, <2>2, <2>5 DEF chld
    <3>2. h.chld = "" => t.proc[t.chld] = "zombie"
      BY <2>7, <2>2, <2>5 DEF chld
    <3>3. Told(h)
      BY <2>1 DEF Sound
    <3>4. QED
      BY <2>5, <3>1, <3>2, <3>3 DEF Told
  <2>10. ~is_living(t.proc[p])
    BY <2>5 DEF is_living
  <2>11. QED
    BY <2>2, <2>5, <2>6, <2>8, <2>9, <2>10 DEF Sound, t
<1>3. QED
  BY <1>1, <1>2

LEMMA ReexecuteOK ==
  ASSUME PidsDiffer, NEW m, Sound(m), NEW p \in Sysmasters, is_living(m.proc[p])
  PROVE  Sound(do_reexecute(m, p))
<1> DEFINE h == hang_up(m, p)
<1>1. Like(m, h) /\ Sound(h) /\ p \in ProcessSet
  BY HangUp, LikeOK DEF Sound, ProcessSet
<1>2. h.proc = m.proc /\ h.pid = m.pid /\ p = m.pid /\ h.proc[p] # "zombie"
  BY <1>1 DEF Like, Sound, One, is_living
<1>3. do_reexecute(m, p) = [h EXCEPT !.proc[p] = "exec"] /\ "exec" \in Phase
  BY DEF do_reexecute, Phase
<1> HIDE DEF h
<1>4. QED
  BY <1>1, <1>2, <1>3, PhaseOK

LEMMA SignalOK ==
  ASSUME PidsDiffer, NEW m, Sound(m), NEW p \in Sysmasters
  PROVE  /\ Sound(crash_reexec(m, p))
         /\ Sound(switch_root(m, p)) /\ switch_root(m, p).state = m.state
<1>0. p \in ProcessSet /\ m \in ItType
  BY DEF ProcessSet, Sound
<1>1. Sound(crash_reexec(m, p))
  BY <1>0, EndOK, ReexecuteOK DEF crash_reexec
<1>2. CASE m.proc[p] = "exec"
  BY <1>0, <1>1, <1>2, EndOK DEF switch_root
<1>3. CASE m.proc[p] # "exec" /\ is_living(m.proc[p])
  <2>1. switch_root(m, p) = [m EXCEPT !.proc[p] = "leaving"] /\ "leaving" \in Phase
    BY <1>3 DEF switch_root, Phase
  <2>2. p = m.pid /\ m.proc[p] # "zombie"
    BY <1>3 DEF Sound, One, is_living
  <2>3. Sound(switch_root(m, p))
    BY <1>0, <2>1, <2>2, PhaseOK
  <2>4. switch_root(m, p).state = m.state
    BY <1>0, <2>1 DEF ItType
  <2>5. QED
    BY <1>1, <2>3, <2>4
<1>4. CASE m.proc[p] # "exec" /\ ~is_living(m.proc[p])
  BY <1>1, <1>4 DEF switch_root
<1>5. QED
  BY <1>2, <1>3, <1>4

\* Zombies are reaped: not the one that a pending SIGCHLD tells of, or when init has
\* been told to give up.
LEMMA ReapOK ==
  ASSUME NEW m, Sound(m), NEW pids,
         m.chld = "" \/ (m.state = "Unrecover" /\ ~m.switching)
  PROVE  Sound(reap(m, pids))
<1> DEFINE proc == [p \in ProcessSet |-> IF p \in pids /\ m.proc[p] = "zombie" THEN "none"
                                         ELSE m.proc[p]]
           t == reap(m, pids)
<1>1. /\ proc \in [ProcessSet -> Phase]
      /\ \A p \in ProcessSet : is_living(proc[p]) => is_living(m.proc[p])
  BY DEF Sound, ItType, Phase, is_living
<1>2. t = [m EXCEPT !.proc = proc]
  BY DEF reap, Sound, ItType
<1> HIDE DEF proc, t
<1>3. /\ t \in ItType /\ t.state = m.state /\ t.need_reexec = m.need_reexec
      /\ t.switching = m.switching /\ t.pid = m.pid /\ t.online = m.online
      /\ t.conn = m.conn /\ t.chld = m.chld /\ t.proc = proc
  BY <1>1, <1>2 DEF Sound, ItType
<1>4. Heard(t)
  BY <1>3 DEF Sound, Heard
<1>5. One(t)
  BY <1>1, <1>3 DEF Sound, One, ProcessSet, is_living
<1>6. Told(t)
  BY <1>3 DEF Sound, Told
<1>7. QED
  BY <1>3, <1>4, <1>5, <1>6 DEF Sound, t

-----------------------------------------------------------------------------
(* Handlers *)

LEMMA SoundBase ==
  ASSUME NEW m, Sound(m)
  PROVE  Base(m)
  BY DEF Sound, Heard, Base, Linked

LEMMA FinishOK ==
  ASSUME NEW m, Base(m), m.state # "Run"
  PROVE  Sound(finish(m)) /\ finish(m).pid = m.pid
<1>1. CASE m.online = "listen"
  BY <1>1 DEF finish, set_online_fd, Sound, Base, Linked, Heard
<1>2. CASE m.online = "connect"
  <2> DEFINE t == finish(m)
  <2>1. t = [m EXCEPT !.conn = NoConn, !.online = "listen"]
    BY <1>2 DEF finish, set_online_fd, do_listen_set
  <2> HIDE DEF t
  <2>2. /\ t \in ItType /\ t.state = m.state /\ t.switching = m.switching /\ t.pid = m.pid
        /\ t.online = "listen" /\ t.conn = NoConn /\ t.chld = m.chld /\ t.proc = m.proc
    BY <2>1 DEF Base, ItType
  <2>3. Heard(t)
    BY <2>2 DEF Heard
  <2>4. One(t) /\ Told(t)
    BY <2>2 DEF Base, One, Told
  <2>5. QED
    BY <2>2, <2>3, <2>4 DEF Sound, t
<1>3. QED
  BY <1>1, <1>2 DEF Base, ItType

\* A fork makes the only sysmaster.
LEMMA CreateOK ==
  ASSUME NEW m \in ItType, Heard(m), Told(m), \A p \in Sysmasters : ~is_living(m.proc[p]),
         NEW t \in create_sysmaster(m)
  PROVE  Sound(t)
<1>1. PICK p \in Sysmasters : m.proc[p] = "none" /\ t = [m EXCEPT !.pid = p, !.proc[p] = "exec"]
  BY DEF create_sysmaster
<1>2. p \in ProcessSet /\ Sysmasters \subseteq ProcessSet
  BY DEF ProcessSet
<1>3. /\ t \in ItType /\ t.state = m.state /\ t.need_reexec = m.need_reexec
      /\ t.switching = m.switching /\ t.pid = p /\ t.online = m.online
      /\ t.conn = m.conn /\ t.chld = m.chld /\ t.proc = [m.proc EXCEPT ![p] = "exec"]
      /\ m.proc \in [ProcessSet -> Phase] /\ m.chld \in ProcessSet \cup {""}
  BY <1>1, <1>2 DEF ItType, Phase
<1>4. \A q \in ProcessSet : t.proc[q] = IF q = p THEN "exec" ELSE m.proc[q]
  BY <1>3
<1>5. Heard(t)
  BY <1>3 DEF Heard
<1>6. One(t)
  BY <1>2, <1>3, <1>4 DEF One
<1>7. Told(t)
  <2>1. m.chld # "" /\ m.proc[m.chld] = "zombie" => t.proc[m.chld] = "zombie"
    BY <1>1, <1>3, <1>4
  <2>2. QED
    BY <1>3, <2>1 DEF Told
<1>8. QED
  BY <1>3, <1>5, <1>6, <1>7, ZenonT(60) DEF Sound

LEMMA ZeroInt == 0 \in Int
  OBVIOUS

LEMMA NewOK ==
  ASSUME NEW m \in ItType, m.chld = "", \A p \in Sysmasters : ~is_living(m.proc[p]),
         NEW t \in RunTime_new(m)
  PROVE  Sound(t)
<1>1. PICK n : /\ t \in create_sysmaster(n)
               /\ n = [m EXCEPT !.state = "Reexec", !.need_reexec = FALSE, !.switching = FALSE,
                                !.cnt = 0, !.online = "listen", !.conn = NoConn,
                                !.backlog = <<>>, !.due = FALSE]
  BY DEF RunTime_new
<1>2. <<>> \in Seq(Conn)
  BY EmptySeq
<1>3. NoConn \in Conn \cup {NoConn}
  OBVIOUS
<1>4. /\ n \in ItType /\ n.state = "Reexec" /\ n.switching = FALSE /\ n.online = "listen"
      /\ n.conn = NoConn /\ n.chld = "" /\ n.proc = m.proc
  BY <1>1, <1>2, <1>3, ZeroInt DEF ItType
<1>5. Heard(n) /\ Told(n)
  BY <1>4 DEF Heard, Told
<1>6. QED
  BY <1>1, <1>4, <1>5, CreateOK

\* The state of init changes, other than to or from Unrecover.
LEMMA MoveOK ==
  ASSUME NEW m, Base(m), m.state # "Unrecover", NEW st \in {"Reexec", "Run"}, NEW need \in BOOLEAN,
         st = "Run" => m.online = "connect", st = "Reexec" /\ ~need => m.online = "listen",
         NEW t, t = [m EXCEPT !.state = st, !.need_reexec = need]
  PROVE  Sound(t)
<1>1. /\ t \in ItType /\ t.state = st /\ t.need_reexec = need
      /\ t.switching = m.switching /\ t.pid = m.pid /\ t.online = m.online
      /\ t.conn = m.conn /\ t.chld = m.chld /\ t.proc = m.proc
  BY DEF Base, ItType
<1>2. Heard(t)
  BY <1>1 DEF Heard, Base, Linked
<1>3. One(t)
  BY <1>1 DEF Base, One
<1>4. Told(t)
  BY <1>1 DEF Base, Told
<1>5. QED
  BY <1>1, <1>2, <1>3, <1>4 DEF Sound

LEMMA ReexecManagerOK ==
  ASSUME PidsDiffer, Sound(it), ReexecManager
  PROVE  Sound(it')
<1> DEFINE n == [it EXCEPT !.need_reexec = FALSE]
           f == finish(n)
<1>0. Base(it) /\ it.state = "Reexec" /\ it.pid \in Sysmasters
  BY SoundBase DEF ReexecManager, must_reexec, Base, One
<1>1. /\ n \in ItType /\ n.state = it.state /\ n.switching = it.switching /\ n.pid = it.pid
      /\ n.online = it.online /\ n.conn = it.conn /\ n.chld = it.chld /\ n.proc = it.proc
  BY <1>0 DEF Base, ItType
<1>2. it' = crash_reexec(f, it.pid)
  BY DEF ReexecManager, reexec_manager
<1> HIDE DEF n
<1>3. Base(n)
  BY <1>0, <1>1 DEF Base, Linked, One, Told
<1>4. Sound(f)
  BY <1>0, <1>1, <1>3, FinishOK
<1> HIDE DEF f
<1>5. QED
  BY <1>0, <1>2, <1>4, SignalOK

\* The timer: what it changes is Like, and a timeout is answered by a signal or not at all.
LEMMA TimerOK ==
  ASSUME NEW m, Sound(m)
  PROVE  Sound(comm_dispatch(m, "timer"))
<1> DEFINE c == is_time_out(m)
<1>1. /\ Like(m, c.m) /\ c.type \in {"PipTMOUT", "Succeed"}
  <2>1. m.cnt + 1 \in Int
    <3>1. m.cnt \in Int
      BY DEF Sound, ItType
    <3>2. QED
      BY <3>1
  <2>2. \E n \in Int : c.m = [m EXCEPT !.due = FALSE, !.sent = FALSE, !.cnt = n]
    BY <2>1, ZeroInt DEF is_time_out, reset
  <2>3. c.type \in {"PipTMOUT", "Succeed"}
    BY DEF is_time_out
  <2> HIDE DEF c
  <2>4. Like(m, c.m)
    BY <2>2, ZenonT(60) DEF Like, Sound, ItType
  <2>5. QED
    BY <2>3, <2>4
<1>2. Sound(c.m) /\ Base(c.m) /\ c.m.state = m.state
  BY <1>1, LikeOK, SoundBase DEF Like
<1>3. proc_comm(m, "timer") = c
  BY DEF proc_comm
<1> HIDE DEF c
<1>4. CASE m.state = "Reexec"
  <2>1. \/ comm_dispatch(m, "timer") = c.m
        \/ comm_dispatch(m, "timer") = [c.m EXCEPT !.need_reexec = TRUE]
    BY <1>1, <1>3, <1>4 DEF comm_dispatch, reexec_comm_dispatch
  <2>2. [c.m EXCEPT !.need_reexec = TRUE] = [c.m EXCEPT !.state = "Reexec", !.need_reexec = TRUE]
    BY <1>2, <1>4 DEF Sound, ItType
  <2>3. QED
    BY <1>2, <1>4, <2>1, <2>2, MoveOK
<1>5. CASE m.state = "Run"
  <2>1. \/ comm_dispatch(m, "timer") = c.m
        \/ comm_dispatch(m, "timer") = [c.m EXCEPT !.state = "Reexec", !.need_reexec = TRUE]
    BY <1>1, <1>3, <1>5 DEF comm_dispatch, run_comm_dispatch
  <2>2. QED
    BY <1>2, <1>5, <2>1, MoveOK
<1>6. CASE m.state = "Unrecover"
  BY <1>2, <1>3, <1>6 DEF comm_dispatch, unrecover_comm_dispatch
<1>7. QED
  BY <1>4, <1>5, <1>6 DEF Sound, ItType

LEMMA ListenOK ==
  ASSUME PidsDiffer, NEW m, Sound(m), is_ready(m, "listen")
  PROVE  Sound(comm_dispatch(m, "listen"))
<1>0. m \in ItType /\ m.online = "listen" /\ m.backlog \in Seq(Conn) /\ m.backlog # <<>>
  BY DEF Sound, ItType, is_ready
<1>1. Head(m.backlog) \in Conn /\ Tail(m.backlog) \in Seq(Conn)
  BY <1>0, HeadTailProperties
<1>2. Head(m.backlog) # NoConn
  BY <1>1, NoneIsNone
<1> DEFINE n == [m EXCEPT !.conn = Head(m.backlog), !.backlog = Tail(m.backlog),
                          !.online = "connect", !.cnt = 0]
<1>3. listen_proc(m) = [m |-> n, type |-> "PipON"]
  BY <1>0 DEF listen_proc, reset, connect, set_online_fd, do_connect_set, ItType
<1>4. /\ n \in ItType /\ n.state = m.state /\ n.need_reexec = m.need_reexec
      /\ n.switching = m.switching /\ n.pid = m.pid /\ n.online = "connect"
      /\ n.conn = Head(m.backlog) /\ n.chld = m.chld /\ n.proc = m.proc
  BY <1>0, <1>1, ZeroInt DEF ItType
<1> HIDE DEF n
<1>5. Base(n)
  BY <1>1, <1>2, <1>4 DEF Sound, Base, Linked, One, Told
<1>6. m.state # "Run"
  BY <1>0 DEF Sound, Heard
<1>7. CASE m.state = "Reexec"
  <2>1. comm_dispatch(m, "listen") = [n EXCEPT !.state = "Run"]
    BY <1>3, <1>7 DEF comm_dispatch, proc_comm, reexec_comm_dispatch
  <2>2. [n EXCEPT !.state = "Run"] = [n EXCEPT !.state = "Run", !.need_reexec = n.need_reexec]
        /\ n.need_reexec \in BOOLEAN
    BY <1>4 DEF ItType
  <2>3. QED
    BY <1>4, <1>5, <1>7, <2>1, <2>2, MoveOK
<1>8. CASE m.state = "Unrecover"
  <2>1. comm_dispatch(m, "listen") = n
    BY <1>3, <1>8 DEF comm_dispatch, proc_comm, unrecover_comm_dispatch
  <2>2. QED
    BY <1>4, <1>5, <1>8, <2>1 DEF Base, Linked, Sound, Heard
<1>9. QED
  BY <1>0, <1>6, <1>7, <1>8 DEF ItType

LEMMA ConnectOK ==
  ASSUME PidsDiffer, NEW m, Sound(m), is_ready(m, "connect"), ~(m.state = "Reexec" /\ m.need_reexec)
  PROVE  Sound(comm_dispatch(m, "connect"))
<1>0. /\ m \in ItType /\ m.online = "connect" /\ m.conn \in Conn /\ m.state \in {"Run", "Unrecover"}
  BY DEF Sound, Heard, ItType, is_ready
<1>1. CASE m.conn.open
  <2> DEFINE f == [m.conn EXCEPT !.msg = FALSE]
             n == [m EXCEPT !.conn = f, !.cnt = 0]
  <2>1. f \in Conn
    BY <1>0 DEF Conn
  <2>2. f # NoConn /\ m.conn # NoConn
    BY <1>0, <2>1, NoneIsNone
  <2>3. connect_proc(m) = [m |-> n, type |-> "Succeed"]
    BY <1>0, <1>1 DEF connect_proc, reset, ItType
  <2>4. comm_dispatch(m, "connect") = n
    BY <1>0, <2>3 DEF comm_dispatch, proc_comm, run_comm_dispatch, unrecover_comm_dispatch
  <2> HIDE DEF f
  <2>5. Like(m, n)
    BY <1>0, <2>1, <2>2, ZeroInt DEF Like, ItType
  <2>6. QED
    BY <2>4, <2>5, LikeOK
<1>2. CASE ~m.conn.open
  <2> DEFINE n == [m EXCEPT !.conn = NoConn, !.online = "listen"]
  <2>1. connect_proc(m) = [m |-> n, type |-> "PipOFF"]
    BY <1>0, <1>2 DEF connect_proc, set_online_fd, do_listen_set
  <2>2. /\ n \in ItType /\ n.state = m.state /\ n.need_reexec = m.need_reexec
        /\ n.switching = m.switching /\ n.pid = m.pid /\ n.online = "listen"
        /\ n.conn = NoConn /\ n.chld = m.chld /\ n.proc = m.proc
    BY <1>0 DEF ItType
  <2>3. CASE m.state = "Unrecover"
    <3>1. comm_dispatch(m, "connect") = n
      BY <2>1, <2>3 DEF comm_dispatch, proc_comm, unrecover_comm_dispatch
    <3> HIDE DEF n
    <3>2. Heard(n) /\ One(n) /\ Told(n)
      BY <2>2, <2>3 DEF Sound, Heard, One, Told
    <3>3. QED
      BY <2>2, <3>1, <3>2 DEF Sound
  <2>4. CASE m.state = "Run"
    <3> HIDE DEF n
    <3>1. comm_dispatch(m, "connect") = [n EXCEPT !.state = "Reexec"]
      BY <2>1, <2>4 DEF comm_dispatch, proc_comm, run_comm_dispatch
    <3>2. /\ [n EXCEPT !.state = "Reexec"]
              = [n EXCEPT !.state = "Reexec", !.need_reexec = n.need_reexec]
          /\ n.need_reexec \in BOOLEAN
      BY <2>2 DEF ItType
    <3>3. Base(n)
      BY <2>2 DEF Sound, Base, Linked, One, Told
    <3>4. QED
      BY <2>2, <2>4, <3>1, <3>2, <3>3, MoveOK, ZenonT(60)
  <2>5. QED
    BY <1>0, <2>3, <2>4
<1>3. QED
  BY <1>1, <1>2

-----------------------------------------------------------------------------
(* Signals *)

\* The signal is read before it is dispatched.
LEMMA ReadOK ==
  ASSUME NEW m, Sound(m), NEW sigs \in SUBSET Signals
  PROVE  /\ Sound([m EXCEPT !.sigs = sigs]) /\ [m EXCEPT !.sigs = sigs].state = m.state
         /\ Sound([m EXCEPT !.chld = ""]) /\ [m EXCEPT !.chld = ""].state = m.state
         /\ [m EXCEPT !.chld = ""].chld = ""
<1> DEFINE a == [m EXCEPT !.sigs = sigs]
           b == [m EXCEPT !.chld = ""]
<1>1. Like(m, a) /\ a.state = m.state
  BY DEF Like, Sound, ItType
<1>2. /\ b \in ItType /\ b.state = m.state /\ b.need_reexec = m.need_reexec
      /\ b.switching = m.switching /\ b.pid = m.pid /\ b.online = m.online
      /\ b.conn = m.conn /\ b.chld = "" /\ b.proc = m.proc
  BY DEF Sound, ItType
<1> HIDE DEF a, b
<1>3. Heard(b)
  BY <1>2 DEF Sound, Heard
<1>4. One(b) /\ Told(b)
  BY <1>2 DEF Sound, One, Told
<1>5. Sound(a) /\ Sound(b)
  BY <1>1, <1>2, <1>3, <1>4, LikeOK, ZenonT(60) DEF Sound
<1>6. QED
  BY <1>1, <1>2, <1>5 DEF a, b

LEMMA DoReexecOK ==
  ASSUME NEW m, Sound(m), m.state # "Unrecover"
  PROVE  Sound(do_reexec(m))
<1>1. do_reexec(m) = [m EXCEPT !.state = "Reexec", !.need_reexec = TRUE]
  BY DEF do_reexec, Sound, ItType
<1>2. QED
  BY <1>1, SoundBase, MoveOK

LEMMA RecycleOK ==
  ASSUME NEW m, Sound(m), m.chld = "", NEW p
  PROVE  Sound(do_recycle(m, p))
  BY ReapOK DEF do_recycle

LEMMA UnrecoverOK ==
  ASSUME NEW m, Sound(m), m.state = "Reexec"
  PROVE  Sound(change_to_unrecover(m))
<1> DEFINE n == [m EXCEPT !.state = "Unrecover"]
<1>1. /\ n \in ItType /\ n.state = "Unrecover" /\ n.switching = m.switching /\ n.pid = m.pid
      /\ n.online = m.online /\ n.conn = m.conn /\ n.chld = m.chld /\ n.proc = m.proc
  BY DEF Sound, ItType
<1>2. change_to_unrecover(m) = reap(n, ProcessSet)
  BY DEF change_to_unrecover
<1> HIDE DEF n
<1>3. ~n.switching
  BY <1>1 DEF Sound, Told
<1>4. Heard(n)
  BY <1>1 DEF Sound, Heard
<1>5. One(n) /\ Told(n)
  BY <1>1, <1>3 DEF Sound, One, Told
<1>6. QED
  BY <1>1, <1>2, <1>3, <1>4, <1>5, ReapOK DEF Sound

LEMMA SwitchRootOK ==
  ASSUME PidsDiffer, NEW m, Sound(m), m.state = "Run"
  PROVE  Sound(send_switch_root_signal(m))
<1> DEFINE w == switch_root(m, m.pid)
           t == send_switch_root_signal(m)
<1>1. Sound(w) /\ w.state = "Run"
  BY SignalOK DEF Sound, One
<1>2. t = [w EXCEPT !.state = "Unrecover", !.switching = TRUE]
  BY DEF send_switch_root_signal
<1> HIDE DEF w, t
<1>3. /\ t \in ItType /\ t.state = "Unrecover" /\ t.switching = TRUE /\ t.pid = w.pid
      /\ t.online = w.online /\ t.conn = w.conn /\ t.chld = w.chld /\ t.proc = w.proc
  BY <1>1, <1>2 DEF Sound, ItType
<1>4. Heard(t)
  BY <1>1, <1>3 DEF Sound, Heard
<1>5. One(t)
  BY <1>1, <1>3 DEF Sound, One
<1>6. Told(t)
  BY <1>1, <1>3 DEF Sound, Told
<1>7. QED
  BY <1>3, <1>4, <1>5, <1>6 DEF Sound, t

\* The last sysmaster is killed, so that no other one lives.
LEMMA RecreateOK ==
  ASSUME PidsDiffer, NEW m, Sound(m), m.state = "Unrecover", NEW t \in do_recreate(m)
  PROVE  Sound(t)
<1> DEFINE f == finish(m)
           k == end(f, m.pid)
<1>1. Sound(f) /\ f.pid = m.pid
  BY SoundBase, FinishOK
<1>2. m.pid \in ProcessSet
  BY DEF Sound, One, ProcessSet
<1>3. t = k \/ t \in create_sysmaster(k)
  BY DEF do_recreate
<1> HIDE DEF f
<1>4. Sound(k) /\ k.pid = m.pid /\ ~is_living(k.proc[m.pid])
  BY <1>1, <1>2, EndOK
<1> HIDE DEF k
<1>5. \A p \in Sysmasters : ~is_living(k.proc[p])
  BY <1>4 DEF Sound, One
<1>6. QED
  BY <1>3, <1>4, <1>5, CreateOK DEF Sound

LEMMA SignalEventOK ==
  ASSUME PidsDiffer, Sound(it), NEW sig \in Signals \cup ProcessSet, SignalEvent(sig)
  PROVE  Sound(it')
<1> DEFINE read == IF sig \in Signals THEN [it EXCEPT !.sigs = it.sigs \ {sig}]
                   ELSE [it EXCEPT !.chld = ""]
<1>1. /\ Sound(read) /\ read.state = it.state
      /\ sig \notin Signals => read.chld = "" /\ read.switching = it.switching
                               /\ read.pid = it.pid /\ read.proc = it.proc /\ it.chld = sig
  <2>1. it.sigs \ {sig} \in SUBSET Signals
    BY DEF Sound, ItType
  <2>2. sig \notin Signals => it.chld = sig
    BY DEF SignalEvent, Sound, ItType
  <2>3. QED
    BY <2>1, <2>2, ReadOK, ZenonT(60) DEF Sound, ItType
<1>2. it' \in CASE it.state = "Reexec" -> reexec_signal_dispatch(read, sig)
                [] it.state = "Run" -> run_signal_dispatch(read, sig)
                [] it.state = "Unrecover" -> unrecover_signal_dispatch(read, sig)
  BY DEF SignalEvent, signal_dispatch
<1> HIDE DEF read
<1>3. sig \notin Signals <=> sig \notin {"restart", "unrecover", "switch_root"}
  BY DEF Signals
<1>4. CASE it.state = "Reexec"
  <2>1. \/ it' = do_reexec(read) \/ it' = change_to_unrecover(read) \/ it' = read
        \/ sig \notin Signals /\ it' = do_recycle(read, sig)
    BY <1>2, <1>3, <1>4 DEF reexec_signal_dispatch
  <2>2. QED
    BY <1>1, <1>4, <2>1, DoReexecOK, UnrecoverOK, RecycleOK
<1>5. CASE it.state = "Run"
  <2>1. \/ it' = do_reexec(read) \/ it' = read \/ it' = send_switch_root_signal(read)
        \/ sig \notin Signals /\ it' = do_recycle(read, sig)
    BY <1>2, <1>3, <1>5 DEF run_signal_dispatch
  <2>2. QED
    BY <1>1, <1>5, <2>1, DoReexecOK, SwitchRootOK, RecycleOK
<1>6. CASE it.state = "Unrecover"
  <2>1. \/ it' \in do_recreate(read) \/ it' = read
        \/ sig \notin Signals /\ it' = reap(read, ProcessSet)
        \/ sig \notin Signals /\ read.pid = sig /\ read.switching /\ it' \in RunTime_new(read)
    BY <1>2, <1>3, <1>6 DEF unrecover_signal_dispatch, is_sysmaster, reexec_self
  <2>2. CASE it' \in do_recreate(read)
    BY <1>1, <1>6, <2>2, RecreateOK
  <2>3. CASE sig \notin Signals /\ it' = reap(read, ProcessSet)
    BY <1>1, <2>3, ReapOK
  <2>4. CASE sig \notin Signals /\ read.pid = sig /\ read.switching /\ it' \in RunTime_new(read)
    <3>1. sig \in ProcessSet /\ sig # ""
      BY <2>4 DEF PidsDiffer
    <3>2. it.proc[sig] = "zombie"
      BY <1>1, <2>4, <3>1 DEF Sound, Told
    <3>3. \A p \in Sysmasters : ~is_living(read.proc[p])
      BY <1>1, <2>4, <3>2 DEF Sound, One, is_living
    <3>4. QED
      BY <1>1, <2>4, <3>3, NewOK DEF Sound
  <2>5. QED
    BY <1>1, <2>1, <2>2, <2>3, <2>4
<1>7. QED
  BY <1>4, <1>5, <1>6 DEF Sound, ItType

-----------------------------------------------------------------------------
(* The processes *)

\* One of the faults is used up.
LEMMA FaultOK ==
  ASSUME NEW m, Sound(m), NEW n, n = [m EXCEPT !.faults = m.faults - 1]
  PROVE  Sound(n)
<1>1. m.faults - 1 \in Int
  <2>1. m.faults \in Int
    BY DEF Sound, ItType
  <2>2. QED
    BY <2>1
<1>2. PICK k \in Int : n = [m EXCEPT !.faults = k]
  BY <1>1
<1>3. Like(m, n)
  BY <1>2, ZenonT(60) DEF Sound, ItType, Like
<1>4. QED
  BY <1>3, LikeOK

\* A process that lives and is no orphan is the sysmaster.
LEMMA TheOne ==
  ASSUME PidsDiffer, NEW m, Sound(m), NEW p \in Sysmasters, NEW ph \in Phase, is_living(m.proc[p])
  PROVE  Sound([m EXCEPT !.proc[p] = ph])
<1>1. p \in ProcessSet /\ m.proc[p] # "zombie" /\ p = m.pid
  BY DEF ProcessSet, Sound, One, is_living
<1>2. QED
  BY <1>1, PhaseOK

LEMMA KeepAliveOK ==
  ASSUME PidsDiffer, Sound(it), NEW p \in Sysmasters, KeepAlive(p)
  PROVE  Sound(it')
<1> DEFINE g == [it EXCEPT !.proc[p] = "up"]
           c == [pid |-> p, open |-> TRUE, msg |-> FALSE]
           b == Append(it.backlog, c)
<1>1. Sound(g)
  BY TheOne DEF KeepAlive, is_living, Phase
<1>2. b \in Seq(Conn) /\ g.backlog = it.backlog
  <2>1. c \in Conn
    BY DEF Conn, ProcessSet
  <2>2. it.backlog \in Seq(Conn) /\ g.backlog = it.backlog
    BY DEF Sound, ItType
  <2> HIDE DEF c
  <2>3. QED
    BY <2>1, <2>2, AppendProperties
<1>3. it' = [g EXCEPT !.sent = TRUE, !.backlog = b]
  BY DEF KeepAlive, Sound, ItType
<1> HIDE DEF g, b
<1>4. Like(g, it')
  BY <1>1, <1>2, <1>3 DEF Sound, ItType, Like
<1>5. QED
  BY <1>1, <1>4, LikeOK

LEMMA HeartBeatOK ==
  ASSUME PidsDiffer, Sound(it), NEW p \in Sysmasters, keep_alive(p)
  PROVE  Sound(it')
<1> DEFINE told(c) == IF c.pid = p /\ c.open THEN [c EXCEPT !.msg = TRUE] ELSE c
           b == [i \in DOMAIN it.backlog |-> told(it.backlog[i])]
           f == told(it.conn)
<1>1. it.backlog \in Seq(Conn) /\ it.conn \in Conn \cup {NoConn}
  BY DEF Sound, ItType
<1>2. \A c \in Conn : told(c) \in Conn
  BY DEF Conn
<1>3. told(NoConn) = NoConn
  BY DEF NoConn, PidsDiffer
<1>4. b \in Seq(Conn)
  <2>1. \A i \in DOMAIN it.backlog : it.backlog[i] \in Conn
    BY <1>1, ElementOfSeq, LenProperties
  <2>2. \A i \in DOMAIN it.backlog : b[i] \in Conn
    BY <1>2, <2>1
  <2>3. DOMAIN b = DOMAIN it.backlog /\ b = [i \in DOMAIN it.backlog |-> b[i]]
    OBVIOUS
  <2> HIDE DEF b
  <2>4. QED
    BY <1>1, <2>2, <2>3, Mapped
<1>5. f \in Conn \cup {NoConn} /\ (f = NoConn <=> it.conn = NoConn)
  BY <1>1, <1>2, <1>3, NoneIsNone
<1>6. it' = [it EXCEPT !.sent = TRUE, !.conn = f, !.backlog = b]
  BY DEF keep_alive
<1> HIDE DEF b, f
<1>7. Like(it, it')
  BY <1>4, <1>5, <1>6 DEF Sound, ItType, Like
<1>8. QED
  BY <1>7, LikeOK

LEMMA SysmasterOK ==
  ASSUME PidsDiffer, Sound(it), NEW p \in Sysmasters,
         Register(p) \/ KeepAlive(p) \/ keep_alive(p) \/ Leave(p) \/ Hang(p) \/ crash(p)
  PROVE  Sound(it')
<1>0. p \in ProcessSet /\ it \in ItType
  BY DEF ProcessSet, Sound
<1>1. CASE Register(p)
  BY <1>1, TheOne DEF Register, is_living, Phase
<1>2. CASE Leave(p)
  BY <1>0, <1>2, EndOK DEF Leave
<1>3. CASE Hang(p)
  <2>1. PICK ph \in {"stuck", "hung"} : it' = [it EXCEPT !.proc[p] = ph, !.faults = it.faults - 1]
    BY <1>3 DEF Hang
  <2> DEFINE g == [it EXCEPT !.proc[p] = ph]
  <2>2. is_living(it.proc[p]) /\ ph \in Phase
    BY <1>3 DEF Hang, is_living, Phase
  <2>3. Sound(g)
    BY <2>2, TheOne
  <2>4. it' = [g EXCEPT !.faults = g.faults - 1]
    BY <1>0, <2>1 DEF ItType
  <2> HIDE DEF g
  <2>5. QED
    BY <2>3, <2>4, FaultOK
<1>4. CASE crash(p)
  <2>1. PICK g : g \in {end(it, p), do_reexecute(it, p)} /\ it' = [g EXCEPT !.faults = g.faults - 1]
    BY <1>4 DEF crash
  <2>2. is_living(it.proc[p])
    BY <1>4 DEF crash, is_living
  <2>3. Sound(g)
    BY <1>0, <2>1, <2>2, EndOK, ReexecuteOK
  <2>4. QED
    BY <2>1, <2>3, FaultOK
<1>5. QED
  BY <1>1, <1>2, <1>3, <1>4, KeepAliveOK, HeartBeatOK

LEMMA OrphanOK ==
  ASSUME PidsDiffer, Sound(it), NEW o \in Orphans, Adopt(o) \/ OrphanEnds(o)
  PROVE  Sound(it')
<1>0. o \in ProcessSet /\ it \in ItType /\ o \notin Sysmasters
  BY DEF ProcessSet, Sound, PidsDiffer
<1>1. CASE OrphanEnds(o)
  BY <1>0, <1>1, EndOK DEF OrphanEnds
<1>2. CASE Adopt(o)
  <2> DEFINE g == [it EXCEPT !.proc[o] = "up"]
  <2>1. it.proc[o] = "none" /\ "up" \in Phase
    BY <1>2 DEF Adopt, Phase
  <2>2. Sound(g)
    BY <1>0, <2>1, PhaseOK
  <2>3. it' = [g EXCEPT !.faults = g.faults - 1]
    BY <1>0, <1>2 DEF Adopt, ItType
  <2> HIDE DEF g
  <2>4. QED
    BY <2>2, <2>3, FaultOK
<1>3. QED
  BY <1>1, <1>2

LEMMA KernelOK ==
  ASSUME Sound(it), Tick \/ \E sig \in Signals : Signal(sig)
  PROVE  Sound(it')
<1>1. CASE Tick
  <2>1. Like(it, it')
    BY <1>1 DEF Tick, Like, Sound, ItType
  <2>2. QED
    BY <2>1, LikeOK
<1>2. ASSUME NEW sig \in Signals, Signal(sig) PROVE Sound(it')
  <2> DEFINE g == [it EXCEPT !.sigs = it.sigs \cup {sig}]
  <2>1. it \in ItType /\ it.sigs \cup {sig} \in SUBSET Signals
    BY DEF Sound, ItType
  <2>2. Sound(g)
    BY <2>1, ReadOK
  <2>3. it' = [g EXCEPT !.faults = g.faults - 1]
    BY <1>2, <2>1 DEF Signal, ItType
  <2> HIDE DEF g
  <2>4. QED
    BY <2>2, <2>3, FaultOK
<1>3. QED
  BY <1>1, <1>2

-----------------------------------------------------------------------------
LEMMA StatesOK ==
  ASSUME PidsDiffer, InitInit, MaxFaults \in Int
  PROVE  Sound(it)
<1> DEFINE first(s) ==
        [state |-> "Reexec", need_reexec |-> FALSE, switching |-> FALSE, pid |-> "",
         cnt |-> 0, online |-> "listen", conn |-> NoConn, backlog |-> <<>>,
         chld |-> "", sigs |-> {}, due |-> FALSE, sent |-> FALSE,
         proc |-> [p \in ProcessSet |-> "none"], switch |-> s, faults |-> MaxFaults]
<1>0. PICK s \in BOOLEAN : it \in RunTime_new(first(s))
  BY DEF InitInit, InitStates
<1>1. PICK n : n = first(s)
  OBVIOUS
<1>2. <<>> \in Seq(Conn)
  BY EmptySeq
<1>3. n \in ItType /\ n.chld = "" /\ n.proc = [p \in ProcessSet |-> "none"]
  BY <1>1, <1>2, ZeroInt DEF ItType, Phase
<1>4. \A p \in Sysmasters : ~is_living(n.proc[p])
  BY <1>3 DEF is_living, ProcessSet
<1>5. it \in RunTime_new(n)
  BY <1>0, <1>1
<1>6. QED
  BY <1>3, <1>4, <1>5, NewOK

\* init waits where it can hear sysmaster, and no two sysmasters are at work, whoever
\* crashes, hangs or is signalled, and whenever the SIGCHLD of whichever process comes.
THEOREM InitSafe ==
  ASSUME PidsDiffer, MaxFaults \in Int
  PROVE  InitSpec => [](Listens /\ OneSysmaster)
<1>1. InitInit => Sound(it)
  BY StatesOK
<1>2. Sound(it) /\ [InitNext]_it => Sound(it)'
  <2> SUFFICES ASSUME Sound(it), [InitNext]_it PROVE Sound(it')
    OBVIOUS
  <2>1. ASSUME NEW fd \in {"timer", "listen", "connect"}, CommEvent(fd) PROVE Sound(it')
    BY <2>1, TimerOK, ListenOK, ConnectOK DEF CommEvent, must_reexec
  <2>2. CASE UNCHANGED it
    BY <2>2
  <2>3. QED
    BY <2>1, <2>2, ReexecManagerOK, SignalEventOK, SysmasterOK, OrphanOK, KernelOK DEF InitNext
<1>3. Sound(it) => Listens /\ OneSysmaster
  BY DEF Sound, Heard, One, Listens, OneSysmaster
<1>4. QED
  BY <1>1, <1>2, <1>3, PTL DEF InitSpec
=============================================================================
