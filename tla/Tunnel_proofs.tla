---------------------------- MODULE Tunnel_proofs ----------------------------
(***************************************************************************)
(* Proofs about Tunnel: the server says "connected" only for the address   *)
(* of the process it supervises, for any number of addresses, status calls *)
(* and lines that wait to be read.                                         *)
(***************************************************************************)
EXTENDS Tunnel, TLAPS

\* A line in the queue is true of the process.
QueueInv ==
    \A i \in 1 .. Len(out) :
        /\ out[i] = "url" => child.told
        /\ out[i] = "registered" => child.registered

\* What the supervisor has read is true of the process, and it publishes only
\* an address it knows.
ReadInv ==
    /\ sup.pending # NULL => sup.pending = child.host /\ child.told
    /\ sup.registered => child.registered
    /\ sup.pc \in {"settle", "publish"} => sup.pending # NULL /\ sup.registered
    /\ sup.pc = "publish" => url = sup.pending

PublishInv == QueueInv /\ ReadInv /\ ConnectedIsCurrent

----------------------------------------------------------------------------

LEMMA TunnelTypeInit == Init => TypeOK
<1> SUFFICES ASSUME Init PROVE TypeOK
  OBVIOUS
<1> USE TunnelAssumption DEF Init
<1>1. sup \in Supervisor
  BY DEF Supervisor
<1>2. child \in Child
  BY DEF Child
<1>3. out \in Seq(Lines) /\ Len(out) <= MaxLines
  OBVIOUS
<1>4. status \in Statuses
  BY DEF Statuses
<1> QED
  BY <1>1, <1>2, <1>3, <1>4 DEF TypeOK, NoPoll

\* The supervisor keeps the types.
LEMMA SupervisorType ==
    ASSUME TypeOK, ReadInv, Missing \/ Supervise
    PROVE  /\ url' \in Hostnames \cup {Configured}
           /\ status' \in Statuses
           /\ sup' \in Supervisor
           /\ child' \in Child
           /\ out' \in Seq(Lines) /\ Len(out') <= MaxLines
<1>0. /\ url \in Hostnames \cup {Configured} /\ status \in Statuses
      /\ sup \in Supervisor /\ child \in Child
      /\ out \in Seq(Lines) /\ Len(out) <= MaxLines
      /\ MaxLines \in Nat /\ MaxDelay \in Nat /\ BaseDelay \in 1 .. MaxDelay
  BY TunnelAssumption DEF TypeOK
<1>1. ASSUME NEW pc \in {"off", "check", "start", "spawn", "read", "settle", "publish", "wait",
                         "backoff"},
             Goto(pc)
      PROVE  sup' \in Supervisor
  BY <1>0, <1>1 DEF Goto, Supervisor
<1>2. {"cloudflared_missing", "starting", "start_failed", "connected", "reconnecting", "failed"}
        \subseteq Statuses
  BY DEF Statuses
<1>3. CASE Missing
  BY <1>0, <1>1, <1>2, <1>3 DEF Missing
<1>4. CASE Start
  BY <1>0, <1>1, <1>2, <1>4 DEF Start
<1>5. CASE Spawn
  <2>1. sup' \in Supervisor
    BY <1>0, <1>5 DEF Spawn, Supervisor
  <2>2. child' \in Child
    BY <1>0, <1>5 DEF Spawn, Child
  <2> QED
    BY <1>0, <1>5, <2>1, <2>2 DEF Spawn
<1>6. CASE SpawnFails
  BY <1>0, <1>1, <1>2, <1>6 DEF SpawnFails
<1>7. CASE ReadLine
  <2> DEFINE known == IF Head(out) = "url" THEN child.host ELSE sup.pending
             registered == sup.registered \/ Head(out) = "registered"
             pc == IF registered /\ known # NULL THEN "settle" ELSE sup.pc
  <2>1. known \in Hostnames \cup {NULL} /\ registered \in BOOLEAN
    BY <1>0 DEF Child, Supervisor
  <2>2. pc \in {"off", "check", "start", "spawn", "read", "settle", "publish", "wait", "backoff"}
    BY <1>0 DEF Supervisor
  <2>3. sup' = [sup EXCEPT !.pending = known, !.registered = registered, !.pc = pc]
    BY <1>7 DEF ReadLine
  <2>4. out # <<>> /\ out' = Tail(out) /\ UNCHANGED <<url, status, child>>
    BY <1>7 DEF ReadLine
  <2> HIDE DEF known, registered, pc
  <2>5. sup' \in Supervisor
    BY <1>0, <2>1, <2>2, <2>3 DEF Supervisor
  <2>6. out' \in Seq(Lines) /\ Len(out') <= MaxLines
    BY <1>0, <2>4
  <2> QED
    BY <1>0, <2>4, <2>5, <2>6
<1>8. CASE Publish
  <2>1. ASSUME sup.pc = "settle", url' = sup.pending, Goto("publish"),
               UNCHANGED <<status, child, out>>
        PROVE  url' \in Hostnames \cup {Configured} /\ sup' \in Supervisor
    <3>1. sup.pending # NULL /\ sup.pending \in Hostnames \cup {NULL}
      BY <1>0, <2>1 DEF ReadInv, Supervisor
    <3> QED
      BY <1>1, <2>1, <3>1
  <2>2. ASSUME sup' = [sup EXCEPT !.pc = "read", !.pending = NULL, !.connected = TRUE,
                                  !.delay = BaseDelay]
        PROVE  sup' \in Supervisor
    BY <1>0, <2>2 DEF Supervisor
  <2> QED
    BY <1>0, <1>2, <1>8, <2>1, <2>2 DEF Publish
<1>9. CASE StopReading
  BY <1>0, <1>1, <1>9 DEF StopReading
<1>10. CASE ChildGone
  BY <1>0, <1>1, <1>2, <1>10 DEF ChildGone
<1>11. CASE Backoff
  <2>1. (IF 2 * sup.delay <= MaxDelay THEN 2 * sup.delay ELSE MaxDelay) \in 1 .. MaxDelay
    BY <1>0 DEF Supervisor
  <2> QED
    BY <1>0, <1>11, <2>1 DEF Backoff, Supervisor
<1> QED
  BY <1>3, <1>4, <1>5, <1>6, <1>7, <1>8, <1>9, <1>10, <1>11 DEF Supervise

\* The process and its output keep the types.
LEMMA CloudflaredType ==
    ASSUME TypeOK, Cloudflared
    PROVE  child' \in Child /\ out' \in Seq(Lines) /\ Len(out') <= MaxLines
<1>0. child \in Child /\ out \in Seq(Lines) /\ Len(out) <= MaxLines /\ MaxLines \in Nat
  BY TunnelAssumption DEF TypeOK
<1>1. ASSUME NEW line \in Lines, Writes(line)
      PROVE  out' \in Seq(Lines) /\ Len(out') <= MaxLines
  BY <1>0, <1>1 DEF Writes
<1>2. {"url", "registered", "other", "unreadable"} = Lines
  BY DEF Lines
<1>3. CASE TellUrl
  <2>1. child' \in Child
    BY <1>0, <1>3 DEF TellUrl, Child
  <2> QED
    BY <1>1, <1>2, <1>3, <2>1 DEF TellUrl
<1>4. CASE TellRegistered
  <2>1. child' \in Child
    BY <1>0, <1>4 DEF TellRegistered, Child
  <2> QED
    BY <1>1, <1>2, <1>4, <2>1 DEF TellRegistered
<1>5. CASE TellOther
  BY <1>0, <1>1, <1>2, <1>5 DEF TellOther
<1>6. CASE Die
  BY <1>0, <1>6 DEF Die, Child
<1> QED
  BY <1>3, <1>4, <1>5, <1>6 DEF Cloudflared

\* A status call keeps the types of the dashboard.
LEMMA PollType ==
    ASSUME TypeOK, NEW p \in Polls, Poll(p) \/ LoseAnswer(p),
           UNCHANGED <<auto, url, status, sup, child, out>>
    PROVE  TypeOK'
<1> DEFINE PollStates == [pc        : {"idle", "url", "status", "answer"},
                          url       : Hostnames \cup {Configured, NULL},
                          connected : BOOLEAN]
<1>0. /\ poll \in [Polls -> PollStates] /\ poll[p] \in PollStates
      /\ page \in [base : Hostnames \cup {Configured, NULL}, ready : BOOLEAN]
      /\ auto \in BOOLEAN /\ url \in Hostnames \cup {Configured}
      /\ lost \in 0 .. MaxLost /\ MaxLost \in Nat
      /\ NoPoll \in PollStates
      /\ [NoPoll EXCEPT !.pc = "url"] \in PollStates
  BY TunnelAssumption DEF TypeOK, NoPoll
<1>1. ASSUME poll' \in [Polls -> PollStates],
             page' \in [base : Hostnames \cup {Configured, NULL}, ready : BOOLEAN],
             lost' \in 0 .. MaxLost
      PROVE  TypeOK'
  BY <1>1 DEF TypeOK
<1>2. CASE Send(p)
  BY <1>0, <1>1, <1>2 DEF Send
<1>3. CASE ReadUrl(p)
  <2>1. [poll[p] EXCEPT !.pc = "status", !.url = url] \in PollStates
    BY <1>0
  <2>2. poll' = [poll EXCEPT ![p] = [@ EXCEPT !.pc = "status", !.url = url]]
    BY <1>3 DEF ReadUrl
  <2> QED
    BY <1>0, <1>1, <1>3, <2>1, <2>2 DEF ReadUrl
<1>4. CASE ReadStatus(p)
  <2> DEFINE b == (status = "connected")
  <2>1. [poll[p] EXCEPT !.pc = "answer", !.connected = b] \in PollStates
    BY <1>0
  <2>2. poll' = [poll EXCEPT ![p] = [@ EXCEPT !.pc = "answer", !.connected = b]]
    BY <1>4 DEF ReadStatus
  <2> QED
    BY <1>0, <1>1, <1>4, <2>1, <2>2 DEF ReadStatus
<1>5. CASE Apply(p)
  <2>1. (~auto \/ poll[p].connected) \in BOOLEAN /\ poll[p].url \in Hostnames \cup {Configured, NULL}
    BY <1>0
  <2> QED
    BY <1>0, <1>1, <1>5, <2>1 DEF Apply
<1>6. CASE LoseAnswer(p)
  <2>1. lost' \in 0 .. MaxLost
    BY <1>0, <1>6 DEF LoseAnswer
  <2>2. page' \in [base : Hostnames \cup {Configured, NULL}, ready : BOOLEAN]
    BY <1>0, <1>6 DEF LoseAnswer
  <2>3. poll' \in [Polls -> PollStates]
    <3> HIDE DEF PollStates
    <3> QED
      BY <1>0, <1>6 DEF LoseAnswer
  <2> QED
    BY <1>1, <2>1, <2>2, <2>3
<1> QED
  BY <1>2, <1>3, <1>4, <1>5, <1>6 DEF Poll

\* A step keeps the types, as long as a URL is published only when it is known.
LEMMA TunnelTypeStep ==
    ASSUME TypeOK, ReadInv, [Next]_tunnelVars
    PROVE  TypeOK'
<1>1. CASE (Missing \/ Supervise) /\ UNCHANGED <<auto, poll, page, lost>>
  BY <1>1, SupervisorType DEF TypeOK
<1>2. CASE Cloudflared /\ UNCHANGED <<auto, poll, page, lost>>
  <2>1. UNCHANGED <<url, status, sup>>
    BY <1>2 DEF Cloudflared, TellUrl, TellRegistered, TellOther, Die
  <2> QED
    BY <1>2, <2>1, CloudflaredType DEF TypeOK
<1>3. CASE UNCHANGED tunnelVars
  BY <1>3 DEF TypeOK, tunnelVars
<1> QED
  BY <1>1, <1>2, <1>3, PollType DEF Next, Server

----------------------------------------------------------------------------

\* The supervisor only reads what the process wrote, publishes what it read,
\* and says something else once the process is gone.
LEMMA SupervisorStep ==
    ASSUME TypeOK, PublishInv, Missing \/ Supervise
    PROVE  PublishInv'
<1>0. /\ sup \in Supervisor /\ child \in Child /\ out \in Seq(Lines)
      /\ QueueInv /\ ReadInv /\ ConnectedIsCurrent
  BY DEF TypeOK, PublishInv
<1>1. ASSUME NEW pc \in {"off", "start", "spawn", "publish", "wait", "backoff"}, Goto(pc)
      PROVE  /\ sup'.pc = pc
             /\ sup'.pending = sup.pending /\ sup'.registered = sup.registered
  BY <1>0, <1>1 DEF Goto, Supervisor
<1>2. ASSUME NEW pc \in {"off", "start", "spawn", "wait", "backoff"},
             sup'.pc = pc,
             sup'.pending = sup.pending, sup'.registered = sup.registered,
             status' = "connected" => status = "connected" /\ pc = "wait",
             UNCHANGED <<url, child, out>>
      PROVE  PublishInv'
  BY <1>0, <1>2 DEF PublishInv, QueueInv, ReadInv, ConnectedIsCurrent
<1>3. CASE Missing
  BY <1>1, <1>2, <1>3 DEF Missing
<1>4. CASE Start
  BY <1>1, <1>2, <1>4 DEF Start
<1>5. CASE Spawn
  <2>1. sup'.pc = "read" /\ sup'.pending = NULL /\ sup'.registered = FALSE
    BY <1>0, <1>5 DEF Spawn, Supervisor
  <2>2. status' # "connected" /\ out' = <<>>
    BY <1>0, <1>5 DEF Spawn, ConnectedIsCurrent
  <2> QED
    BY <2>1, <2>2 DEF PublishInv, QueueInv, ReadInv, ConnectedIsCurrent
<1>6. CASE SpawnFails
  BY <1>1, <1>2, <1>6 DEF SpawnFails
<1>7. CASE ReadLine
  <2> DEFINE known == IF Head(out) = "url" THEN child.host ELSE sup.pending
             registered == sup.registered \/ Head(out) = "registered"
             pc == IF registered /\ known # NULL THEN "settle" ELSE sup.pc
  <2>1. sup' = [sup EXCEPT !.pending = known, !.registered = registered, !.pc = pc]
    BY <1>7 DEF ReadLine
  <2>2. /\ out # <<>> /\ out' = Tail(out) /\ UNCHANGED <<url, status, child>>
        /\ sup.pc = "read"
    BY <1>7 DEF ReadLine
  <2>3. /\ Head(out) = "url" => child.told
        /\ Head(out) = "registered" => child.registered
    <3>1. Head(out) = out[1] /\ 1 \in 1 .. Len(out)
      BY <1>0, <2>2
    <3> QED
      BY <1>0, <3>1 DEF QueueInv
  <2>4. known # NULL => known = child.host /\ child.told
    BY <1>0, <2>3 DEF ReadInv
  <2>5. registered => child.registered
    BY <1>0, <2>3 DEF ReadInv
  <2>6. pc = "read" \/ (pc = "settle" /\ registered /\ known # NULL)
    BY <2>2
  <2> HIDE DEF known, registered, pc
  <2>7. sup'.pending = known /\ sup'.registered = registered /\ sup'.pc = pc
    BY <1>0, <2>1 DEF Supervisor
  <2>8. ReadInv'
    BY <2>2, <2>4, <2>5, <2>6, <2>7 DEF ReadInv
  <2>9. QueueInv'
    <3>1. \A i \in 1 .. Len(out') : i + 1 \in 1 .. Len(out) /\ out'[i] = out[i + 1]
      BY <1>0, <2>2
    <3> QED
      BY <1>0, <2>2, <3>1 DEF QueueInv
  <2>10. ConnectedIsCurrent'
    BY <1>0, <2>2, <2>6, <2>7 DEF ConnectedIsCurrent
  <2> QED
    BY <2>8, <2>9, <2>10 DEF PublishInv
<1>8. CASE Publish
  <2>1. ASSUME sup.pc = "settle", url' = sup.pending, Goto("publish"),
               UNCHANGED <<status, child, out>>
        PROVE  PublishInv'
    BY <1>0, <1>1, <2>1 DEF PublishInv, QueueInv, ReadInv, ConnectedIsCurrent
  <2>2. ASSUME sup.pc = "publish", status' = "connected", UNCHANGED <<url, child, out>>,
               sup' = [sup EXCEPT !.pc = "read", !.pending = NULL, !.connected = TRUE,
                                  !.delay = BaseDelay]
        PROVE  PublishInv'
    <3>1. sup'.pc = "read" /\ sup'.pending = NULL /\ sup'.registered = sup.registered
      BY <1>0, <2>2 DEF Supervisor
    <3> QED
      BY <1>0, <2>2, <3>1 DEF PublishInv, QueueInv, ReadInv, ConnectedIsCurrent
  <2> QED
    BY <1>8, <2>1, <2>2 DEF Publish
<1>9. CASE StopReading
  BY <1>1, <1>2, <1>9 DEF StopReading
<1>10. CASE ChildGone
  <2>1. status' # "connected"
    BY <1>10 DEF ChildGone
  <2> QED
    BY <1>1, <1>2, <1>10, <2>1 DEF ChildGone
<1>11. CASE Backoff
  <2>1. sup'.pc = "start" /\ sup'.pending = sup.pending /\ sup'.registered = sup.registered
    BY <1>0, <1>11 DEF Backoff, Supervisor
  <2>2. status # "connected"
    BY <1>0, <1>11 DEF Backoff, ConnectedIsCurrent
  <2> QED
    BY <1>2, <1>11, <2>1, <2>2 DEF Backoff
<1> QED
  BY <1>3, <1>4, <1>5, <1>6, <1>7, <1>8, <1>9, <1>10, <1>11 DEF Supervise

\* The process only writes what it knows, and never forgets it.
LEMMA CloudflaredStep ==
    ASSUME TypeOK, PublishInv, Cloudflared
    PROVE  PublishInv'
<1>0. /\ child \in Child /\ out \in Seq(Lines)
      /\ QueueInv /\ ReadInv /\ ConnectedIsCurrent
      /\ UNCHANGED <<url, status, sup>>
  BY DEF TypeOK, PublishInv, Cloudflared, TellUrl, TellRegistered, TellOther, Die
<1>1. /\ child'.host = child.host
      /\ child.told => child'.told
      /\ child.registered => child'.registered
  BY <1>0 DEF Cloudflared, TellUrl, TellRegistered, TellOther, Die, Child
<1>2. ReadInv' /\ ConnectedIsCurrent'
  BY <1>0, <1>1 DEF ReadInv, ConnectedIsCurrent
<1>3. QueueInv'
  <2>1. ASSUME NEW line \in Lines, Writes(line),
               line = "url" => child'.told, line = "registered" => child'.registered
        PROVE  QueueInv'
    <3>1. \A i \in 1 .. Len(out') :
             \/ i \in 1 .. Len(out) /\ out'[i] = out[i]
             \/ out'[i] = line
      BY <1>0, <2>1 DEF Writes
    <3> QED
      BY <1>0, <1>1, <2>1, <3>1 DEF QueueInv
  <2>2. {"url", "registered", "other", "unreadable"} = Lines
    BY DEF Lines
  <2>3. CASE TellUrl
    <3>1. child'.told = TRUE
      BY <1>0, <2>3 DEF TellUrl, Child
    <3> QED
      BY <2>1, <2>2, <2>3, <3>1 DEF TellUrl
  <2>4. CASE TellRegistered
    <3>1. child'.registered = TRUE
      BY <1>0, <2>4 DEF TellRegistered, Child
    <3> QED
      BY <2>1, <2>2, <2>4, <3>1 DEF TellRegistered
  <2>5. CASE TellOther
    BY <2>1, <2>2, <2>5 DEF TellOther
  <2>6. CASE Die
    BY <1>0, <1>1, <2>6 DEF Die, QueueInv
  <2> QED
    BY <2>3, <2>4, <2>5, <2>6 DEF Cloudflared
<1> QED
  BY <1>2, <1>3 DEF PublishInv

LEMMA PublishStep ==
    ASSUME TypeOK, PublishInv, [Next]_tunnelVars
    PROVE  PublishInv'
<1>1. CASE UNCHANGED <<url, status, sup, child, out>>
  BY <1>1 DEF PublishInv, QueueInv, ReadInv, ConnectedIsCurrent
<1> QED
  BY <1>1, SupervisorStep, CloudflaredStep DEF Next, Server, tunnelVars

LEMMA PublishInit == Init => PublishInv
BY DEF Init, PublishInv, QueueInv, ReadInv, ConnectedIsCurrent

LEMMA TunnelInvariant == Spec => [](TypeOK /\ PublishInv)
<1>1. TypeOK /\ PublishInv /\ [Next]_tunnelVars => (TypeOK /\ PublishInv)'
  BY TunnelTypeStep, PublishStep DEF PublishInv
<1> QED
  BY <1>1, TunnelTypeInit, PublishInit, PTL DEF Spec

\* The types of Tunnel, among them the bounds of the delay and of the queue.
THEOREM TunnelTyped == Spec => []TypeOK
BY TunnelInvariant, PTL

\* "connected" is said only of the address of the process that is supervised,
\* once it has registered: for any number of processes, in whatever order they
\* write their lines, and between the two locks set_public_base_url writes.
THEOREM TunnelConnectedIsCurrent == Spec => []ConnectedIsCurrent
BY TunnelInvariant, PTL DEF PublishInv

----------------------------------------------------------------------------
(* Nothing the supervisor hears is lost.                                   *)

Waits(line) == \E i \in 1 .. Len(out) : out[i] = line

\* What the process told is still in the queue, known to the supervisor, or
\* published; the supervisor reads on only while something is missing.
HeardInv ==
    sup.pc \in {"read", "settle", "publish"} =>
        /\ child.host # NULL
        /\ child.told => \/ Waits("url")
                         \/ sup.pending = child.host
                         \/ status = "connected" /\ url = child.host
        /\ child.registered => Waits("registered") \/ sup.registered
        /\ sup.pc = "read" => ~sup.registered \/ sup.pending = NULL

LEMMA HeardInit == Init => HeardInv
BY DEF Init, HeardInv

\* The supervisor keeps what it reads until it has published it.
LEMMA HeardSupervisor ==
    ASSUME TypeOK, PublishInv, HeardInv, Missing \/ Supervise
    PROVE  HeardInv'
<1>0. /\ sup \in Supervisor /\ child \in Child /\ out \in Seq(Lines)
      /\ ReadInv /\ HeardInv
  BY DEF TypeOK, PublishInv
<1>1. ASSUME NEW pc \in {"off", "start", "spawn", "wait", "backoff"}, sup'.pc = pc
      PROVE  HeardInv'
  BY <1>1 DEF HeardInv
<1>2. ASSUME NEW pc, Goto(pc)
      PROVE  /\ sup'.pc = pc
             /\ sup'.pending = sup.pending /\ sup'.registered = sup.registered
  BY <1>0, <1>2 DEF Goto, Supervisor
<1>3. CASE Missing \/ Start \/ SpawnFails \/ StopReading \/ ChildGone
  BY <1>1, <1>2, <1>3 DEF Missing, Start, SpawnFails, StopReading, ChildGone
<1>4. CASE Spawn
  <2>1. PICK h \in Hostnames \ {child.host} :
            child' = [alive |-> TRUE, host |-> h, told |-> FALSE, registered |-> FALSE]
    BY <1>4 DEF Spawn
  <2>2. sup'.registered = FALSE /\ child'.host = h /\ child'.told = FALSE /\ child'.registered = FALSE
    BY <1>0, <1>4, <2>1 DEF Spawn, Supervisor
  <2> QED
    BY <2>2, TunnelAssumption DEF HeardInv
<1>5. CASE ReadLine
  <2> DEFINE known == IF Head(out) = "url" THEN child.host ELSE sup.pending
             registered == sup.registered \/ Head(out) = "registered"
             pc == IF registered /\ known # NULL THEN "settle" ELSE sup.pc
  <2>1. sup' = [sup EXCEPT !.pending = known, !.registered = registered, !.pc = pc]
    BY <1>5 DEF ReadLine
  <2>2. /\ out # <<>> /\ out' = Tail(out) /\ UNCHANGED <<url, status, child>>
        /\ sup.pc = "read"
    BY <1>5 DEF ReadLine
  <2>3. sup'.pending = known /\ sup'.registered = registered /\ sup'.pc = pc
    <3> HIDE DEF known, registered, pc
    <3> QED
      BY <1>0, <2>1 DEF Supervisor
  <2>4. ASSUME NEW line, Waits(line)
        PROVE  Head(out) = line \/ Waits(line)'
    <3>1. PICK i \in 1 .. Len(out) : out[i] = line
      BY <2>4 DEF Waits
    <3>2. CASE i = 1
      BY <1>0, <2>2, <3>1, <3>2
    <3>3. CASE i # 1
      <4>1. i - 1 \in 1 .. Len(out') /\ out'[i - 1] = line
        BY <1>0, <2>2, <3>1, <3>3
      <4> QED
        BY <4>1 DEF Waits
    <3> QED
      BY <3>2, <3>3
  <2>5. /\ child.host # NULL
        /\ child.told => \/ Waits("url")
                         \/ sup.pending = child.host
                         \/ status = "connected" /\ url = child.host
        /\ child.registered => Waits("registered") \/ sup.registered
    BY <1>0, <2>2 DEF HeardInv
  <2>6. child.told => \/ Waits("url")'
                      \/ known = child.host
                      \/ status = "connected" /\ url = child.host
    BY <2>4, <2>5
  <2>7. child.registered => Waits("registered")' \/ registered
    BY <2>4, <2>5
  <2>8. pc = "read" => ~registered \/ known = NULL
    BY <2>2
  <2> HIDE DEF known, registered, pc
  <2> QED
    BY <2>2, <2>3, <2>5, <2>6, <2>7, <2>8 DEF HeardInv
<1>6. CASE Publish
  <2>1. ASSUME sup.pc = "settle", url' = sup.pending, Goto("publish"),
               UNCHANGED <<status, child, out>>
        PROVE  HeardInv'
    <3>1. sup'.pc = "publish" /\ sup'.pending = sup.pending /\ sup'.registered = sup.registered
      BY <1>2, <2>1
    <3>2. sup.pending = child.host
      BY <1>0, <2>1 DEF ReadInv
    <3>3. Waits("registered")' <=> Waits("registered")
      BY <2>1 DEF Waits
    <3> QED
      BY <1>0, <2>1, <3>1, <3>2, <3>3 DEF HeardInv
  <2>2. ASSUME sup.pc = "publish", status' = "connected", UNCHANGED <<url, child, out>>,
               sup' = [sup EXCEPT !.pc = "read", !.pending = NULL, !.connected = TRUE,
                                  !.delay = BaseDelay]
        PROVE  HeardInv'
    <3>1. sup'.pending = NULL /\ sup'.registered = sup.registered
      BY <1>0, <2>2 DEF Supervisor
    <3>2. url = child.host /\ child.host # NULL
      BY <1>0, <2>2 DEF ReadInv, HeardInv
    <3>3. Waits("registered")' <=> Waits("registered")
      BY <2>2 DEF Waits
    <3> QED
      BY <1>0, <2>2, <3>1, <3>2, <3>3 DEF HeardInv
  <2> QED
    BY <1>6, <2>1, <2>2 DEF Publish
<1>7. CASE Backoff
  <2>1. sup'.pc = "start"
    BY <1>0, <1>7 DEF Backoff, Supervisor
  <2> QED
    BY <1>1, <2>1
<1> QED
  BY <1>3, <1>4, <1>5, <1>6, <1>7 DEF Supervise

\* What the process writes waits in the queue.
LEMMA HeardCloudflared ==
    ASSUME TypeOK, PublishInv, HeardInv, Cloudflared
    PROVE  HeardInv'
<1>0. /\ child \in Child /\ out \in Seq(Lines)
      /\ UNCHANGED <<url, status, sup>>
  BY DEF TypeOK, Cloudflared, TellUrl, TellRegistered, TellOther, Die
<1>1. ASSUME NEW line \in Lines, Writes(line)
      PROVE  /\ Waits(line)'
             /\ \A l : Waits(l) => Waits(l)'
  <2>1. /\ Len(out') = Len(out) + 1 /\ out'[Len(out')] = line
        /\ \A i \in 1 .. Len(out) : out'[i] = out[i]
        /\ Len(out) \in Nat
    BY <1>0, <1>1 DEF Writes
  <2> QED
    BY <2>1 DEF Waits
<1>2. CASE TellUrl
  <2>1. child'.host = child.host /\ child'.registered = child.registered /\ child'.told
    BY <1>0, <1>2 DEF TellUrl, Child
  <2>2. Waits("url")' /\ \A l : Waits(l) => Waits(l)'
    BY <1>1, <1>2 DEF TellUrl, Lines
  <2> QED
    BY <1>0, <2>1, <2>2 DEF HeardInv
<1>3. CASE TellRegistered
  <2>1. child'.host = child.host /\ child'.told = child.told /\ child'.registered
    BY <1>0, <1>3 DEF TellRegistered, Child
  <2>2. Waits("registered")' /\ \A l : Waits(l) => Waits(l)'
    BY <1>1, <1>3 DEF TellRegistered, Lines
  <2> QED
    BY <1>0, <2>1, <2>2 DEF HeardInv
<1>4. CASE TellOther
  <2>1. child' = child /\ \A l : Waits(l) => Waits(l)'
    BY <1>1, <1>4 DEF TellOther, Lines
  <2> QED
    BY <1>0, <2>1 DEF HeardInv
<1>5. CASE Die
  <2>1. child'.host = child.host /\ child'.told = child.told /\ child'.registered = child.registered
    BY <1>0, <1>5 DEF Die, Child
  <2>2. \A l : Waits(l) <=> Waits(l)'
    BY <1>5 DEF Die, Waits
  <2> QED
    BY <1>0, <2>1, <2>2 DEF HeardInv
<1> QED
  BY <1>2, <1>3, <1>4, <1>5 DEF Cloudflared

LEMMA HeardStep ==
    ASSUME TypeOK, PublishInv, HeardInv, [Next]_tunnelVars
    PROVE  HeardInv'
<1>1. CASE UNCHANGED <<url, status, sup, child, out>>
  BY <1>1 DEF HeardInv, Waits
<1> QED
  BY <1>1, HeardSupervisor, HeardCloudflared DEF Next, Server, tunnelVars

\* When the supervisor has read everything a process wrote that told its
\* address and registered, it has published it: what is left of Published
\* without the fairness of the supervisor.
HeardIsPublished ==
    sup.pc = "read" /\ out = <<>> /\ child.told /\ child.registered
        => status = "connected" /\ url = child.host

\* start_quick_tunnel publishes in whatever order the two lines come and
\* whatever stands between them, and keeps the address across the 5 s it
\* sleeps while further lines arrive.
THEOREM TunnelHeardIsPublished == Spec => []HeardIsPublished
<1>1. HeardInv => HeardIsPublished
  BY DEF HeardInv, HeardIsPublished, Waits
<1>2. TypeOK /\ PublishInv /\ HeardInv /\ [Next]_tunnelVars => HeardInv'
  BY HeardStep
<1> QED
  BY <1>1, <1>2, HeardInit, TunnelInvariant, PTL DEF Spec

=============================================================================
