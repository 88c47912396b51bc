-------------------------------- MODULE Tunnel --------------------------------
(***************************************************************************)
(* The quick tunnel: start_quick_tunnel of src/main.rs and the cloudflared *)
(* processes it supervises, the public URL and the tunnel status, two      *)
(* locks of src/state.rs, and the dashboard (static/app.js) that learns    *)
(* them from GET /api/status, several polls of which may be in flight.     *)
(*                                                                         *)
(* cloudflared is external: each start gets a hostname of its own, other   *)
(* than the last one, it writes lines to its standard error and may end at *)
(* any time.  Its lines are kept in a queue of at most MaxLines.           *)
(***************************************************************************)
EXTENDS Naturals, Sequences

CONSTANTS
    Hostnames,   \* the addresses Cloudflare assigns
    Configured,  \* public_base_url of the configuration
    NULL,
    Polls,       \* GET /api/status calls that may overlap
    BaseDelay,   \* the first delay between two starts (2 s in the code)
    MaxDelay,    \* the longest (30 s in the code)
    MaxLines,    \* bound on the lines not read yet
    MaxLost      \* bound on the status calls that fail

ASSUME TunnelAssumption ==
    /\ Configured \notin Hostnames /\ NULL \notin Hostnames \cup {Configured}
    /\ BaseDelay \in Nat \ {0} /\ MaxDelay \in Nat /\ BaseDelay <= MaxDelay
    /\ MaxLines \in Nat \ {0} /\ MaxLost \in Nat

VARIABLES
    auto,    \* auto_tunnel of the configuration
    url,     \* public_base_url
    status,  \* tunnel_status
    sup,     \* the supervisor
    child,   \* the cloudflared process
    out,     \* what it has written and the supervisor not read
    poll,    \* the status calls of the dashboard
    page,    \* the dashboard: publicBaseUrl and publicReady
    lost     \* status calls that failed so far

tunnelVars == <<auto, url, status, sup, child, out, poll, page, lost>>

\* pending is pending_url, or the URL that is about to be published
Supervisor == [pc         : {"off", "check", "start", "spawn", "read", "settle", "publish", "wait", "backoff"},
               delay      : 1 .. MaxDelay,
               connected  : BOOLEAN,
               registered : BOOLEAN,
               pending    : Hostnames \cup {NULL}]

\* host is the address of the process, told and registered what it has written
Child == [alive : BOOLEAN, host : Hostnames \cup {NULL}, told : BOOLEAN, registered : BOOLEAN]

Lines == {"url", "registered", "other", "unreadable"}

Goto(pc) == sup' = [sup EXCEPT !.pc = pc]

----------------------------------------------------------------------------
(* The supervisor.                                                         *)

\* cloudflared.exe is not there: the supervisor looks once
Missing ==
    /\ sup.pc = "check"
    /\ status' = "cloudflared_missing"
    /\ Goto("off")
    /\ UNCHANGED <<url, child, out>>

Start ==
    /\ sup.pc \in {"check", "start"}
    /\ status' = "starting"
    /\ Goto("spawn")
    /\ UNCHANGED <<url, child, out>>

Spawn ==
    /\ sup.pc = "spawn"
    /\ \E h \in Hostnames \ {child.host} :
          child' = [alive |-> TRUE, host |-> h, told |-> FALSE, registered |-> FALSE]
    /\ out' = <<>>
    /\ sup' = [sup EXCEPT !.pc = "read", !.connected = FALSE, !.registered = FALSE, !.pending = NULL]
    /\ UNCHANGED <<url, status>>

\* Mutant: the supervisor gives up when a start fails
FinalSpawnFails ==
    /\ sup.pc = "spawn"
    /\ status' = "start_failed"
    /\ Goto("off")
    /\ UNCHANGED <<url, child, out>>

SpawnFails ==
    /\ sup.pc = "spawn"
    /\ status' = "start_failed"
    /\ Goto("backoff")
    /\ UNCHANGED <<url, child, out>>

\* Mutant: the address is published before the tunnel is registered
EagerReadLine ==
    /\ sup.pc = "read"
    /\ out # <<>> /\ Head(out) # "unreadable"
    /\ sup' = [sup EXCEPT !.pending = IF Head(out) = "url" THEN child.host ELSE @,
                          !.pc = IF Head(out) = "url" THEN "settle" ELSE @]
    /\ out' = Tail(out)
    /\ UNCHANGED <<url, status, child>>

\* Mutant: a registration before the address is forgotten
OrderedReadLine ==
    LET known == IF Head(out) = "url" THEN child.host ELSE sup.pending IN
    /\ sup.pc = "read"
    /\ out # <<>> /\ Head(out) # "unreadable"
    /\ sup' = [sup EXCEPT !.pending = known,
                          !.pc = IF Head(out) = "registered" /\ known # NULL THEN "settle" ELSE @]
    /\ out' = Tail(out)
    /\ UNCHANGED <<url, status, child>>

\* A line: when an address is known and a connection registered, in either
\* order, the supervisor sleeps 5 s before it publishes the address
ReadLine ==
    LET known == IF Head(out) = "url" THEN child.host ELSE sup.pending
        registered == sup.registered \/ Head(out) = "registered"
    IN
    /\ sup.pc = "read"
    /\ out # <<>> /\ Head(out) # "unreadable"
    /\ sup' = [sup EXCEPT !.pending = known, !.registered = registered,
                          !.pc = IF registered /\ known # NULL THEN "settle" ELSE @]
    /\ out' = Tail(out)
    /\ UNCHANGED <<url, status, child>>

\* Mutant: the status is written before the URL
StatusFirstPublish ==
    \/ /\ sup.pc = "settle"
       /\ status' = "connected"
       /\ Goto("publish")
       /\ UNCHANGED <<url, child, out>>
    \/ /\ sup.pc = "publish"
       /\ url' = sup.pending
       /\ sup' = [sup EXCEPT !.pc = "read", !.pending = NULL, !.connected = TRUE, !.delay = BaseDelay]
       /\ UNCHANGED <<status, child, out>>

\* set_public_base_url: the URL, then the status, each under its own lock
Publish ==
    \/ /\ sup.pc = "settle"
       /\ url' = sup.pending
       /\ Goto("publish")
       /\ UNCHANGED <<status, child, out>>
    \/ /\ sup.pc = "publish"
       /\ status' = "connected"
       /\ sup' = [sup EXCEPT !.pc = "read", !.pending = NULL, !.connected = TRUE, !.delay = BaseDelay]
       /\ UNCHANGED <<url, child, out>>

\* The end of the output, or a line that is not UTF-8: the loop ends, and the
\* supervisor waits for the process, which may go on
StopReading ==
    /\ sup.pc = "read"
    /\ IF out = <<>> THEN ~child.alive ELSE Head(out) = "unreadable"
    /\ Goto("wait")
    /\ UNCHANGED <<url, status, child, out>>

\* Mutant: the status is left as it was
SilentChildGone ==
    /\ sup.pc = "wait"
    /\ ~child.alive
    /\ Goto("backoff")
    /\ UNCHANGED <<url, status, child, out>>

ChildGone ==
    /\ sup.pc = "wait"
    /\ ~child.alive
    /\ status' = IF sup.connected THEN "reconnecting" ELSE "failed"
    /\ Goto("backoff")
    /\ UNCHANGED <<url, child, out>>

\* Mutant: the delay is not bounded
UnboundedBackoff ==
    /\ sup.pc = "backoff"
    /\ sup' = [sup EXCEPT !.pc = "start", !.delay = 2 * @]
    /\ UNCHANGED <<url, status, child, out>>

\* The sleep, and the next delay
Backoff ==
    /\ sup.pc = "backoff"
    /\ sup' = [sup EXCEPT !.pc = "start",
                          !.delay = IF 2 * @ <= MaxDelay THEN 2 * @ ELSE MaxDelay]
    /\ UNCHANGED <<url, status, child, out>>

Supervise ==
    Start \/ Spawn \/ SpawnFails \/ ReadLine \/ Publish \/ StopReading \/ ChildGone \/ Backoff

----------------------------------------------------------------------------
(* The process.                                                            *)

Writes(line) ==
    /\ child.alive
    /\ Len(out) < MaxLines
    /\ out' = Append(out, line)

\* It tells its address once, and that a connection is registered each time
TellUrl ==
    /\ ~child.told
    /\ Writes("url")
    /\ child' = [child EXCEPT !.told = TRUE]
    /\ UNCHANGED <<url, status, sup>>

TellRegistered ==
    /\ ~child.registered
    /\ Writes("registered")
    /\ child' = [child EXCEPT !.registered = TRUE]
    /\ UNCHANGED <<url, status, sup>>

TellOther ==
    /\ \E line \in {"other", "unreadable"} : Writes(line)
    /\ UNCHANGED <<url, status, sup, child>>

Die ==
    /\ child.alive
    /\ child' = [child EXCEPT !.alive = FALSE]
    /\ UNCHANGED <<url, status, sup, out>>

Cloudflared == TellUrl \/ TellRegistered \/ TellOther \/ Die

----------------------------------------------------------------------------
(* GET /api/status and loadStatus, every 2 s whether or not the last call  *)
(* has been answered.                                                      *)

\* connected is what the page makes of the status: the other values differ in
\* the text they show
NoPoll == [pc |-> "idle", url |-> NULL, connected |-> FALSE]

Send(p) ==
    /\ poll[p].pc = "idle"
    /\ poll' = [poll EXCEPT ![p] = [NoPoll EXCEPT !.pc = "url"]]
    /\ UNCHANGED <<page, lost>>

\* server_status reads the URL, then the status
ReadUrl(p) ==
    /\ poll[p].pc = "url"
    /\ poll' = [poll EXCEPT ![p].pc = "status", ![p].url = url]
    /\ UNCHANGED <<page, lost>>

ReadStatus(p) ==
    /\ poll[p].pc = "status"
    /\ poll' = [poll EXCEPT ![p].pc = "answer", ![p].connected = (status = "connected")]
    /\ UNCHANGED <<page, lost>>

\* Mutant: the address is taken only once
StickyApply(p) ==
    /\ poll[p].pc = "answer"
    /\ page' = [base  |-> IF page.base = NULL THEN poll[p].url ELSE page.base,
                ready |-> ~auto \/ poll[p].connected]
    /\ poll' = [poll EXCEPT ![p] = NoPoll]
    /\ UNCHANGED lost

\* The answers arrive in any order; each replaces what the page knew
Apply(p) ==
    /\ poll[p].pc = "answer"
    /\ page' = [base |-> poll[p].url, ready |-> ~auto \/ poll[p].connected]
    /\ poll' = [poll EXCEPT ![p] = NoPoll]
    /\ UNCHANGED lost

LoseAnswer(p) ==
    /\ poll[p].pc \in {"url", "status", "answer"}
    /\ lost < MaxLost
    /\ lost' = lost + 1
    /\ page' = [page EXCEPT !.ready = FALSE]
    /\ poll' = [poll EXCEPT ![p] = NoPoll]

Poll(p) == Send(p) \/ ReadUrl(p) \/ ReadStatus(p) \/ Apply(p)

----------------------------------------------------------------------------

Init ==
    /\ auto \in BOOLEAN
    /\ url = Configured
    /\ status = IF auto THEN "starting" ELSE "disabled"
    /\ sup = [pc |-> IF auto THEN "check" ELSE "off", delay |-> BaseDelay,
              connected |-> FALSE, registered |-> FALSE, pending |-> NULL]
    /\ child = [alive |-> FALSE, host |-> NULL, told |-> FALSE, registered |-> FALSE]
    /\ out = <<>>
    /\ poll = [p \in Polls |-> NoPoll]
    /\ page = [base |-> NULL, ready |-> FALSE]
    /\ lost = 0

Server == Missing \/ Supervise \/ Cloudflared

Next ==
    \/ Server /\ UNCHANGED <<auto, poll, page, lost>>
    \/ \E p \in Polls :
          (Poll(p) \/ LoseAnswer(p)) /\ UNCHANGED <<auto, url, status, sup, child, out>>

Spec == Init /\ [][Next]_tunnelVars

----------------------------------------------------------------------------
(* Properties.                                                             *)

Statuses == {"disabled", "starting", "start_failed", "cloudflared_missing", "connected",
             "reconnecting", "failed"}

\* Every variable has its type.
TypeOK ==
    /\ auto \in BOOLEAN
    /\ url \in Hostnames \cup {Configured}
    /\ status \in Statuses
    /\ sup \in Supervisor
    /\ child \in Child
    /\ out \in Seq(Lines) /\ Len(out) <= MaxLines
    /\ poll \in [Polls -> [pc        : {"idle", "url", "status", "answer"},
                           url       : Hostnames \cup {Configured, NULL},
                           connected : BOOLEAN]]
    /\ page \in [base : Hostnames \cup {Configured, NULL}, ready : BOOLEAN]
    /\ lost \in 0 .. MaxLost

\* The server says "connected" only while the public URL is the address of
\* the process it supervises, which has registered a connection; an address
\* of an earlier process is never combined with it, however often and at
\* whatever moment processes end and are replaced.
ConnectedIsCurrent ==
    status = "connected" =>
        /\ url = child.host
        /\ child.told /\ child.registered
        /\ sup.pc \in {"read", "settle", "publish", "wait"}

\* The supervisor, the timers of the page and the status calls run on;
\* cloudflared owes nothing.
Fairness ==
    /\ WF_tunnelVars((Missing \/ Supervise) /\ UNCHANGED <<auto, poll, page, lost>>)
    /\ \A p \in Polls :
          WF_tunnelVars(Poll(p) /\ UNCHANGED <<auto, url, status, sup, child, out>>)

FairSpec == Spec /\ Fairness

\* Whenever no process lives, another start is attempted, after a process that
\* ended before or after it was published, and after a start that failed.
ChildReplaced == auto /\ ~child.alive ~> sup.pc = "spawn" \/ status = "cloudflared_missing"

\* The supervisor stopped reading a process that lives on
Stalled == sup.pc = "wait" /\ child.alive

\* A process that has told its address and registered a connection, in either
\* order, is published, unless it ends or writes a line that cannot be read.
Published ==
    child.alive /\ child.told /\ child.registered
        ~> ~child.alive \/ Stalled \/ (status = "connected" /\ url = child.host)

\* When the tunnel stays connected, the dashboard comes to say so for good and
\* with the right address, whatever answers were lost, overtook each other or
\* mixed an old URL with a new status before.
DashboardCatchesUp ==
    \A h \in Hostnames :
        <>[](status = "connected" /\ url = h) => <>[](page.ready /\ page.base = h)
=============================================================================
