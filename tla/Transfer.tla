------------------------------- MODULE Transfer -------------------------------
(***************************************************************************)
(* The bodies of downloads of one stored file: the seek, the throttled     *)
(* stream and AccountingStream of src/download.rs, the download_events     *)
(* they leave, the HTTP server that polls and drops them, and a recipient  *)
(* who downloads ranges in parallel and resumes what was cut off.          *)
(*                                                                         *)
(* The byte at position p of the file is p itself, so that a byte in the   *)
(* wrong place shows.  The server (hyper) is external: it polls a body     *)
(* while the connection takes more, delivers in order, drops the body when *)
(* it ends, fails or loses its client, and, since the length of every      *)
(* response is announced, possibly as soon as that length is reached.      *)
(***************************************************************************)
EXTENDS RangeHeader, Sequences

CONSTANTS
    Bodies,     \* the downloads that are answered with a body
    FileLen,    \* the length of the file
    Chunk,      \* the most one read returns
    Window,     \* the most the connection holds that the client has not read
    MaxCrashes, \* bound on the number of crashes
    NULL        \* a byte the recipient does not have

ASSUME TransferAssumption ==
    /\ FileLen \in Nat /\ Chunk \in Nat \ {0} /\ Window \in Nat \ {0}
    /\ MaxCrashes \in Nat
    /\ NULL \notin Nat

VARIABLES
    body,    \* each body, its stream and its connection
    events,  \* the rows of download_events each body left
    held,    \* the recipient's copy: a byte or NULL for each position
    crashes  \* crashes so far

transferVars == <<body, events, held, crashes>>

Positions == 0 .. FileLen - 1

\* The status of a response, and what the request asked for, which no handler
\* reads later
NoReply == [status |-> 0, form |-> "absent", asked |-> {}]

NoBody == [pc |-> "idle", reply |-> NoReply, first |-> 0, expected |-> 0, cursor |-> 0,
           chunk |-> 0, transferred |-> 0, recorded |-> FALSE, sent |-> 0, got |-> 0,
           connected |-> FALSE]

Live == {"streaming", "error", "ended"}

----------------------------------------------------------------------------
(* The handler, once it has the file and the claim.                        *)

Reply(h, r) == [status |-> r.status, form |-> h.form, asked |-> Asked(h, FileLen)]

\* The response r to h without a body
Answer(h, r) == [NoBody EXCEPT !.pc = "answered", !.reply = Reply(h, r)]

SeekFails == [NoBody EXCEPT !.pc = "answered", !.reply.status = 500]

\* Mutant: the file is read from its beginning
SeeklessBodyOf(h, r) ==
    [NoBody EXCEPT !.pc = "streaming", !.reply = Reply(h, r), !.connected = TRUE,
                   !.first = r.start,
                   !.expected = r.end - r.start + 1]

\* The body of a response r to h: the file is sought to its first byte
BodyOf(h, r) ==
    [NoBody EXCEPT !.pc = "streaming", !.reply = Reply(h, r), !.connected = TRUE,
                   !.first = r.start, !.cursor = r.start,
                   !.expected = r.end - r.start + 1]

\* A response without a body (416, or the file is empty) leaves no event, nor
\* does the 500 when the seek fails
Start(b, h) ==
    LET r == Response(h, FileLen) IN
    /\ body[b].pc = "idle"
    /\ \/ r.start <= r.end /\ body' = [body EXCEPT ![b] = BodyOf(h, r)]
       \/ r.start <= r.end /\ body' = [body EXCEPT ![b] = SeekFails]
       \/ r.start > r.end /\ body' = [body EXCEPT ![b] = Answer(h, r)]
    /\ UNCHANGED <<events, held, crashes>>

\* The bytes of the range not read yet: take(content_len)
Left(b) == body[b].expected - body[b].transferred

----------------------------------------------------------------------------
(* AccountingStream::record.                                               *)

\* Mutant: nothing remembers that the event was recorded
Forgetful(s, completed) ==
    {<<[s EXCEPT !.recorded = TRUE], <<[bytes |-> s.transferred, completed |-> completed]>> >>,
     <<[s EXCEPT !.recorded = TRUE], <<>> >>}

\* What record makes of the stream s, and the rows it inserts: at most one in
\* the life of the stream, none when the insertion fails
Recorded(s, completed) ==
    IF s.recorded THEN {<<s, <<>> >>}
    ELSE {<<[s EXCEPT !.recorded = TRUE], <<[bytes |-> s.transferred, completed |-> completed]>> >>,
          <<[s EXCEPT !.recorded = TRUE], <<>> >>}

\* The stream of b goes to pc after recording
Record(b, completed, pc) ==
    \E r \in Recorded(body[b], completed) :
        /\ body' = [body EXCEPT ![b] = [r[1] EXCEPT !.pc = pc]]
        /\ events' = [events EXCEPT ![b] = @ \o r[2]]

----------------------------------------------------------------------------
(* poll_next: the file is read, the chunk waits for the throttle, then it   *)
(* is counted and handed over.                                             *)

\* The server polls while the connection has room
Polled(b) ==
    /\ body[b].pc = "streaming"
    /\ body[b].connected
    /\ body[b].sent - body[b].got < Window

\* Mutant: bytes are counted when they are read
CountingRead(b) ==
    /\ Polled(b)
    /\ body[b].chunk = 0
    /\ \E n \in 1 .. Chunk :
          /\ n <= Left(b)
          /\ body' = [body EXCEPT ![b].chunk = n, ![b].transferred = @ + n]
    /\ UNCHANGED <<events, held, crashes>>

Read(b) ==
    /\ Polled(b)
    /\ body[b].chunk = 0
    /\ \E n \in 1 .. Chunk :
          /\ n <= Left(b)
          /\ body' = [body EXCEPT ![b].chunk = n]
    /\ UNCHANGED <<events, held, crashes>>

\* Mutant: the throttle never lets a full chunk go
StuckYield(b) ==
    /\ Polled(b)
    /\ body[b].chunk \in 1 .. Chunk - 1
    /\ body' = [body EXCEPT ![b].transferred = @ + body[b].chunk,
                            ![b].sent = @ + body[b].chunk,
                            ![b].cursor = @ + body[b].chunk,
                            ![b].chunk = 0]
    /\ UNCHANGED <<events, held, crashes>>

Yield(b) ==
    /\ Polled(b)
    /\ body[b].chunk > 0
    /\ body' = [body EXCEPT ![b].transferred = @ + body[b].chunk,
                            ![b].sent = @ + body[b].chunk,
                            ![b].cursor = @ + body[b].chunk,
                            ![b].chunk = 0]
    /\ UNCHANGED <<events, held, crashes>>

ReadFails(b) ==
    /\ Polled(b)
    /\ body[b].chunk = 0 /\ Left(b) > 0
    /\ Record(b, FALSE, "error")
    /\ UNCHANGED <<held, crashes>>

\* The stream ends, with the range or before when the file has become shorter
PollEnd(b) ==
    /\ Polled(b)
    /\ body[b].chunk = 0
    /\ Record(b, body[b].transferred = body[b].expected, "ended")
    /\ UNCHANGED <<held, crashes>>

\* Mutant: a body that is dropped is recorded as complete
OptimisticDrop(b) ==
    /\ \/ body[b].pc \in {"error", "ended"}
       \/ body[b].pc = "streaming" /\ (~body[b].connected \/ body[b].sent = body[b].expected)
    /\ Record(b, TRUE, "dropped")
    /\ UNCHANGED <<held, crashes>>

\* Drop for AccountingStream
Drop(b) ==
    /\ \/ body[b].pc \in {"error", "ended"}
       \/ body[b].pc = "streaming" /\ (~body[b].connected \/ body[b].sent = body[b].expected)
    /\ Record(b, FALSE, "dropped")
    /\ UNCHANGED <<held, crashes>>

Serve(b) == Read(b) \/ Yield(b) \/ ReadFails(b) \/ PollEnd(b) \/ Drop(b)

----------------------------------------------------------------------------
(* The recipient, the connections, restarts.                               *)

\* The next byte of b arrives: the recipient puts it where the response said,
\* and it is the byte the stream had under its cursor when it was read
Receive(b) ==
    /\ body[b].connected
    /\ body[b].got < body[b].sent
    /\ body' = [body EXCEPT ![b].got = @ + 1]
    /\ held' = [held EXCEPT ![body[b].first + body[b].got] =
                   body[b].cursor - body[b].sent + body[b].got]
    /\ UNCHANGED <<events, crashes>>

\* The client goes away, or the connection is lost
Disconnect(b) ==
    /\ body[b].connected
    /\ body' = [body EXCEPT ![b].connected = FALSE]
    /\ UNCHANGED <<events, held, crashes>>

\* Every header a recipient may send, with one number too large for a u64
FieldValues == [kind : {"empty", "junk"}, n : {0}] \cup [kind : {"digits"}, n : 0 .. U64Max + 1]

RecipientHeaders ==
    [form : {"single"}, first : FieldValues, last : FieldValues]
        \cup [form : Forms \ {"single"}, first : {[kind |-> "junk", n |-> 0]},
                                         last  : {[kind |-> "junk", n |-> 0]}]

\* The process dies: its bodies go unrecorded
Crash ==
    /\ crashes < MaxCrashes
    /\ crashes' = crashes + 1
    /\ body' = [b \in Bodies |->
                  [body[b] EXCEPT !.connected = FALSE,
                                  !.pc = IF @ \in Live THEN "lost" ELSE @]]
    /\ UNCHANGED <<events, held>>

Init ==
    /\ body = [b \in Bodies |-> NoBody]
    /\ events = [b \in Bodies |-> <<>>]
    /\ held = [p \in Positions |-> NULL]
    /\ crashes = 0

Next ==
    \/ \E b \in Bodies :
          \/ \E h \in RecipientHeaders : Start(b, h)
          \/ Serve(b)
          \/ Receive(b)
          \/ Disconnect(b)
    \/ Crash

Spec == Init /\ [][Next]_transferVars

----------------------------------------------------------------------------
(* Properties.                                                             *)

Replies == [status : {0, 200, 206, 416, 500}, form : Forms, asked : SUBSET Positions]

BodyStates == [pc          : {"idle", "answered", "dropped", "lost"} \cup Live,
               reply       : Replies,
               first       : 0 .. FileLen,
               expected    : 0 .. FileLen,
               cursor      : 0 .. FileLen,
               chunk       : 0 .. Chunk,
               transferred : 0 .. FileLen,
               recorded    : BOOLEAN,
               sent        : 0 .. FileLen,
               got         : 0 .. FileLen,
               connected   : BOOLEAN]

\* Every variable has its type, and no body sends more than it announced.
TypeOK ==
    /\ body \in [Bodies -> BodyStates]
    /\ \A b \in Bodies : body[b].got <= body[b].sent /\ body[b].sent <= body[b].expected
    /\ events \in [Bodies -> Seq([bytes : 0 .. FileLen, completed : BOOLEAN])]
    /\ held \in [Positions -> Positions \cup {NULL}]
    /\ crashes \in 0 .. MaxCrashes

\* A range is answered with exactly the positions it asks for when it is well
\* formed and selects some, and with 416 otherwise; a request without one with
\* the whole file: for suffixes longer than the file, ends beyond it, empty
\* files and numbers beyond u64.  Nothing is said of lists of ranges and of
\* other units.
RangeAnswered ==
    \A b \in Bodies :
        LET s == body[b]
            r == s.reply IN
        s.pc # "idle" /\ r.form \in {"absent", "malformed", "single"} =>
            /\ r.status \in {200, 206} => s.first .. s.first + s.expected - 1 = r.asked
            /\ r.status = 200 <=> r.form = "absent" /\ r.status # 500
            /\ r.status = 416 <=> r.form # "absent" /\ r.asked = {}

\* The comments on parse_range: a request for several ranges falls back to a
\* full 200 response, that is, the whole file is served instead.
ListsServedWhole ==
    \A b \in Bodies :
        body[b].reply.form = "list" => body[b].reply.status \in {200, 500}

\* However a body comes to its end (polled to the end, failed, dropped, in
\* any combination), it leaves at most one event, whose bytes are those that
\* were handed to the connection, never fewer than the recipient has, and
\* which is marked completed only when that is the whole range.
EventsExact ==
    \A b \in Bodies :
        /\ Len(events[b]) <= 1
        /\ \A i \in DOMAIN events[b] :
              /\ events[b][i].bytes = body[b].sent
              /\ events[b][i].completed => body[b].sent = body[b].expected

\* Whatever ranges are downloaded in parallel, cut off and resumed, also
\* across a restart, every byte the recipient holds is the one the file has
\* at that place, and a response received to its announced length leaves no
\* hole in its range.
CopyFaithful ==
    /\ \A p \in Positions : held[p] \in {p, NULL}
    /\ \A b \in Bodies :
          body[b].got = body[b].expected =>
              \A p \in body[b].first .. body[b].first + body[b].expected - 1 : held[p] = p

\* The server runs on; a client owes nothing.
Fairness == \A b \in Bodies : WF_transferVars(Serve(b))

FairSpec == Spec /\ Fairness

\* The client keeps its connection open and does not read: there is no timeout
HeldUp(b) == body[b].connected /\ body[b].sent - body[b].got >= Window

\* A transfer always gets on to its end, where it has been recorded, unless
\* its client holds it up or the process dies; in particular one whose client
\* went away does.
TransfersSettle ==
    \A b \in Bodies :
        body[b].pc = "streaming" ~> body[b].recorded \/ body[b].pc = "lost" \/ HeldUp(b)
=============================================================================
