--------------------------- MODULE Transfer_proofs ---------------------------
(***************************************************************************)
(* Proofs about Transfer: what a body records and what its recipient holds *)
(* are right for every length of the file, every size of the reads, any    *)
(* number of bodies and any number of crashes.                             *)
(***************************************************************************)
EXTENDS Transfer, TLAPS

Rows == [bytes : 0 .. FileLen, completed : BOOLEAN]

\* The bytes a stream counted are those it handed over, its cursor is where they
\* end, and what it has read and not handed over belongs to the range too.
Measured(s) ==
    /\ s.transferred = s.sent
    /\ s.cursor = s.first + s.sent
    /\ s.first + s.expected <= FileLen
    /\ s.got <= s.sent
    /\ s.sent + s.chunk <= s.expected

\* Once a stream has recorded it hands over no more; before, it left no row.  A
\* stream that came to its end has recorded.
Accounted(s, ev) ==
    /\ s.pc \in {"idle", "streaming"} => ~s.recorded
    /\ s.pc \in {"error", "ended", "dropped"} => s.recorded
    /\ ~s.recorded => ev = <<>>
    /\ Len(ev) <= 1
    /\ \A i \in DOMAIN ev :
          /\ ev[i].bytes = s.sent
          /\ ev[i].completed => s.sent = s.expected

SoundStream(s, ev) == Measured(s) /\ Accounted(s, ev)

\* The recipient holds what it was sent, where the response said.
HeldInv ==
    /\ \A p \in Positions : held[p] \in {p, NULL}
    /\ \A b \in Bodies :
          \A p \in body[b].first .. body[b].first + body[b].got - 1 : held[p] = p

StreamInv == (\A b \in Bodies : SoundStream(body[b], events[b])) /\ HeldInv

----------------------------------------------------------------------------

\* A suffix range is the last n positions, of which there is one when n > 0.
LEMMA SuffixSelects ==
    ASSUME NEW len \in Nat \ {0}, NEW n \in Nat
    PROVE  /\ n = 0 => SuffixRange(n, len) = {}
           /\ n > 0 => \E s, e \in 0 .. len - 1 :
                          /\ SuffixRange(n, len) = {<<s, e>>}
                          /\ s <= e
                          /\ s .. e = {p \in 0 .. len - 1 : p >= len - n}
BY DEF SuffixRange

\* A bounded range is the positions between its ends, if there are any.
LEMMA BoundedSelects ==
    ASSUME NEW len \in Nat \ {0}, NEW a \in Nat, NEW b \in Nat
    PROVE  LET asked == {p \in 0 .. len - 1 : p >= a /\ p <= b} IN
           \/ BoundedRange(a, b, len) = {} /\ asked = {}
           \/ \E s, e \in 0 .. len - 1 :
                 /\ BoundedRange(a, b, len) = {<<s, e>>}
                 /\ s <= e
                 /\ s .. e = asked
<1>1. CASE a >= len \/ a > b
  BY <1>1 DEF BoundedRange
<1>2. CASE ~(a >= len \/ a > b)
  <2> DEFINE e == IF b < len - 1 THEN b ELSE len - 1
  <2>1. a \in 0 .. len - 1 /\ e \in 0 .. len - 1 /\ a <= e
    BY <1>2
  <2>2. BoundedRange(a, b, len) = {<<a, e>>}
    BY <1>2 DEF BoundedRange
  <2>3. a .. e = {p \in 0 .. len - 1 : p >= a /\ p <= b}
    BY <1>2
  <2> QED BY <2>1, <2>2, <2>3
<1> QED BY <1>1, <1>2

\* A range that is parsed is the one the header asks for, and nothing is
\* parsed only when it asks for nothing or is not well formed.
LEMMA ParseSelects ==
    ASSUME NEW h \in Headers, NEW len \in Nat
    PROVE  \/ ParseRange(h, len) = {} /\ (h.form # "absent" => Asked(h, len) = {})
           \/ /\ h.form = "single"
              /\ \E s, e \in 0 .. len - 1 :
                    /\ ParseRange(h, len) = {<<s, e>>}
                    /\ s <= e
                    /\ s .. e = Asked(h, len)
<1> DEFINE a == h.first.n
           b == h.last.n
<1>0. h.first \in Fields /\ h.last \in Fields /\ a \in Nat /\ b \in Nat
  BY DEF Headers, Fields
<1>1. CASE len = 0 \/ h.form # "single"
  BY <1>1 DEF ParseRange, Asked, WellFormed
<1>2. CASE len # 0 /\ h.form = "single" /\ ~(\A f \in {h.first, h.last} : f.kind = "empty" \/ Parses(f))
  BY <1>2, <1>0 DEF Asked, ParseRange, WellFormed, Parses, Fields
<1>3. CASE len # 0 /\ h.form = "single" /\ h.first.kind = "empty" /\ h.last.kind = "empty"
  BY <1>3, <1>0 DEF Asked, ParseRange, WellFormed, Parses
<1>4. CASE len # 0 /\ h.form = "single" /\ h.first.kind = "empty" /\ Parses(h.last)
  <2>1. ParseRange(h, len) = SuffixRange(b, len)
    BY <1>4 DEF ParseRange
  <2>2. WellFormed(h)
    BY <1>4 DEF WellFormed, Parses
  <2>3. Asked(h, len) = {p \in 0 .. len - 1 : p >= len - b}
    BY <1>4, <2>2 DEF Asked, Selects
  <2>4. CASE b = 0
    <3>1. Asked(h, len) = {}
      BY <2>3, <2>4
    <3>2. SuffixRange(b, len) = {}
      BY <2>4 DEF SuffixRange
    <3> QED BY <3>1, <3>2, <2>1
  <2>5. CASE b # 0
    <3>1. \E s, e \in 0 .. len - 1 :
             /\ SuffixRange(b, len) = {<<s, e>>}
             /\ s <= e
             /\ s .. e = {p \in 0 .. len - 1 : p >= len - b}
      <4>1. len \in Nat \ {0} /\ b \in Nat /\ b > 0
        BY <2>5, <1>4, <1>0
      <4> HIDE DEF b
      <4> QED BY <4>1, SuffixSelects
    <3> HIDE DEF b
    <3> QED BY <1>4, <3>1, <2>1, <2>2, <2>3
  <2> QED BY <2>4, <2>5
<1>5. CASE len # 0 /\ h.form = "single" /\ Parses(h.first) /\ (h.last.kind = "empty" \/ Parses(h.last))
  <2> DEFINE c == IF h.last.kind = "empty" THEN len - 1 ELSE b
  <2>0. c \in Nat
    BY <1>5, <1>0
  <2>1. ParseRange(h, len) = BoundedRange(a, c, len)
    BY <1>5 DEF ParseRange, Parses
  <2>2. WellFormed(h)
    BY <1>5 DEF WellFormed, Parses
  <2>3. Asked(h, len) = {p \in 0 .. len - 1 : p >= a /\ p <= c}
    BY <1>5, <1>0, <2>2 DEF Asked, Selects, Parses
  <2> HIDE DEF c, a
  <2> QED BY <2>0, <2>1, <2>2, <2>3, <1>5, <1>0, BoundedSelects
<1> QED BY <1>1, <1>2, <1>3, <1>4, <1>5

\* A response has exactly the positions the header asks for, and it is a 416
\* when there are none.
LEMMA ResponseRight ==
    ASSUME NEW h \in Headers, NEW len \in Nat
    PROVE  LET r == Response(h, len) IN
           \/ /\ r.status = IF h.form = "absent" THEN 200 ELSE 206
              /\ r.start \in Nat /\ r.end \in -1 .. len - 1
              /\ r.start .. r.end = Asked(h, len)
              /\ h.form = "absent" \/ r.start <= r.end
           \/ h.form # "absent" /\ r = NotSatisfiable /\ Asked(h, len) = {}
<1>1. CASE h.form = "absent"
  <2>1. Asked(h, len) = 0 .. len - 1
    BY <1>1 DEF Asked
  <2>2. Response(h, len) = [status |-> 200, start |-> 0, end |-> len - 1]
    BY <1>1 DEF Response
  <2> QED BY <1>1, <2>1, <2>2
<1>2. CASE h.form # "absent" /\ ParseRange(h, len) = {}
  <2>1. Response(h, len) = NotSatisfiable
    BY <1>2 DEF Response
  <2>2. Asked(h, len) = {}
    BY <1>2, ParseSelects
  <2> QED BY <1>2, <2>1, <2>2
<1>3. CASE h.form # "absent" /\ ParseRange(h, len) # {}
  <2>1. PICK s \in 0 .. len - 1, e \in 0 .. len - 1 :
            /\ ParseRange(h, len) = {<<s, e>>}
            /\ s <= e
            /\ s .. e = Asked(h, len)
    BY <1>3, ParseSelects
  <2>2. Response(h, len) = [status |-> 206, start |-> s, end |-> e]
    <3>1. \A r \in ParseRange(h, len) : r = <<s, e>>
      BY <2>1
    <3> DEFINE w == <<s, e>>
    <3>2. w[1] = s /\ w[2] = e
      OBVIOUS
    <3>3. w \in ParseRange(h, len) /\ s <= e /\ e < len
      BY <2>1
    <3>4. (CHOOSE r \in ParseRange(h, len) : TRUE) = w
      BY <3>1, <3>3
    <3> HIDE DEF w
    <3>5. \E r \in ParseRange(h, len) : r[1] <= r[2] /\ r[2] < len
      BY <3>2, <3>3
    <3> QED BY <1>3, <3>2, <3>4, <3>5 DEF Response
  <2> QED BY <1>3, <2>1, <2>2
<1> QED BY <1>1, <1>2, <1>3

\* A response with a body has one that lies within the file.
LEMMA ResponseFits ==
    ASSUME NEW h \in Headers, NEW len \in Nat, Response(h, len).start <= Response(h, len).end
    PROVE  /\ Response(h, len).start \in 0 .. len - 1
           /\ Response(h, len).end \in 0 .. len - 1
           /\ Response(h, len).status \in {200, 206}
<1> DEFINE r == Response(h, len)
<1>1. r # NotSatisfiable
  BY DEF NotSatisfiable
<1>2. /\ r.start \in Nat /\ r.end \in -1 .. len - 1 /\ r.start .. r.end = Asked(h, len)
      /\ r.status \in {200, 206}
  BY <1>1, ResponseRight
<1>3. r.start <= r.end
  OBVIOUS
<1> HIDE DEF r
<1>4. /\ r.start \in 0 .. len - 1
      /\ r.end \in 0 .. len - 1
      /\ r.status \in {200, 206}
  BY <1>2, <1>3
<1> QED
  BY <1>4 DEF r

LEMMA RecipientHeadersAreHeaders == RecipientHeaders \subseteq Headers
BY RangeAssumption DEF RecipientHeaders, FieldValues, Headers, Fields, Forms

LEMMA NoBodyType == NoBody \in BodyStates
BY TransferAssumption DEF NoBody, NoReply, BodyStates, Replies, Forms

LEMMA TransferInit == Init => TypeOK /\ StreamInv
<1> SUFFICES ASSUME Init PROVE TypeOK /\ StreamInv
  OBVIOUS
<1>1. body \in [Bodies -> BodyStates]
  BY NoBodyType DEF Init
<1>2. \A b \in Bodies : SoundStream(body[b], events[b])
  BY TransferAssumption DEF Init, SoundStream, Measured, Accounted, NoBody
<1>3. HeldInv
  BY DEF Init, HeldInv, NoBody
<1>4. TypeOK
  <2>1. \A b \in Bodies : body[b].got = 0 /\ body[b].sent = 0 /\ body[b].expected = 0
    BY DEF Init, NoBody
  <2>2. \A b \in Bodies : body[b].got <= body[b].sent /\ body[b].sent <= body[b].expected
    BY <2>1
  <2> QED
    BY <1>1, <2>2, TransferAssumption DEF Init, TypeOK
<1> QED
  BY <1>2, <1>3, <1>4 DEF StreamInv

\* A step of one stream that delivers nothing.
LEMMA StreamStep ==
    ASSUME TypeOK, StreamInv, NEW b \in Bodies, NEW x \in BodyStates, NEW ev \in Seq(Rows),
           body' = [body EXCEPT ![b] = x], events' = [events EXCEPT ![b] = ev],
           SoundStream(x, ev),
           x.got = 0 \/ (x.got = body[b].got /\ x.first = body[b].first),
           UNCHANGED <<held, crashes>>
    PROVE  TypeOK' /\ StreamInv'
<1>0. body \in [Bodies -> BodyStates] /\ events \in [Bodies -> Seq(Rows)]
  BY DEF TypeOK, Rows
<1>1. /\ body'[b] = x /\ events'[b] = ev
      /\ \A c \in Bodies : c # b => body'[c] = body[c] /\ events'[c] = events[c]
      /\ body' \in [Bodies -> BodyStates] /\ events' \in [Bodies -> Seq(Rows)]
  BY <1>0
<1>2. \A c \in Bodies : SoundStream(body'[c], events'[c])
  BY <1>1 DEF StreamInv
<1>3. HeldInv'
  <2>1. ASSUME NEW c \in Bodies, NEW p \in body'[c].first .. body'[c].first + body'[c].got - 1
        PROVE  held[p] = p
    <3>1. CASE c # b
      BY <1>1, <2>1, <3>1 DEF StreamInv, HeldInv
    <3>2. CASE c = b /\ x.got = body[b].got /\ x.first = body[b].first
      BY <1>1, <2>1, <3>2 DEF StreamInv, HeldInv
    <3>3. CASE c = b /\ x.got = 0
      BY <1>1, <2>1, <3>3 DEF BodyStates
    <3> QED
      BY <3>1, <3>2, <3>3
  <2> QED
    BY <2>1 DEF StreamInv, HeldInv
<1>4. \A c \in Bodies : body'[c].got <= body'[c].sent /\ body'[c].sent <= body'[c].expected
  BY <1>1, <1>2 DEF SoundStream, Measured, Accounted, BodyStates
<1>5. TypeOK'
  BY <1>1, <1>4 DEF TypeOK, Rows
<1> QED
  BY <1>2, <1>3, <1>5 DEF StreamInv

\* The stream as the invariants know it.
LEMMA StreamFacts ==
    ASSUME TypeOK, StreamInv, NEW b \in Bodies
    PROVE  /\ body[b] \in BodyStates /\ events[b] \in Seq(Rows)
           /\ events = [events EXCEPT ![b] = events[b]]
           /\ SoundStream(body[b], events[b])
           /\ FileLen \in Nat /\ Chunk \in Nat \ {0}
BY TransferAssumption DEF TypeOK, StreamInv, Rows

\* The first record is the only one: after it the stream hands over no more.
LEMMA RecordStep ==
    ASSUME TypeOK, StreamInv, NEW b \in Bodies, NEW completed \in BOOLEAN,
           NEW pc \in {"error", "ended", "dropped"}, Record(b, completed, pc),
           completed => body[b].sent = body[b].expected,
           UNCHANGED <<held, crashes>>
    PROVE  TypeOK' /\ StreamInv'
<1> DEFINE s == body[b]
           row == [bytes |-> s.transferred, completed |-> completed]
           marked == [s EXCEPT !.recorded = TRUE]
<1>0. s \in BodyStates /\ events[b] \in Seq(Rows) /\ SoundStream(s, events[b])
  BY StreamFacts
<1>1. PICK r \in Recorded(s, completed) :
          /\ body' = [body EXCEPT ![b] = [r[1] EXCEPT !.pc = pc]]
          /\ events' = [events EXCEPT ![b] = @ \o r[2]]
  BY DEF Record
<1>2. \/ s.recorded /\ r = <<s, <<>> >>
      \/ ~s.recorded /\ (r = <<marked, <<row>> >> \/ r = <<marked, <<>> >>)
  BY DEF Recorded
<1>3. CASE s.recorded
  <2> DEFINE x == [s EXCEPT !.pc = pc]
  <2>1. r[1] = s /\ r[2] = <<>>
    BY <1>2, <1>3
  <2>2. body' = [body EXCEPT ![b] = x] /\ events' = [events EXCEPT ![b] = events[b]]
    BY <1>0, <1>1, <2>1
  <2>3. x \in BodyStates
    BY <1>0 DEF BodyStates, Live
  <2>4. /\ SoundStream(x, events[b])
        /\ x.got = s.got /\ x.first = s.first
    <3>1. /\ x.recorded = s.recorded /\ x.pc = pc /\ x.first = s.first /\ x.got = s.got
          /\ x.sent = s.sent /\ x.expected = s.expected /\ x.transferred = s.transferred
          /\ x.cursor = s.cursor /\ x.chunk = s.chunk
      BY <1>0 DEF BodyStates
    <3> HIDE DEF x
    <3> QED
      BY <1>0, <1>3, <3>1 DEF SoundStream, Measured, Accounted
  <2> HIDE DEF x
  <2> QED
    BY <1>0, <2>2, <2>3, <2>4, StreamStep
<1>4. CASE ~s.recorded
  <2> DEFINE x == [marked EXCEPT !.pc = pc]
  <2>1. r[1] = marked /\ (r[2] = <<row>> \/ r[2] = <<>>)
    <3> HIDE DEF marked, row
    <3> QED
      BY <1>2, <1>4
  <2>2. events[b] = <<>>
    BY <1>0, <1>4 DEF SoundStream, Measured, Accounted
  <2>3. row \in Rows
    BY <1>0 DEF BodyStates, Rows
  <2>4. x \in BodyStates
    BY <1>0 DEF BodyStates, Live
  <2>5. /\ x.recorded = TRUE /\ x.pc = pc /\ x.first = s.first /\ x.got = s.got
        /\ x.sent = s.sent /\ x.expected = s.expected /\ x.transferred = s.transferred
        /\ x.cursor = s.cursor /\ x.chunk = s.chunk
    BY <1>0 DEF BodyStates
  <2>6. row.bytes = s.sent /\ (row.completed => s.sent = s.expected)
    BY <1>0 DEF SoundStream, Measured, Accounted
  <2>7. body' = [body EXCEPT ![b] = x]
    BY <1>1, <2>1
  <2>8. PICK ev \in Seq(Rows) : /\ events' = [events EXCEPT ![b] = ev]
                                /\ ev = <<row>> \/ ev = <<>>
    <3> HIDE DEF row
    <3>1. <<row>> \in Seq(Rows) /\ <<>> \in Seq(Rows)
      BY <2>3
    <3>2. <<>> \o <<row>> = <<row>> /\ <<>> \o <<>> = <<>>
      BY <2>3, <3>1
    <3>3. events' = [events EXCEPT ![b] = events[b] \o r[2]]
      BY <1>1
    <3> QED
      BY <2>1, <2>2, <3>1, <3>2, <3>3
  <2> HIDE DEF x, row
  <2>9. SoundStream(x, ev)
    <3>1. CASE ev = <<>>
      BY <1>0, <2>5, <3>1 DEF SoundStream, Measured, Accounted
    <3>2. CASE ev = <<row>>
      <4>1. Len(ev) = 1 /\ \A i \in DOMAIN ev : ev[i] = row
        BY <3>2
      <4> QED
        BY <1>0, <2>5, <2>6, <4>1 DEF SoundStream, Measured, Accounted
    <3> QED
      BY <2>8, <3>1, <3>2
  <2> QED
    BY <2>4, <2>5, <2>7, <2>8, <2>9, StreamStep
<1> QED
  BY <1>3, <1>4

\* What is answered has a status and selects positions.
LEMMA ReplyType ==
    ASSUME NEW h \in Headers, NEW r, r.status \in {200, 206, 416, 500}
    PROVE  Reply(h, r) \in Replies
BY DEF Reply, Replies, Asked, Positions, Headers

\* A body that was answered and has recorded nothing.
Fresh(pc, reply, connected, first, n) ==
    [NoBody EXCEPT !.pc = pc, !.reply = reply, !.connected = connected,
                   !.first = first, !.cursor = first, !.expected = n]

LEMMA FreshSound ==
    ASSUME NEW reply \in Replies, NEW pc \in {"answered", "streaming"}, NEW connected \in BOOLEAN,
           NEW first \in Nat, NEW n \in Nat, first + n <= FileLen
    PROVE  /\ Fresh(pc, reply, connected, first, n) \in BodyStates
           /\ Fresh(pc, reply, connected, first, n).got = 0
           /\ SoundStream(Fresh(pc, reply, connected, first, n), <<>>)
<1> DEFINE x == Fresh(pc, reply, connected, first, n)
<1>0. FileLen \in Nat /\ first \in 0 .. FileLen /\ n \in 0 .. FileLen
  BY TransferAssumption
<1>1. x \in BodyStates
  BY <1>0, NoBodyType DEF Fresh, BodyStates, Live
<1>2. /\ x.pc = pc /\ x.first = first /\ x.expected = n /\ x.cursor = first
      /\ x.chunk = 0 /\ x.transferred = 0 /\ x.recorded = FALSE /\ x.sent = 0 /\ x.got = 0
  BY DEF Fresh, NoBody
<1> HIDE DEF x
<1>3. x.got = 0 /\ SoundStream(x, <<>>)
  BY <1>0, <1>2 DEF SoundStream, Measured, Accounted
<1> QED
  BY <1>1, <1>3 DEF x

\* The handler starts the stream where the response begins.
LEMMA StartStep ==
    ASSUME TypeOK, StreamInv, NEW b \in Bodies, NEW h \in RecipientHeaders, Start(b, h)
    PROVE  TypeOK' /\ StreamInv'
<1> DEFINE r == Response(h, FileLen)
<1>0. /\ body[b] \in BodyStates /\ events[b] \in Seq(Rows)
      /\ events' = [events EXCEPT ![b] = events[b]]
      /\ SoundStream(body[b], events[b]) /\ FileLen \in Nat
      /\ UNCHANGED <<held, crashes>>
      /\ body[b].pc = "idle"
      /\ h \in Headers
  BY StreamFacts, RecipientHeadersAreHeaders DEF Start
<1>1. events[b] = <<>>
  BY <1>0 DEF SoundStream, Accounted
<1>2. Reply(h, r) \in Replies
  BY <1>0, ResponseRight, ReplyType DEF NotSatisfiable
<1>3. [NoReply EXCEPT !.status = 500] \in Replies
  BY DEF NoReply, Replies, Forms
<1>4. ASSUME NEW reply \in Replies, NEW pc \in {"answered", "streaming"}, NEW connected \in BOOLEAN,
             NEW first \in Nat, NEW n \in Nat, first + n <= FileLen,
             body' = [body EXCEPT ![b] = Fresh(pc, reply, connected, first, n)]
      PROVE  TypeOK' /\ StreamInv'
  <2> DEFINE x == Fresh(pc, reply, connected, first, n)
  <2>1. x \in BodyStates /\ x.got = 0 /\ SoundStream(x, events[b])
    BY <1>1, <1>4, FreshSound
  <2>2. body' = [body EXCEPT ![b] = x]
    BY <1>4
  <2> HIDE DEF x
  <2> QED
    BY <1>0, <2>1, <2>2, StreamStep
<1>5. ASSUME NEW reply \in Replies, body' = [body EXCEPT ![b] = [NoBody EXCEPT !.pc = "answered", !.reply = reply]]
      PROVE  TypeOK' /\ StreamInv'
  <2> DEFINE x == [NoBody EXCEPT !.pc = "answered", !.reply = reply]
  <2>1. x \in BodyStates
    BY NoBodyType DEF BodyStates
  <2>2. /\ x.pc = "answered" /\ x.first = 0 /\ x.expected = 0 /\ x.cursor = 0
        /\ x.chunk = 0 /\ x.transferred = 0 /\ x.recorded = FALSE /\ x.sent = 0 /\ x.got = 0
    BY DEF NoBody
  <2>3. body' = [body EXCEPT ![b] = x]
    BY <1>5
  <2> HIDE DEF x
  <2>4. SoundStream(x, events[b])
    BY <1>0, <1>1, <2>2 DEF SoundStream, Measured, Accounted
  <2> QED
    BY <1>0, <2>1, <2>2, <2>3, <2>4, StreamStep
<1>6. CASE body' = [body EXCEPT ![b] = Answer(h, r)]
  BY <1>2, <1>5, <1>6 DEF Answer
<1>7. CASE body' = [body EXCEPT ![b] = SeekFails]
  <2>1. SeekFails = [NoBody EXCEPT !.pc = "answered", !.reply = [NoReply EXCEPT !.status = 500]]
    BY DEF SeekFails, NoBody
  <2> QED
    BY <1>3, <1>5, <1>7, <2>1
<1>8. ASSUME r.start <= r.end, body' = [body EXCEPT ![b] = BodyOf(h, r)]
      PROVE  TypeOK' /\ StreamInv'
  <2>1. r.start \in 0 .. FileLen - 1 /\ r.end \in 0 .. FileLen - 1
    BY <1>0, <1>8, ResponseFits
  <2> DEFINE n == r.end - r.start + 1
  <2>2. n \in Nat /\ r.start \in Nat /\ r.start + n <= FileLen
    BY <1>0, <1>8, <2>1
  <2>3. body' = [body EXCEPT ![b] = Fresh("streaming", Reply(h, r), TRUE, r.start, n)]
    BY <1>8 DEF BodyOf, Fresh
  <2> HIDE DEF n, r
  <2> QED
    BY <1>2, <1>4, <2>2, <2>3
<1> QED
  BY <1>6, <1>7, <1>8 DEF Start

\* The polls and the drop of a body.
LEMMA ServeStep ==
    ASSUME TypeOK, StreamInv, NEW b \in Bodies, Serve(b)
    PROVE  TypeOK' /\ StreamInv'
<1>0. /\ body[b] \in BodyStates /\ events[b] \in Seq(Rows)
      /\ events = [events EXCEPT ![b] = events[b]]
      /\ SoundStream(body[b], events[b])
      /\ FileLen \in Nat /\ Chunk \in Nat \ {0}
  BY StreamFacts
<1>1. CASE Read(b)
  <2>1. PICK n \in 1 .. Chunk : n <= Left(b) /\ body' = [body EXCEPT ![b].chunk = n]
    BY <1>1 DEF Read
  <2> DEFINE x == [body[b] EXCEPT !.chunk = n]
  <2>2. body' = [body EXCEPT ![b] = x] /\ UNCHANGED <<events, held, crashes>>
    BY <1>1, <2>1 DEF Read
  <2>3. n \in 0 .. Chunk
    BY <1>0, <2>1
  <2>4. /\ x \in BodyStates /\ x.got = body[b].got /\ x.first = body[b].first
        /\ x.chunk = n /\ x.transferred = body[b].transferred /\ x.sent = body[b].sent
        /\ x.expected = body[b].expected /\ x.cursor = body[b].cursor
        /\ x.pc = body[b].pc /\ x.recorded = body[b].recorded
    BY <1>0, <2>3 DEF BodyStates
  <2> HIDE DEF x
  <2>5. Measured(x)
    <3>1. n <= body[b].expected - body[b].transferred
      BY <2>1 DEF Left
    <3> QED
      BY <1>0, <2>3, <2>4, <3>1 DEF SoundStream, Measured, BodyStates
  <2>6. Accounted(x, events[b])
    BY <1>0, <2>4 DEF SoundStream, Accounted
  <2> QED
    BY <1>0, <2>2, <2>4, <2>5, <2>6, StreamStep DEF SoundStream
<1>2. CASE Yield(b)
  <2> DEFINE s == body[b]
             x == [s EXCEPT !.transferred = s.transferred + s.chunk, !.sent = s.sent + s.chunk,
                            !.cursor = s.cursor + s.chunk, !.chunk = 0]
  <2>1. /\ s.pc = "streaming" /\ UNCHANGED <<events, held, crashes>>
        /\ body' = [body EXCEPT ![b] = x]
    BY <1>2 DEF Yield, Polled
  <2>2. /\ x.transferred = s.transferred + s.chunk /\ x.sent = s.sent + s.chunk
        /\ x.cursor = s.cursor + s.chunk /\ x.chunk = 0
        /\ x.got = s.got /\ x.first = s.first /\ x.expected = s.expected
        /\ x.pc = s.pc /\ x.recorded = s.recorded
    BY <1>0 DEF BodyStates
  <2>3. /\ s.first \in Nat /\ s.expected \in Nat /\ s.sent \in Nat /\ s.chunk \in Nat
        /\ s.cursor \in Nat /\ s.transferred \in Nat /\ s.got \in Nat
    BY <1>0 DEF BodyStates
  <2>4. /\ s.transferred + s.chunk \in 0 .. FileLen /\ s.sent + s.chunk \in 0 .. FileLen
        /\ s.cursor + s.chunk \in 0 .. FileLen
    <3>1. Measured(s) /\ FileLen \in Nat
      BY <1>0 DEF SoundStream
    <3> HIDE DEF s
    <3> QED
      BY <2>3, <3>1 DEF Measured
  <2>5. x \in BodyStates
    <3> DEFINE t == s.transferred + s.chunk
               n == s.sent + s.chunk
               c == s.cursor + s.chunk
    <3>1. t \in 0 .. FileLen /\ n \in 0 .. FileLen /\ c \in 0 .. FileLen /\ 0 \in 0 .. Chunk
      BY <1>0, <2>4
    <3>2. x = [s EXCEPT !.transferred = t, !.sent = n, !.cursor = c, !.chunk = 0]
      OBVIOUS
    <3> HIDE DEF t, n, c, x
    <3> QED
      BY <1>0, <3>1, <3>2 DEF BodyStates
  <2>6. events[b] = <<>>
    BY <1>0, <2>1 DEF SoundStream, Measured, Accounted
  <2> HIDE DEF x
  <2>7. SoundStream(x, events[b])
    <3>1. SoundStream(s, events[b])
      BY <1>0
    <3> HIDE DEF s
    <3> QED
      BY <2>1, <2>2, <2>3, <2>6, <3>1 DEF SoundStream, Measured, Accounted
  <2> QED
    BY <1>0, <2>1, <2>2, <2>5, <2>7, StreamStep
<1>3. CASE ReadFails(b)
  BY <1>3, RecordStep DEF ReadFails
<1>4. CASE PollEnd(b)
  <2>1. body[b].transferred = body[b].expected => body[b].sent = body[b].expected
    BY <1>0 DEF SoundStream, Measured, Accounted
  <2> DEFINE whole == (body[b].transferred = body[b].expected)
  <2>2. whole \in BOOLEAN /\ Record(b, whole, "ended") /\ UNCHANGED <<held, crashes>>
    BY <1>4 DEF PollEnd
  <2>3. whole => body[b].sent = body[b].expected
    BY <2>1
  <2> HIDE DEF whole
  <2> QED
    BY <2>2, <2>3, RecordStep
<1>5. CASE Drop(b)
  BY <1>5, RecordStep DEF Drop
<1> QED
  BY <1>1, <1>2, <1>3, <1>4, <1>5 DEF Serve

\* A byte arrives where it belongs.
LEMMA ReceiveStep ==
    ASSUME TypeOK, StreamInv, NEW b \in Bodies, Receive(b)
    PROVE  TypeOK' /\ StreamInv'
<1> DEFINE s == body[b]
           x == [s EXCEPT !.got = s.got + 1]
           at == s.first + s.got
<1>0. /\ s \in BodyStates /\ SoundStream(s, events[b])
      /\ body \in [Bodies -> BodyStates] /\ held \in [Positions -> Positions \cup {NULL}]
      /\ FileLen \in Nat
  BY StreamFacts DEF TypeOK
<1>1. /\ s.got < s.sent /\ body' = [body EXCEPT ![b] = x]
      /\ UNCHANGED <<events, crashes>>
      /\ held' = [held EXCEPT ![at] = s.cursor - s.sent + s.got]
  BY DEF Receive
<1>2. /\ s.first \in Nat /\ s.expected \in Nat /\ s.sent \in Nat /\ s.chunk \in Nat
      /\ s.cursor \in Nat /\ s.transferred \in Nat /\ s.got \in Nat /\ s.sent <= FileLen
  BY <1>0 DEF BodyStates
<1>3. /\ x.got = s.got + 1 /\ x.transferred = s.transferred /\ x.sent = s.sent
      /\ x.cursor = s.cursor /\ x.chunk = s.chunk
      /\ x.first = s.first /\ x.expected = s.expected
      /\ x.pc = s.pc /\ x.recorded = s.recorded
  BY <1>0 DEF BodyStates
<1>4. x \in BodyStates
  BY <1>0, <1>1, <1>2 DEF BodyStates
<1>5. at \in Positions /\ s.cursor - s.sent + s.got = at
  <2>1. Measured(s)
    BY <1>0 DEF SoundStream
  <2>2. s.got < s.sent
    BY <1>1
  <2> HIDE DEF s
  <2> QED
    BY <1>0, <1>2, <2>1, <2>2 DEF Measured, Positions
<1>6. /\ held'[at] = at
      /\ \A p \in Positions : p # at => held'[p] = held[p]
      /\ held' \in [Positions -> Positions \cup {NULL}]
  BY <1>0, <1>1, <1>5
<1>7. SoundStream(x, events[b])
  BY <1>0, <1>1, <1>2, <1>3 DEF SoundStream, Measured, Accounted
<1> HIDE DEF x
<1>8. /\ body'[b] = x /\ body' \in [Bodies -> BodyStates]
      /\ \A c \in Bodies : c # b => body'[c] = body[c]
  BY <1>0, <1>1, <1>4
<1>9. \A c \in Bodies : SoundStream(body'[c], events'[c])
  BY <1>1, <1>7, <1>8 DEF StreamInv
<1>10. HeldInv'
  <2>1. ASSUME NEW p \in Positions
        PROVE  held'[p] \in {p, NULL}
    BY <1>6 DEF StreamInv, HeldInv
  <2>2. ASSUME NEW c \in Bodies, NEW p \in body'[c].first .. body'[c].first + body'[c].got - 1
        PROVE  held'[p] = p
    <3>1. p \in Positions
      <4> DEFINE z == body'[c]
      <4>1. z \in BodyStates /\ Measured(z)
        BY <1>8, <1>9 DEF SoundStream
      <4>2. p \in z.first .. z.first + z.got - 1
        BY <2>2
      <4> HIDE DEF z
      <4>3. z.first \in Nat /\ z.got \in Nat /\ z.sent \in Nat /\ z.chunk \in Nat /\ z.expected \in Nat
        BY <4>1 DEF BodyStates
      <4>4. FileLen \in Nat
        BY <1>0
      <4> QED
        BY <4>1, <4>2, <4>3, <4>4 DEF Measured, Positions
    <3>2. CASE p = at
      BY <1>6, <3>2
    <3>3. CASE p # at /\ c # b
      BY <1>6, <1>8, <2>2, <3>1, <3>3 DEF StreamInv, HeldInv
    <3>4. CASE p # at /\ c = b
      <4>1. p \in s.first .. s.first + (s.got + 1) - 1
        BY <1>3, <1>8, <2>2, <3>4
      <4>2. p \in s.first .. s.first + s.got - 1
        <5>1. p # s.first + s.got
          BY <3>4
        <5> HIDE DEF s
        <5> QED
          BY <1>2, <4>1, <5>1
      <4>3. held[p] = p
        BY <4>2 DEF StreamInv, HeldInv
      <4> QED
        BY <1>6, <3>1, <3>4, <4>3
    <3> QED
      BY <3>2, <3>3, <3>4
  <2> QED
    BY <2>1, <2>2 DEF HeldInv
<1>11. \A c \in Bodies : body'[c].got <= body'[c].sent /\ body'[c].sent <= body'[c].expected
  BY <1>8, <1>9 DEF SoundStream, Measured, Accounted, BodyStates
<1>12. TypeOK'
  BY <1>1, <1>6, <1>8, <1>11 DEF TypeOK
<1> QED
  BY <1>9, <1>10, <1>12 DEF StreamInv

LEMMA DisconnectStep ==
    ASSUME TypeOK, StreamInv, NEW b \in Bodies, Disconnect(b)
    PROVE  TypeOK' /\ StreamInv'
<1> DEFINE x == [body[b] EXCEPT !.connected = FALSE]
<1>0. /\ body[b] \in BodyStates /\ events[b] \in Seq(Rows)
      /\ events = [events EXCEPT ![b] = events[b]]
      /\ SoundStream(body[b], events[b])
      /\ body' = [body EXCEPT ![b] = x] /\ UNCHANGED <<events, held, crashes>>
  BY StreamFacts DEF Disconnect
<1>1. x \in BodyStates /\ x.got = body[b].got /\ x.first = body[b].first
  BY <1>0 DEF BodyStates
<1>2. SoundStream(x, events[b])
  BY <1>0 DEF SoundStream, Measured, Accounted, BodyStates
<1> HIDE DEF x
<1> QED
  BY <1>0, <1>1, <1>2, StreamStep

\* A crash only ends bodies.
LEMMA CrashStep ==
    ASSUME TypeOK, StreamInv, Crash
    PROVE  TypeOK' /\ StreamInv'
<1>0. /\ body \in [Bodies -> BodyStates] /\ crashes \in 0 .. MaxCrashes /\ MaxCrashes \in Nat
      /\ UNCHANGED <<events, held>>
  BY TransferAssumption DEF TypeOK, Crash
<1>1. ASSUME NEW b \in Bodies
      PROVE  /\ body'[b] \in BodyStates
             /\ body'[b].first = body[b].first /\ body'[b].got = body[b].got
             /\ SoundStream(body'[b], events[b])
             /\ body'[b].got <= body'[b].sent /\ body'[b].sent <= body'[b].expected
  <2> DEFINE pc == IF body[b].pc \in Live THEN "lost" ELSE body[b].pc
             x == [body[b] EXCEPT !.connected = FALSE, !.pc = pc]
  <2>1. body'[b] = x
    BY <1>1 DEF Crash
  <2>2. body[b] \in BodyStates /\ SoundStream(body[b], events[b])
    BY <1>0 DEF StreamInv
  <2>3. /\ pc \in {"idle", "answered", "dropped", "lost"}
        /\ pc \in {"idle", "dropped"} => pc = body[b].pc
    BY <2>2 DEF BodyStates, Live
  <2> HIDE DEF pc
  <2>4. x \in BodyStates
    BY <2>2, <2>3 DEF BodyStates
  <2>5. /\ x.pc = pc /\ x.first = body[b].first /\ x.got = body[b].got
        /\ x.sent = body[b].sent /\ x.expected = body[b].expected
        /\ x.transferred = body[b].transferred /\ x.cursor = body[b].cursor
        /\ x.chunk = body[b].chunk /\ x.recorded = body[b].recorded
    BY <2>2 DEF BodyStates
  <2> HIDE DEF x
  <2>6. SoundStream(x, events[b])
    BY <2>2, <2>3, <2>5 DEF SoundStream, Measured, Accounted
  <2>7. x.got <= x.sent /\ x.sent <= x.expected
    BY <2>4, <2>6 DEF SoundStream, Measured, Accounted, BodyStates
  <2> QED
    BY <2>1, <2>4, <2>5, <2>6, <2>7
<1>2. body' \in [Bodies -> BodyStates]
  <2>1. body' = [b \in Bodies |-> body'[b]]
    BY DEF Crash
  <2> QED
    BY <1>1, <2>1
<1>3. TypeOK'
  <2>1. crashes' \in 0 .. MaxCrashes
    <3>1. crashes < MaxCrashes /\ crashes' = crashes + 1
      BY DEF Crash
    <3> QED
      BY <1>0, <3>1
  <2> QED
    BY <1>0, <1>1, <1>2, <2>1 DEF TypeOK
<1>4. HeldInv'
  BY <1>0, <1>1 DEF StreamInv, HeldInv
<1> QED
  BY <1>0, <1>1, <1>3, <1>4 DEF StreamInv

LEMMA TransferStep ==
    ASSUME TypeOK, StreamInv, [Next]_transferVars
    PROVE  TypeOK' /\ StreamInv'
<1>1. CASE UNCHANGED transferVars
  BY <1>1 DEF transferVars, TypeOK, StreamInv, HeldInv
<1> QED
  BY <1>1, StartStep, ServeStep, ReceiveStep, DisconnectStep, CrashStep DEF Next

LEMMA TransferInvariant == Spec => [](TypeOK /\ StreamInv)
BY TransferInit, TransferStep, PTL DEF Spec

\* The types of Transfer, and that no body sends more than it announced.
THEOREM TransferTyped == Spec => []TypeOK
BY TransferInvariant, PTL

\* A body leaves at most one event, with the bytes it handed over, and one that
\* says completed only when they are the whole range: for every file, range and
\* size of reads, however the body ends.
THEOREM TransferEventsExact == Spec => []EventsExact
<1>1. StreamInv => EventsExact
  BY DEF StreamInv, EventsExact, SoundStream, Accounted
<1> QED
  BY <1>1, TransferInvariant, PTL

\* Whatever is downloaded in parallel, cut off and resumed, the recipient's copy
\* agrees with the file, and a response received in full leaves no hole.
THEOREM TransferCopyFaithful == Spec => []CopyFaithful
<1>1. StreamInv => CopyFaithful
  BY DEF StreamInv, HeldInv, CopyFaithful
<1> QED
  BY <1>1, TransferInvariant, PTL

\* A body that is over, in whatever way, has been recorded, unless the process
\* died: what is left of TransfersSettle without the server's fairness.
EndsRecorded ==
    \A b \in Bodies : body[b].pc \in {"error", "ended", "dropped"} => body[b].recorded

\* AccountingStream::record is called on every way out of the stream: the end,
\* a failed read, and the drop, also of a body that was never polled.
THEOREM TransferEndsRecorded == Spec => []EndsRecorded
<1>1. StreamInv => EndsRecorded
  BY DEF StreamInv, SoundStream, Accounted, EndsRecorded
<1> QED
  BY <1>1, TransferInvariant, PTL

----------------------------------------------------------------------------
(* What is answered to a range.                                            *)

\* s answers what it was asked for
AnswersAsked(s) ==
    s.pc # "idle" /\ s.reply.form \in {"absent", "malformed", "single"} =>
        /\ s.reply.status \in {200, 206} => s.first .. s.first + s.expected - 1 = s.reply.asked
        /\ s.reply.status = 200 <=> s.reply.form = "absent" /\ s.reply.status # 500
        /\ s.reply.status = 416 <=> s.reply.form # "absent" /\ s.reply.asked = {}

\* x is a later state of the answer s
SameAnswer(s, x) ==
    /\ x.reply = s.reply
    /\ x.first = s.first /\ x.expected = s.expected
    /\ x.pc # "idle" => s.pc # "idle"

\* Whatever is made of a response answers what was asked for.
LEMMA StartAnswers ==
    ASSUME TypeOK, NEW b \in Bodies, NEW h \in RecipientHeaders, Start(b, h)
    PROVE  AnswersAsked(body'[b])
<1> DEFINE r == Response(h, FileLen)
           asked == Asked(h, FileLen)
<1>0. h \in Headers /\ FileLen \in Nat /\ body \in [Bodies -> BodyStates]
  BY RecipientHeadersAreHeaders, TransferAssumption DEF TypeOK
<1>1. \/ /\ r.status = IF h.form = "absent" THEN 200 ELSE 206
         /\ r.start \in Nat /\ r.end \in -1 .. FileLen - 1
         /\ r.start .. r.end = asked
         /\ h.form = "absent" \/ r.start <= r.end
      \/ /\ h.form # "absent" /\ r.status = 416 /\ r.start = 0 /\ r.end = -1
         /\ asked = {}
  BY <1>0, ResponseRight DEF NotSatisfiable
<1>2. CASE body' = [body EXCEPT ![b] = SeekFails]
  <2>1. body'[b] = SeekFails
    BY <1>0, <1>2
  <2>2. SeekFails.reply.status = 500 /\ SeekFails.reply.form = "absent"
    BY DEF SeekFails, NoBody, NoReply
  <2> QED
    BY <2>1, <2>2 DEF AnswersAsked
<1>3. /\ Reply(h, r).form = h.form /\ Reply(h, r).asked = asked
      /\ Reply(h, r).status = r.status
  BY DEF Reply
<1>4. CASE r.start > r.end /\ body' = [body EXCEPT ![b] = Answer(h, r)]
  <2> DEFINE x == Answer(h, r)
  <2>1. body'[b] = x
    BY <1>0, <1>4
  <2>2. x.reply = Reply(h, r) /\ x.first = 0 /\ x.expected = 0
    BY DEF Answer, NoBody
  <2>3. asked = {}
    <3> HIDE DEF r, asked
    <3> QED
      BY <1>0, <1>1, <1>4
  <2>4. x.first .. x.first + x.expected - 1 = {}
    BY <2>2
  <2> HIDE DEF x, r, asked
  <2>5. /\ x.reply.form = h.form /\ x.reply.asked = {} /\ x.reply.status = r.status
    BY <1>3, <2>2, <2>3
  <2>6. r.status = IF h.form = "absent" THEN 200 ELSE 416
    BY <1>0, <1>1, <1>4
  <2> QED
    BY <2>1, <2>4, <2>5, <2>6 DEF AnswersAsked
<1>5. CASE r.start <= r.end /\ body' = [body EXCEPT ![b] = BodyOf(h, r)]
  <2> DEFINE x == BodyOf(h, r)
             n == r.end - r.start + 1
  <2>1. body'[b] = x
    BY <1>0, <1>5
  <2>2. x.reply = Reply(h, r) /\ x.first = r.start /\ x.expected = n
    BY DEF BodyOf, NoBody
  <2> HIDE DEF x, r, asked
  <2>3. /\ r.status = IF h.form = "absent" THEN 200 ELSE 206
        /\ r.start \in Nat /\ r.end \in Int
        /\ r.start .. r.end = asked
    BY <1>0, <1>1, <1>5
  <2>4. x.first .. x.first + x.expected - 1 = asked
    <3>1. r.start + n - 1 = r.end
      BY <2>3
    <3> HIDE DEF n
    <3> QED
      BY <2>2, <2>3, <3>1
  <2>5. asked # {}
    <3>1. r.start \in r.start .. r.end
      BY <1>5, <2>3
    <3> QED
      BY <2>3, <3>1
  <2> QED
    BY <1>3, <2>1, <2>2, <2>3, <2>4, <2>5 DEF AnswersAsked
<1> QED
  BY <1>2, <1>4, <1>5 DEF Start

\* Nothing changes an answer later.
LEMMA AnswerStays ==
    ASSUME TypeOK, [Next]_transferVars, NEW b \in Bodies,
           ~(\E h \in RecipientHeaders : Start(b, h))
    PROVE  SameAnswer(body[b], body'[b])
<1>0. body \in [Bodies -> BodyStates] /\ body[b] \in BodyStates
  BY DEF TypeOK
<1>1. ASSUME NEW c \in Bodies, NEW completed, NEW pc \in {"error", "ended", "dropped"},
             Record(c, completed, pc), body[c].pc # "idle"
      PROVE  SameAnswer(body[b], body'[b])
  <2> DEFINE marked == [body[c] EXCEPT !.recorded = TRUE]
  <2>1. body[c] \in BodyStates
    BY <1>0
  <2>2. PICK r \in Recorded(body[c], completed) : body' = [body EXCEPT ![c] = [r[1] EXCEPT !.pc = pc]]
    BY <1>1 DEF Record
  <2>3. r[1] = body[c] \/ r[1] = marked
    <3> HIDE DEF marked
    <3>1. Recorded(body[c], completed) =
            IF body[c].recorded THEN {<<body[c], <<>> >>}
            ELSE {<<marked, <<[bytes |-> body[c].transferred, completed |-> completed]>> >>,
                  <<marked, <<>> >>}
      BY DEF Recorded, marked
    <3> QED
      BY <2>2, <3>1
  <2>4. SameAnswer(body[c], [body[c] EXCEPT !.pc = pc])
    BY <1>1, <2>1 DEF SameAnswer, BodyStates
  <2>5. SameAnswer(body[c], [marked EXCEPT !.pc = pc])
    BY <1>1, <2>1 DEF SameAnswer, BodyStates
  <2>6. c = b => body'[b] = [r[1] EXCEPT !.pc = pc]
    BY <1>0, <2>2
  <2>7. c # b => body'[b] = body[b]
    BY <1>0, <2>2
  <2>8. SameAnswer(body[b], body[b])
    BY DEF SameAnswer
  <2> HIDE DEF marked
  <2> QED
    BY <2>3, <2>4, <2>5, <2>6, <2>7, <2>8
<1>2. ASSUME NEW c \in Bodies, NEW h \in RecipientHeaders, Start(c, h)
      PROVE  SameAnswer(body[b], body'[b])
  <2>1. c # b
    BY <1>2
  <2>2. body'[b] = body[b]
    BY <1>0, <1>2, <2>1 DEF Start
  <2> QED
    BY <2>2 DEF SameAnswer
<1>3. ASSUME NEW c \in Bodies, Read(c) \/ Yield(c) \/ Receive(c) \/ Disconnect(c)
      PROVE  SameAnswer(body[b], body'[b])
  BY <1>0, <1>3 DEF Read, Yield, Receive, Disconnect, SameAnswer, BodyStates
<1>4. ASSUME NEW c \in Bodies, ReadFails(c) \/ PollEnd(c) \/ Drop(c)
      PROVE  SameAnswer(body[b], body'[b])
  <2>1. body[c].pc # "idle"
    BY <1>4 DEF ReadFails, PollEnd, Drop, Polled
  <2> QED
    BY <1>1, <1>4, <2>1 DEF ReadFails, PollEnd, Drop
<1>5. CASE Crash
  BY <1>0, <1>5 DEF Crash, SameAnswer, BodyStates, Live
<1>6. CASE UNCHANGED transferVars
  BY <1>6 DEF transferVars, SameAnswer
<1> QED
  BY <1>2, <1>3, <1>4, <1>5, <1>6 DEF Next, Serve

\* A Range header is answered with exactly the positions it asks for, with 416
\* when it asks for none or is malformed, and a request without one with the
\* whole file: for every header, every length of the file, every width of the
\* integers.  Nothing is said of lists of ranges and of other units.
THEOREM RangesAnswered == Spec => []RangeAnswered
<1>1. RangeAnswered <=> \A b \in Bodies : AnswersAsked(body[b])
  BY DEF RangeAnswered, AnswersAsked
<1>2. Init => RangeAnswered
  BY <1>1 DEF Init, NoBody, AnswersAsked
<1>3. TypeOK /\ RangeAnswered /\ [Next]_transferVars => RangeAnswered'
  <2> SUFFICES ASSUME TypeOK, RangeAnswered, [Next]_transferVars, NEW b \in Bodies
               PROVE  AnswersAsked(body'[b])
    BY DEF RangeAnswered, AnswersAsked
  <2>1. CASE \E h \in RecipientHeaders : Start(b, h)
    BY <2>1, StartAnswers
  <2>2. CASE ~(\E h \in RecipientHeaders : Start(b, h))
    <3>1. SameAnswer(body[b], body'[b]) /\ AnswersAsked(body[b])
      BY <1>1, <2>2, AnswerStays
    <3> QED
      BY <3>1 DEF SameAnswer, AnswersAsked
  <2> QED
    BY <2>1, <2>2
<1> QED
  BY <1>2, <1>3, TransferTyped, PTL DEF Spec

=============================================================================
