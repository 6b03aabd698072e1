-------------------------- MODULE GeminiConnection --------------------------
(***************************************************************************)
(* One Gemini connection after its TLS handshake: handle_connection, the   *)
(* peer that sends the request in segments of its choosing, and time.      *)
(*                                                                         *)
(* A byte is a line terminator's half or anything else; whether the        *)
(* request, once read, is valid and names an asset is a choice made at the *)
(* start. The reply is a header and a body in parts, each of which passes  *)
(* through the TLS session's buffer into the socket's.                     *)
(***************************************************************************)
EXTENDS Integers, Sequences, SequencesExt

CONSTANTS Streams,       \* what peers send: sequences of "x", "CR" and "LF"
          MaxRequest,    \* MAX_REQUEST_SIZE
          ReadTimeout,   \* REQUEST_READ_TIMEOUT, in ticks
          ChunkTimeout,  \* REQUEST_CHUNK_TIMEOUT
          Body,          \* the parts of an asset's content
          SessionRoom,   \* parts the TLS session buffers
          SocketRoom     \* parts the socket buffers for a peer that does not read

ASSUME ConnectionAssumption ==
    /\ Streams \subseteq Seq({"x", "CR", "LF"})
    /\ {MaxRequest, ReadTimeout, ChunkTimeout, SessionRoom, SocketRoom}
          \subseteq Nat \ {0}
    /\ ChunkTimeout <= ReadTimeout
    /\ Body \in Seq(STRING) /\ ~Contains(Body, "close")

BufSize == MaxRequest + 2

VARIABLES
    stream,   \* what this peer sends, if it goes on
    names,    \* what the request turns out to name, once parsed
    sent,     \* bytes of stream the peer has sent
    eof,      \* the peer has closed its side
    reset,    \* the connection is reset
    pos,      \* bytes read into buf
    pc,       \* "read", "write", "shutdown" or "done"
    outcome,  \* how the read loop ended
    elapsed,  \* time since the first read
    idle,     \* time since the last read
    todo,     \* parts of the reply not yet written
    session,  \* parts in the TLS session's buffer
    socket,   \* parts in the socket's buffer
    received  \* parts the peer has read

request == <<stream, names>>
peerVars == <<sent, eof, reset>>
reply == <<todo, session, socket, received>>
clocks == <<elapsed, idle>>
vars == <<request, peerVars, pos, pc, outcome, clocks, reply>>

----------------------------------------------------------------------------
Init ==
    /\ stream \in Streams
    /\ names \in {"invalid", "asset", "nothing"}
    /\ sent = 0 /\ pos = 0
    /\ eof = FALSE /\ reset = FALSE
    /\ pc = "read"
    /\ outcome = "none"
    /\ elapsed = 0 /\ idle = 0
    /\ todo = <<>> /\ session = <<>> /\ socket = <<>> /\ received = <<>>

(* The match on the outcome, and, for a complete request, the checks of    *)
(* its encoding, URL and scheme, and lookup.                               *)
ReplyTo(o) ==
    CASE o \in {"timeout", "stalled", "toolong"}  -> <<"59">>
      [] o = "complete" /\ names = "invalid"      -> <<"59">>
      [] o = "complete" /\ names = "nothing"      -> <<"51">>
      [] o = "complete" /\ names = "asset"        -> <<"20">> \o Body
      [] o \in {"closed", "error"}                -> <<>>

EndRead(o) ==
    /\ outcome' = o
    /\ todo' = ReplyTo(o)
    /\ pc' = IF ReplyTo(o) = <<>> THEN "done" ELSE "write"

CrLfAt(n) == n >= 2 /\ SubSeq(stream, n - 1, n) = <<"CR", "LF">>

(* Faulty: the size is checked before the terminator; a bare LF ends a     *)
(* request.                                                                *)
SizeFirst(n) ==
    IF n >= BufSize THEN "toolong" ELSE IF CrLfAt(n) THEN "complete" ELSE "none"
BareLineFeed(n) ==
    IF stream[n] = "LF" THEN "complete" ELSE IF n >= BufSize THEN "toolong" ELSE "none"

(* With n bytes read, CRLF is looked for at their end, then the size is    *)
(* checked.                                                                *)
AfterRead(n) ==
    IF CrLfAt(n) THEN "complete" ELSE IF n >= BufSize THEN "toolong" ELSE "none"

(* read returns some bytes, however the peer cut its stream: at most what  *)
(* buf[pos..] has room for.                                                *)
Read ==
    /\ pc = "read"
    /\ pos' \in pos + 1 .. (IF sent < BufSize THEN sent ELSE BufSize)
    /\ idle' = 0
    /\ IF AfterRead(pos') = "none"
       THEN UNCHANGED <<pc, outcome, todo>>
       ELSE EndRead(AfterRead(pos'))
    /\ UNCHANGED <<request, peerVars, elapsed, session, socket, received>>

(* Faulty: a read of 0 bytes is taken for progress. *)
ReadEofIgnored ==
    /\ pc = "read"
    /\ eof /\ pos = sent
    /\ UNCHANGED vars

(* read returns 0: the peer has closed and everything it sent is read. *)
ReadEof ==
    /\ pc = "read"
    /\ eof /\ pos = sent
    /\ EndRead("closed")
    /\ UNCHANGED <<request, peerVars, pos, clocks, session, socket, received>>

ReadError ==
    /\ pc = "read"
    /\ reset
    /\ EndRead("error")
    /\ UNCHANGED <<request, peerVars, pos, clocks, session, socket, received>>

(* Either timeout. Both poll the read first, so that neither fires while   *)
(* there is something to read.                                             *)
NothingToRead == pos = sent /\ ~eof /\ ~reset
Stalled == idle >= ChunkTimeout
OutOfTime == elapsed >= ReadTimeout

ReadTimesOut ==
    /\ pc = "read"
    /\ NothingToRead
    /\ \/ Stalled /\ EndRead("stalled")
       \/ OutOfTime /\ EndRead("timeout")
    /\ UNCHANGED <<request, peerVars, pos, clocks, session, socket, received>>

----------------------------------------------------------------------------
(* The session's buffer is passed on to the socket as far as it takes it,  *)
(* whenever the task writes or shuts down, and at no other time.           *)
PassOn(parts) ==
    LET free == SocketRoom - Len(socket)
        n == IF Len(parts) < free THEN Len(parts) ELSE free
    IN  /\ socket' = socket \o SubSeq(parts, 1, n)
        /\ session' = SubSeq(parts, n + 1, Len(parts))

(* Faulty: the session's buffer has no limit. *)
AlwaysRoom == TRUE
Room == Len(session) < SessionRoom \/ Len(socket) < SocketRoom

(* Faulty: the stream is dropped after the last write; it is kept for      *)
(* another request.                                                        *)
DropStream(o) == "done"
KeepAlive(o) == "read"

(* After the last part, 20 and 51 go on to shutdown, 59 returns. *)
AfterReply(o) == IF ReplyTo(o) = <<"59">> THEN "done" ELSE "shutdown"

(* write_all of one part: done when the session has taken it. No deadline. *)
Write ==
    /\ pc = "write"
    /\ ~reset
    /\ Room
    /\ PassOn(Append(session, Head(todo)))
    /\ todo' = Tail(todo)
    /\ pc' = IF Len(todo) > 1 THEN "write" ELSE AfterReply(outcome)
    /\ UNCHANGED <<request, peerVars, pos, outcome, clocks, received>>

(* A write fails: the rest of the reply is given up. *)
WriteFails ==
    /\ pc \in {"write", "shutdown"}
    /\ reset
    /\ pc' = "done"
    /\ todo' = <<>>
    /\ UNCHANGED <<request, peerVars, pos, outcome, clocks, session, socket, received>>

(* shutdown: close_notify goes behind what is buffered, and the call       *)
(* returns when the session is flushed.                                    *)
Shutdown ==
    /\ pc = "shutdown"
    /\ ~reset
    /\ LET parts == IF Contains(session, "close")
                    THEN session
                    ELSE Append(session, "close")
       IN  /\ Len(socket) < SocketRoom
           /\ PassOn(parts)
           /\ pc' = IF Len(parts) <= SocketRoom - Len(socket) THEN "done" ELSE pc
    /\ UNCHANGED <<request, peerVars, pos, outcome, clocks, todo, received>>

----------------------------------------------------------------------------
(* The peer, and the network: it sends more of its stream, in a segment of *)
(* any size, closes, is cut off, reads.                                    *)
PeerSends ==
    /\ pc = "read"
    /\ ~eof /\ ~reset
    /\ sent' \in sent + 1 .. Len(stream)
    /\ UNCHANGED <<request, eof, reset, pos, pc, outcome, clocks, reply>>

PeerCloses ==
    /\ pc = "read"
    /\ ~eof /\ ~reset
    /\ eof' = TRUE
    /\ UNCHANGED <<request, sent, reset, pos, pc, outcome, clocks, reply>>

Reset ==
    /\ pc # "done"
    /\ ~reset
    /\ reset' = TRUE
    /\ UNCHANGED <<request, sent, eof, pos, pc, outcome, clocks, reply>>

PeerReads ==
    /\ socket # <<>>
    /\ received' = Append(received, Head(socket))
    /\ socket' = Tail(socket)
    /\ UNCHANGED <<request, peerVars, pos, pc, outcome, clocks, todo, session>>

(* Time passes while the read loop has nothing to read. The reply is not   *)
(* timed.                                                                  *)
Tick ==
    /\ pc = "read"
    /\ NothingToRead
    /\ ~Stalled /\ ~OutOfTime
    /\ idle' = idle + 1
    /\ elapsed' = elapsed + 1
    /\ UNCHANGED <<request, peerVars, pos, pc, outcome, reply>>

Handler ==
    \/ Read \/ ReadEof \/ ReadError \/ ReadTimesOut
    \/ Write \/ WriteFails \/ Shutdown

Next == Handler \/ PeerSends \/ PeerCloses \/ Reset \/ PeerReads \/ Tick

Spec == Init /\ [][Next]_vars

(* tokio polls a task that is ready, and time passes. Of the peer, nothing *)
(* is assumed.                                                             *)
FairSpec == Spec /\ WF_vars(Handler) /\ WF_vars(Tick)

----------------------------------------------------------------------------
TypeOK ==
    /\ stream \in Streams
    /\ names \in {"invalid", "asset", "nothing"}
    /\ sent \in 0 .. Len(stream)
    /\ pos \in 0 .. sent
    /\ eof \in BOOLEAN /\ reset \in BOOLEAN
    /\ pc \in {"read", "write", "shutdown", "done"}
    /\ outcome \in {"none", "complete", "closed", "toolong", "stalled",
                    "timeout", "error"}
    /\ elapsed \in 0 .. ReadTimeout /\ idle \in 0 .. elapsed
    /\ Len(session) <= SessionRoom /\ Len(socket) <= SocketRoom

(* Where the stream has a line terminator. *)
EndsAt == {i \in 2 .. Len(stream) : SubSeq(stream, i - 1, i) = <<"CR", "LF">>}
WellFormed == EndsAt = {Len(stream)} /\ Len(stream) <= BufSize

(* However a request is cut into segments: one of at most MAX_REQUEST_SIZE *)
(* bytes and its CRLF is complete as soon as it has been read, neither     *)
(* timeout nor the size check hits a peer whose whole request has arrived, *)
(* and one without its CRLF within the buffer is never taken for one.      *)
OutcomeIsRight ==
    /\ WellFormed =>
        /\ pos = Len(stream) /\ stream # <<>> => outcome \in {"complete", "error"}
        /\ outcome \in {"stalled", "timeout", "toolong"} => sent < Len(stream)
    /\ (\A i \in EndsAt : i > BufSize) => outcome # "complete"

(* What the peer is sent is always a prefix of its reply, and, unless the  *)
(* connection was reset, nothing is left behind in the session's buffer    *)
(* when the stream is dropped.                                             *)
FullReply ==
    IF outcome = "none" THEN <<>>
    ELSE ReplyTo(outcome) \o (IF Len(ReplyTo(outcome)) > 0 /\ ReplyTo(outcome) # <<"59">>
                              THEN <<"close">> ELSE <<>>)
RepliesArriveWhole ==
    /\ IsPrefix(received \o socket, FullReply)
    /\ pc = "done" /\ ~reset => received \o socket = FullReply

(* The read loop ends, whatever the peer does. *)
ReadEnds == (pc = "read") ~> (pc # "read")

(* This is the task that GeminiListener abstracts to three stages.         *)
Stage == CASE pc = "read" -> "request"
           [] pc \in {"write", "shutdown"} -> "reply"
           [] pc = "done" -> "closed"
Listener == INSTANCE GeminiListener WITH
    Conns <- {0}, Ips <- {0}, PeerIp <- [c \in {0} |-> 0], Reading <- {},
    MaxConcurrent <- 1, MaxPerIp <- 1,
    pc <- "accept", stage <- [c \in {0} |-> Stage], permits <- 0,
    per_ip <- [ip \in {0} |-> 1]
ImplementsListenerTask ==
    [][Listener!ReadRequest(0) \/ Listener!Reply(0)]_Stage
=============================================================================
