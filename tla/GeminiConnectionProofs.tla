----------------------- MODULE GeminiConnectionProofs -----------------------
(***************************************************************************)
(* Proofs about GeminiConnection, for any streams, limits, timeouts, body  *)
(* and buffers: requests are read to the right outcome, and replies go out *)
(* whole.                                                                  *)
(***************************************************************************)
EXTENDS GeminiConnection, SequenceTheorems, TLAPS

LEMMA Limits ==
    /\ BufSize \in Nat /\ MaxRequest \in Nat /\ ReadTimeout \in Nat /\ ChunkTimeout \in Nat
    /\ SessionRoom \in Nat \ {0} /\ SocketRoom \in Nat \ {0}
BY ConnectionAssumption DEF BufSize

----------------------------------------------------------------------------
(* The read loop. *)
ReadTypes ==
    /\ stream \in Streams
    /\ names \in {"invalid", "asset", "nothing"}
    /\ sent \in 0 .. Len(stream) /\ Len(stream) \in Nat
    /\ pos \in 0 .. sent
    /\ eof \in BOOLEAN /\ reset \in BOOLEAN
    /\ pc \in {"read", "write", "shutdown", "done"}
    /\ outcome \in {"none", "complete", "closed", "toolong", "stalled",
                    "timeout", "error"}
    /\ elapsed \in 0 .. ReadTimeout /\ idle \in 0 .. elapsed

(* OutcomeIsRight is inductive with what it leaves unsaid: the loop is     *)
(* there exactly while there is no outcome, a request of the right form    *)
(* has then not been read to its end, and can never be too long.           *)
ReadInv ==
    /\ ReadTypes
    /\ pc = "read" <=> outcome = "none"
    /\ WellFormed =>
        /\ outcome # "complete" => pos < Len(stream) \/ stream = <<>>
        /\ outcome \in {"stalled", "timeout"} => sent < Len(stream)
        /\ outcome # "toolong"
    /\ (\A i \in EndsAt : i > BufSize) => outcome # "complete"

LEMMA ReadInit == Init => ReadInv
<1> SUFFICES ASSUME Init PROVE ReadInv
  OBVIOUS
<1>1. Len(stream) \in Nat /\ (stream # <<>> => Len(stream) > 0)
  <2>1. stream \in Seq({"x", "CR", "LF"})
    BY ConnectionAssumption DEF Init
  <2> QED
    BY <2>1, EmptySeq, LenProperties
<1>2. ReadTypes
  <2>1. /\ stream \in Streams /\ names \in {"invalid", "asset", "nothing"}
        /\ sent = 0 /\ pos = 0 /\ eof = FALSE /\ reset = FALSE
        /\ pc = "read" /\ outcome = "none" /\ elapsed = 0 /\ idle = 0
    BY DEF Init
  <2>2. eof \in BOOLEAN /\ reset \in BOOLEAN
    BY <2>1
  <2>3. /\ sent \in 0 .. Len(stream) /\ pos \in 0 .. sent
        /\ elapsed \in 0 .. ReadTimeout /\ idle \in 0 .. elapsed
    BY <1>1, <2>1, Limits
  <2> QED
    BY <1>1, <2>1, <2>2, <2>3 DEF ReadTypes
<1>3. pos < Len(stream) \/ stream = <<>>
  BY <1>1 DEF Init
<1> QED
  BY <1>2, <1>3 DEF Init, ReadInv

LEMMA ReadStep == ASSUME ReadInv, Read PROVE ReadInv'
<1>1. /\ pos' \in pos + 1 .. sent /\ pos' <= BufSize
      /\ UNCHANGED <<stream, names, sent, eof, reset, elapsed>> /\ idle' = 0
      /\ pc = "read" /\ outcome = "none"
  BY Limits DEF Read, ReadInv, ReadTypes, request, peerVars
<1>2. \/ AfterRead(pos') = "none" /\ outcome' = "none" /\ pc' = "read"
      \/ AfterRead(pos') # "none" /\ outcome' = AfterRead(pos') /\ pc' \in {"write", "done"}
  BY <1>1 DEF Read, EndRead
<1>3. AfterRead(pos') \in {"none", "complete", "toolong"}
  BY DEF AfterRead
<1>4. ReadTypes'
  BY <1>1, <1>2, <1>3, Limits DEF ReadInv, ReadTypes
<1>5. EndsAt' = EndsAt /\ WellFormed' = WellFormed
  BY <1>1 DEF EndsAt, WellFormed
<1>6. CrLfAt(pos') <=> pos' \in EndsAt
  BY <1>1, Limits DEF CrLfAt, EndsAt, ReadInv, ReadTypes
<1>7. WellFormed => (CrLfAt(pos') <=> pos' = Len(stream))
  BY <1>6 DEF WellFormed
<1>8. WellFormed => AfterRead(pos') # "toolong"
  BY <1>1, <1>7, Limits DEF AfterRead, WellFormed, ReadInv, ReadTypes
<1>9. WellFormed /\ AfterRead(pos') = "none" => pos' < Len(stream)
  BY <1>1, <1>7, Limits DEF AfterRead, ReadInv, ReadTypes
<1>10. (\A i \in EndsAt : i > BufSize) => AfterRead(pos') # "complete"
  BY <1>1, <1>6, Limits DEF AfterRead, ReadInv, ReadTypes
<1>11. WellFormed' =>
        /\ outcome' # "complete" => pos' < Len(stream') \/ stream' = <<>>
        /\ outcome' \notin {"stalled", "timeout", "toolong"}
  BY <1>1, <1>2, <1>3, <1>5, <1>8, <1>9
<1> QED
  BY <1>2, <1>3, <1>4, <1>5, <1>10, <1>11 DEF ReadInv

(* The other ends of the loop. *)
LEMMA ReadEnded ==
    ASSUME ReadInv, ReadEof \/ ReadError \/ ReadTimesOut
    PROVE  ReadInv'
<1>1. /\ UNCHANGED <<stream, names, sent, eof, reset, pos, elapsed, idle>> /\ pc = "read"
      /\ pc' \in {"write", "done"}
      /\ \/ outcome' \in {"closed", "error"}
         \/ outcome' \in {"stalled", "timeout"} /\ pos = sent
  BY DEF ReadEof, ReadError, ReadTimesOut, EndRead, NothingToRead, request, peerVars, clocks
<1>2. EndsAt' = EndsAt /\ WellFormed' = WellFormed
  BY <1>1 DEF EndsAt, WellFormed
<1>3. WellFormed => stream # <<>>
  <2>1. stream = <<>> => Len(stream) = 0
    BY EmptySeq
  <2> QED
    BY <2>1 DEF WellFormed, EndsAt, ReadInv, ReadTypes
<1> QED
  BY <1>1, <1>2, <1>3 DEF ReadInv, ReadTypes

(* The reply, the peer and time leave the outcome as it is; nothing is     *)
(* sent once there is one.                                                 *)
LEMMA ReadKept ==
    ASSUME ReadInv,
           Write \/ WriteFails \/ Shutdown \/ PeerSends \/ PeerCloses \/ Reset \/ PeerReads
              \/ Tick \/ UNCHANGED vars
    PROVE  ReadInv'
<1>1. UNCHANGED <<stream, names, pos, outcome>>
  BY DEF Write, WriteFails, Shutdown, PeerSends, PeerCloses, Reset, PeerReads, Tick, vars,
         request
<1>2. EndsAt' = EndsAt /\ WellFormed' = WellFormed
  BY <1>1 DEF EndsAt, WellFormed
<1>3. pc' \in {"read", "write", "shutdown", "done"} /\ (pc' = "read" <=> pc = "read")
  BY DEF Write, WriteFails, Shutdown, PeerSends, PeerCloses, Reset, PeerReads, Tick, vars,
         AfterReply, ReadInv, ReadTypes
<1>4. sent' = sent \/ (pc = "read" /\ sent' \in sent + 1 .. Len(stream))
  BY DEF Write, WriteFails, Shutdown, PeerSends, PeerCloses, Reset, PeerReads, Tick, vars,
         peerVars
<1>5. eof' \in BOOLEAN /\ reset' \in BOOLEAN
  BY DEF Write, WriteFails, Shutdown, PeerSends, PeerCloses, Reset, PeerReads, Tick, vars,
         peerVars, ReadInv, ReadTypes
<1>6. elapsed' \in 0 .. ReadTimeout /\ idle' \in 0 .. elapsed'
  <2>1. \/ UNCHANGED <<elapsed, idle>>
        \/ elapsed' = elapsed + 1 /\ idle' = idle + 1 /\ ~(elapsed >= ReadTimeout)
    BY DEF Write, WriteFails, Shutdown, PeerSends, PeerCloses, Reset, PeerReads, Tick, vars,
           clocks, OutOfTime
  <2> QED
    BY <2>1, Limits DEF ReadInv, ReadTypes
<1>7. sent' \in 0 .. Len(stream') /\ pos' \in 0 .. sent'
  BY <1>1, <1>4 DEF ReadInv, ReadTypes
<1>8. ReadTypes'
  BY <1>1, <1>3, <1>5, <1>6, <1>7 DEF ReadInv, ReadTypes
<1> QED
  BY <1>1, <1>2, <1>3, <1>4, <1>8 DEF ReadInv

LEMMA ReadNext == ReadInv /\ [Next]_vars => ReadInv'
BY ReadStep, ReadEnded, ReadKept DEF Next, Handler

(* However the peer cuts its request, handle_connection's loop reads one   *)
(* of the right form to "complete", unless the connection breaks, and no   *)
(* other: for every limit and every pair of timeouts.                      *)
THEOREM OutcomesAreRight == Spec => []OutcomeIsRight
<1>1. ReadInv => OutcomeIsRight
  BY DEF ReadInv, ReadTypes, OutcomeIsRight
<1> QED
  BY <1>1, ReadInit, ReadNext, PTL DEF Spec

----------------------------------------------------------------------------
(* The reply, a sequence of these. *)
Parts == STRING \cup {"59", "51", "20", "close"}

LEMMA Replies ==
    ASSUME NEW o, names \in {"invalid", "asset", "nothing"},
           o \in {"complete", "closed", "toolong", "stalled", "timeout", "error"}
    PROVE  /\ ReplyTo(o) \in Seq(Parts) /\ Len(ReplyTo(o)) \in Nat
           /\ ReplyTo(o) = <<>> <=> Len(ReplyTo(o)) = 0
           /\ \A i \in 1 .. Len(ReplyTo(o)) : ReplyTo(o)[i] # "close"
<1>1. Body \in Seq(Parts)
  <2>1. STRING \subseteq Parts
    BY DEF Parts
  <2> QED
    BY <2>1, ConnectionAssumption, SeqMonotonic
<1>2. /\ <<"59">> \in Seq(Parts) /\ <<"51">> \in Seq(Parts) /\ <<"20">> \in Seq(Parts)
      /\ <<>> \in Seq(Parts)
  BY EmptySeq DEF Parts
<1>3. \A i \in 1 .. Len(Body) : Body[i] # "close"
  BY ConnectionAssumption DEF Contains
<1>4. /\ <<"20">> \o Body \in Seq(Parts)
      /\ \A i \in 1 .. Len(<<"20">> \o Body) : (<<"20">> \o Body)[i] # "close"
  <2>1. /\ <<"20">> \o Body \in Seq(Parts)
        /\ Len(<<"20">> \o Body) = Len(<<"20">>) + Len(Body)
        /\ \A i \in 1 .. Len(<<"20">>) + Len(Body) :
              (<<"20">> \o Body)[i] = IF i <= Len(<<"20">>) THEN <<"20">>[i]
                                      ELSE Body[i - Len(<<"20">>)]
    BY <1>1, <1>2, ConcatProperties
  <2>2. Len(Body) \in Nat /\ Len(<<"20">>) = 1 /\ <<"20">>[1] = "20"
    BY <1>1, LenProperties
  <2>3. ASSUME NEW i \in 1 .. Len(<<"20">> \o Body) PROVE (<<"20">> \o Body)[i] # "close"
    <3>1. i \in 1 .. 1 + Len(Body)
      BY <2>1, <2>2
    <3>2. CASE i = 1
      BY <2>1, <2>2, <3>1, <3>2
    <3>3. CASE i # 1
      <4>1. i - 1 \in 1 .. Len(Body) /\ ~(i <= 1)
        BY <2>2, <3>1, <3>3
      <4>2. (<<"20">> \o Body)[i] = Body[i - 1]
        BY <2>1, <2>2, <3>1, <4>1
      <4> QED
        BY <1>3, <4>1, <4>2
    <3> QED
      BY <3>2, <3>3
  <2> QED
    BY <2>1, <2>3
<1>5. ReplyTo(o) \in {<<>>, <<"59">>, <<"51">>, <<"20">> \o Body}
  BY DEF ReplyTo
<1>6. ReplyTo(o) \in Seq(Parts)
  BY <1>2, <1>4, <1>5
<1>7. \A i \in 1 .. Len(ReplyTo(o)) : ReplyTo(o)[i] # "close"
  <2>1. \A i \in 1 .. Len(<<>>) : <<>>[i] # "close"
    BY EmptySeq
  <2>2. /\ \A i \in 1 .. Len(<<"59">>) : <<"59">>[i] # "close"
        /\ \A i \in 1 .. Len(<<"51">>) : <<"51">>[i] # "close"
    OBVIOUS
  <2> QED
    BY <1>4, <1>5, <2>1, <2>2
<1> QED
  BY <1>6, <1>7, EmptySeq, LenProperties

(* Concatenation, with nothing but its laws, which is all that regrouping  *)
(* the parts on their way takes.                                           *)
Cat(a, b) == a \o b

LEMMA CatLaws ==
    /\ \A a, b \in Seq(Parts) : Cat(a, b) \in Seq(Parts)
    /\ \A a, b, c \in Seq(Parts) : Cat(Cat(a, b), c) = Cat(a, Cat(b, c))
<1>1. \A a, b \in Seq(Parts) : Cat(a, b) \in Seq(Parts)
  BY ConcatProperties DEF Cat
<1>2. \A a, b, c \in Seq(Parts) : Cat(Cat(a, b), c) = Cat(a, Cat(b, c))
  BY ConcatAssociative DEF Cat
<1> QED
  BY <1>1, <1>2

LEMMA HeadAndTail ==
    ASSUME NEW s \in Seq(Parts), s # <<>>
    PROVE  /\ Head(s) \in Parts /\ Tail(s) \in Seq(Parts) /\ Len(Tail(s)) = Len(s) - 1
           /\ <<Head(s)>> \in Seq(Parts) /\ s = <<Head(s)>> \o Tail(s)
<1>1. Head(s) \in Parts /\ Tail(s) \in Seq(Parts) /\ Len(Tail(s)) = Len(s) - 1
  BY HeadTailProperties
<1>2. Len(s) \in Nat \ {0}
  BY EmptySeq
<1>3. 1 \in 1 .. Len(s) /\ Len(s) \in 1 .. Len(s)
  BY <1>2
<1>4. SubSeq(s, 1, Len(s)) = <<s[1]>> \o SubSeq(s, 1 + 1, Len(s))
  BY <1>3, SubSeqRecursiveFirst
<1>5. SubSeq(s, 1, Len(s)) = s /\ Tail(s) = SubSeq(s, 2, Len(s))
  BY SubSeqFull, TailIsSubSeq
<1>6. Head(s) = s[1] /\ 1 + 1 = 2
  BY <1>2
<1>7. <<Head(s)>> \in Seq(Parts)
  BY <1>1
<1> QED
  BY <1>1, <1>4, <1>5, <1>6, <1>7

LEMMA PrefixOfConcat ==
    ASSUME NEW a \in Seq(Parts), NEW b \in Seq(Parts)
    PROVE  IsPrefix(a, a \o b)
<1>1. Len(a) \in Nat /\ Len(b) \in Nat /\ Len(a \o b) = Len(a) + Len(b)
  BY LenProperties, ConcatProperties
<1>2. CASE Len(a) = 0
  <2>1. SubSeq(a, 1, Len(a)) = <<>> /\ SubSeq(a \o b, 1, Len(a)) = <<>>
    BY <1>2, SubSeqEmpty
  <2> QED
    BY <1>1, <2>1 DEF IsPrefix
<1>3. CASE Len(a) # 0
  <2>1. 1 \in 1 .. Len(a) /\ Len(a) \in 1 .. Len(a)
    BY <1>1, <1>3
  <2>2. SubSeq(a \o b, 1, Len(a)) = SubSeq(a, 1, Len(a))
    BY <2>1, SubSeqOfConcat1
  <2> QED
    BY <1>1, <2>2 DEF IsPrefix
<1> QED
  BY <1>2, <1>3

(* PassOn loses nothing and changes no order. *)
LEMMA PassOnKeeps ==
    ASSUME NEW parts \in Seq(Parts), socket \in Seq(Parts), Len(socket) <= SocketRoom,
           PassOn(parts)
    PROVE  /\ socket' \in Seq(Parts) /\ session' \in Seq(Parts)
           /\ socket' \o session' = socket \o parts
           /\ Len(socket') <= SocketRoom /\ Len(session') <= Len(parts)
           /\ Len(socket) < SocketRoom /\ parts # <<>> => Len(session') < Len(parts)
           /\ session' = <<>> <=> Len(parts) <= SocketRoom - Len(socket)
<1> DEFINE free == SocketRoom - Len(socket)
           n == IF Len(parts) < free THEN Len(parts) ELSE free
<1>1. socket' = socket \o SubSeq(parts, 1, n) /\ session' = SubSeq(parts, n + 1, Len(parts))
  BY DEF PassOn
<1>2. /\ Len(parts) \in Nat /\ Len(socket) \in Nat /\ SocketRoom \in Nat
      /\ n \in 0 .. Len(parts) /\ free \in Nat /\ n <= free
  BY LenProperties, Limits
<1>3. \A i \in 1 .. Len(parts) : parts[i] \in Parts
  BY ElementOfSeq
<1>4. n = Len(parts) <=> Len(parts) <= free
  BY <1>2
<1>0. free > 0 /\ Len(parts) > 0 => n > 0
  BY <1>2
<1> HIDE DEF n
<1>5. SubSeq(parts, 1, n) \in Seq(Parts) /\ Len(SubSeq(parts, 1, n)) = n
  <2>1. \A i \in 1 .. n : parts[i] \in Parts
    BY <1>2, <1>3
  <2>2. 1 \in Int /\ n \in Int
    BY <1>2
  <2>3. /\ SubSeq(parts, 1, n) \in Seq(Parts)
        /\ Len(SubSeq(parts, 1, n)) = IF 1 <= n THEN n - 1 + 1 ELSE 0
    BY <2>1, <2>2, SubSeqProperties
  <2> QED
    BY <1>2, <2>3
<1>6. /\ session' \in Seq(Parts) /\ Len(session') = Len(parts) - n
  <2>1. \A i \in n + 1 .. Len(parts) : parts[i] \in Parts
    BY <1>2, <1>3
  <2>2. n + 1 \in Int /\ Len(parts) \in Int
    BY <1>2
  <2>3. /\ SubSeq(parts, n + 1, Len(parts)) \in Seq(Parts)
        /\ Len(SubSeq(parts, n + 1, Len(parts))) =
              IF n + 1 <= Len(parts) THEN Len(parts) - (n + 1) + 1 ELSE 0
    BY <2>1, <2>2, SubSeqProperties
  <2> QED
    BY <1>1, <1>2, <2>3
<1>7. SubSeq(parts, 1, n) \o session' = parts
  <2>1. 1 \in 1 .. Len(parts) + 1 /\ n \in 1 - 1 .. Len(parts) /\ Len(parts) \in n .. Len(parts)
    BY <1>2
  <2>2. SubSeq(parts, 1, n) \o SubSeq(parts, n + 1, Len(parts)) = SubSeq(parts, 1, Len(parts))
    BY <2>1, ConcatAdjacentSubSeq
  <2> QED
    BY <1>1, <2>2, SubSeqFull
<1>8. /\ socket' \in Seq(Parts) /\ Len(socket') = Len(socket) + n
  BY <1>1, <1>5, ConcatProperties
<1>9. socket' \o session' = socket \o parts
  <2> DEFINE front == SubSeq(parts, 1, n)
  <2>1. front \in Seq(Parts) /\ socket' = socket \o front /\ front \o session' = parts
    BY <1>1, <1>5, <1>7
  <2> HIDE DEF front
  <2>2. Cat(Cat(socket, front), session') = Cat(socket, Cat(front, session'))
    BY <1>6, <2>1, CatLaws
  <2> QED
    BY <2>1, <2>2 DEF Cat
<1>10. /\ Len(socket') <= SocketRoom /\ Len(session') <= Len(parts)
       /\ session' = <<>> <=> Len(parts) <= free
  <2>1. session' = <<>> <=> Len(session') = 0
    BY <1>6, EmptySeq
  <2> QED
    BY <1>2, <1>4, <1>6, <1>8, <2>1
<1>11. Len(socket) < SocketRoom /\ parts # <<>> => Len(session') < Len(parts)
  <2>1. parts # <<>> => Len(parts) > 0
    BY EmptySeq
  <2> QED
    BY <1>0, <1>2, <1>6, <2>1
<1> QED
  BY <1>6, <1>8, <1>9, <1>10, <1>11

----------------------------------------------------------------------------
(* The inductive invariant of the reply: what the peer has read and what   *)
(* is on its way are the reply, in order, until a reset gives up the rest; *)
(* close_notify is the last to enter the session's buffer, and the handler *)
(* is done when that is empty.                                             *)
Out == received \o socket
ReplyInv ==
    /\ received \in Seq(Parts) /\ socket \in Seq(Parts)
    /\ session \in Seq(Parts) /\ todo \in Seq(Parts)
    /\ Len(session) <= SessionRoom /\ Len(socket) <= SocketRoom
    /\ pc = "read" => received = <<>> /\ socket = <<>> /\ session = <<>> /\ todo = <<>>
    /\ pc = "write" => todo # <<>> /\ Out \o (session \o todo) = ReplyTo(outcome)
    /\ pc = "shutdown" =>
          /\ FullReply = ReplyTo(outcome) \o <<"close">>
          /\ \/ Out \o session = ReplyTo(outcome)
             \/ Out \o session = FullReply /\ session # <<>>
    /\ pc = "done" => IsPrefix(Out, FullReply) /\ (~reset => Out = FullReply)
Inv == ReadInv /\ ReplyInv

LEMMA ReplyInit == Init => ReplyInv
<1>1. <<>> \in Seq(Parts) /\ Len(<<>>) = 0
  BY EmptySeq
<1> QED
  BY <1>1, Limits DEF Init, ReplyInv

(* What Inv says of the reply's own type. *)
LEMMA OutIsSeq == ASSUME Inv PROVE Out \in Seq(Parts)
BY ConcatProperties DEF Inv, ReplyInv, Out

LEMMA OutcomeReplies ==
    ASSUME Inv, pc # "read"
    PROVE  /\ ReplyTo(outcome) \in Seq(Parts) /\ FullReply \in Seq(Parts)
           /\ FullReply = IF ReplyTo(outcome) = <<>> \/ ReplyTo(outcome) = <<"59">>
                          THEN ReplyTo(outcome) ELSE ReplyTo(outcome) \o <<"close">>
<1>1. /\ names \in {"invalid", "asset", "nothing"}
      /\ outcome \in {"complete", "closed", "toolong", "stalled", "timeout", "error"}
  BY DEF Inv, ReadInv, ReadTypes
<1>2. /\ ReplyTo(outcome) \in Seq(Parts) /\ Len(ReplyTo(outcome)) \in Nat
      /\ ReplyTo(outcome) = <<>> <=> Len(ReplyTo(outcome)) = 0
  BY <1>1, Replies
<1>3. FullReply = ReplyTo(outcome) \o (IF Len(ReplyTo(outcome)) > 0 /\ ReplyTo(outcome) # <<"59">>
                                       THEN <<"close">> ELSE <<>>)
  BY <1>1 DEF FullReply
<1>4. ReplyTo(outcome) \o <<>> = ReplyTo(outcome)
  BY <1>2, ConcatEmptySeq
<1>5. FullReply = IF ReplyTo(outcome) = <<>> \/ ReplyTo(outcome) = <<"59">>
                  THEN ReplyTo(outcome) ELSE ReplyTo(outcome) \o <<"close">>
  BY <1>2, <1>3, <1>4
<1>6. <<"close">> \in Seq(Parts)
  BY DEF Parts
<1>7. ReplyTo(outcome) \o <<"close">> \in Seq(Parts)
  BY <1>2, <1>6, ConcatProperties
<1> QED
  BY <1>2, <1>5, <1>7

(* What has gone out is a prefix of the reply at all times. *)
LEMMA OutIsPrefix == ASSUME Inv PROVE IsPrefix(Out, FullReply)
<1>1. Out \in Seq(Parts)
  BY OutIsSeq
<1>2. CASE pc = "read"
  <2>1. <<>> \in Seq(Parts) /\ <<>> \o <<>> = <<>>
    BY EmptySeq, ConcatEmptySeq
  <2>2. Out = <<>> /\ FullReply = <<>>
    BY <1>2, <2>1 DEF Inv, ReadInv, ReplyInv, Out, FullReply
  <2> QED
    BY <2>2, EmptySeq DEF IsPrefix
<1>3. CASE pc = "write"
  <2>1. Out \o (session \o todo) = ReplyTo(outcome) /\ session \o todo \in Seq(Parts)
    BY <1>3, ConcatProperties DEF Inv, ReplyInv
  <2>2. <<"close">> \in Seq(Parts)
    BY DEF Parts
  <2>3. ReplyTo(outcome) \o <<"close">> = Out \o ((session \o todo) \o <<"close">>)
    <3> DEFINE rest == session \o todo
               close == <<"close">>
    <3>1. Cat(Out, rest) = ReplyTo(outcome) /\ rest \in Seq(Parts) /\ close \in Seq(Parts)
      BY <2>1, <2>2 DEF Cat
    <3> HIDE DEF rest, close
    <3>2. Cat(Cat(Out, rest), close) = Cat(Out, Cat(rest, close))
      BY <1>1, <3>1, CatLaws
    <3>3. Cat(ReplyTo(outcome), close) = Cat(Out, Cat(rest, close))
      BY <3>1, <3>2
    <3> QED
      BY <3>3 DEF Cat, rest, close
  <2>4. (session \o todo) \o <<"close">> \in Seq(Parts)
    BY <2>1, <2>2, ConcatProperties
  <2>5. IsPrefix(Out, ReplyTo(outcome)) /\ IsPrefix(Out, ReplyTo(outcome) \o <<"close">>)
    BY <1>1, <2>1, <2>3, <2>4, PrefixOfConcat
  <2> QED
    BY <1>3, <2>5, OutcomeReplies
<1>4. CASE pc = "shutdown"
  <2>1. <<"close">> \in Seq(Parts) /\ session \in Seq(Parts)
    BY DEF Parts, Inv, ReplyInv
  <2>2. /\ FullReply = ReplyTo(outcome) \o <<"close">>
        /\ Out \o session = ReplyTo(outcome) \/ Out \o session = FullReply
    BY <1>4 DEF Inv, ReplyInv
  <2>3. (Out \o session) \o <<"close">> = Out \o (session \o <<"close">>)
    BY <1>1, <2>1, ConcatAssociative
  <2>4. session \o <<"close">> \in Seq(Parts)
    BY <2>1, ConcatProperties
  <2> QED
    BY <1>1, <2>1, <2>2, <2>3, <2>4, PrefixOfConcat
<1>5. CASE pc = "done"
  BY <1>5 DEF Inv, ReplyInv
<1> QED
  BY <1>2, <1>3, <1>4, <1>5 DEF Inv, ReadInv, ReadTypes

----------------------------------------------------------------------------
(* The steps of the read loop: nothing has been written, and the reply is  *)
(* what there is to do.                                                    *)
LEMMA EndReply ==
    ASSUME Inv, pc = "read", Read \/ ReadEof \/ ReadError \/ ReadTimesOut, ReadInv'
    PROVE  ReplyInv'
<1>1. /\ received = <<>> /\ socket = <<>> /\ session = <<>> /\ todo = <<>>
      /\ <<>> \in Seq(Parts) /\ Len(<<>>) = 0
  BY EmptySeq DEF Inv, ReplyInv
<1>2. UNCHANGED <<names, received, socket, session>>
  BY DEF Read, ReadEof, ReadError, ReadTimesOut, request
<1>3. CASE UNCHANGED <<pc, outcome, todo>>
  BY <1>1, <1>2, <1>3, Limits DEF Inv, ReplyInv
<1>4. CASE outcome' # "none" /\ EndRead(outcome')
  <2>1. /\ names' \in {"invalid", "asset", "nothing"} /\ names' = names
        /\ outcome' \in {"complete", "closed", "toolong", "stalled", "timeout", "error"}
    BY <1>2, <1>4 DEF ReadInv, ReadTypes
  <2>2. /\ ReplyTo(outcome') \in Seq(Parts)
        /\ ReplyTo(outcome') = <<>> <=> Len(ReplyTo(outcome')) = 0
    BY <2>1, Replies
  <2>3. ReplyTo(outcome)' = ReplyTo(outcome')
    BY <2>1 DEF ReplyTo
  <2>4. todo' = ReplyTo(outcome)' /\ pc' = IF todo' = <<>> THEN "done" ELSE "write"
    BY <1>4, <2>3 DEF EndRead
  <2>5. todo' \in Seq(Parts) /\ Out' = <<>> /\ session' = <<>>
    <3>1. <<>> \o <<>> = <<>>
      BY <1>1, ConcatEmptySeq
    <3> QED
      BY <1>1, <1>2, <2>2, <2>3, <2>4, <3>1 DEF Out
  <2>6. Out' \o (session' \o todo') = todo'
    <3>1. \A t \in Seq(Parts) : <<>> \o t = t
      BY ConcatEmptySeq
    <3> QED
      BY <2>5, <3>1
  <2>7. todo' = <<>> => FullReply' = <<>>
    <3>1. <<>> \o <<>> = <<>>
      BY <1>1, ConcatEmptySeq
    <3> QED
      BY <1>1, <2>1, <2>4, <3>1 DEF FullReply
  <2>8. IsPrefix(<<>>, <<>>)
    BY EmptySeq DEF IsPrefix
  <2> QED
    BY <1>1, <1>2, <2>4, <2>5, <2>6, <2>7, <2>8, Limits DEF ReplyInv
<1> QED
  BY <1>3, <1>4 DEF Read, ReadEof, ReadError, ReadTimesOut, EndRead

(* A part more of the reply is on its way. *)
LEMMA WriteReply == ASSUME Inv, Write PROVE ReplyInv'
<1>1. /\ pc = "write" /\ ~reset /\ UNCHANGED <<names, outcome, received, reset>>
      /\ todo' = Tail(todo) /\ PassOn(Append(session, Head(todo)))
      /\ pc' = IF Len(todo) > 1 THEN "write" ELSE AfterReply(outcome)
      /\ Len(session) < SessionRoom \/ Len(socket) < SocketRoom
  BY DEF Write, request, peerVars, Room
<1>2. /\ received \in Seq(Parts) /\ socket \in Seq(Parts) /\ session \in Seq(Parts)
      /\ todo \in Seq(Parts) /\ todo # <<>> /\ Len(socket) <= SocketRoom
      /\ Len(session) <= SessionRoom
      /\ Out \o (session \o todo) = ReplyTo(outcome)
  BY <1>1 DEF Inv, ReplyInv
<1> DEFINE h == <<Head(todo)>>
           t == Tail(todo)
           parts == Append(session, Head(todo))
<1>3. h \in Seq(Parts) /\ t \in Seq(Parts) /\ todo = h \o t /\ Len(t) = Len(todo) - 1
  BY <1>2, HeadAndTail
<1>4. parts = session \o h /\ parts \in Seq(Parts) /\ parts # <<>>
      /\ Len(parts) = Len(session) + 1
  <2>1. Head(todo) \in Parts
    BY <1>2, HeadAndTail
  <2> QED
    BY <1>2, <2>1, AppendIsConcat, AppendProperties
<1>5. PassOn(parts) /\ todo' = t
  BY <1>1
<1> HIDE DEF parts, h, t
<1>6. /\ socket' \in Seq(Parts) /\ session' \in Seq(Parts)
      /\ socket' \o session' = socket \o parts
      /\ Len(socket') <= SocketRoom /\ Len(session') <= Len(parts)
      /\ Len(socket) < SocketRoom /\ parts # <<>> => Len(session') < Len(parts)
      /\ session' = <<>> <=> Len(parts) <= SocketRoom - Len(socket)
  BY <1>2, <1>4, <1>5, PassOnKeeps
<1>7. Len(session') <= SessionRoom
  <2>1. Len(session') \in Nat /\ Len(session) \in Nat
    BY <1>2, <1>6, LenProperties
  <2> QED
    BY <1>1, <1>2, <1>4, <1>6, <2>1, Limits
<1>8. Out' \o (session' \o t) = ReplyTo(outcome)
  <2>1. /\ Out' = Cat(received, socket') /\ Out = Cat(received, socket)
        /\ Cat(socket', session') = Cat(socket, Cat(session, h)) /\ todo = Cat(h, t)
        /\ Cat(Out, Cat(session, todo)) = ReplyTo(outcome)
    BY <1>1, <1>2, <1>3, <1>4, <1>6 DEF Out, Cat
  <2>2. /\ received \in Seq(Parts) /\ socket \in Seq(Parts) /\ session \in Seq(Parts)
        /\ socket' \in Seq(Parts) /\ session' \in Seq(Parts)
        /\ h \in Seq(Parts) /\ t \in Seq(Parts)
    BY <1>2, <1>3, <1>6
  <2>3. Cat(Out', Cat(session', t)) = Cat(received, Cat(Cat(socket', session'), t))
    BY <2>1, <2>2, CatLaws
  <2>4. Cat(Out, Cat(session, Cat(h, t))) = Cat(received, Cat(Cat(socket, Cat(session, h)), t))
    BY <2>1, <2>2, CatLaws
  <2> QED
    BY <2>1, <2>3, <2>4 DEF Cat
<1>9. ReplyTo(outcome)' = ReplyTo(outcome) /\ FullReply' = FullReply
  BY <1>1 DEF ReplyTo, FullReply
<1>10. Len(todo) \in Nat \ {0} /\ (t = <<>> <=> Len(t) = 0)
  BY <1>2, <1>3, EmptySeq
<1>11. CASE Len(todo) > 1
  <2>1. pc' = "write" /\ todo' = t /\ t # <<>>
    <3>1. Len(t) # 0
      BY <1>3, <1>10, <1>11
    <3> QED
      BY <1>1, <1>5, <1>10, <1>11, <3>1
  <2>2. Out' \o (session' \o todo') = ReplyTo(outcome)'
    BY <1>8, <1>9, <2>1
  <2>3. received' \in Seq(Parts) /\ todo' \in Seq(Parts)
    BY <1>1, <1>2, <1>3, <2>1
  <2> QED
    BY <1>6, <1>7, <2>1, <2>2, <2>3 DEF ReplyInv
<1>12. CASE ~(Len(todo) > 1)
  <2>1. t = <<>> /\ pc' = AfterReply(outcome)
    BY <1>1, <1>3, <1>10, <1>12
  <2>2. Out' \o session' = ReplyTo(outcome)
    <3>1. session' \o <<>> = session'
      BY <1>6, ConcatEmptySeq
    <3> QED
      BY <1>8, <2>1, <3>1
  <2>3. ReplyTo(outcome) # <<>>
    <3>1. Out \in Seq(Parts) /\ session \o todo \in Seq(Parts)
      BY <1>2, OutIsSeq, ConcatProperties
    <3> QED
      BY <1>2, <3>1, ConcatEqualIffEmpty
  <2>4. CASE ReplyTo(outcome) # <<"59">>
    <3>1. pc' = "shutdown"
      BY <2>1, <2>4 DEF AfterReply
    <3>2. FullReply = ReplyTo(outcome) \o <<"close">>
      BY <1>1, <2>3, <2>4, OutcomeReplies
    <3> QED
      BY <1>1, <1>2, <1>3, <1>5, <1>6, <1>7, <1>9, <2>2, <3>1, <3>2 DEF ReplyInv
  <2>5. CASE ReplyTo(outcome) = <<"59">>
    <3>1. pc' = "done" /\ FullReply = <<"59">>
      BY <1>1, <2>1, <2>5, OutcomeReplies DEF AfterReply
    <3>2. Len(socket) = 0 /\ Len(session) = 0
      <4>1. Out \in Seq(Parts) /\ session \o todo \in Seq(Parts)
        BY <1>2, OutIsSeq, ConcatProperties
      <4>2. Len(Out \o (session \o todo)) = Len(Out) + Len(session \o todo)
        BY <4>1, ConcatProperties
      <4>3. Len(session \o todo) = Len(session) + Len(todo)
        BY <1>2, ConcatProperties
      <4>4. Len(Out) = Len(received) + Len(socket)
        BY <1>2, ConcatProperties DEF Out
      <4>5. /\ Len(received) \in Nat /\ Len(socket) \in Nat /\ Len(session) \in Nat
            /\ Len(todo) \in Nat
        BY <1>2, LenProperties
      <4>6. Len(Out \o (session \o todo)) = 1
        BY <1>2, <2>5
      <4> QED
        BY <1>10, <4>2, <4>3, <4>4, <4>5, <4>6
    <3>3. session' = <<>>
      BY <1>4, <1>6, <3>2, Limits
    <3>4. Out' = <<"59">>
      <4>1. Out' \in Seq(Parts)
        BY <1>1, <1>2, <1>6, ConcatProperties DEF Out
      <4>2. Out' \o <<>> = Out'
        BY <4>1, ConcatEmptySeq
      <4> QED
        BY <2>2, <2>5, <3>3, <4>2
    <3>5. IsPrefix(<<"59">>, <<"59">>)
      BY DEF IsPrefix
    <3> QED
      BY <1>1, <1>2, <1>3, <1>5, <1>6, <1>7, <1>9, <3>1, <3>4, <3>5 DEF ReplyInv
  <2> QED
    BY <2>4, <2>5
<1> QED
  BY <1>11, <1>12

(* The rest of what there was, and close_notify behind it, once.           *)
LEMMA ShutdownReply == ASSUME Inv, Shutdown PROVE ReplyInv'
<1> DEFINE close == <<"close">>
           R == ReplyTo(outcome)
           parts == IF Contains(session, "close") THEN session ELSE Append(session, "close")
<1>1. /\ pc = "shutdown" /\ UNCHANGED <<names, outcome, todo, received, reset>>
      /\ Len(socket) < SocketRoom /\ PassOn(parts)
      /\ pc' = IF Len(parts) <= SocketRoom - Len(socket) THEN "done" ELSE pc
  BY DEF Shutdown, request, peerVars
<1>2. /\ received \in Seq(Parts) /\ socket \in Seq(Parts) /\ session \in Seq(Parts)
      /\ todo \in Seq(Parts) /\ Len(session) <= SessionRoom /\ Len(socket) <= SocketRoom
      /\ FullReply = R \o close
      /\ Out \o session = R \/ (Out \o session = FullReply /\ session # <<>>)
  BY <1>1 DEF Inv, ReplyInv
<1>3. /\ Out \in Seq(Parts) /\ R \in Seq(Parts) /\ close \in Seq(Parts)
      /\ FullReply \in Seq(Parts) /\ "close" \in Parts
      /\ Len(close) = 1 /\ close[1] = "close"
      /\ \A i \in 1 .. Len(R) : R[i] # "close"
  <2>1. /\ names \in {"invalid", "asset", "nothing"}
        /\ outcome \in {"complete", "closed", "toolong", "stalled", "timeout", "error"}
    BY <1>1 DEF Inv, ReadInv, ReadTypes
  <2>2. close \in Seq(Parts) /\ "close" \in Parts
    BY DEF Parts
  <2> QED
    BY <1>1, <2>1, <2>2, Replies, OutIsSeq, OutcomeReplies
<1> HIDE DEF R
<1>4. /\ Len(Out) \in Nat /\ Len(session) \in Nat /\ Len(R) \in Nat
      /\ Len(Out \o session) = Len(Out) + Len(session)
      /\ \A i \in 1 .. Len(session) : (Out \o session)[Len(Out) + i] = session[i]
  <2>1. /\ Len(Out) \in Nat /\ Len(session) \in Nat /\ Len(R) \in Nat
    BY <1>2, <1>3, LenProperties
  <2>2. /\ Len(Out \o session) = Len(Out) + Len(session)
        /\ \A i \in 1 .. Len(Out) + Len(session) :
              (Out \o session)[i] = IF i <= Len(Out) THEN Out[i] ELSE session[i - Len(Out)]
    BY <1>2, <1>3, ConcatProperties
  <2>3. ASSUME NEW i \in 1 .. Len(session)
        PROVE  (Out \o session)[Len(Out) + i] = session[i]
    <3>1. /\ Len(Out) + i \in 1 .. Len(Out) + Len(session) /\ ~(Len(Out) + i <= Len(Out))
          /\ (Len(Out) + i) - Len(Out) = i
      BY <2>1
    <3> QED
      BY <2>2, <3>1
  <2> QED
    BY <2>1, <2>2, <2>3
<1>5. parts \in Seq(Parts) /\ parts # <<>> /\ Len(parts) <= Len(session) + 1
      /\ Out \o parts = FullReply
  <2>1. CASE Out \o session = R
    <3>1. ASSUME NEW i \in 1 .. Len(session) PROVE session[i] # "close"
      <4>1. Len(Out) + i \in 1 .. Len(R) /\ R[Len(Out) + i] = session[i]
        BY <1>4, <2>1
      <4> QED
        BY <1>3, <4>1
    <3>2. ~Contains(session, "close")
      BY <3>1 DEF Contains
    <3>3. /\ parts = session \o close /\ parts \in Seq(Parts) /\ parts # <<>>
          /\ Len(parts) = Len(session) + 1
      <4>1. parts = Append(session, "close")
        BY <3>2
      <4> QED
        BY <1>2, <1>3, <4>1, AppendIsConcat, AppendProperties
    <3>4. Out \o (session \o close) = (Out \o session) \o close
      BY <1>2, <1>3, ConcatAssociative
    <3> QED
      BY <1>2, <1>4, <2>1, <3>3, <3>4
  <2>2. CASE Out \o session = FullReply /\ session # <<>>
    <3>1. Len(session) \in 1 .. Len(session)
      <4>1. Len(session) # 0
        BY <1>2, <2>2, EmptySeq
      <4> QED
        BY <1>4, <4>1
    <3>2. /\ Len(R \o close) = Len(R) + 1 /\ (R \o close)[Len(R) + 1] = "close"
      <4>1. /\ Len(R \o close) = Len(R) + Len(close)
            /\ \A i \in 1 .. Len(R) + Len(close) :
                  (R \o close)[i] = IF i <= Len(R) THEN R[i] ELSE close[i - Len(R)]
        BY <1>3, ConcatProperties
      <4>2. /\ Len(R) + 1 \in 1 .. Len(R) + Len(close) /\ ~(Len(R) + 1 <= Len(R))
            /\ (Len(R) + 1) - Len(R) = 1
        BY <1>3, <1>4
      <4>3. (R \o close)[Len(R) + 1] = close[(Len(R) + 1) - Len(R)]
        BY <4>1, <4>2
      <4> QED
        BY <1>3, <4>1, <4>2, <4>3
    <3>3. session[Len(session)] = "close"
      <4>1. Len(Out) + Len(session) = Len(R) + 1
        BY <1>2, <1>4, <2>2, <3>2
      <4>2. (Out \o session)[Len(Out) + Len(session)] = session[Len(session)]
        BY <1>4, <3>1
      <4> QED
        BY <1>2, <2>2, <3>2, <4>1, <4>2
    <3>4. Contains(session, "close")
      BY <3>1, <3>3 DEF Contains
    <3> QED
      BY <1>2, <1>4, <2>2, <3>4
  <2> QED
    BY <1>2, <2>1, <2>2
<1> HIDE DEF parts
<1>6. /\ socket' \in Seq(Parts) /\ session' \in Seq(Parts)
      /\ socket' \o session' = socket \o parts
      /\ Len(socket') <= SocketRoom /\ Len(session') < Len(parts)
      /\ session' = <<>> <=> Len(parts) <= SocketRoom - Len(socket)
  BY <1>1, <1>2, <1>5, PassOnKeeps
<1>7. Len(session') <= SessionRoom
  <2>1. Len(session') \in Nat /\ Len(parts) \in Nat
    BY <1>5, <1>6, LenProperties
  <2> QED
    BY <1>2, <1>4, <1>5, <1>6, <2>1, Limits
<1>8. Out' \o session' = FullReply /\ Out' \in Seq(Parts)
  <2>1. /\ Out' = Cat(received, socket') /\ Out = Cat(received, socket)
        /\ Cat(socket', session') = Cat(socket, parts) /\ Cat(Out, parts) = FullReply
    BY <1>1, <1>5, <1>6 DEF Out, Cat
  <2>2. Cat(Cat(received, socket'), session') = Cat(received, Cat(socket', session'))
    BY <1>2, <1>6, CatLaws
  <2>3. Cat(Cat(received, socket), parts) = Cat(received, Cat(socket, parts))
    BY <1>2, <1>5, CatLaws
  <2>4. Out' \in Seq(Parts)
    BY <1>2, <1>6, <2>1, CatLaws
  <2> QED
    BY <2>1, <2>2, <2>3, <2>4 DEF Cat
<1>9. ReplyTo(outcome)' = R /\ FullReply' = FullReply
  BY <1>1 DEF ReplyTo, FullReply, R
<1>10. received' \in Seq(Parts) /\ todo' \in Seq(Parts)
  BY <1>1, <1>2
<1>11. CASE session' = <<>>
  <2>1. pc' = "done"
    BY <1>1, <1>6, <1>11
  <2>2. Out' = FullReply
    BY <1>8, <1>11, ConcatEmptySeq
  <2>3. IsPrefix(FullReply, FullReply)
    <3>1. <<>> \in Seq(Parts) /\ FullReply \o <<>> = FullReply
      BY <1>3, EmptySeq, ConcatEmptySeq
    <3> QED
      BY <1>3, <3>1, PrefixOfConcat
  <2> QED
    BY <1>6, <1>7, <1>9, <1>10, <2>1, <2>2, <2>3 DEF ReplyInv
<1>12. CASE session' # <<>>
  <2>1. pc' = "shutdown"
    BY <1>1, <1>6, <1>12
  <2>2. FullReply' = ReplyTo(outcome)' \o <<"close">> /\ Out' \o session' = FullReply'
    BY <1>2, <1>8, <1>9
  <2> QED
    BY <1>6, <1>7, <1>10, <1>12, <2>1, <2>2 DEF ReplyInv
<1> QED
  BY <1>11, <1>12

(* The reset takes what has not gone out. *)
LEMMA FailReply == ASSUME Inv, WriteFails PROVE ReplyInv'
<1>1. /\ reset' = TRUE /\ pc' = "done" /\ todo' = <<>>
      /\ UNCHANGED <<names, outcome, session, socket, received>>
  BY DEF WriteFails, request, peerVars
<1>2. Out' = Out /\ FullReply' = FullReply
  BY <1>1 DEF Out, FullReply, ReplyTo
<1>3. IsPrefix(Out, FullReply) /\ <<>> \in Seq(Parts)
  BY OutIsPrefix, EmptySeq
<1> QED
  BY <1>1, <1>2, <1>3 DEF Inv, ReplyInv

(* Reading moves a part, and what has gone out stays what it is. *)
LEMMA ReadReply == ASSUME Inv, PeerReads PROVE ReplyInv'
<1>1. /\ socket # <<>> /\ received' = Append(received, Head(socket)) /\ socket' = Tail(socket)
      /\ UNCHANGED <<names, outcome, pc, reset, todo, session>>
  BY DEF PeerReads, request, peerVars
<1>2. received \in Seq(Parts) /\ socket \in Seq(Parts) /\ Len(socket) <= SocketRoom
  BY DEF Inv, ReplyInv
<1> DEFINE h == <<Head(socket)>>
           t == Tail(socket)
<1>3. /\ Head(socket) \in Parts /\ h \in Seq(Parts) /\ t \in Seq(Parts)
      /\ socket = h \o t /\ Len(t) = Len(socket) - 1
  BY <1>1, <1>2, HeadAndTail
<1>4. received' = received \o h /\ received' \in Seq(Parts)
  BY <1>1, <1>2, <1>3, AppendIsConcat, AppendProperties
<1> HIDE DEF h
<1>5. Out' = Out
  <2>1. Cat(Cat(received, h), t) = Cat(received, Cat(h, t))
    BY <1>2, <1>3, CatLaws
  <2>2. Out' = Cat(Cat(received, h), t) /\ Out = Cat(received, Cat(h, t))
    <3>1. socket' = t
      BY <1>1
    <3> QED
      BY <1>3, <1>4, <3>1 DEF Out, Cat
  <2> QED
    BY <2>1, <2>2
<1>6. FullReply' = FullReply /\ ReplyTo(outcome)' = ReplyTo(outcome)
  BY <1>1 DEF FullReply, ReplyTo
<1>7. Len(socket') <= SocketRoom
  <2>1. Len(socket) \in Nat
    BY <1>2, LenProperties
  <2> QED
    BY <1>1, <1>2, <1>3, <2>1, Limits
<1>8. pc # "read"
  BY <1>1 DEF Inv, ReplyInv
<1> QED
  BY <1>1, <1>3, <1>4, <1>5, <1>6, <1>7, <1>8 DEF Inv, ReplyInv

(* The peer's sending, the network and time do not touch the reply. *)
LEMMA ReplyKept ==
    ASSUME Inv, PeerSends \/ PeerCloses \/ Reset \/ Tick \/ UNCHANGED vars
    PROVE  ReplyInv'
<1>1. /\ UNCHANGED <<names, outcome, pc, todo, session, socket, received>>
      /\ reset => reset'
  BY DEF PeerSends, PeerCloses, Reset, Tick, vars, request, peerVars, reply
<1>2. Out' = Out /\ FullReply' = FullReply /\ ReplyTo(outcome)' = ReplyTo(outcome)
  BY <1>1 DEF Out, FullReply, ReplyTo
<1> QED
  BY <1>1, <1>2 DEF Inv, ReplyInv

LEMMA InvNext == Inv /\ [Next]_vars => Inv'
<1> SUFFICES ASSUME Inv, [Next]_vars PROVE Inv'
  OBVIOUS
<1>1. ReadInv'
  BY ReadNext DEF Inv
<1>2. CASE Read \/ ReadEof \/ ReadError \/ ReadTimesOut
  <2>1. pc = "read"
    BY <1>2 DEF Read, ReadEof, ReadError, ReadTimesOut
  <2> QED
    BY <1>1, <1>2, <2>1, EndReply DEF Inv
<1>3. CASE Write \/ WriteFails \/ Shutdown
  BY <1>1, <1>3, WriteReply, FailReply, ShutdownReply DEF Inv
<1>4. CASE PeerSends \/ PeerCloses \/ Reset \/ PeerReads \/ Tick \/ UNCHANGED vars
  BY <1>1, <1>4, ReadReply, ReplyKept DEF Inv
<1> QED
  BY <1>2, <1>3, <1>4 DEF Next, Handler

LEMMA Invariant == Spec => []Inv
<1>1. Init => Inv
  BY ReadInit, ReplyInit DEF Inv
<1> QED
  BY <1>1, InvNext, PTL DEF Spec

(* Every variable of a connection keeps its type; neither buffer takes     *)
(* more than it has room for, whatever the sizes of the two and of a body. *)
THEOREM TypeCorrect == Spec => []TypeOK
<1>1. Inv => TypeOK
  BY DEF Inv, ReadInv, ReadTypes, ReplyInv, TypeOK
<1> QED
  BY <1>1, Invariant, PTL

(* What handle_connection and the TLS session send is always a prefix of   *)
(* the reply, and the whole of it, close_notify included, when the stream  *)
(* is dropped without a reset.                                             *)
THEOREM RepliesGoOutWhole == Spec => []RepliesArriveWhole
<1>1. Inv => RepliesArriveWhole
  <2> SUFFICES ASSUME Inv PROVE RepliesArriveWhole
    OBVIOUS
  <2>1. IsPrefix(Out, FullReply)
    BY OutIsPrefix
  <2>2. pc = "done" /\ ~reset => Out = FullReply
    BY DEF Inv, ReplyInv
  <2> QED
    BY <2>1, <2>2 DEF RepliesArriveWhole, Out
<1> QED
  BY <1>1, Invariant, PTL

(* One connection is a task as GeminiListener sees one: its request first, *)
(* then at most one reply, then nothing.                                   *)
THEOREM TasksReadThenReply == Spec => ImplementsListenerTask
<1>1. Inv /\ [Next]_vars => [Listener!ReadRequest(0) \/ Listener!Reply(0)]_Stage
  <2> SUFFICES ASSUME Inv, [Next]_vars
               PROVE  Listener!ReadRequest(0) \/ Listener!Reply(0) \/ Stage' = Stage
    OBVIOUS
  <2>1. \/ pc = "read" /\ pc' \in {"read", "write", "done"}
        \/ pc \in {"write", "shutdown"} /\ pc' \in {"write", "shutdown", "done"}
        \/ pc' = pc
    BY DEF Next, Handler, Read, ReadEof, ReadError, ReadTimesOut, EndRead, Write, WriteFails,
           Shutdown, AfterReply, PeerSends, PeerCloses, Reset, PeerReads, Tick, vars
  <2>2. CASE pc' = pc
    BY <2>2 DEF Stage
  <2>3. CASE pc = "read" /\ pc' \in {"write", "done"}
    BY <2>3 DEF Listener!ReadRequest, Stage
  <2>4. CASE pc \in {"write", "shutdown"} /\ pc' \in {"write", "shutdown", "done"}
    BY <2>4 DEF Listener!Reply, Stage
  <2> QED
    BY <2>1, <2>2, <2>3, <2>4
<1> QED
  BY <1>1, Invariant, PTL DEF Spec, ImplementsListenerTask
=============================================================================
