---------------------------- MODULE ResponseReader ----------------------------
(***************************************************************************)
(* internal/grpcweb/response_reader.go: the reader through which the       *)
(* client's reverse proxy sees the body of a gRPC-Web response.  It passes *)
(* the data frames through and turns the trailers frame at the end into    *)
(* HTTP trailers, however the chunks it is given are cut.                  *)
(*                                                                         *)
(* Bytes are kept: the frame headers, the flags and the line ends of the   *)
(* trailers decide everything here.  The body (io.Reader) is external: a   *)
(* Read returns at least one byte or the end, and the end may come with    *)
(* the last bytes.  net/textproto is external too; its carriage returns    *)
(* are left out.                                                           *)
(***************************************************************************)
EXTENDS Naturals, Sequences, FiniteSets

CONSTANTS Wires,      \* the bodies a server or a proxy may send
          ReadSizes   \* the lengths of the buffers Read is called with

Byte == 0 .. 255

ASSUME WiresAssumption == Wires \subseteq Seq(Byte)
ASSUME ReadSizesAssumption == ReadSizes \subseteq Nat \ {0}

VARIABLES
  wire,                  \* the whole body of this response
  end,                   \* what its Read returns at the end: EOF, or an error
  pos,                   \* number of bytes taken from it
  pc,                    \* where Read is
  size,                  \* len(buf) in doRead
  chunk,                 \* what the body's Read has put into buf
  upErr,                 \* the error it returned with it
  buf,                   \* the part of the chunk consume has not gone over
  n,                     \* the number of bytes consume has found to be payload
  currMessageRemaining,  \* r.currMessageRemaining
  currPartialMsgHeader,  \* r.currPartialMsgHeader
  partialTrailerData,    \* r.partialTrailerData
  hasReadData,           \* r.hasReadData
  hasReadTrailers,       \* r.hasReadTrailers
  err,                   \* r.err
  trailers,              \* the trailer blocks added to *r.trailers
  delivered              \* every byte Read has returned

bodyVars  == <<wire, end>>
stepVars  == <<size, chunk, upErr, buf, n>>
frameVars == <<currMessageRemaining, currPartialMsgHeader>>
vars == <<bodyVars, pos, pc, stepVars, frameVars, partialTrailerData, hasReadData,
          hasReadTrailers, err, trailers, delivered>>

completeHeaderLen == 5

trailerMessageFlag == 128

NoErr == "nil"

Errors == {"EOF", "unexpectedEOF", "reset", "extraData", "trailers"}

Smaller(a, b) == IF a < b THEN a ELSE b

From(s, i) == SubSeq(s, i, Len(s))

HasTrailerFlag(b) == b \div trailerMessageFlag = 1

HasCompressedFlag(b) == b % 2 = 1

\* binary.BigEndian.Uint32 of the bytes 2 to 5 of a frame header.
Uint32(h) == ((h[2] * 256 + h[3]) * 256 + h[4]) * 256 + h[5]

TypeOK ==
    /\ wire \in Seq(Byte)
    /\ end \in {"EOF", "reset"}
    /\ pos \in 0 .. Len(wire)
    /\ pc \in {"idle", "trailers", "upstream", "consume", "return"}
    /\ size \in Nat
    /\ chunk \in Seq(Byte)
    /\ upErr \in {NoErr, "EOF", "reset"}
    /\ buf \in Seq(Byte)
    /\ n \in 0 .. Len(chunk)
    /\ currMessageRemaining \in Nat
    /\ currPartialMsgHeader \in Seq(Byte)
    /\ Len(currPartialMsgHeader) < completeHeaderLen
    /\ partialTrailerData \in Seq(Byte)
    /\ hasReadData \in BOOLEAN
    /\ hasReadTrailers \in BOOLEAN
    /\ err \in Errors \cup {NoErr}
    /\ trailers \in Seq(Seq(Byte))
    /\ delivered \in Seq(Byte)

Init ==
    /\ wire \in Wires
    /\ end \in {"EOF", "reset"}
    /\ pos = 0
    /\ pc = "idle"
    /\ size = 0
    /\ chunk = <<>>
    /\ upErr = NoErr
    /\ buf = <<>>
    /\ n = 0
    /\ currMessageRemaining = 0
    /\ currPartialMsgHeader = <<>>
    /\ partialTrailerData = <<>>
    /\ hasReadData = FALSE
    /\ hasReadTrailers = FALSE
    /\ err = NoErr
    /\ trailers = <<>>
    /\ delivered = <<>>

------------------------------------------------------------------------------
(* Reading the trailers frame                                               *)

LF == 10
Colon == 58

\* Where the lines begin at which ReadMIMEHeader stops: blank lines, and lines
\* without a key and a colon.  A line that does not end is not one.
Stops[s \in Seq(Byte)] ==
    { j \in 1 .. Len(s) :
        /\ j = 1 \/ s[j - 1] = LF
        /\ \E k \in j .. Len(s) : s[k] = LF
        /\ \/ s[j] \in {LF, Colon}
           \/ \A k \in j .. Len(s) : s[k] = Colon => \E l \in j .. k : s[l] = LF }

\* ReadMIMEHeader on the trailers data d and the line end that is added to it,
\* then Peek: a malformed line or anything after the blank line is an error, and
\* no blank line at all is io.EOF.  The body's error e, if not nil, stands at the
\* end of d instead of the line end.
ReadMIMEHeader(d, e) ==
    LET s == IF e = NoErr THEN Append(d, LF) ELSE d
    IN  IF Stops[s] = {} THEN (IF e = NoErr THEN "EOF" ELSE e)
        ELSE IF Stops[s] = {Len(s)} THEN e
        ELSE "trailers"

\* The trailers frame as readFullTrailers sees it: the stored bytes and the body.
TrailersData == partialTrailerData \o From(wire, pos + 1)

FrameLen == Uint32(TrailersData)

\* The payload of a frame, as far as it is there.
Payload(frame) ==
    SubSeq(frame, completeHeaderLen + 1, Smaller(completeHeaderLen + Uint32(frame), Len(frame)))

TrailersPayload == Payload(TrailersData)

\* An error for the frame header that forgets to subtract it.
ExtraBytesWithHeader == Len(partialTrailerData) > FrameLen

\* The stored bytes go beyond the trailers frame.
ExtraBytes == Len(partialTrailerData) > completeHeaderLen + FrameLen

\* The error of readFullTrailers before the trailers are added.
TrailersError ==
    IF Len(TrailersData) < completeHeaderLen
    THEN IF end = "EOF" THEN "unexpectedEOF" ELSE "reset"
    ELSE IF HasCompressedFlag(TrailersData[1]) THEN "trailers"
    ELSE LET cut    == Len(TrailersPayload) < FrameLen
             result == ReadMIMEHeader(TrailersPayload,
                                      IF cut /\ end # "EOF" THEN end ELSE NoErr)
         IN  IF result = NoErr /\ cut THEN "trailers" ELSE result

\* The number of bytes readFullTrailers has taken from the body when it has read
\* the whole frame, or all there is.
TrailersPos ==
    IF Len(TrailersData) < completeHeaderLen THEN Len(wire)
    ELSE LET last == completeHeaderLen + FrameLen
         IN  IF last <= Len(partialTrailerData) THEN pos
             ELSE Smaller(pos + last - Len(partialTrailerData), Len(wire))

------------------------------------------------------------------------------
(* Read                                                                     *)

\* An adjustment that takes every end of the body for the one before trailers.
AdjustAlwaysPending(m, e) ==
    IF hasReadTrailers THEN (IF m > 0 /\ e \in {NoErr, "EOF"} THEN "extraData" ELSE e)
    ELSE IF hasReadData' /\ e = "EOF" THEN NoErr
    ELSE e

\* An adjustment that accepts an end without trailers.
AdjustWithoutTrailers(m, e) ==
    IF hasReadTrailers THEN (IF m > 0 /\ e \in {NoErr, "EOF"} THEN "extraData" ELSE e)
    ELSE IF hasReadData' /\ e = "EOF" /\ partialTrailerData' # <<>> THEN NoErr
    ELSE e

\* adjustResult: the error Read returns and keeps when doRead returns m and e.
\* An EOF before the trailers is either postponed or an error.
AdjustResult(m, e) ==
    IF hasReadTrailers THEN (IF m > 0 /\ e \in {NoErr, "EOF"} THEN "extraData" ELSE e)
    ELSE IF hasReadData' /\ e = "EOF"
         THEN (IF partialTrailerData' # <<>> THEN NoErr ELSE "unexpectedEOF")
    ELSE e

\* A Read after an error returns that error again and changes nothing.
ReadStart ==
    /\ pc = "idle"
    /\ err = NoErr
    /\ size' \in ReadSizes
    /\ pc' = IF partialTrailerData = <<>> THEN "upstream" ELSE "trailers"
    /\ UNCHANGED <<bodyVars, pos, chunk, upErr, buf, n, frameVars, partialTrailerData,
                   hasReadData, hasReadTrailers, err, trailers, delivered>>

\* readFullTrailers succeeds: the trailers are added and the body read once more;
\* if bytes after the frame are stored, that is an error.
ReadTrailers ==
    /\ pc = "trailers"
    /\ TrailersError = NoErr
    /\ trailers' = Append(trailers, TrailersPayload)
    /\ pos' = TrailersPos
    /\ \/ /\ ExtraBytes
          /\ err' = "extraData"
          /\ pc' = "idle"
          /\ UNCHANGED <<partialTrailerData, hasReadTrailers>>
       \/ /\ ~ExtraBytes
          /\ hasReadTrailers' = TRUE
          /\ partialTrailerData' = <<>>
          /\ pc' = "upstream"
          /\ UNCHANGED err
    /\ UNCHANGED <<bodyVars, stepVars, frameVars, hasReadData, delivered>>

ReadTrailersErr ==
    /\ pc = "trailers"
    /\ TrailersError # NoErr
    /\ pos' = TrailersPos
    /\ UNCHANGED <<hasReadData, partialTrailerData>>
    /\ err' = AdjustResult(0, TrailersError)
    /\ pc' = "idle"
    /\ UNCHANGED <<bodyVars, stepVars, frameVars, hasReadTrailers, trailers, delivered>>

\* r.ReadCloser.Read(buf); after the trailers its result is the result of doRead.
ReadUpstream ==
    /\ pc = "upstream"
    /\ \E m \in 0 .. Smaller(size, Len(wire) - pos) :
         /\ m = 0 => pos = Len(wire)
         /\ chunk' = SubSeq(wire, pos + 1, pos + m)
         /\ pos' = pos + m
         /\ hasReadData' = (hasReadData \/ m > 0)
         /\ upErr' \in (IF m > 0 THEN {NoErr} ELSE {})
                         \cup (IF pos' = Len(wire) THEN {end} ELSE {})
    /\ UNCHANGED partialTrailerData
    /\ \/ /\ hasReadTrailers
          /\ err' = AdjustResult(Len(chunk'), upErr')
          /\ pc' = "idle"
          /\ buf' = <<>>
       \/ /\ ~hasReadTrailers
          /\ pc' = "consume"
          /\ buf' = chunk'
          /\ UNCHANGED err
    /\ n' = 0
    /\ UNCHANGED <<bodyVars, size, frameVars, hasReadTrailers, trailers, delivered>>

\* How much of the current message the chunk holds.
LastMsgBytes == Smaller(currMessageRemaining, Len(buf))

\* A consume that does not look for the trailers flag.
AtTrailersNever(b) == FALSE

\* The bytes b begin with a frame header, and it is that of a trailers frame.
AtTrailers(b) == currPartialMsgHeader = <<>> /\ HasTrailerFlag(b[1])

\* One iteration of consume: the rest of the current message, then as much of
\* the next frame header as there is.
Consume ==
    /\ pc = "consume"
    /\ buf # <<>>
    /\ LET rest == From(buf, LastMsgBytes + 1)
           more == Smaller(completeHeaderLen - Len(currPartialMsgHeader), Len(rest))
           hdr  == currPartialMsgHeader \o SubSeq(rest, 1, more)
       IN  \/ /\ rest # <<>> => AtTrailers(rest)
              /\ buf' = rest
              /\ n' = n + LastMsgBytes
              /\ currMessageRemaining' = currMessageRemaining - LastMsgBytes
              /\ pc' = "return"
              /\ UNCHANGED currPartialMsgHeader
           \/ /\ rest # <<>> /\ ~AtTrailers(rest)
              /\ buf' = From(rest, more + 1)
              /\ n' = n + LastMsgBytes + more
              /\ \/ /\ Len(hdr) = completeHeaderLen
                    /\ currMessageRemaining' = Uint32(hdr)
                    /\ currPartialMsgHeader' = <<>>
                 \/ /\ Len(hdr) < completeHeaderLen
                    /\ currMessageRemaining' = currMessageRemaining - LastMsgBytes
                    /\ currPartialMsgHeader' = hdr
              /\ UNCHANGED pc
    /\ UNCHANGED <<bodyVars, pos, size, chunk, upErr, partialTrailerData, hasReadData,
                   hasReadTrailers, err, trailers, delivered>>

\* consume has returned n: what follows is stored; a chunk of trailers only makes
\* doRead start again with a buffer of the chunk's length.
ReadReturn ==
    /\ pc = "return" \/ (pc = "consume" /\ buf = <<>>)
    /\ partialTrailerData' = partialTrailerData \o buf
    /\ UNCHANGED hasReadData
    /\ \/ /\ n = 0 /\ partialTrailerData' # <<>>
          /\ size' = Len(chunk)
          /\ pc' = "trailers"
          /\ UNCHANGED <<err, delivered>>
       \/ /\ n > 0 \/ partialTrailerData' = <<>>
          /\ delivered' = delivered \o SubSeq(chunk, 1, n)
          /\ err' = AdjustResult(n, upErr)
          /\ pc' = "idle"
          /\ UNCHANGED size
    /\ UNCHANGED <<bodyVars, pos, chunk, upErr, buf, n, frameVars, hasReadTrailers, trailers>>

Next == ReadStart \/ ReadTrailers \/ ReadTrailersErr \/ ReadUpstream \/ Consume \/ ReadReturn

Spec == Init /\ [][Next]_vars

\* The reverse proxy reads the body until a Read fails.
FairSpec == Spec /\ WF_vars(Next)

------------------------------------------------------------------------------
(* Properties: what the body says, read as a whole                          *)

\* LastFrameEnd[k] is the number of bytes of the first k data frames; if there are
\* fewer than k whole data frames, of all there are.
LastFrameEnd[k \in Nat] ==
    IF k = 0 THEN 0
    ELSE LET p == LastFrameEnd[k - 1]
             q == p + completeHeaderLen + Uint32(From(wire, p + 1))
         IN  IF /\ p + completeHeaderLen <= Len(wire)
                /\ ~HasTrailerFlag(wire[p + 1])
                /\ q <= Len(wire)
             THEN q ELSE p

\* The number of bytes of all whole data frames.
DataFrames == LastFrameEnd[Len(wire) \div completeHeaderLen]

HasTrailers == DataFrames < Len(wire) /\ HasTrailerFlag(wire[DataFrames + 1])

\* The number of bytes that belong to data frames.
DataLen == IF HasTrailers THEN DataFrames ELSE Len(wire)

TrailersFrame == From(wire, DataLen + 1)

TrailersText == Payload(TrailersFrame)

WellFormed ==
    /\ HasTrailers
    /\ Len(TrailersFrame) >= completeHeaderLen
    /\ Len(TrailersFrame) = completeHeaderLen + Uint32(TrailersFrame)
    /\ ~HasCompressedFlag(TrailersFrame[1])
    /\ ReadMIMEHeader(TrailersText, NoErr) = NoErr

\* The trailers end in the middle of a line.
UnfinishedLine ==
    /\ HasTrailers
    /\ Len(TrailersFrame) >= completeHeaderLen
    /\ ~HasCompressedFlag(TrailersFrame[1])
    /\ ReadMIMEHeader(TrailersText, NoErr) = "EOF"

\* There are bytes after the trailers frame.
GoesOn == Len(TrailersFrame) > completeHeaderLen + Uint32(TrailersFrame)

\* The gRPC client gets the bytes of the data frames, in order, without a gap,
\* and never a byte of the trailers, wherever the chunks are cut.
PayloadExact ==
    Len(delivered) <= DataLen /\ delivered = SubSeq(wire, 1, Len(delivered))

\* The end of the body is reported as such only if nothing is missing: all data
\* has been delivered and the trailers, complete and correct, have been added
\* exactly once.  An empty body is left to the caller.  If the trailers end in the
\* middle of a line, Read tries again (see TrailersHandled); if more bytes follow the
\* frame, it may then take them for trailers.
EOFMeansComplete ==
    err = "EOF" =>
        \/ wire = <<>>
        \/ UnfinishedLine /\ GoesOn
        \/ WellFormed /\ Len(delivered) = DataLen /\ trailers = <<TrailersText>>

\* A response that is correct never fails, unless the body itself does.
NoFalseAlarm == err \notin {NoErr, "EOF"} => ~WellFormed \/ end = "reset"

\* Reading comes to an end, with an error if not otherwise.  (For a body whose
\* trailers end in the middle of a line see TrailersHandled.)
ReadsEnd == ~UnfinishedLine ~> err # NoErr

\* "If there are pending trailers, these will be handled in the next call to
\* Read": stored trailer bytes become trailers or an error.
TrailersHandled == partialTrailerData # <<>> ~> (hasReadTrailers \/ err # NoErr)
==============================================================================
