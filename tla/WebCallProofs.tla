---------------------------- MODULE WebCallProofs ----------------------------
(***************************************************************************)
(* Proofs about WebCall, for any number of messages, any options and any   *)
(* texts of errors, wherever the connection is cut: the response on its    *)
(* way from the server to the client, then the text of an error and its    *)
(* encoding (GRPCMessage), then the options, the form of the answer and    *)
(* what the documentation promises of it (Downgrade).                      *)
(***************************************************************************)
EXTENDS WebCall, SequenceTheorems, WellFoundedInduction, TLAPS

Announced == {"Grpc-Status"}

\* The types, but for the text of an error and its encoding, on which no part of the
\* invariant depends.
OutType ==
    out \in [headers: {"none", "kept", "sent"}, headerKeys: SUBSET Client!OutKeys,
             ctype: {"none", "grpc", "grpc-web", "text"}, data: Nat,
             trailerKeys: SUBSET Client!OutKeys, end: {"open", "headers", "stream", "reset"},
             origin: {"server", "proxy"}, text: {out.text}, message: {out.message}]

TypeInv ==
    /\ Server!TypeOK
    /\ proxyPc \in {"roundtrip", "copy", "done"}
    /\ taken \in 0 .. Len(body)
    /\ OutType

\* The status, once it is there.
StatusInv ==
    statusKeys # {} =>
        /\ "Grpc-Status" \in statusKeys /\ statusKeys \subseteq {"Grpc-Status", "T"}
        /\ pc \in {"returned", "finish", "done"}

\* The trailer of the application in the header map, with its prefix.
Prefixed == IF "T" \in statusKeys THEN {"Trailer:T"} ELSE {}

\* What the body begins with: the messages, then the trailers frame; all of it while
\* the connection is up.
Frames ==
    /\ Len(body) <= 2 * messages + 3
    /\ \A i \in 1 .. Len(body) : i <= 2 * messages => body[i].kind = "data"
    /\ \A i \in 1 .. Len(body) : i <= 2 * messages => body[i].keys = {}
    /\ Len(body) > 2 * messages =>
          pc \in {"finish", "done"} /\ body[2 * messages + 1] = Server!PartOf("trailers", FALSE, {})
    /\ Len(body) > 2 * messages + 1 =>
          body[2 * messages + 2] = Server!PartOf("trailers", FALSE, statusKeys \cap Announced)
    /\ Len(body) > 2 * messages + 2 =>
          body[2 * messages + 3] = Server!PartOf("trailers", TRUE, statusKeys \ Announced)
    /\ end = "open" /\ pc \notin {"finish", "done"} => Len(body) = 2 * messages

\* The four ways a response takes: its headers are sent before its end; it is an HTTP
\* error; nothing is sent yet; all of it is in the headers.
WebHead == [status |-> 200, ctype |-> "grpc-web", keys |-> {"H"}, length |-> "unknown"]

Streamed ==
    /\ w.announcedTrailers /\ w.wroteHeader /\ headersSet
    /\ w.hdr = {"H"} \cup (statusKeys \cap Announced)
                 \cup (IF pc = "returned" THEN Prefixed ELSE {})
    /\ head \in {Server!NoHead, WebHead}
    /\ Frames

Refused ==
    /\ ~w.announcedTrailers /\ w.wroteHeader
    /\ w.hdr = {"H"}
    /\ pc \in {"returned", "finish", "done"} /\ statusKeys = {} /\ messages = 0
    /\ head.status # 200

Unsent ==
    /\ ~w.announcedTrailers /\ ~w.wroteHeader
    /\ messages = 0 /\ body = <<>> /\ head = Server!NoHead
    /\ \/ ~headersSet /\ w.hdr = {} /\ w.ctype = "none" /\ statusKeys = {}
          /\ pc \in {"serve", "returned", "finish"}
       \/ /\ headersSet /\ w.ctype = "grpc" /\ pc \in {"status", "returned", "finish"}
          /\ w.hdr \ {"Content-Length"} =
                IF pc = "finish" THEN {"H"} \cup statusKeys
                ELSE {"H", "Trailer"} \cup (statusKeys \cap Announced) \cup Prefixed

HeadersOnly ==
    /\ ~w.announcedTrailers /\ w.wroteHeader /\ pc = "done"
    /\ messages = 0 /\ body = <<>> /\ end # "open"
    /\ w.hdr \cap {"Trailer", "Trailer:T"} = {}
    /\ head.status = 200 =>
          /\ \/ head.ctype = "none" /\ head.keys = {} /\ statusKeys = {}
             \/ head.ctype = "grpc" /\ head.keys \ {"Content-Length"} = {"H"} \cup statusKeys
          /\ "Content-Length" \in head.keys => end = "reset"

ServerInv == Streamed \/ Refused \/ Unsent \/ HeadersOnly

\* The proxy has passed on what it has taken.
PassedOn ==
    /\ head.status = 200
    /\ out.headerKeys = head.keys
    /\ out.ctype = (IF head.ctype = "grpc-web" THEN "grpc" ELSE head.ctype)
    /\ out.data = (IF taken <= 2 * messages THEN taken ELSE 2 * messages)

\* How a response of the server ends for the gRPC client: without a status, or whole.
NoStatus == out.trailerKeys = {} /\ (out.end = "reset" \/ "Grpc-Status" \notin out.headerKeys)

WholeResponse ==
    /\ pc \in {"finish", "done"}
    /\ out.data = 2 * messages
    /\ out.headerKeys \cup out.trailerKeys = {"H"} \cup statusKeys
    /\ out.headerKeys \cap out.trailerKeys = {}

ProxyInv ==
    /\ proxyPc = "roundtrip" =>
          /\ taken = 0 /\ out.end = "open" /\ out.headers = "none" /\ out.origin = "server"
          /\ out.headerKeys = {} /\ out.trailerKeys = {} /\ out.data = 0
    /\ proxyPc = "copy" =>
          PassedOn /\ out.end = "open" /\ out.trailerKeys = {} /\ out.origin = "server"
    /\ proxyPc = "done" /\ out.origin = "server" =>
          PassedOn /\ out.end # "open" /\ end # "open" /\ (NoStatus \/ WholeResponse)
    /\ out.origin = "proxy" =>
          /\ proxyPc = "done" /\ out.end = "stream" /\ out.ctype = "grpc"
          /\ out.headerKeys = {} /\ out.trailerKeys = {"Grpc-Status"} /\ out.data = 0

Inv == TypeInv /\ StatusInv /\ ServerInv /\ ProxyInv

------------------------------------------------------------------------------
(* The server                                                               *)

\* What the proxy can rely on in a step of the server.
Kept ==
    /\ head.status = 200 => head' = head
    /\ Len(body) <= Len(body')
    /\ pc \in {"finish", "done"} => pc' \in {"finish", "done"} /\ UNCHANGED <<messages, statusKeys>>
    /\ messages' = messages \/ (pc = "serve" /\ messages' = messages + 1)
    /\ end # "open" => end' # "open"
    /\ UNCHANGED <<proxyPc, taken, out>>

\* The numbers are natural.
LEMMA Numbers ==
    ASSUME TypeInv
    PROVE  /\ messages \in Nat /\ Len(body) \in Nat /\ taken \in Nat /\ taken <= Len(body)
           /\ body \in Seq(Server!Part) /\ w \in Server!Writer /\ head \in Server!ResponseHead
BY MaxMessagesAssumption DEF TypeInv, Server!TypeOK

\* The initial states satisfy the invariant.
LEMMA InvInit == Init => Inv
<1> SUFFICES ASSUME Init PROVE Inv
    OBVIOUS
<1>1. /\ pc = "serve" /\ headersSet = FALSE /\ statusKeys = {} /\ messages = 0
      /\ w = [hdr |-> {}, ctype |-> "none", announcedTrailers |-> FALSE, wroteHeader |-> FALSE]
      /\ head = Server!NoHead /\ body = <<>> /\ end = "open"
    BY DEF Init, Server!Init
<1>2. /\ proxyPc = "roundtrip" /\ taken = 0
      /\ out = [headers |-> "none", headerKeys |-> {}, ctype |-> "none", data |-> 0,
                trailerKeys |-> {}, end |-> "open", origin |-> "server",
                text |-> <<>>, message |-> <<>>]
    BY DEF Init, Client!Init
<1>3. Len(body) = 0 /\ body \in Seq(Server!Part)
    BY <1>1, EmptySeq
<1>4. Server!TypeOK
  <2>1. w \in Server!Writer /\ head \in Server!ResponseHead
    BY <1>1 DEF Server!Writer, Server!ResponseHead, Server!NoHead
  <2>2. messages \in 0 .. MaxMessages
    BY <1>1, MaxMessagesAssumption
  <2> QED
    BY <1>1, <1>3, <2>1, <2>2 DEF Server!TypeOK
<1>5. OutType
    BY <1>2 DEF OutType
<1>6. TypeInv
    BY <1>2, <1>3, <1>4, <1>5 DEF TypeInv
<1>7. StatusInv /\ ServerInv
    BY <1>1 DEF StatusInv, ServerInv, Unsent
<1>8. ProxyInv
    BY <1>2 DEF ProxyInv
<1> QED
    BY <1>6, <1>7, <1>8 DEF Inv

\* The first call of the gRPC server on the response writer.
LEMMA FirstHeaders ==
    ASSUME TypeInv, Unsent, ~headersSet,
           NEW v \in Server!WithHeaders, Server!WriteHeader(v, 200)
    PROVE  /\ w' = [hdr |-> {"H"}, ctype |-> "grpc-web", announcedTrailers |-> TRUE,
                    wroteHeader |-> TRUE]
           /\ head' \in {Server!NoHead, WebHead}
<1>1. w \in Server!Writer /\ ~w.wroteHeader /\ ~w.announcedTrailers /\ head = Server!NoHead
    BY Numbers DEF Unsent
<1>2. PICK l \in SUBSET {"Content-Length"} : v = [w EXCEPT !.hdr = {"H", "Trailer"} \cup l, !.ctype = "grpc"]
    BY DEF Server!WithHeaders
<1>3. /\ v = [hdr |-> {"H", "Trailer"} \cup l, ctype |-> "grpc",
              announcedTrailers |-> FALSE, wroteHeader |-> FALSE]
    BY <1>1, <1>2 DEF Server!Writer
<1>4. Server!Prepared(v) = [hdr |-> {"H"}, ctype |-> "grpc-web",
                            announcedTrailers |-> TRUE, wroteHeader |-> FALSE]
  <2>1. ({"H", "Trailer"} \cup l) \ {"Trailer", "Content-Length"} = {"H"}
    OBVIOUS
  <2>2. "Trailer" \in ({"H", "Trailer"} \cup l)
    OBVIOUS
  <2> QED
    BY <1>3, <2>1, <2>2 DEF Server!Prepared
<1> DEFINE p == Server!Prepared(v)
<1>5. /\ w' = [p EXCEPT !.wroteHeader = TRUE]
      /\ head' = IF p.wroteHeader \/ end # "open" THEN head
                 ELSE [status |-> 200, ctype |-> p.ctype, keys |-> p.hdr \ {"Trailer:T"},
                       length |-> IF "Content-Length" \in p.hdr THEN "declared" ELSE "unknown"]
    BY DEF Server!WriteHeader, Server!SendHeaders
<1>6. w' = [hdr |-> {"H"}, ctype |-> "grpc-web", announcedTrailers |-> TRUE, wroteHeader |-> TRUE]
  <2>1. w' = [[hdr |-> {"H"}, ctype |-> "grpc-web", announcedTrailers |-> TRUE,
               wroteHeader |-> FALSE] EXCEPT !.wroteHeader = TRUE]
    BY <1>4, <1>5, Zenon
  <2> QED
    BY <2>1
<1>7. head' \in {Server!NoHead, WebHead}
  <2>1. "Content-Length" \notin {"H"} /\ {"H"} \ {"Trailer:T"} = {"H"}
    OBVIOUS
  <2> QED
    BY <1>1, <1>4, <1>5, <2>1 DEF WebHead
<1> QED
    BY <1>6, <1>7

\* Its later calls find the headers sent.
LEMMA LaterHeaders ==
    ASSUME TypeInv, Streamed, NEW v \in Server!WithHeaders,
           Server!WriteHeader(v, 200) \/ Server!Flush(v)
    PROVE  w' = w /\ head' = head
<1>1. v = w /\ w \in Server!Writer /\ w.announcedTrailers = TRUE /\ w.wroteHeader = TRUE
    BY Numbers DEF Streamed, Server!WithHeaders, Server!Writer
<1>2. Server!Prepared(w) = w
    BY <1>1 DEF Server!Prepared
<1>3. Server!WriteHeader(v, 200)
    BY <1>1 DEF Server!Flush
<1>4. w' = [w EXCEPT !.wroteHeader = TRUE] /\ head' = head
    BY <1>1, <1>2, <1>3 DEF Server!WriteHeader, Server!SendHeaders
<1> QED
    BY <1>1, <1>4 DEF Server!Writer

\* Parts put after a body.
LEMMA AfterBody ==
    ASSUME NEW s \in Seq(Server!Part), NEW t \in Seq(Server!Part)
    PROVE  /\ s \o t \in Seq(Server!Part) /\ Len(s \o t) = Len(s) + Len(t)
           /\ \A i \in 1 .. Len(s) : (s \o t)[i] = s[i]
           /\ \A i \in 1 .. Len(t) : (s \o t)[Len(s) + i] = t[i]
<1>1. Len(s) \in Nat /\ Len(t) \in Nat
    OBVIOUS
<1>2. /\ s \o t \in Seq(Server!Part) /\ Len(s \o t) = Len(s) + Len(t)
      /\ \A i \in 1 .. Len(s) + Len(t) :
            (s \o t)[i] = IF i <= Len(s) THEN s[i] ELSE t[i - Len(s)]
    BY ConcatProperties
<1>3. ASSUME NEW i \in 1 .. Len(t) PROVE (s \o t)[Len(s) + i] = t[i]
  <2>1. Len(s) + i \in 1 .. Len(s) + Len(t) /\ ~(Len(s) + i <= Len(s)) /\ Len(s) + i - Len(s) = i
    BY <1>1
  <2> QED
    BY <1>2, <2>1
<1>4. ASSUME NEW i \in 1 .. Len(s) PROVE (s \o t)[i] = s[i]
    BY <1>1, <1>2
<1> QED
    BY <1>2, <1>3, <1>4

\* A sequence of two parts.
LEMMA TwoParts ==
    ASSUME NEW a \in Server!Part, NEW b \in Server!Part
    PROVE  /\ <<a, b>> \in Seq(Server!Part) /\ Len(<<a, b>>) = 2
           /\ <<a, b>>[1] = a /\ <<a, b>>[2] = b
OBVIOUS

\* What the frames are made of.
LEMMA FrameParts ==
    /\ Server!DataFrame \in Seq(Server!Part) /\ Len(Server!DataFrame) = 2
    /\ \A i \in 1 .. 2 : Server!DataFrame[i].kind = "data" /\ Server!DataFrame[i].keys = {}
    /\ \A keys \in SUBSET Server!Keys :
         /\ Server!TrailersFrame(keys) \in Seq(Server!Part) /\ Len(Server!TrailersFrame(keys)) = 3
         /\ Server!TrailersFrame(keys)[1] = Server!PartOf("trailers", FALSE, {})
         /\ Server!TrailersFrame(keys)[2] = Server!PartOf("trailers", FALSE, keys \cap Announced)
         /\ Server!TrailersFrame(keys)[3] = Server!PartOf("trailers", TRUE, keys \ Announced)
<1>1. ASSUME NEW kind \in {"data", "trailers", "text"}, NEW last \in BOOLEAN,
             NEW keys \in SUBSET Server!Keys
      PROVE  /\ Server!PartOf(kind, last, keys) \in Server!Part
             /\ Server!PartOf(kind, last, keys).kind = kind
             /\ Server!PartOf(kind, last, keys).keys = keys
    BY DEF Server!PartOf, Server!Part
<1>2. Server!DataFrame \in Seq(Server!Part) /\ Len(Server!DataFrame) = 2
      /\ \A i \in 1 .. 2 : Server!DataFrame[i].kind = "data" /\ Server!DataFrame[i].keys = {}
  <2>1. /\ Server!PartOf("data", FALSE, {}) \in Server!Part
        /\ Server!PartOf("data", TRUE, {}) \in Server!Part
        /\ Server!PartOf("data", FALSE, {}).kind = "data" /\ Server!PartOf("data", FALSE, {}).keys = {}
        /\ Server!PartOf("data", TRUE, {}).kind = "data" /\ Server!PartOf("data", TRUE, {}).keys = {}
    BY <1>1
  <2>2. \A i \in 1 .. 2 : i = 1 \/ i = 2
    OBVIOUS
  <2>3. Server!DataFrame = <<Server!PartOf("data", FALSE, {}), Server!PartOf("data", TRUE, {})>>
    BY DEF Server!DataFrame
  <2>4. Server!DataFrame \in Seq(Server!Part) /\ Len(Server!DataFrame) = 2
        /\ Server!DataFrame[1] = Server!PartOf("data", FALSE, {})
        /\ Server!DataFrame[2] = Server!PartOf("data", TRUE, {})
    BY <2>1, <2>3, TwoParts, Zenon
  <2> QED
    BY <2>1, <2>2, <2>4
<1>3. ASSUME NEW keys \in SUBSET Server!Keys
      PROVE  /\ Server!TrailersFrame(keys) \in Seq(Server!Part) /\ Len(Server!TrailersFrame(keys)) = 3
             /\ Server!TrailersFrame(keys)[1] = Server!PartOf("trailers", FALSE, {})
             /\ Server!TrailersFrame(keys)[2] = Server!PartOf("trailers", FALSE, keys \cap Announced)
             /\ Server!TrailersFrame(keys)[3] = Server!PartOf("trailers", TRUE, keys \ Announced)
  <2> DEFINE a == Server!PartOf("trailers", FALSE, {})
             b == Server!PartOf("trailers", FALSE, keys \cap Announced)
             c == Server!PartOf("trailers", TRUE, keys \ Announced)
  <2>1. a \in Server!Part /\ b \in Server!Part /\ c \in Server!Part
    BY <1>1
  <2>2. Server!TrailersFrame(keys) = <<a, b, c>>
    BY DEF Server!TrailersFrame, Server!Announcement, Announced
  <2> HIDE DEF a, b, c
  <2>3. /\ <<a, b, c>> \in Seq(Server!Part) /\ Len(<<a, b, c>>) = 3
        /\ <<a, b, c>>[1] = a /\ <<a, b, c>>[2] = b /\ <<a, b, c>>[3] = c
    BY <2>1
  <2>4. /\ Server!TrailersFrame(keys) \in Seq(Server!Part) /\ Len(Server!TrailersFrame(keys)) = 3
        /\ Server!TrailersFrame(keys)[1] = a /\ Server!TrailersFrame(keys)[2] = b
        /\ Server!TrailersFrame(keys)[3] = c
    BY <2>2, <2>3
  <2> QED
    BY <2>4 DEF a, b, c
<1> QED
    BY <1>2, <1>3

\* The calls of the gRPC server that put nothing into the body.
LEMMA HeaderStep ==
    ASSUME Inv, Server!GRPCSendHeader \/ Server!GRPCFlush \/ Server!GRPCStop,
           UNCHANGED <<proxyPc, taken, out>>
    PROVE  Server!TypeOK' /\ StatusInv' /\ ServerInv' /\ Kept
<1>0. TypeInv /\ StatusInv /\ ServerInv
    BY DEF Inv
<1>1. /\ messages \in Nat /\ Len(body) \in Nat /\ w \in Server!Writer /\ head \in Server!ResponseHead
      /\ Server!TypeOK
    BY <1>0, Numbers DEF TypeInv
<1>2. /\ pc = "serve" /\ statusKeys = {} /\ pc' \in {"serve", "status", "returned"}
      /\ UNCHANGED <<statusKeys, messages, body, end>>
    BY <1>0 DEF StatusInv, Server!GRPCSendHeader, Server!GRPCFlush, Server!GRPCStop, Server!wireVars
<1>3. StatusInv'
    BY <1>2 DEF StatusInv
<1>4. CASE Unsent
  <2>1. /\ ~headersSet /\ w.hdr = {} /\ w.ctype = "none" /\ head = Server!NoHead /\ head.status # 200
        /\ messages = 0 /\ body = <<>> /\ ~w.wroteHeader /\ ~w.announcedTrailers /\ Len(body) = 0
    BY <1>2, <1>4, EmptySeq DEF Unsent, Server!NoHead
  <2>2. CASE Server!GRPCSendHeader
    <3>1. PICK v \in Server!WithHeaders : Server!WriteHeader(v, 200)
        BY <2>2 DEF Server!GRPCSendHeader
    <3>2. /\ w' = [hdr |-> {"H"}, ctype |-> "grpc-web", announcedTrailers |-> TRUE,
                   wroteHeader |-> TRUE]
          /\ head' \in {Server!NoHead, WebHead}
        BY <1>0, <1>4, <2>1, <3>1, FirstHeaders
    <3>3. headersSet' = TRUE /\ pc' = "serve"
        BY <1>2, <2>2 DEF Server!GRPCSendHeader
    <3>4. Frames'
        BY <1>2, <2>1, <3>3 DEF Frames
    <3>5. Streamed'
        BY <1>2, <3>2, <3>3, <3>4 DEF Streamed
    <3>6. w' \in Server!Writer /\ head' \in Server!ResponseHead
        BY <3>2 DEF Server!Writer, Server!ResponseHead, Server!NoHead, WebHead, Server!Keys
    <3> QED
        BY <1>1, <1>2, <1>3, <2>1, <3>3, <3>5, <3>6 DEF Server!TypeOK, ServerInv, Kept
  <2>3. CASE Server!GRPCFlush
    <3>1. PICK v \in Server!WithHeaders : Server!Flush(v)
        BY <2>3 DEF Server!GRPCFlush
    <3>2. PICK l \in SUBSET {"Content-Length"} : v = [w EXCEPT !.hdr = {"H", "Trailer"} \cup l, !.ctype = "grpc"]
        BY <2>1, <3>1 DEF Server!WithHeaders
    <3>3. /\ v = [hdr |-> {"H", "Trailer"} \cup l, ctype |-> "grpc",
                  announcedTrailers |-> FALSE, wroteHeader |-> FALSE]
        BY <1>1, <2>1, <3>2 DEF Server!Writer
    <3>4. w' = v /\ head' = head
        BY <3>1, <3>3 DEF Server!Flush
    <3>5. pc' = "status" /\ headersSet' = TRUE
        BY <2>3 DEF Server!GRPCFlush
    <3>6. w'.hdr \ {"Content-Length"} = {"H", "Trailer"} /\ Prefixed' = {}
        BY <1>2, <3>3, <3>4 DEF Prefixed
    <3>7. Unsent'
        BY <1>2, <2>1, <3>3, <3>4, <3>5, <3>6 DEF Unsent
    <3>8. w' \in Server!Writer
        BY <3>3, <3>4 DEF Server!Writer, Server!Keys
    <3> QED
        BY <1>1, <1>2, <1>3, <3>4, <3>5, <3>7, <3>8 DEF Server!TypeOK, ServerInv, Kept
  <2>4. CASE Server!GRPCStop
    <3>1. pc' = "returned" /\ UNCHANGED <<headersSet, w, head>>
        BY <2>4 DEF Server!GRPCStop, Server!wireVars
    <3>2. Unsent'
        BY <1>2, <2>1, <3>1 DEF Unsent
    <3> QED
        BY <1>1, <1>2, <1>3, <3>1, <3>2 DEF Server!TypeOK, ServerInv, Kept
  <2> QED
    BY <2>2, <2>3, <2>4
<1>5. CASE Streamed
  <2>1. w' = w /\ head' = head
    BY <1>0, <1>5, LaterHeaders
    DEF Server!GRPCSendHeader, Server!GRPCFlush, Server!GRPCStop, Server!wireVars, Streamed
  <2>2. headersSet' = TRUE
    BY <1>5 DEF Streamed, Server!GRPCSendHeader, Server!GRPCFlush, Server!GRPCStop, Server!TypeOK
  <2>3. Frames'
    BY <1>2, <1>5 DEF Frames, Streamed
  <2>4. Streamed'
    BY <1>2, <1>5, <2>1, <2>2, <2>3 DEF Streamed, Prefixed
  <2> QED
    BY <1>1, <1>2, <1>3, <2>1, <2>2, <2>4 DEF Server!TypeOK, ServerInv, Kept
<1>6. ~Refused /\ ~HeadersOnly
    BY <1>2 DEF Refused, HeadersOnly
<1> QED
    BY <1>0, <1>4, <1>5, <1>6 DEF ServerInv

\* A message.
LEMMA SendStep ==
    ASSUME Inv, Server!GRPCSend, UNCHANGED <<proxyPc, taken, out>>
    PROVE  Server!TypeOK' /\ StatusInv' /\ ServerInv' /\ Kept
<1>0. TypeInv /\ StatusInv /\ ServerInv
    BY DEF Inv
<1>1. /\ messages \in Nat /\ Len(body) \in Nat /\ w \in Server!Writer /\ head \in Server!ResponseHead
      /\ body \in Seq(Server!Part) /\ Server!TypeOK
    BY <1>0, Numbers DEF TypeInv
<1>2. /\ pc = "serve" /\ statusKeys = {} /\ messages < MaxMessages
      /\ messages' = messages + 1 /\ headersSet' = TRUE
      /\ UNCHANGED <<pc, statusKeys, end>>
    BY <1>0 DEF StatusInv, Server!GRPCSend
<1>3. PICK v \in Server!WithHeaders : Server!WriteHeader(v, 200)
    BY DEF Server!GRPCSend
<1>4. /\ w'.announcedTrailers /\ w'.wroteHeader /\ w'.hdr = {"H"} /\ w' \in Server!Writer
      /\ head' \in {Server!NoHead, WebHead} /\ (head.status = 200 => head' = head)
      /\ Frames
  <2>1. CASE Unsent
    <3>1. ~headersSet /\ head.status # 200 /\ body = <<>> /\ messages = 0 /\ Len(body) = 0
        BY <1>2, <2>1, EmptySeq DEF Unsent, Server!NoHead
    <3>2. /\ w' = [hdr |-> {"H"}, ctype |-> "grpc-web", announcedTrailers |-> TRUE,
                   wroteHeader |-> TRUE]
          /\ head' \in {Server!NoHead, WebHead}
        BY <1>0, <1>3, <2>1, <3>1, FirstHeaders
    <3>3. Frames
        BY <3>1 DEF Frames
    <3> QED
        BY <3>1, <3>2, <3>3 DEF Server!Writer, Server!Keys
  <2>2. CASE Streamed
    <3>1. w' = w /\ head' = head
        BY <1>0, <1>3, <2>2, LaterHeaders
    <3> QED
        BY <1>1, <1>2, <2>2, <3>1 DEF Streamed
  <2>3. ~Refused /\ ~HeadersOnly
    BY <1>2 DEF Refused, HeadersOnly
  <2> QED
    BY <1>0, <2>1, <2>2, <2>3 DEF ServerInv
<1>5. /\ body' \in Seq(Server!Part) /\ Len(body) <= Len(body') /\ Len(body) <= 2 * messages
      /\ Len(body') <= 2 * messages + 2
      /\ \A i \in 1 .. Len(body') : body'[i].kind = "data" /\ body'[i].keys = {}
      /\ end' = "open" => Len(body') = 2 * messages + 2
  <2>0. Len(body) <= 2 * messages /\ (end = "open" => Len(body) = 2 * messages)
        /\ \A i \in 1 .. Len(body) : body[i].kind = "data" /\ body[i].keys = {}
    BY <1>1, <1>2, <1>4 DEF Frames
  <2>1. CASE end = "open"
    <3>1. body' = body \o Server!DataFrame
        BY <2>1 DEF Server!GRPCSend, Server!Put
    <3>2. /\ body' \in Seq(Server!Part) /\ Len(body') = Len(body) + 2
          /\ \A i \in 1 .. Len(body) : body'[i] = body[i]
          /\ \A i \in 1 .. 2 : body'[Len(body) + i] = Server!DataFrame[i]
      <4>1. Server!DataFrame \in Seq(Server!Part) /\ Len(Server!DataFrame) = 2
        BY FrameParts
      <4>2. /\ body' \in Seq(Server!Part) /\ Len(body') = Len(body) + Len(Server!DataFrame)
            /\ \A i \in 1 .. Len(body) : body'[i] = body[i]
            /\ \A i \in 1 .. Len(Server!DataFrame) : body'[Len(body) + i] = Server!DataFrame[i]
        BY <1>1, <3>1, <4>1, AfterBody, Zenon
      <4> QED
        BY <4>1, <4>2
    <3>3. ASSUME NEW i \in 1 .. Len(body') PROVE body'[i].kind = "data" /\ body'[i].keys = {}
      <4>1. CASE i \in 1 .. Len(body)
        BY <2>0, <3>2, <4>1
      <4>2. CASE i \notin 1 .. Len(body)
        <5>1. i - Len(body) \in 1 .. 2 /\ Len(body) + (i - Len(body)) = i
            BY <1>1, <3>2, <4>2
        <5>2. body'[i] = Server!DataFrame[i - Len(body)]
            BY <3>2, <5>1
        <5> QED
            BY <5>1, <5>2, FrameParts
      <4> QED
        BY <4>1, <4>2
    <3> QED
        BY <1>1, <2>0, <2>1, <3>2, <3>3
  <2>2. CASE end # "open"
    <3>1. body' = body
        BY <2>2 DEF Server!GRPCSend, Server!Put
    <3> QED
        BY <1>1, <1>2, <2>0, <2>2, <3>1
  <2> QED
    BY <2>1, <2>2
<1>6. Frames'
  <2>1. 2 * messages' = 2 * messages + 2
    BY <1>1, <1>2
  <2>2. Len(body') \in Nat
    BY <1>5
  <2>3. /\ Len(body') <= 2 * messages' + 3 /\ ~(Len(body') > 2 * messages')
        /\ ~(Len(body') > 2 * messages' + 1) /\ ~(Len(body') > 2 * messages' + 2)
        /\ end' = "open" => Len(body') = 2 * messages'
    BY <1>1, <1>5, <2>1, <2>2
  <2> QED
    BY <1>5, <2>3, Zenon DEF Frames
<1>7. Streamed'
    BY <1>2, <1>4, <1>6 DEF Streamed
<1>8. Server!TypeOK'
  <2>1. messages' \in 0 .. MaxMessages
    BY <1>1, <1>2, MaxMessagesAssumption
  <2>2. head' \in Server!ResponseHead
    BY <1>4 DEF Server!ResponseHead, Server!NoHead, WebHead, Server!Keys
  <2> QED
    BY <1>1, <1>2, <1>4, <1>5, <2>1, <2>2 DEF Server!TypeOK
<1>9. StatusInv' /\ Kept
    BY <1>2, <1>4, <1>5 DEF StatusInv, Kept
<1> QED
    BY <1>7, <1>8, <1>9 DEF ServerInv

\* The status is put into the map.
LEMMA StatusStep ==
    ASSUME Inv, Server!GRPCStatus, UNCHANGED <<proxyPc, taken, out>>
    PROVE  Server!TypeOK' /\ StatusInv' /\ ServerInv' /\ Kept
<1>0. TypeInv /\ StatusInv /\ ServerInv
    BY DEF Inv
<1>1. /\ messages \in Nat /\ Len(body) \in Nat /\ w \in Server!Writer /\ Server!TypeOK
    BY <1>0, Numbers DEF TypeInv
<1>2. /\ pc = "status" /\ pc' = "returned" /\ statusKeys = {}
      /\ UNCHANGED <<headersSet, messages, head, body, end>>
    BY <1>0 DEF StatusInv, Server!GRPCStatus, Server!wireVars
<1>3. PICK t \in SUBSET {"T"} :
         /\ w' = [w EXCEPT !.hdr = @ \cup Server!Announcement
                                     \cup (IF "T" \in t THEN {"Trailer:T"} ELSE {})]
         /\ statusKeys' = Server!Announcement \cup t
    BY DEF Server!GRPCStatus
<1>4. /\ w'.hdr = w.hdr \cup Announced \cup (IF "T" \in t THEN {"Trailer:T"} ELSE {})
      /\ w'.announcedTrailers = w.announcedTrailers /\ w'.wroteHeader = w.wroteHeader
      /\ w'.ctype = w.ctype /\ statusKeys' = Announced \cup t
      /\ w' \in Server!Writer /\ statusKeys' \subseteq Server!Keys
    BY <1>1, <1>3 DEF Server!Writer, Server!Announcement, Announced, Server!Keys
<1>5. /\ statusKeys' \cap Announced = Announced
      /\ Prefixed' = (IF "T" \in t THEN {"Trailer:T"} ELSE {})
  <2>1. "T" \in statusKeys' <=> "T" \in t
    BY <1>4 DEF Announced
  <2>2. statusKeys' \cap Announced = Announced
    BY <1>4
  <2>3. Prefixed' = (IF "T" \in statusKeys' THEN {"Trailer:T"} ELSE {})
    BY DEF Prefixed
  <2> QED
    BY <2>1, <2>2, <2>3
<1>6. StatusInv' /\ Kept
    BY <1>2, <1>4 DEF StatusInv, Kept, Announced
<1>7. Server!TypeOK'
    BY <1>1, <1>2, <1>4 DEF Server!TypeOK
<1>8. CASE Streamed
  <2>1. w.hdr = {"H"}
    BY <1>2, <1>8 DEF Streamed
  <2>2. Frames'
    <3>0. Len(body) > 2 * messages => pc \in {"finish", "done"}
        BY <1>8 DEF Streamed, Frames
    <3>1. Frames /\ Len(body) <= 2 * messages
        BY <1>1, <1>2, <1>8, <3>0 DEF Streamed
    <3>2. ~(Len(body) > 2 * messages) /\ ~(Len(body) > 2 * messages + 1) /\ ~(Len(body) > 2 * messages + 2)
        BY <1>1, <3>1
    <3> QED
        BY <1>2, <3>1, <3>2 DEF Frames
  <2>3. w'.hdr = {"H"} \cup (statusKeys' \cap Announced) \cup Prefixed'
    BY <1>4, <1>5, <2>1
  <2> QED
    BY <1>2, <1>4, <1>6, <1>7, <1>8, <2>2, <2>3 DEF Streamed, ServerInv
<1>9. CASE Unsent
  <2>1. /\ headersSet /\ w.ctype = "grpc" /\ w.hdr \ {"Content-Length"} = {"H", "Trailer"}
    BY <1>2, <1>9 DEF Unsent, Prefixed
  <2>2. w'.hdr \ {"Content-Length"}
          = {"H", "Trailer"} \cup (statusKeys' \cap Announced) \cup Prefixed'
    BY <1>4, <1>5, <2>1 DEF Announced
  <2> QED
    BY <1>2, <1>4, <1>6, <1>7, <1>9, <2>1, <2>2 DEF Unsent, ServerInv
<1>10. ~Refused /\ ~HeadersOnly
    BY <1>2 DEF Refused, HeadersOnly
<1> QED
    BY <1>0, <1>8, <1>9, <1>10 DEF ServerInv

\* An HTTP error.
LEMMA RejectStep ==
    ASSUME Inv, Server!GRPCReject, UNCHANGED <<proxyPc, taken, out>>
    PROVE  Server!TypeOK' /\ StatusInv' /\ ServerInv' /\ Kept
<1>0. TypeInv /\ StatusInv /\ ServerInv
    BY DEF Inv
<1>1. /\ messages \in Nat /\ Len(body) \in Nat /\ w \in Server!Writer /\ Server!TypeOK
      /\ body \in Seq(Server!Part)
    BY <1>0, Numbers DEF TypeInv
<1>2. /\ pc = "serve" /\ ~headersSet /\ pc' = "returned" /\ headersSet' = TRUE /\ statusKeys = {}
      /\ UNCHANGED <<statusKeys, messages, end>>
    BY <1>0 DEF StatusInv, Server!GRPCReject
<1>3. ~w.wroteHeader /\ ~w.announcedTrailers /\ head = Server!NoHead /\ messages = 0
    BY <1>0, <1>2 DEF ServerInv, Streamed, Refused, Unsent, HeadersOnly
<1> DEFINE v == [w EXCEPT !.hdr = {"H"}, !.ctype = "text"]
<1>13. Server!WriteHeader(v, 400)
    BY DEF Server!GRPCReject
<1>4. v = [hdr |-> {"H"}, ctype |-> "text", announcedTrailers |-> FALSE, wroteHeader |-> FALSE]
  <2>1. w.wroteHeader = FALSE /\ w.announcedTrailers = FALSE
    BY <1>1, <1>3 DEF Server!Writer
  <2>2. PICK u : u = v
    OBVIOUS
  <2>3. u = [hdr |-> {"H"}, ctype |-> "text", announcedTrailers |-> FALSE, wroteHeader |-> FALSE]
    BY <1>1, <2>1, <2>2 DEF Server!Writer
  <2> QED
    BY <2>2, <2>3
<1> HIDE DEF v
<1>5. Server!Prepared(v) = [hdr |-> {"H"}, ctype |-> "grpc-web",
                            announcedTrailers |-> FALSE, wroteHeader |-> FALSE]
  <2>1. {"H"} \ {"Trailer", "Content-Length"} = {"H"} /\ ("Trailer" \in {"H"}) = FALSE
    OBVIOUS
  <2> QED
    BY <1>4, <2>1 DEF Server!Prepared
<1> DEFINE p == Server!Prepared(v)
<1>6. /\ w' = [p EXCEPT !.wroteHeader = TRUE]
      /\ head' = IF p.wroteHeader \/ end # "open" THEN head
                 ELSE [status |-> 400, ctype |-> p.ctype, keys |-> p.hdr \ {"Trailer:T"},
                       length |-> IF "Content-Length" \in p.hdr THEN "declared" ELSE "unknown"]
    BY <1>13 DEF Server!WriteHeader, Server!SendHeaders
<1>7. w' = [hdr |-> {"H"}, ctype |-> "grpc-web", announcedTrailers |-> FALSE, wroteHeader |-> TRUE]
  <2>1. w' = [[hdr |-> {"H"}, ctype |-> "grpc-web", announcedTrailers |-> FALSE,
               wroteHeader |-> FALSE] EXCEPT !.wroteHeader = TRUE]
    BY <1>5, <1>6, Zenon
  <2> QED
    BY <2>1
<1>8. head' \in Server!ResponseHead /\ head'.status # 200
    BY <1>3, <1>5, <1>6 DEF Server!ResponseHead, Server!NoHead, Server!Keys
<1>9. body' \in Seq(Server!Part) /\ Len(body) <= Len(body')
  <2> DEFINE t == Server!PartOf("text", TRUE, {})
  <2>1. t \in Server!Part
    BY DEF Server!PartOf, Server!Part
  <2>2. body' = (IF end = "open" THEN body \o <<t>> ELSE body)
    BY DEF Server!GRPCReject, Server!Put
  <2> HIDE DEF t
  <2>3. <<t>> \in Seq(Server!Part) /\ Len(<<t>>) = 1
    BY <2>1
  <2>4. body \o <<t>> \in Seq(Server!Part) /\ Len(body \o <<t>>) = Len(body) + Len(<<t>>)
    BY <1>1, <2>3, AfterBody
  <2> QED
    BY <1>1, <2>2, <2>3, <2>4
<1>10. Refused'
    BY <1>2, <1>3, <1>7, <1>8 DEF Refused
<1>11. Server!TypeOK'
    BY <1>1, <1>2, <1>7, <1>8, <1>9 DEF Server!TypeOK, Server!Writer, Server!Keys
<1>12. StatusInv' /\ Kept
    BY <1>2, <1>3, <1>9 DEF StatusInv, Kept, Server!NoHead
<1> QED
    BY <1>10, <1>11, <1>12 DEF ServerInv

\* The trailers frame, or the trailers folded into the headers.
LEMMA FinalizeStep ==
    ASSUME Inv, Server!Finalize, UNCHANGED <<proxyPc, taken, out>>
    PROVE  Server!TypeOK' /\ StatusInv' /\ ServerInv' /\ Kept
<1>0. TypeInv /\ StatusInv /\ ServerInv
    BY DEF Inv
<1>1. /\ messages \in Nat /\ Len(body) \in Nat /\ w \in Server!Writer /\ Server!TypeOK
      /\ body \in Seq(Server!Part)
    BY <1>0, Numbers DEF TypeInv
<1>2. /\ pc = "returned" /\ pc' = "finish"
      /\ UNCHANGED <<headersSet, statusKeys, messages, head, end>>
    BY DEF Server!Finalize
<1>3. statusKeys \subseteq {"Grpc-Status", "T"}
    BY <1>0 DEF StatusInv
<1>4. StatusInv' /\ ~HeadersOnly
    BY <1>0, <1>2 DEF StatusInv, HeadersOnly
<1>5. CASE ~w.announcedTrailers
  <2>1. w' = [w EXCEPT !.hdr = Server!Folded(w.hdr)] /\ body' = body
    BY <1>5 DEF Server!Finalize
  <2>2. /\ w'.hdr = Server!Folded(w.hdr) /\ w'.announcedTrailers = w.announcedTrailers
        /\ w'.wroteHeader = w.wroteHeader /\ w'.ctype = w.ctype /\ w' \in Server!Writer
    <3>1. Server!Folded(w.hdr) \subseteq Server!Keys
        BY <1>1 DEF Server!Writer, Server!Folded, Server!Keys
    <3> QED
        BY <1>1, <2>1, <3>1 DEF Server!Writer
  <2>3. Server!TypeOK' /\ Kept
    BY <1>1, <1>2, <2>1, <2>2 DEF Server!TypeOK, Kept
  <2>4. CASE Refused
    <3>1. w'.hdr = {"H"}
        BY <2>2, <2>4 DEF Refused, Server!Folded
    <3>2. Refused'
        BY <1>2, <2>2, <2>4, <3>1 DEF Refused
    <3> QED
        BY <1>4, <2>3, <3>2 DEF ServerInv
  <2>5. CASE Unsent
    <3>1. CASE ~headersSet
      <4>1. w.hdr = {} /\ w.ctype = "none" /\ statusKeys = {}
        BY <2>5, <3>1 DEF Unsent
      <4>2. w'.hdr = {}
        BY <2>2, <4>1 DEF Server!Folded
      <4>3. Unsent'
        BY <1>2, <2>1, <2>2, <2>5, <3>1, <4>1, <4>2 DEF Unsent
      <4> QED
        BY <1>4, <2>3, <4>3 DEF ServerInv
    <3>2. CASE headersSet
      <4>1. /\ w.ctype = "grpc"
            /\ w.hdr \ {"Content-Length"} = {"H", "Trailer"} \cup (statusKeys \cap Announced) \cup Prefixed
        BY <1>2, <2>5, <3>2 DEF Unsent
      <4>2. "Trailer:T" \in w.hdr <=> "T" \in statusKeys
        <5>1. "Trailer:T" \in w.hdr <=> "Trailer:T" \in w.hdr \ {"Content-Length"}
            OBVIOUS
        <5>2. "Trailer:T" \in w.hdr \ {"Content-Length"} <=> "Trailer:T" \in Prefixed
            BY <4>1 DEF Announced
        <5>3. "Trailer:T" \in Prefixed <=> "T" \in statusKeys
            BY DEF Prefixed
        <5> QED
            BY <5>1, <5>2, <5>3
      <4>3. (w.hdr \ {"Trailer", "Trailer:T"}) \ {"Content-Length"} = {"H"} \cup (statusKeys \cap Announced)
        <5>1. (w.hdr \ {"Trailer", "Trailer:T"}) \ {"Content-Length"}
                 = (w.hdr \ {"Content-Length"}) \ {"Trailer", "Trailer:T"}
            OBVIOUS
        <5>2. Prefixed \subseteq {"Trailer:T"}
            BY DEF Prefixed
        <5> QED
            BY <4>1, <5>1, <5>2 DEF Announced
      <4>4. Server!Folded(w.hdr) \ {"Content-Length"} = {"H"} \cup statusKeys
        <5>1. CASE "T" \in statusKeys
          <6>1. Server!Folded(w.hdr) = (w.hdr \ {"Trailer", "Trailer:T"}) \cup {"T"}
            BY <4>2, <5>1 DEF Server!Folded
          <6>2. statusKeys = (statusKeys \cap Announced) \cup {"T"}
            BY <1>3, <5>1 DEF Announced
          <6> QED
            BY <4>3, <6>1, <6>2
        <5>2. CASE "T" \notin statusKeys
          <6>1. Server!Folded(w.hdr) = w.hdr \ {"Trailer", "Trailer:T"}
            BY <4>2, <5>2 DEF Server!Folded
          <6>2. statusKeys = statusKeys \cap Announced
            BY <1>3, <5>2 DEF Announced
          <6> QED
            BY <4>3, <6>1, <6>2
        <5> QED
            BY <5>1, <5>2
      <4>5. Unsent'
        BY <1>2, <2>1, <2>2, <2>5, <3>2, <4>1, <4>4 DEF Unsent
      <4> QED
        BY <1>4, <2>3, <4>5 DEF ServerInv
    <3> QED
        BY <3>1, <3>2
  <2>6. ~Streamed
    BY <1>5 DEF Streamed
  <2> QED
    BY <1>0, <1>4, <2>4, <2>5, <2>6 DEF ServerInv
<1>6. CASE w.announcedTrailers
  <2>1. Streamed
    BY <1>0, <1>4, <1>6 DEF ServerInv, Refused, Unsent
  <2>2. w.hdr = {"H"} \cup (statusKeys \cap Announced) \cup Prefixed
    BY <1>2, <2>1 DEF Streamed
  <2>3. Server!TrailerKeys(w.hdr) = statusKeys
    <3>1. w.hdr \cap Announced = statusKeys \cap Announced
        BY <2>2 DEF Prefixed, Announced
    <3>2. "Trailer:T" \in w.hdr <=> "T" \in statusKeys
        BY <2>2 DEF Prefixed, Announced
    <3>3. Server!TrailerKeys(w.hdr) = (statusKeys \cap Announced)
                                        \cup (IF "T" \in statusKeys THEN {"T"} ELSE {})
        BY <3>1, <3>2 DEF Server!TrailerKeys, Server!Announcement, Announced
    <3> QED
        BY <1>3, <3>3 DEF Announced
  <2>4. w' = [w EXCEPT !.hdr = w.hdr \ {"Trailer:T"}] /\ Server!Put(Server!TrailersFrame(statusKeys))
    BY <1>6, <2>3 DEF Server!Finalize
  <2>5. /\ w'.hdr = {"H"} \cup (statusKeys \cap Announced)
        /\ w'.announcedTrailers = w.announcedTrailers
        /\ w'.wroteHeader = w.wroteHeader /\ w' \in Server!Writer
    <3>1. w.hdr \ {"Trailer:T"} = {"H"} \cup (statusKeys \cap Announced)
        BY <2>2 DEF Prefixed, Announced
    <3> QED
        BY <1>1, <2>4, <3>1 DEF Server!Writer
  <2> DEFINE f == Server!TrailersFrame(statusKeys)
             m == 2 * messages
  <2>6. /\ f \in Seq(Server!Part) /\ Len(f) = 3
        /\ f[1] = Server!PartOf("trailers", FALSE, {})
        /\ f[2] = Server!PartOf("trailers", FALSE, statusKeys \cap Announced)
        /\ f[3] = Server!PartOf("trailers", TRUE, statusKeys \ Announced)
    <3>1. statusKeys \in SUBSET Server!Keys
        BY <1>1 DEF Server!TypeOK
    <3> QED
        BY <3>1, FrameParts
  <2> HIDE DEF f
  <2>7. /\ Len(body) <= m /\ m \in Nat /\ (end = "open" => Len(body) = m)
        /\ \A i \in 1 .. Len(body) : body[i].kind = "data" /\ body[i].keys = {}
    BY <1>1, <1>2, <2>1 DEF Streamed, Frames
  <2>8. /\ body' \in Seq(Server!Part) /\ Len(body) <= Len(body') /\ Frames'
    <3>1. CASE end = "open"
      <4>1. body' = body \o f
        BY <2>4, <3>1 DEF Server!Put, f
      <4>2. /\ body' \in Seq(Server!Part) /\ Len(body') = Len(body) + Len(f)
            /\ \A i \in 1 .. Len(body) : body'[i] = body[i]
            /\ \A i \in 1 .. Len(f) : body'[Len(body) + i] = f[i]
        BY <1>1, <2>6, <4>1, AfterBody, Zenon
      <4>3. /\ Len(body') = m + 3 /\ body'[m + 1] = f[1] /\ body'[m + 2] = f[2] /\ body'[m + 3] = f[3]
        <5>1. Len(body') = m + 3 /\ 1 \in 1 .. Len(f) /\ 2 \in 1 .. Len(f) /\ 3 \in 1 .. Len(f)
            BY <2>6, <2>7, <3>1, <4>2
        <5>2. \A i \in 1 .. Len(f) : body'[m + i] = f[i]
            BY <2>7, <3>1, <4>2, Zenon
        <5> QED
            BY <5>1, <5>2, Zenon
      <4>4. \A i \in 1 .. Len(body') : i <= m => body'[i].kind = "data" /\ body'[i].keys = {}
        BY <2>7, <3>1, <4>2
      <4>5. Frames'
        BY <1>2, <2>6, <2>7, <4>3, <4>4 DEF Frames
      <4> QED
        BY <1>1, <2>7, <3>1, <4>2, <4>3, <4>5
    <3>2. CASE end # "open"
      <4>1. body' = body
        BY <2>4, <3>2 DEF Server!Put
      <4>2. /\ Len(body) <= m + 3 /\ ~(Len(body) > m) /\ ~(Len(body) > m + 1) /\ ~(Len(body) > m + 2)
        BY <1>1, <2>7
      <4>3. Frames'
        BY <1>2, <2>7, <3>2, <4>1, <4>2 DEF Frames
      <4> QED
        BY <1>1, <4>1, <4>3
    <3> QED
        BY <3>1, <3>2
  <2>9. Streamed'
    BY <1>2, <2>1, <2>5, <2>8 DEF Streamed
  <2>10. Server!TypeOK' /\ Kept
    BY <1>1, <1>2, <2>5, <2>8 DEF Server!TypeOK, Kept
  <2> QED
    BY <1>4, <2>9, <2>10 DEF ServerInv
<1> QED
    BY <1>5, <1>6

\* The handler returns.
LEMMA FinishStep ==
    ASSUME Inv, Server!Finish, UNCHANGED <<proxyPc, taken, out>>
    PROVE  Server!TypeOK' /\ StatusInv' /\ ServerInv' /\ Kept
<1>0. TypeInv /\ StatusInv /\ ServerInv
    BY DEF Inv
<1>1. /\ messages \in Nat /\ Len(body) \in Nat /\ w \in Server!Writer /\ Server!TypeOK
      /\ head \in Server!ResponseHead /\ statusKeys \subseteq {"Grpc-Status", "T"}
    BY <1>0, Numbers DEF TypeInv, StatusInv
<1>2. /\ pc = "finish" /\ pc' = "done"
      /\ UNCHANGED <<headersSet, statusKeys, messages, body>>
    BY DEF Server!Finish
<1>3. PICK length \in {"zero", "unknown"} :
         /\ w' = [w EXCEPT !.wroteHeader = TRUE]
         /\ head' = IF w.wroteHeader \/ end # "open" THEN head
                    ELSE [status |-> 200, ctype |-> w.ctype, keys |-> w.hdr \ {"Trailer:T"},
                          length |-> IF "Content-Length" \in w.hdr THEN "declared" ELSE length]
    BY DEF Server!Finish, Server!SendHeaders
<1>4. end' = IF end # "open" THEN end ELSE IF head'.length = "declared" THEN "reset" ELSE "eof"
    BY DEF Server!Finish
<1>5. /\ w'.hdr = w.hdr /\ w'.announcedTrailers = w.announcedTrailers
      /\ w'.wroteHeader = TRUE /\ w' \in Server!Writer
    BY <1>1, <1>3 DEF Server!Writer
<1>6. head' \in Server!ResponseHead
  <2>1. w.hdr \ {"Trailer:T"} \subseteq Server!Keys
        /\ w.ctype \in {"none", "grpc", "grpc-web", "text"}
    BY <1>1 DEF Server!Writer
  <2> QED
    BY <1>1, <1>3, <2>1 DEF Server!ResponseHead
<1>7. end' \in {"eof", "reset"}
    BY <1>1, <1>4 DEF Server!TypeOK
<1>8. Server!TypeOK' /\ StatusInv'
    BY <1>0, <1>1, <1>2, <1>5, <1>6, <1>7 DEF Server!TypeOK, StatusInv
<1>9. CASE Streamed
  <2>1. head' = head
    BY <1>3, <1>9 DEF Streamed
  <2>2. Frames'
    BY <1>2, <1>7, <1>9 DEF Streamed, Frames
  <2>3. Streamed'
    BY <1>2, <1>5, <1>9, <2>1, <2>2 DEF Streamed
  <2> QED
    BY <1>1, <1>2, <1>7, <1>8, <2>1, <2>3 DEF ServerInv, Kept
<1>10. CASE Refused
  <2>1. head' = head
    BY <1>3, <1>10 DEF Refused
  <2>2. Refused'
    BY <1>2, <1>5, <1>10, <2>1 DEF Refused
  <2> QED
    BY <1>1, <1>2, <1>7, <1>8, <2>1, <2>2 DEF ServerInv, Kept
<1>11. CASE Unsent
  <2>1. /\ ~w.wroteHeader /\ ~w.announcedTrailers /\ messages = 0 /\ body = <<>>
        /\ head = Server!NoHead /\ head.status # 200
    BY <1>11 DEF Unsent, Server!NoHead
  <2>2. /\ \/ w.ctype = "none" /\ w.hdr = {} /\ statusKeys = {}
           \/ w.ctype = "grpc" /\ w.hdr \ {"Content-Length"} = {"H"} \cup statusKeys
    BY <1>2, <1>11 DEF Unsent
  <2>3. w.hdr \cap {"Trailer", "Trailer:T"} = {} /\ w.hdr \ {"Trailer:T"} = w.hdr
    BY <1>1, <2>2
  <2>4. head'.status = 200 =>
          /\ \/ head'.ctype = "none" /\ head'.keys = {} /\ statusKeys = {}
             \/ head'.ctype = "grpc" /\ head'.keys \ {"Content-Length"} = {"H"} \cup statusKeys
          /\ "Content-Length" \in head'.keys => end' = "reset"
    <3> SUFFICES ASSUME head'.status = 200
                 PROVE  /\ \/ head'.ctype = "none" /\ head'.keys = {} /\ statusKeys = {}
                           \/ /\ head'.ctype = "grpc"
                              /\ head'.keys \ {"Content-Length"} = {"H"} \cup statusKeys
                        /\ "Content-Length" \in head'.keys => end' = "reset"
        OBVIOUS
    <3>1. end = "open"
        BY <1>3, <2>1
    <3>2. /\ head'.ctype = w.ctype /\ head'.keys = w.hdr
          /\ "Content-Length" \in w.hdr => head'.length = "declared"
        BY <1>3, <2>1, <2>3, <3>1
    <3> QED
        BY <1>4, <2>2, <3>1, <3>2
  <2>5. HeadersOnly'
    BY <1>2, <1>5, <1>7, <2>1, <2>3, <2>4 DEF HeadersOnly
  <2> QED
    BY <1>1, <1>2, <1>7, <1>8, <2>1, <2>5 DEF ServerInv, Kept
<1>12. ~HeadersOnly
    BY <1>2 DEF HeadersOnly
<1> QED
    BY <1>0, <1>9, <1>10, <1>11, <1>12 DEF ServerInv

\* A response with status 200 is streamed or all in its headers.
LEMMA GoodHead ==
    ASSUME Inv, head.status = 200
    PROVE  Streamed \/ HeadersOnly
BY DEF Inv, ServerInv, Refused, Unsent, Server!NoHead

\* A step of the server leaves alone what the proxy has passed on.
LEMMA ServerStep ==
    ASSUME Inv, Server!GRPCServer \/ Server!Handler, UNCHANGED <<proxyPc, taken, out>>
    PROVE  Inv'
<1>1. Server!TypeOK' /\ StatusInv' /\ ServerInv' /\ Kept
  <2>1. CASE Server!GRPCSendHeader \/ Server!GRPCFlush \/ Server!GRPCStop
    BY <2>1, HeaderStep
  <2>2. CASE Server!GRPCSend
    BY <2>2, SendStep
  <2>3. CASE Server!GRPCStatus
    BY <2>3, StatusStep
  <2>4. CASE Server!GRPCReject
    BY <2>4, RejectStep
  <2>5. CASE Server!Finalize
    BY <2>5, FinalizeStep
  <2>6. CASE Server!Finish
    BY <2>6, FinishStep
  <2> QED
    BY <2>1, <2>2, <2>3, <2>4, <2>5, <2>6 DEF Server!GRPCServer, Server!Handler
<1>2. TypeInv /\ ProxyInv
    BY DEF Inv
<1>3. messages \in Nat /\ Len(body) \in Nat /\ taken \in Nat /\ taken <= Len(body)
    BY <1>2, Numbers
<1>4. /\ head.status = 200 => head' = head
      /\ Len(body) <= Len(body')
      /\ pc \in {"finish", "done"} => pc' \in {"finish", "done"} /\ messages' = messages /\ statusKeys' = statusKeys
      /\ messages' = messages \/ (pc = "serve" /\ messages' = messages + 1)
      /\ end # "open" => end' # "open"
      /\ proxyPc' = proxyPc /\ taken' = taken /\ out' = out
    BY <1>1 DEF Kept
<1>5. TypeInv'
  <2>1. Len(body') \in Nat
    BY <1>1 DEF Server!TypeOK
  <2>2. taken' \in 0 .. Len(body')
    BY <1>3, <1>4, <2>1
  <2>3. OutType'
    BY <1>2, <1>4 DEF TypeInv, OutType
  <2> QED
    BY <1>1, <1>2, <1>4, <2>2, <2>3 DEF TypeInv
<1>6. ASSUME PassedOn PROVE PassedOn'
  <2>1. head' = head /\ head.status = 200
    BY <1>4, <1>6 DEF PassedOn
  <2>2. pc = "serve" => Len(body) <= 2 * messages
    <3>1. Streamed \/ HeadersOnly
        BY <2>1, GoodHead
    <3> QED
        BY <1>3, <3>1 DEF Streamed, Frames, HeadersOnly
  <2>3. out.data = (IF taken <= 2 * messages' THEN taken ELSE 2 * messages')
    <3>1. out.data = (IF taken <= 2 * messages THEN taken ELSE 2 * messages)
        BY <1>6 DEF PassedOn
    <3>2. CASE messages' = messages
        BY <3>1, <3>2
    <3>3. CASE pc = "serve" /\ messages' = messages + 1
        BY <1>3, <2>2, <3>1, <3>3
    <3> QED
        BY <1>4, <3>2, <3>3
  <2> QED
    BY <1>4, <1>6, <2>1, <2>3 DEF PassedOn
<1>7. NoStatus => NoStatus'
    BY <1>4 DEF NoStatus
<1>8. WholeResponse => WholeResponse'
    BY <1>4 DEF WholeResponse
<1>9. ProxyInv'
  <2>1. proxyPc' = "roundtrip" =>
          /\ taken' = 0 /\ out'.end = "open" /\ out'.headers = "none" /\ out'.origin = "server"
          /\ out'.headerKeys = {} /\ out'.trailerKeys = {} /\ out'.data = 0
    BY <1>2, <1>4 DEF ProxyInv
  <2>2. proxyPc' = "copy" =>
          PassedOn' /\ out'.end = "open" /\ out'.trailerKeys = {} /\ out'.origin = "server"
    BY <1>2, <1>4, <1>6 DEF ProxyInv
  <2>3. proxyPc' = "done" /\ out'.origin = "server" =>
          PassedOn' /\ out'.end # "open" /\ end' # "open" /\ (NoStatus' \/ WholeResponse')
    BY <1>2, <1>4, <1>6, <1>7, <1>8 DEF ProxyInv
  <2>4. out'.origin = "proxy" =>
          /\ proxyPc' = "done" /\ out'.end = "stream" /\ out'.ctype = "grpc"
          /\ out'.headerKeys = {} /\ out'.trailerKeys = {"Grpc-Status"} /\ out'.data = 0
    BY <1>2, <1>4 DEF ProxyInv
  <2> QED
    BY <2>1, <2>2, <2>3, <2>4, Zenon DEF ProxyInv
<1> QED
    BY <1>1, <1>5, <1>9 DEF Inv

------------------------------------------------------------------------------
(* The connection                                                           *)

\* What is left of the response after a cut is still as the invariant says.
LEMMA CutStep ==
    ASSUME Inv, Cut
    PROVE  Inv'
<1>0. TypeInv /\ StatusInv /\ ServerInv /\ ProxyInv
    BY DEF Inv
<1>1. /\ messages \in Nat /\ Len(body) \in Nat /\ taken \in Nat /\ taken <= Len(body)
      /\ body \in Seq(Server!Part) /\ w \in Server!Writer /\ head \in Server!ResponseHead
    BY <1>0, Numbers
<1>2. /\ end = "open" /\ end' \in {"eof", "reset"}
      /\ UNCHANGED <<pc, headersSet, statusKeys, messages, w, proxyPc, taken, out>>
      /\ head' \in {head, Server!NoHead}
      /\ proxyPc # "roundtrip" => head' = head
    BY DEF Cut, serverVars, proxyVars
<1>3. PICK k \in taken .. Len(body) : body' = SubSeq(body, 1, k)
    BY DEF Cut
<1>4. /\ body' \in Seq(Server!Part) /\ Len(body') = k /\ k \in Nat /\ k <= Len(body) /\ taken <= k
      /\ \A i \in 1 .. k : body'[i] = body[i]
    BY <1>1, <1>3
<1>5. TypeInv'
  <2>1. head' \in Server!ResponseHead
    BY <1>1, <1>2 DEF Server!ResponseHead, Server!NoHead
  <2>2. Server!TypeOK'
    BY <1>0, <1>2, <1>4, <2>1 DEF TypeInv, Server!TypeOK
  <2>3. taken' \in 0 .. Len(body')
    BY <1>1, <1>2, <1>4
  <2>4. OutType'
    BY <1>0, <1>2 DEF TypeInv, OutType
  <2> QED
    BY <1>0, <1>2, <2>2, <2>3, <2>4 DEF TypeInv
<1>6. StatusInv'
    BY <1>0, <1>2 DEF StatusInv
<1>7. ASSUME Streamed PROVE ServerInv'
  <2>1. Frames'
    <3>1. Frames
        BY <1>7 DEF Streamed
    <3> DEFINE m == 2 * messages
    <3>2. m \in Nat /\ Len(body) <= m + 3
        BY <1>1, <3>1 DEF Frames
    <3>3. /\ \A i \in 1 .. k : i <= m => body'[i].kind = "data"
          /\ \A i \in 1 .. k : i <= m => body'[i].keys = {}
        BY <1>1, <1>4, <3>1 DEF Frames
    <3>8. /\ k > m => Len(body) > m /\ m + 1 \in 1 .. k
          /\ k > m + 1 => Len(body) > m + 1 /\ m + 2 \in 1 .. k
          /\ k > m + 2 => Len(body) > m + 2 /\ m + 3 \in 1 .. k
        BY <1>1, <1>4, <3>2
    <3> HIDE DEF m
    <3>4. k > m => pc \in {"finish", "done"} /\ body'[m + 1] = Server!PartOf("trailers", FALSE, {})
        BY <1>4, <3>1, <3>8 DEF Frames, m
    <3>5. k > m + 1 => body'[m + 2] = Server!PartOf("trailers", FALSE, statusKeys \cap Announced)
        BY <1>4, <3>1, <3>8 DEF Frames, m
    <3>6. k > m + 2 => body'[m + 3] = Server!PartOf("trailers", TRUE, statusKeys \ Announced)
        BY <1>4, <3>1, <3>8 DEF Frames, m
    <3>7. k <= m + 3 /\ end' # "open"
        BY <1>1, <1>2, <1>4, <3>2
    <3> QED
        BY <1>2, <1>4, <3>3, <3>4, <3>5, <3>6, <3>7 DEF Frames, m
  <2>2. Prefixed' = Prefixed
    BY <1>2 DEF Prefixed
  <2>3. Streamed'
    BY <1>2, <1>7, <2>1, <2>2 DEF Streamed
  <2> QED
    BY <2>3 DEF ServerInv
<1>8. ASSUME Refused PROVE ServerInv'
  <2>1. Refused'
    BY <1>2, <1>8 DEF Refused, Server!NoHead
  <2> QED
    BY <2>1 DEF ServerInv
<1>9. ASSUME Unsent PROVE ServerInv'
  <2>1. body' = <<>>
    <3>1. Len(body) = 0
        BY <1>9, EmptySeq DEF Unsent
    <3>2. Len(body') = 0
        BY <1>4, <3>1
    <3> QED
        BY <1>4, <3>2, EmptySeq
  <2>2. Prefixed' = Prefixed
    BY <1>2 DEF Prefixed
  <2>3. Unsent'
    BY <1>2, <1>9, <2>1, <2>2 DEF Unsent
  <2> QED
    BY <2>3 DEF ServerInv
<1>10. ServerInv'
    BY <1>0, <1>2, <1>7, <1>8, <1>9 DEF ServerInv, HeadersOnly
<1>11. ProxyInv'
  <2>1. proxyPc = "copy" => PassedOn'
    BY <1>0, <1>2 DEF ProxyInv, PassedOn
  <2>2. ~(proxyPc = "done" /\ out.origin = "server")
    BY <1>0, <1>2 DEF ProxyInv
  <2> QED
    BY <1>0, <1>2, <2>1, <2>2 DEF ProxyInv
<1> QED
    BY <1>5, <1>6, <1>10, <1>11 DEF Inv

------------------------------------------------------------------------------
(* The proxy                                                                *)

\* What a step of the proxy has to show: the server's part of the invariant is not its
\* concern.
LEMMA ProxyStep ==
    ASSUME Inv, UNCHANGED <<pc, headersSet, statusKeys, messages, w, head, body, end>>,
           proxyPc' \in {"roundtrip", "copy", "done"}, taken' \in 0 .. Len(body),
           OutType', ProxyInv'
    PROVE  Inv'
<1>1. TypeInv'
    BY DEF Inv, TypeInv, Server!TypeOK
<1>2. StatusInv'
    BY DEF Inv, StatusInv
<1>3. Frames => Frames'
    BY DEF Frames
<1>4. Prefixed' = Prefixed
    BY DEF Prefixed
<1>5. ServerInv'
  <2>1. Streamed => Streamed'
    BY <1>3, <1>4 DEF Streamed
  <2>2. Refused => Refused'
    BY DEF Refused
  <2>3. Unsent => Unsent'
    BY <1>4 DEF Unsent
  <2>4. HeadersOnly => HeadersOnly'
    BY DEF HeadersOnly
  <2> QED
    BY <2>1, <2>2, <2>3, <2>4 DEF Inv, ServerInv
<1> QED
    BY <1>1, <1>2, <1>5 DEF Inv

\* The fields of the stream to the client.
LEMMA OutFields ==
    ASSUME OutType
    PROVE  /\ out = [headers |-> out.headers, headerKeys |-> out.headerKeys, ctype |-> out.ctype,
                     data |-> out.data, trailerKeys |-> out.trailerKeys, end |-> out.end,
                     origin |-> out.origin, text |-> out.text, message |-> out.message]
           /\ out.headers \in {"none", "kept", "sent"} /\ out.headerKeys \in SUBSET Client!OutKeys
           /\ out.ctype \in {"none", "grpc", "grpc-web", "text"} /\ out.data \in Nat
           /\ out.trailerKeys \in SUBSET Client!OutKeys
           /\ out.end \in {"open", "headers", "stream", "reset"} /\ out.origin \in {"server", "proxy"}
BY DEF OutType

\* The head is passed on.
LEMMA RespondStep ==
    ASSUME Inv, Client!Respond, UNCHANGED <<pc, headersSet, statusKeys, messages, w>>
    PROVE  Inv'
<1>1. /\ proxyPc = "roundtrip" /\ head.status = 200 /\ proxyPc' = "copy" /\ taken' = taken
      /\ UNCHANGED <<head, body, end>>
      /\ out' = Client!WriteHeader(Client!ModifiedKeys, Client!ModifiedType)
    BY DEF Client!Respond, Client!wireVars
<1>2. /\ taken = 0 /\ out.end = "open" /\ out.trailerKeys = {} /\ out.data = 0
      /\ out.origin = "server" /\ OutType /\ taken \in 0 .. Len(body)
    BY <1>1 DEF Inv, TypeInv, ProxyInv
<1>3. /\ head \in Server!ResponseHead /\ messages \in Nat
    BY Numbers DEF Inv
<1>4. /\ Client!ModifiedKeys \ {Client!DontFlush} = head.keys
      /\ Client!ModifiedType = (IF head.ctype = "grpc-web" THEN "grpc" ELSE head.ctype)
      /\ head.keys \subseteq Client!OutKeys
      /\ Client!ModifiedType \in {"none", "grpc", "grpc-web", "text"}
  <2>1. head.keys \subseteq Server!Keys /\ head.ctype \in {"none", "grpc", "grpc-web", "text"}
    BY <1>3 DEF Server!ResponseHead
  <2>2. Client!DontFlush \notin head.keys /\ head.keys \subseteq Client!OutKeys
    BY <2>1 DEF Server!Keys, Client!OutKeys, Client!DontFlush
  <2>3. Client!ModifiedKeys \ {Client!DontFlush} = head.keys
    BY <2>2 DEF Client!ModifiedKeys
  <2> QED
    BY <2>1, <2>2, <2>3 DEF Client!ModifiedType
<1>5. PICK h \in {"kept", "sent"} :
        out' = [out EXCEPT !.headers = h, !.headerKeys = head.keys, !.ctype = Client!ModifiedType]
    BY <1>1, <1>4 DEF Client!WriteHeader
<1>6. out' = [headers |-> h, headerKeys |-> head.keys, ctype |-> Client!ModifiedType,
              data |-> 0, trailerKeys |-> {}, end |-> "open",
              origin |-> "server", text |-> out.text, message |-> out.message]
    BY <1>2, <1>5, OutFields
<1>7. OutType'
    BY <1>4, <1>6 DEF OutType
<1>8. PassedOn'
    BY <1>1, <1>2, <1>3, <1>4, <1>6 DEF PassedOn
<1>9. ProxyInv'
    BY <1>1, <1>6, <1>8 DEF ProxyInv
<1> QED
    BY <1>1, <1>2, <1>7, <1>9, ProxyStep

\* The proxy's own answer.
LEMMA WriteErrorStep ==
    ASSUME Inv, Client!WriteError, UNCHANGED <<pc, headersSet, statusKeys, messages, w>>
    PROVE  /\ Inv'
           /\ out.end = "open" /\ out'.end = "stream" /\ out'.origin = "proxy" /\ out'.data = out.data
<1>1. /\ proxyPc = "roundtrip" /\ proxyPc' = "done" /\ taken' = taken
      /\ UNCHANGED <<head, body, end>>
    BY DEF Client!WriteError, Client!wireVars
<1>2. /\ out.end = "open" /\ out.trailerKeys = {} /\ out.data = 0
      /\ OutType /\ taken \in 0 .. Len(body)
    BY <1>1 DEF Inv, TypeInv, ProxyInv
<1>3. PICK t \in Texts :
         out' = Client!Ended([Client!WriteHeader({}, "grpc") EXCEPT
                         !.trailerKeys = {"Grpc-Status"}, !.origin = "proxy",
                         !.text = t, !.message = Client!Message!EncodeGrpcMessage(t)])
    BY DEF Client!WriteError
<1>4. PICK m : m = Client!Message!EncodeGrpcMessage(t)
    OBVIOUS
<1>5. Client!WriteHeader({}, "grpc")
        = [headers |-> "sent", headerKeys |-> {}, ctype |-> "grpc", data |-> 0,
           trailerKeys |-> {}, end |-> "open", origin |-> out.origin, text |-> out.text,
           message |-> out.message]
  <2>1. PICK u : u = Client!WriteHeader({}, "grpc")
    OBVIOUS
  <2>2. {} \ {Client!DontFlush} = {} /\ Client!DontFlush \notin {}
    OBVIOUS
  <2>3. u = [out EXCEPT !.headers = "sent", !.headerKeys = {}, !.ctype = "grpc"]
    BY <2>1, <2>2 DEF Client!WriteHeader
  <2>4. u = [headers |-> "sent", headerKeys |-> {}, ctype |-> "grpc", data |-> 0,
             trailerKeys |-> {}, end |-> "open", origin |-> out.origin, text |-> out.text,
             message |-> out.message]
    BY <1>2, <2>3, OutFields
  <2> QED
    BY <2>1, <2>4
<1>12. PICK u : u = Client!WriteHeader({}, "grpc")
    OBVIOUS
<1>6. PICK e : e = [u EXCEPT !.trailerKeys = {"Grpc-Status"}, !.origin = "proxy",
                             !.text = t, !.message = m]
    OBVIOUS
<1>7. e = [headers |-> "sent", headerKeys |-> {}, ctype |-> "grpc", data |-> 0,
           trailerKeys |-> {"Grpc-Status"}, end |-> "open", origin |-> "proxy", text |-> t,
           message |-> m]
  <2>1. u = [headers |-> "sent", headerKeys |-> {}, ctype |-> "grpc", data |-> 0,
             trailerKeys |-> {}, end |-> "open", origin |-> out.origin, text |-> out.text,
             message |-> out.message]
    BY <1>5, <1>12
  <2>2. /\ DOMAIN u = {"headers", "headerKeys", "ctype", "data", "trailerKeys", "end", "origin",
                      "text", "message"}
        /\ u.headers = "sent" /\ u.headerKeys = {} /\ u.ctype = "grpc" /\ u.data = 0
        /\ u.end = "open"
    BY <2>1
  <2>3. u \in [{"headers", "headerKeys", "ctype", "data", "trailerKeys", "end", "origin",
                "text", "message"} -> {u[x] : x \in DOMAIN u}]
    BY <2>1, <2>2
  <2> QED
    BY <1>6, <2>2, <2>3
<1>8. out' = Client!Ended(e)
    BY <1>3, <1>4, <1>12, <1>6, Zenon
<1>9. out' = [headers |-> "sent", headerKeys |-> {}, ctype |-> "grpc", data |-> 0,
              trailerKeys |-> {"Grpc-Status"}, end |-> "stream", origin |-> "proxy", text |-> t,
              message |-> m]
    BY <1>7, <1>8 DEF Client!Ended
<1>10. OutType'
    BY <1>9 DEF OutType, Client!OutKeys
<1>11. ProxyInv'
    BY <1>1, <1>9 DEF ProxyInv
<1> QED
    BY <1>1, <1>2, <1>9, <1>10, <1>11, ProxyStep

\* A part is passed on, or held back as one of the trailers frame.
LEMMA CopyStep ==
    ASSUME Inv, Client!Copy, UNCHANGED <<pc, headersSet, statusKeys, messages, w>>
    PROVE  /\ Inv'
           /\ out.end = "open" /\ out'.end = "open"
           /\ out'.data = out.data \/ (out'.data = out.data + 1 /\ out.data < 2 * messages)
<1>1. /\ proxyPc = "copy" /\ proxyPc' = "copy" /\ taken < Len(body) /\ taken' = taken + 1
      /\ UNCHANGED <<head, body, end>>
      /\ out' = IF body[taken + 1].kind = "trailers" THEN out
                ELSE [out EXCEPT !.headers = "sent", !.data = out.data + 1]
    BY DEF Client!Copy, Client!wireVars
<1>2. /\ out.end = "open" /\ out.trailerKeys = {} /\ out.origin = "server" /\ OutType /\ PassedOn
    BY <1>1 DEF Inv, TypeInv, ProxyInv
<1>3. messages \in Nat /\ taken \in Nat /\ Len(body) \in Nat
    BY Numbers DEF Inv
<1>4. Streamed
  <2>1. Streamed \/ HeadersOnly
    BY <1>2, GoodHead DEF PassedOn
  <2>2. ~HeadersOnly
    BY <1>1, <1>3, EmptySeq DEF HeadersOnly
  <2> QED
    BY <2>1, <2>2
<1> DEFINE m == 2 * messages
<1>5. m \in Nat /\ out.data = (IF taken <= m THEN taken ELSE m)
    BY <1>2, <1>3 DEF PassedOn
<1>6. CASE taken + 1 <= m
  <2>1. taken + 1 \in 1 .. Len(body)
    BY <1>1, <1>3
  <2>2. body[taken + 1].kind = "data"
    BY <1>4, <1>6, <2>1 DEF Streamed, Frames
  <2>3. out' = [out EXCEPT !.headers = "sent", !.data = out.data + 1] /\ out.data = taken
    BY <1>1, <1>3, <1>5, <1>6, <2>2
  <2>4. out' = [headers |-> "sent", headerKeys |-> out.headerKeys, ctype |-> out.ctype,
                data |-> taken + 1, trailerKeys |-> {}, end |-> "open", origin |-> "server",
                text |-> out.text, message |-> out.message]
    BY <1>2, <2>3, OutFields
  <2>5. OutType'
    BY <1>2, <1>3, <2>4, OutFields DEF OutType
  <2>6. PassedOn'
    BY <1>1, <1>2, <1>3, <1>6, <2>4 DEF PassedOn
  <2>7. ProxyInv'
    <3>1. out'.end = "open" /\ out'.trailerKeys = {} /\ out'.origin = "server"
        BY <2>4
    <3> QED
        BY <1>1, <2>6, <3>1 DEF ProxyInv
  <2>8. Inv'
    BY <1>1, <2>1, <1>3, <2>5, <2>7, ProxyStep
  <2> QED
    BY <1>2, <1>3, <1>6, <2>3, <2>4, <2>8
<1>7. CASE taken + 1 > m
  <2>1. taken + 1 = m + 1 \/ taken + 1 = m + 2 \/ taken + 1 = m + 3
    <3>1. Len(body) <= m + 3
        BY <1>4 DEF Streamed, Frames
    <3> QED
        BY <1>1, <1>3, <1>5, <1>7, <3>1
  <2>2. /\ Len(body) > m /\ (taken + 1 = m + 2 => Len(body) > m + 1)
        /\ (taken + 1 = m + 3 => Len(body) > m + 2)
    BY <1>1, <1>3, <1>5, <1>7
  <2>3. body[taken + 1].kind = "trailers"
    BY <1>4, <2>1, <2>2 DEF Streamed, Frames, Server!PartOf
  <2>4. out' = out /\ out.data = m
    BY <1>1, <1>3, <1>5, <1>7, <2>3
  <2>5. OutType'
    BY <1>2, <2>4 DEF OutType
  <2>6. PassedOn'
    <3>1. ~(taken' <= m)
        BY <1>1, <1>3, <1>5, <1>7
    <3> QED
        BY <1>1, <1>2, <2>4, <3>1 DEF PassedOn
  <2>7. ProxyInv'
    BY <1>1, <1>2, <2>4, <2>6 DEF ProxyInv
  <2>8. taken' \in 0 .. Len(body)
    BY <1>1, <1>3
  <2>9. Inv'
    BY <1>1, <2>5, <2>7, <2>8, ProxyStep
  <2> QED
    BY <1>2, <2>4, <2>9
<1> QED
    BY <1>3, <1>5, <1>6, <1>7

\* The stream is aborted.
LEMMA CopyErrStep ==
    ASSUME Inv, Client!CopyErr, UNCHANGED <<pc, headersSet, statusKeys, messages, w>>
    PROVE  /\ Inv'
           /\ out.end = "open" /\ out'.end = "reset" /\ out'.data = out.data
<1>1. /\ proxyPc = "copy" /\ proxyPc' = "done" /\ taken' = taken /\ end # "open"
      /\ UNCHANGED <<head, body, end>>
      /\ out' = [out EXCEPT !.end = "reset"]
    BY DEF Client!CopyErr, Client!wireVars
<1>2. /\ out.end = "open" /\ out.trailerKeys = {} /\ out.origin = "server" /\ OutType /\ PassedOn
      /\ taken \in 0 .. Len(body)
    BY <1>1 DEF Inv, TypeInv, ProxyInv
<1>3. out' = [headers |-> out.headers, headerKeys |-> out.headerKeys, ctype |-> out.ctype,
              data |-> out.data, trailerKeys |-> {}, end |-> "reset", origin |-> "server",
              text |-> out.text, message |-> out.message]
    BY <1>1, <1>2, OutFields
<1>4. OutType'
    BY <1>2, <1>3, OutFields DEF OutType
<1>5. PassedOn' /\ NoStatus'
    BY <1>1, <1>2, <1>3 DEF PassedOn, NoStatus
<1>6. ProxyInv'
  <2>1. out'.end = "reset" /\ out'.origin = "server"
    BY <1>3
  <2> QED
    BY <1>1, <1>5, <2>1 DEF ProxyInv
<1> QED
    BY <1>1, <1>2, <1>3, <1>4, <1>6, ProxyStep

\* The body ends as it should: all of the response has arrived, or it is empty.
LEMMA WholeBody ==
    ASSUME Inv, Client!CopyEnd
    PROVE  LET keys == UNION {body[i].keys : i \in 1 .. taken}
           IN  \/ keys = {} /\ "Grpc-Status" \notin out.headerKeys
               \/ /\ pc \in {"finish", "done"} /\ out.data = 2 * messages
                  /\ out.headerKeys \cup keys = {"H"} \cup statusKeys
                  /\ out.headerKeys \cap keys = {} /\ keys \subseteq statusKeys
<1> DEFINE keys == UNION {body[i].keys : i \in 1 .. taken}
           m == 2 * messages
<1>1. /\ proxyPc = "copy" /\ taken = Len(body) /\ Client!Complete
    BY DEF Client!CopyEnd
<1>2. PassedOn
    BY <1>1 DEF Inv, ProxyInv
<1>3. messages \in Nat /\ taken \in Nat /\ Len(body) \in Nat /\ m \in Nat
      /\ statusKeys \subseteq {"Grpc-Status", "T"}
    BY Numbers DEF Inv, StatusInv
<1>4. taken = 0 => keys = {}
  <2>1. taken = 0 => 1 .. taken = {}
    BY <1>3
  <2> QED
    BY <2>1
<1> HIDE DEF keys
<1>5. ASSUME Streamed
      PROVE  \/ keys = {} /\ "Grpc-Status" \notin out.headerKeys
             \/ /\ pc \in {"finish", "done"} /\ out.data = m
                /\ out.headerKeys \cup keys = {"H"} \cup statusKeys
                /\ out.headerKeys \cap keys = {} /\ keys \subseteq statusKeys
  <2>1. head = WebHead /\ out.headerKeys = {"H"} /\ head.ctype = "grpc-web"
    BY <1>2, <1>5 DEF Streamed, PassedOn, Server!NoHead, WebHead
  <2>2. CASE taken = 0
    BY <1>4, <2>1, <2>2
  <2>3. CASE taken # 0
    <3>1. body[taken].kind = "trailers" /\ body[taken].last
        BY <1>1, <1>3, <2>1, <2>3 DEF Client!Complete
    <3>2. taken \in 1 .. Len(body) /\ Len(body) <= m + 3
        BY <1>1, <1>3, <1>5, <2>3 DEF Streamed, Frames
    <3>3. taken > m
      <4>1. taken <= m => body[taken].kind = "data"
        BY <1>5, <3>2 DEF Streamed, Frames
      <4> QED
        BY <1>3, <3>1, <4>1
    <3>4. taken # m + 1
      <4>1. Len(body) > m
        BY <1>1, <3>3
      <4>2. body[m + 1] = Server!PartOf("trailers", FALSE, {})
        BY <1>5, <4>1 DEF Streamed, Frames
      <4> QED
        BY <3>1, <4>2 DEF Server!PartOf
    <3>5. taken # m + 2
      <4>1. taken = m + 2 => Len(body) > m + 1
        BY <1>1, <1>3
      <4>2. taken = m + 2 => body[taken] = Server!PartOf("trailers", FALSE, statusKeys \cap Announced)
        BY <1>5, <4>1 DEF Streamed, Frames
      <4> QED
        BY <3>1, <4>2 DEF Server!PartOf
    <3>6. taken = m + 3 /\ Len(body) > m /\ Len(body) > m + 1 /\ Len(body) > m + 2
        BY <1>1, <1>3, <3>2, <3>3, <3>4, <3>5
    <3>7. /\ \A i \in 1 .. taken : i <= m => body[i].keys = {}
          /\ body[m + 1] = Server!PartOf("trailers", FALSE, {})
          /\ body[m + 2] = Server!PartOf("trailers", FALSE, statusKeys \cap Announced)
          /\ body[m + 3] = Server!PartOf("trailers", TRUE, statusKeys \ Announced)
          /\ pc \in {"finish", "done"}
        BY <1>1, <1>5, <3>6 DEF Streamed, Frames
    <3>8. /\ body[m + 1].keys = {} /\ body[m + 2].keys = statusKeys \cap Announced
          /\ body[m + 3].keys = statusKeys \ Announced
        BY <3>7 DEF Server!PartOf
    <3>9. keys = statusKeys
      <4>1. \A i \in 1 .. taken : i <= m \/ i = m + 1 \/ i = m + 2 \/ i = m + 3
        BY <1>3, <3>6
      <4>2. m + 2 \in 1 .. taken /\ m + 3 \in 1 .. taken
        BY <1>3, <3>6
      <4>3. ASSUME NEW i \in 1 .. taken PROVE body[i].keys \subseteq statusKeys
        BY <3>7, <3>8, <4>1
      <4>4. ASSUME NEW x \in statusKeys PROVE \E i \in 1 .. taken : x \in body[i].keys
        BY <3>8, <4>2
      <4> HIDE DEF m
      <4> QED
        BY <4>3, <4>4 DEF keys
    <3>10. out.data = m
        BY <1>2, <1>3, <3>3 DEF PassedOn
    <3>11. {"H"} \cap statusKeys = {}
        BY <1>3
    <3> QED
        BY <2>1, <3>7, <3>9, <3>10, <3>11
  <2> QED
    BY <2>2, <2>3
<1>6. ASSUME HeadersOnly
      PROVE  \/ keys = {} /\ "Grpc-Status" \notin out.headerKeys
             \/ /\ pc \in {"finish", "done"} /\ out.data = m
                /\ out.headerKeys \cup keys = {"H"} \cup statusKeys
                /\ out.headerKeys \cap keys = {} /\ keys \subseteq statusKeys
  <2>1. taken = 0 /\ keys = {} /\ messages = 0 /\ pc = "done" /\ out.data = m
    BY <1>1, <1>2, <1>3, <1>4, <1>6, EmptySeq DEF HeadersOnly, PassedOn
  <2>2. out.headerKeys = head.keys /\ head.status = 200 /\ end = "eof"
    BY <1>1, <1>2 DEF PassedOn, Client!Complete
  <2>3. "Content-Length" \notin head.keys
    BY <1>6, <2>2 DEF HeadersOnly
  <2>4. CASE head.keys = {}
    BY <2>1, <2>2, <2>4
  <2>5. CASE head.keys \ {"Content-Length"} = {"H"} \cup statusKeys
    <3>1. head.keys = {"H"} \cup statusKeys
        BY <2>3, <2>5
    <3> QED
        BY <2>1, <2>2, <3>1
  <2> QED
    BY <1>6, <2>2, <2>4, <2>5 DEF HeadersOnly
<1>7. Streamed \/ HeadersOnly
    BY <1>2, GoodHead DEF PassedOn
<1> QED
    BY <1>5, <1>6, <1>7 DEF keys

\* The end of the body, with the trailers.
LEMMA CopyEndStep ==
    ASSUME Inv, Client!CopyEnd, UNCHANGED <<pc, headersSet, statusKeys, messages, w>>
    PROVE  /\ Inv'
           /\ out.end = "open" /\ out'.end # "open" /\ out'.data = out.data
<1> DEFINE keys == UNION {body[i].keys : i \in 1 .. taken}
<1>1. /\ proxyPc = "copy" /\ proxyPc' = "done" /\ taken' = taken /\ end = "eof"
      /\ UNCHANGED <<head, body, end>>
      /\ out' = Client!Ended([out EXCEPT !.trailerKeys = keys])
    BY DEF Client!CopyEnd, Client!wireVars, Client!Complete
<1>2. \/ keys = {} /\ "Grpc-Status" \notin out.headerKeys
      \/ /\ pc \in {"finish", "done"} /\ out.data = 2 * messages
         /\ out.headerKeys \cup keys = {"H"} \cup statusKeys
         /\ out.headerKeys \cap keys = {} /\ keys \subseteq statusKeys
    BY WholeBody
<1> HIDE DEF keys
<1>3. /\ out.end = "open" /\ out.trailerKeys = {} /\ out.origin = "server" /\ OutType /\ PassedOn
      /\ taken \in 0 .. Len(body)
    BY <1>1 DEF Inv, TypeInv, ProxyInv
<1>4. keys \in SUBSET Client!OutKeys
  <2>1. statusKeys \subseteq Server!Keys
    BY DEF Inv, TypeInv, Server!TypeOK
  <2>2. Server!Keys \subseteq Client!OutKeys
    BY DEF Server!Keys, Client!OutKeys
  <2> QED
    BY <1>2, <2>1, <2>2
<1>5. PICK u : u = [out EXCEPT !.trailerKeys = keys]
    OBVIOUS
<1>6. u = [headers |-> out.headers, headerKeys |-> out.headerKeys, ctype |-> out.ctype,
           data |-> out.data, trailerKeys |-> keys, end |-> "open", origin |-> "server",
           text |-> out.text, message |-> out.message]
    BY <1>3, <1>5, OutFields
<1>7. PICK e \in {"headers", "stream"} :
        out' = [headers |-> "sent", headerKeys |-> out.headerKeys, ctype |-> out.ctype,
                data |-> out.data, trailerKeys |-> keys, end |-> e, origin |-> "server",
                text |-> out.text, message |-> out.message]
  <2>1. out' = Client!Ended(u)
    BY <1>1, <1>5, Zenon
  <2>2. PICK e \in {"headers", "stream"} : out' = [u EXCEPT !.headers = "sent", !.end = e]
    BY <2>1 DEF Client!Ended
  <2>3. out' = [headers |-> "sent", headerKeys |-> out.headerKeys, ctype |-> out.ctype,
                data |-> out.data, trailerKeys |-> keys, end |-> e, origin |-> "server",
                text |-> out.text, message |-> out.message]
    BY <1>6, <2>2
  <2> QED
    BY <2>3
<1>8. OutType'
    BY <1>3, <1>4, <1>7, OutFields DEF OutType
<1>9. PassedOn'
    BY <1>1, <1>3, <1>7 DEF PassedOn
<1>10. out'.end = e /\ out'.origin = "server" /\ out'.trailerKeys = keys
       /\ out'.headerKeys = out.headerKeys /\ out'.data = out.data
    BY <1>7
<1>11. NoStatus' \/ WholeResponse'
    BY <1>2, <1>10 DEF NoStatus, WholeResponse
<1>12. ProxyInv'
    BY <1>1, <1>9, <1>10, <1>11 DEF ProxyInv
<1> QED
    BY <1>1, <1>3, <1>8, <1>10, <1>12, ProxyStep

------------------------------------------------------------------------------
(* The theorems                                                             *)

\* Every step preserves the invariant.
LEMMA InvNext ==
    ASSUME Inv, [Next]_vars
    PROVE  Inv'
<1>1. CASE GRPCServer \/ Handler
    BY <1>1, ServerStep DEF GRPCServer, Handler, proxyVars
<1>2. CASE Proxy
  <2>1. UNCHANGED <<pc, headersSet, statusKeys, messages, w>>
    BY <1>2 DEF Proxy, serverVars
  <2> QED
    BY <1>2, <2>1, RespondStep, WriteErrorStep, CopyStep, CopyEndStep, CopyErrStep
    DEF Proxy, Client!Proxy
<1>3. CASE Cut
    BY <1>3, CutStep
<1>4. CASE Negotiate \/ UNCHANGED vars
  <2>1. /\ UNCHANGED <<pc, headersSet, statusKeys, messages, w, head, body, end>>
        /\ UNCHANGED <<proxyPc, taken, out>>
    BY <1>4 DEF Negotiate, vars, serverVars, wireVars, proxyVars
  <2>2. OutType' /\ PassedOn' = PassedOn /\ NoStatus' = NoStatus /\ WholeResponse' = WholeResponse
    BY <2>1 DEF Inv, TypeInv, OutType, PassedOn, NoStatus, WholeResponse
  <2>3. ProxyInv'
    BY <2>1, <2>2 DEF Inv, ProxyInv
  <2> QED
    BY <2>1, <2>2, <2>3, ProxyStep DEF Inv, TypeInv
<1> QED
    BY <1>1, <1>2, <1>3, <1>4 DEF Next

\* Every reachable state satisfies the invariant: the server is in one of four ways of
\* answering, and the proxy has passed on exactly what it has taken from it.
THEOREM InvHolds == Spec => []Inv
<1>1. Inv /\ [Next]_vars => Inv'
    BY InvNext
<1> QED
    BY InvInit, <1>1, PTL DEF Spec

\* The invariant implies that a status of the server comes with the whole response.
LEMMA StatusIsWhole ==
    ASSUME Inv
    PROVE  StatusMeansWholeResponse
<1> SUFFICES ASSUME StatusSeen, out.origin = "server"
             PROVE  /\ statusKeys # {}
                    /\ out.data = 2 * messages
                    /\ out.headerKeys \cup out.trailerKeys = {"H"} \cup statusKeys
    BY DEF StatusMeansWholeResponse
<1>1. /\ out.end \in {"headers", "stream"}
      /\ "Grpc-Status" \in out.trailerKeys \/ "Grpc-Status" \in out.headerKeys
    BY DEF StatusSeen
<1>2. NoStatus \/ WholeResponse
    BY <1>1 DEF Inv, TypeInv, ProxyInv
<1>3. WholeResponse
    BY <1>1, <1>2 DEF NoStatus
<1> QED
    BY <1>1, <1>3 DEF WholeResponse

\* A response that is cut off anywhere between the gRPC server and the client, or that
\* the handler leaves without a status, is never taken for a complete one: with a
\* status of the server the client has every message, the headers and every trailer.
THEOREM NeverCutShort == Spec => []StatusMeansWholeResponse
<1>1. Inv => StatusMeansWholeResponse
    BY StatusIsWhole
<1> QED
    BY InvHolds, <1>1, PTL

\* The invariant implies that no key is sent twice or out of place.
LEMMA KeysInPlace ==
    ASSUME Inv
    PROVE  EachKeyOnce
<1>0. TypeInv /\ StatusInv /\ ServerInv /\ ProxyInv
    BY DEF Inv
<1>1. statusKeys \subseteq {"Grpc-Status", "T"} /\ statusKeys \subseteq Server!Keys
    BY <1>0 DEF StatusInv, TypeInv, Server!TypeOK
<1> DEFINE Marks == {"Trailer", "Trailer:T", Client!DontFlush}
<1>2. {"H", "Content-Length", "Grpc-Status", "T"} \cap Marks = {}
    BY DEF Client!DontFlush
<1>3. pc = "done" => w.hdr \cap {"Trailer", "Trailer:T"} = {}
    BY <1>0, <1>1 DEF ServerInv, Streamed, Refused, Unsent, HeadersOnly
<1>4. CASE proxyPc = "roundtrip"
  <2>1. out.headers = "none" /\ out.headerKeys = {} /\ out.trailerKeys = {}
    BY <1>0, <1>4 DEF ProxyInv
  <2> QED
    BY <1>3, <2>1 DEF EachKeyOnce
<1>5. CASE out.origin = "proxy"
  <2>1. out.ctype = "grpc" /\ out.headerKeys = {} /\ out.trailerKeys = {"Grpc-Status"}
    BY <1>0, <1>5 DEF ProxyInv
  <2> QED
    BY <1>2, <1>3, <2>1 DEF EachKeyOnce
<1>6. CASE proxyPc # "roundtrip" /\ out.origin = "server"
  <2>1. PassedOn /\ (out.trailerKeys = {} \/ WholeResponse)
    BY <1>0, <1>6 DEF ProxyInv, TypeInv, NoStatus
  <2>2. /\ head.keys \subseteq {"H", "Content-Length", "Grpc-Status", "T"}
        /\ "Content-Length" \in head.keys => body = <<>>
        /\ statusKeys # {} => head.ctype \in {"grpc", "grpc-web"}
    <3>1. CASE Streamed
      <4>1. head = WebHead
        BY <2>1, <3>1 DEF Streamed, PassedOn, Server!NoHead
      <4> QED
        BY <4>1 DEF WebHead
    <3>2. CASE HeadersOnly
      <4>1. \/ head.ctype = "none" /\ head.keys = {} /\ statusKeys = {}
            \/ head.ctype = "grpc" /\ head.keys \ {"Content-Length"} = {"H"} \cup statusKeys
        BY <2>1, <3>2 DEF HeadersOnly, PassedOn
      <4>2. body = <<>>
        BY <3>2 DEF HeadersOnly
      <4>3. CASE head.ctype = "none" /\ head.keys = {} /\ statusKeys = {}
        BY <4>3
      <4>4. CASE head.ctype = "grpc" /\ head.keys \ {"Content-Length"} = {"H"} \cup statusKeys
        BY <1>1, <4>2, <4>4
      <4> QED
        BY <4>1, <4>3, <4>4
    <3> QED
        BY <2>1, <3>1, <3>2, GoodHead DEF PassedOn
  <2>3. /\ out.headerKeys = head.keys
        /\ out.ctype = (IF head.ctype = "grpc-web" THEN "grpc" ELSE head.ctype)
    BY <2>1 DEF PassedOn
  <2>4. /\ out.headerKeys \cap out.trailerKeys = {}
        /\ out.trailerKeys \subseteq {"H", "Grpc-Status", "T"}
    BY <1>1, <2>1 DEF WholeResponse
  <2>5. (out.headerKeys \cup out.trailerKeys) \cap Marks = {}
    BY <1>2, <2>2, <2>3, <2>4
  <2>6. statusKeys # {} => out.ctype = "grpc"
    BY <2>2, <2>3
  <2> QED
    BY <1>3, <2>2, <2>3, <2>4, <2>5, <2>6 DEF EachKeyOnce
<1> QED
    BY <1>0, <1>4, <1>5, <1>6 DEF TypeInv, OutType

\* Headers, trailers and status reach the client at most once each, without the prefixes
\* and marks that server and proxy use among themselves, and as gRPC.
THEOREM KeysSentOnce == Spec => []EachKeyOnce
<1>1. Inv => EachKeyOnce
    BY KeysInPlace
<1> QED
    BY InvHolds, <1>1, PTL

\* In the initial states no message is sent and the call is open.
LEMMA StreamInit == Init => Stream!Init
<1> SUFFICES ASSUME Init PROVE Stream!Init
    OBVIOUS
<1>1. messages = 0 /\ statusKeys = {} /\ out.data = 0 /\ out.end = "open"
    BY DEF Init, Server!Init, Client!Init
<1>2. out.data \div 2 = 0
    BY <1>1
<1> QED
    BY <1>1, <1>2 DEF Stream!Init, Outcome

\* Every step is a step of a response stream, or changes nothing of it.
LEMMA StreamNext ==
    ASSUME Inv, [Next]_vars
    PROVE  [Stream!Next]_(Stream!streamVars)
<1>0. Inv' /\ messages \in Nat /\ out.data \in Nat
    BY InvNext, Numbers, OutFields DEF Inv, TypeInv
<1>1. ASSUME UNCHANGED <<messages, statusKeys, out>>
      PROVE  UNCHANGED Stream!streamVars
    BY <1>1 DEF Stream!streamVars, Outcome, StatusSeen
<1>2. ASSUME UNCHANGED out PROVE Outcome' = Outcome
    BY <1>2 DEF Outcome, StatusSeen
<1>3. CASE GRPCServer
  <2>1. out' = out
    BY <1>3 DEF GRPCServer, proxyVars
  <2>2. CASE Server!GRPCSend
    <3>1. statusKeys = {} /\ messages' = messages + 1 /\ statusKeys' = statusKeys
        BY <2>2 DEF Server!GRPCSend, Inv, StatusInv
    <3>2. Stream!Send
        BY <1>2, <2>1, <3>1 DEF Stream!Send
    <3> QED
        BY <3>2 DEF Stream!Next
  <2>3. CASE Server!GRPCStatus
    <3>1. statusKeys = {} /\ messages' = messages /\ statusKeys' # {}
        BY <2>3 DEF Server!GRPCStatus, Server!Announcement, Inv, StatusInv
    <3>2. Stream!Finish
        BY <1>2, <2>1, <3>1 DEF Stream!Finish
    <3> QED
        BY <3>2 DEF Stream!Next
  <2>4. CASE Server!GRPCSendHeader \/ Server!GRPCFlush \/ Server!GRPCReject \/ Server!GRPCStop
    <3>1. UNCHANGED <<messages, statusKeys>>
        BY <2>4 DEF Server!GRPCSendHeader, Server!GRPCFlush, Server!GRPCReject, Server!GRPCStop
    <3> QED
        BY <1>1, <2>1, <3>1
  <2> QED
    BY <1>3, <2>2, <2>3, <2>4 DEF GRPCServer, Server!GRPCServer
<1>4. CASE Handler
  <2>1. UNCHANGED <<messages, statusKeys, out>>
    BY <1>4 DEF Handler, proxyVars, Server!Handler, Server!Finalize, Server!Finish
  <2> QED
    BY <1>1, <2>1
<1>5. CASE Proxy
  <2>1. UNCHANGED <<pc, headersSet, statusKeys, messages, w>>
    BY <1>5 DEF Proxy, serverVars
  <2>2. ASSUME out.end = "open", out'.end = "open", out'.data = out.data
        PROVE  UNCHANGED Stream!streamVars
    BY <2>1, <2>2 DEF Stream!streamVars, Outcome
  <2>3. CASE Client!Respond
    <3>1. out' = Client!WriteHeader(Client!ModifiedKeys, Client!ModifiedType) /\ out.end = "open"
        BY <2>3 DEF Client!Respond, Inv, ProxyInv
    <3>2. PICK h, k, c : out' = [out EXCEPT !.headers = h, !.headerKeys = k, !.ctype = c]
        BY <3>1 DEF Client!WriteHeader
    <3>3. out'.end = out.end /\ out'.data = out.data
        BY <3>2, OutFields DEF Inv, TypeInv
    <3> QED
        BY <2>2, <3>1, <3>3
  <2>4. CASE Client!WriteError
    <3>1. out.end = "open" /\ out'.end = "stream" /\ out'.origin = "proxy" /\ out'.data = out.data
        BY <2>1, <2>4, WriteErrorStep
    <3>2. Outcome = "none" /\ Outcome' = "failed"
        BY <3>1 DEF Outcome
    <3>3. Stream!Fail
        BY <2>1, <3>1, <3>2 DEF Stream!Fail
    <3> QED
        BY <3>3 DEF Stream!Next
  <2>5. CASE Client!Copy
    <3>1. /\ out.end = "open" /\ out'.end = "open"
          /\ out'.data = out.data \/ (out'.data = out.data + 1 /\ out.data < 2 * messages)
        BY <2>1, <2>5, CopyStep
    <3>2. \A d, m \in Nat : d < 2 * m =>
              \/ (d + 1) \div 2 = d \div 2
              \/ (d + 1) \div 2 = d \div 2 + 1 /\ d \div 2 < m
        OBVIOUS
    <3>3. Outcome = "none" /\ Outcome' = "none"
        BY <3>1 DEF Outcome
    <3>4. CASE out'.data = out.data
        BY <2>2, <3>1, <3>4
    <3>5. CASE out'.data = out.data + 1 /\ out.data < 2 * messages
      <4>1. \/ out'.data \div 2 = out.data \div 2
            \/ out'.data \div 2 = out.data \div 2 + 1 /\ out.data \div 2 < messages
        BY <1>0, <3>2, <3>5
      <4>2. CASE out'.data \div 2 = out.data \div 2
        BY <2>1, <3>3, <4>2 DEF Stream!streamVars
      <4>3. CASE out'.data \div 2 = out.data \div 2 + 1 /\ out.data \div 2 < messages
        BY <2>1, <3>3, <4>3 DEF Stream!Deliver, Stream!Next
      <4> QED
        BY <4>1, <4>2, <4>3
    <3> QED
        BY <3>1, <3>4, <3>5
  <2>6. CASE Client!CopyErr
    <3>1. out.end = "open" /\ out'.end = "reset" /\ out'.data = out.data
        BY <2>1, <2>6, CopyErrStep
    <3>2. Outcome = "none" /\ Outcome' = "failed"
        BY <3>1 DEF Outcome, StatusSeen
    <3>3. Stream!Fail
        BY <2>1, <3>1, <3>2 DEF Stream!Fail
    <3> QED
        BY <3>3 DEF Stream!Next
  <2>7. CASE Client!CopyEnd
    <3>1. out.end = "open" /\ out'.end # "open" /\ out'.data = out.data
        BY <2>1, <2>7, CopyEndStep
    <3>2. CASE StatusSeen' /\ out'.origin = "server"
      <4>1. /\ out'.end \in {"headers", "stream"}
            /\ "Grpc-Status" \in out'.trailerKeys \/ "Grpc-Status" \in out'.headerKeys
        BY <3>2 DEF StatusSeen
      <4>7. NoStatus' \/ WholeResponse'
        BY <1>0, <3>1, <3>2 DEF Inv, TypeInv, ProxyInv
      <4>8. WholeResponse'
        BY <4>1, <4>7 DEF NoStatus
      <4>2. statusKeys' # {} /\ out'.data = 2 * messages'
        BY <4>1, <4>8 DEF WholeResponse
      <4>3. \A m \in Nat : (2 * m) \div 2 = m
        OBVIOUS
      <4>4. out.data \div 2 = messages /\ statusKeys # {}
        BY <1>0, <2>1, <3>1, <4>2, <4>3
      <4>5. Outcome = "none" /\ Outcome' = "status"
        BY <3>1, <3>2 DEF Outcome
      <4>6. Stream!Complete
        BY <2>1, <3>1, <4>4, <4>5 DEF Stream!Complete
      <4> QED
        BY <4>6 DEF Stream!Next
    <3>3. CASE ~(StatusSeen' /\ out'.origin = "server")
      <4>1. Outcome = "none" /\ Outcome' = "failed"
        BY <3>1, <3>3 DEF Outcome
      <4>2. Stream!Fail
        BY <2>1, <3>1, <4>1 DEF Stream!Fail
      <4> QED
        BY <4>2 DEF Stream!Next
    <3> QED
        BY <3>2, <3>3
  <2> QED
    BY <1>5, <2>3, <2>4, <2>5, <2>6, <2>7 DEF Proxy, Client!Proxy
<1>6. CASE Cut \/ Negotiate \/ UNCHANGED vars
  <2>1. UNCHANGED <<messages, statusKeys, out>>
    BY <1>6 DEF Cut, Negotiate, vars, serverVars, proxyVars
  <2> QED
    BY <1>1, <2>1
<1> QED
    BY <1>3, <1>4, <1>5, <1>6 DEF Next

\* ResponseWriter, connection and ReverseProxy together are a response stream: the
\* messages arrive without a gap, and the status comes last or the call fails.
THEOREM Refinement == Spec => ImplementsResponseStream
<1>1. Inv /\ [Next]_vars => [Stream!Next]_(Stream!streamVars)
    BY StreamNext
<1> QED
    BY StreamInit, InvHolds, <1>1, PTL DEF Spec, ImplementsResponseStream, Stream!Spec

------------------------------------------------------------------------------
(* Induction                                                                *)

\* A set of numbers has a least one.
LEMMA Least ==
    ASSUME NEW T, T \subseteq Nat, T # {}
    PROVE  \E x \in T : \A y \in T : x <= y
<1>1. PICK x \in T : \A y \in T : ~(<<y, x>> \in OpToRel(<, Nat))
    BY WFMin, NatLessThanWellFounded, Zenon
<1>2. \A y \in T : <<y, x>> \in OpToRel(<, Nat) <=> y < x
    BY DEF OpToRel
<1>3. \A y \in T : ~(y < x)
    BY <1>1, <1>2, Zenon
<1> QED
    BY <1>3

\* Induction, for a set instead of a predicate.
LEMMA SetInduction ==
    ASSUME NEW P, 0 \in P, \A k \in Nat : k \in P => k + 1 \in P
    PROVE  Nat \subseteq P
<1> SUFFICES ASSUME Nat \ P # {} PROVE FALSE
    OBVIOUS
<1>1. PICK x \in Nat \ P : \A y \in Nat \ P : x <= y
    BY Least
<1>2. x # 0 /\ x - 1 \in Nat /\ x - 1 \in P
    BY <1>1
<1> QED
    BY <1>2


Bytes == Seq(Message!Byte)

\* Induction on the length of a text, for a set instead of a predicate.
LEMMA TextInduction ==
    ASSUME NEW P, \A s \in Bytes : (\A t \in Bytes : Len(t) < Len(s) => t \in P) => s \in P
    PROVE  Bytes \subseteq P
<1>0. \A s \in Bytes : Len(s) \in Nat
    BY DEF Bytes
<1> DEFINE Wrong == Bytes \ P
           T == {Len(s) : s \in Wrong}
<1> SUFFICES ASSUME Wrong # {} PROVE FALSE
    OBVIOUS
<1>1. T \subseteq Nat /\ T # {}
  <2>1. PICK s : s \in Wrong
    OBVIOUS
  <2>2. Len(s) \in T
    BY <2>1
  <2>3. \A x \in T : x \in Nat
    BY <1>0
  <2> QED
    BY <2>2, <2>3
<1>2. PICK n \in T : \A m \in T : n <= m
  <2> HIDE DEF T
  <2> QED
    BY <1>1, Least
<1>3. PICK s \in Wrong : n = Len(s)
    OBVIOUS
<1>4. ASSUME NEW t \in Bytes, Len(t) < Len(s) PROVE t \in P
  <2> SUFFICES ASSUME t \notin P PROVE FALSE
    OBVIOUS
  <2>1. Len(t) \in T /\ n <= Len(t)
    <3>1. Len(t) \in T
      OBVIOUS
    <3> HIDE DEF T
    <3> QED
      BY <1>2, <3>1
  <2>2. Len(t) \in Nat /\ Len(s) \in Nat
    BY <1>0
  <2> QED
    BY <1>3, <1>4, <2>1, <2>2
<1> QED
    BY <1>3, <1>4

\* The equation of a function that turns a text into pieces, one after the other.
Pieces(f, piece, rest) ==
    \A s \in Bytes : f[s] = IF s = <<>> THEN <<>> ELSE piece[s] \o f[rest[s]]

\* There is such a function if what is left of a text is shorter.
LEMMA PieceByPiece ==
    ASSUME NEW piece \in [Bytes -> Bytes], NEW rest \in [Bytes -> Bytes],
           \A s \in Bytes : s # <<>> => Len(rest[s]) < Len(s)
    PROVE  \E f \in [Bytes -> Bytes] : Pieces(f, piece, rest)
<1>0. /\ <<>> \in Bytes /\ \A s \in Bytes : Len(s) \in Nat
      /\ \A s, t \in Bytes : s \o t \in Bytes
    BY DEF Bytes
<1> DEFINE Body(f, s) == IF s = <<>> THEN <<>> ELSE piece[s] \o f[rest[s]]
           Good(g, n) == \A s \in Bytes : Len(s) < n => g[s] = Body(g, s)
           Approx(n) == {g \in [Bytes -> Bytes] : Good(g, n)}
<1>1. ASSUME NEW g \in [Bytes -> Bytes], NEW s \in Bytes PROVE Body(g, s) \in Bytes
    BY <1>0
<1>2. ASSUME NEW n \in Nat, NEW g \in Approx(n)
      PROVE  [s \in Bytes |-> Body(g, s)] \in Approx(n + 1)
  <2> DEFINE h == [s \in Bytes |-> Body(g, s)]
  <2>1. h \in [Bytes -> Bytes] /\ \A s \in Bytes : h[s] = Body(g, s)
    <3> HIDE DEF Body
    <3> QED
      BY <1>1
  <2> HIDE DEF h
  <2>2. ASSUME NEW s \in Bytes, Len(s) < n + 1, s # <<>> PROVE h[rest[s]] = g[rest[s]]
    <3>1. rest[s] \in Bytes /\ Len(rest[s]) < n
      BY <1>0, <2>2
    <3>2. g[rest[s]] = Body(g, rest[s])
      BY <3>1
    <3> HIDE DEF Body, Approx
    <3> QED
      BY <2>1, <3>1, <3>2
  <2>3. ASSUME NEW s \in Bytes, Len(s) < n + 1 PROVE h[s] = Body(h, s)
    BY <2>1, <2>2, <2>3
  <2>4. Good(h, n + 1)
    BY <2>3
  <2> HIDE DEF Good
  <2> QED
    BY <2>1, <2>4 DEF h
<1>3. ASSUME NEW n \in Nat PROVE Approx(n) # {}
  <2> DEFINE P == {k \in Nat : Approx(k) # {}}
  <2>1. 0 \in P
    <3>1. [s \in Bytes |-> <<>>] \in Approx(0)
      BY <1>0
    <3> HIDE DEF Approx
    <3> QED
      BY <3>1
  <2> HIDE DEF Approx, Body
  <2>2. ASSUME NEW k \in Nat, k \in P PROVE k + 1 \in P
    <3>1. PICK g : g \in Approx(k)
      BY <2>2
    <3>2. [s \in Bytes |-> Body(g, s)] \in Approx(k + 1)
      BY <1>2, <3>1
    <3> QED
      BY <3>2
  <2> HIDE DEF P
  <2>3. Nat \subseteq P
    BY <2>1, <2>2, SetInduction
  <2> QED
    BY <2>3 DEF P
<1>4. ASSUME NEW l \in Nat, NEW m \in Nat, NEW g \in Approx(l), NEW h \in Approx(m)
      PROVE  \A s \in Bytes : Len(s) < l /\ Len(s) < m => g[s] = h[s]
  <2> DEFINE P == {s \in Bytes : Len(s) < l /\ Len(s) < m => g[s] = h[s]}
  <2>1. ASSUME NEW s \in Bytes, \A t \in Bytes : Len(t) < Len(s) => t \in P PROVE s \in P
    <3> SUFFICES ASSUME Len(s) < l, Len(s) < m PROVE g[s] = h[s]
      OBVIOUS
    <3>1. g[s] = Body(g, s) /\ h[s] = Body(h, s)
      OBVIOUS
    <3>2. CASE s = <<>>
      BY <3>1, <3>2
    <3>3. CASE s # <<>>
      <4>1. rest[s] \in Bytes /\ Len(rest[s]) < Len(s) /\ Len(rest[s]) < l /\ Len(rest[s]) < m
        BY <1>0, <3>3
      <4>2. g[rest[s]] = h[rest[s]]
        BY <2>1, <4>1
      <4> QED
        BY <3>1, <4>2
    <3> QED
      BY <3>2, <3>3
  <2> HIDE DEF P
  <2>2. Bytes \subseteq P
    BY <2>1, TextInduction
  <2> QED
    BY <2>2 DEF P
<1> DEFINE A(n) == CHOOSE g : g \in Approx(n)
           f == [s \in Bytes |-> A(Len(s) + 1)[s]]
<1>5. ASSUME NEW n \in Nat PROVE A(n) \in Approx(n)
  <2> HIDE DEF Approx
  <2> QED
    BY <1>3
<1>6. ASSUME NEW s \in Bytes, NEW n \in Nat, Len(s) < n PROVE f[s] = A(n)[s] /\ f[s] \in Bytes
  <2>1. Len(s) + 1 \in Nat /\ Len(s) < Len(s) + 1 /\ f[s] = A(Len(s) + 1)[s]
    BY <1>0
  <2>2. A(n) \in Approx(n) /\ A(Len(s) + 1) \in Approx(Len(s) + 1)
    BY <1>5, <2>1
  <2>3. A(Len(s) + 1) \in [Bytes -> Bytes]
    BY <2>2
  <2> HIDE DEF A, Approx, f
  <2>4. A(Len(s) + 1)[s] = A(n)[s]
    BY <1>4, <1>6, <2>1, <2>2
  <2> QED
    BY <2>1, <2>3, <2>4
<1> HIDE DEF A
<1>7. f \in [Bytes -> Bytes]
  <2>1. ASSUME NEW s \in Bytes PROVE A(Len(s) + 1)[s] \in Bytes
    <3>1. Len(s) + 1 \in Nat /\ Len(s) < Len(s) + 1 /\ f[s] = A(Len(s) + 1)[s]
      BY <1>0
    <3> HIDE DEF f
    <3> QED
      BY <1>6, <3>1
  <2> QED
    BY <2>1
<1> HIDE DEF f
<1>8. ASSUME NEW s \in Bytes PROVE f[s] = Body(f, s)
  <2>1. PICK n \in Nat : n = Len(s) + 1
    BY <1>0
  <2>2. Len(s) < n /\ A(n) \in Approx(n)
    BY <1>0, <1>5, <2>1
  <2>3. f[s] = A(n)[s] /\ A(n)[s] = Body(A(n), s)
    <3>1. f[s] = A(n)[s]
      BY <1>6, <2>2
    <3> QED
      BY <2>2, <3>1
  <2>4. ASSUME s # <<>> PROVE f[rest[s]] = A(n)[rest[s]]
    <3>1. rest[s] \in Bytes /\ Len(rest[s]) < n
      BY <1>0, <2>1, <2>4
    <3> QED
      BY <1>6, <3>1
  <2> QED
    BY <2>3, <2>4
<1> QED
    BY <1>7, <1>8 DEF Pieces

\* Two functions of the same pieces are the same.
LEMMA SamePieces ==
    ASSUME NEW piece, NEW rest \in [Bytes -> Bytes],
           \A s \in Bytes : s # <<>> => Len(rest[s]) < Len(s),
           NEW f, NEW g, Pieces(f, piece, rest), Pieces(g, piece, rest)
    PROVE  \A s \in Bytes : f[s] = g[s]
<1> DEFINE P == {s \in Bytes : f[s] = g[s]}
<1>1. ASSUME NEW s \in Bytes, \A t \in Bytes : Len(t) < Len(s) => t \in P PROVE s \in P
  <2>1. CASE s = <<>>
    BY <2>1 DEF Pieces
  <2>2. CASE s # <<>>
    <3>1. f[rest[s]] = g[rest[s]]
      BY <1>1, <2>2
    <3> QED
      BY <2>2, <3>1 DEF Pieces
  <2> QED
    BY <2>1, <2>2
<1> HIDE DEF P
<1>2. Bytes \subseteq P
    BY <1>1, TextInduction
<1> QED
    BY <1>2 DEF P

------------------------------------------------------------------------------
(* Texts and their encoding                                                 *)

\* The size of the first character of a text is at most four, and it is all there.
LEMMA RuneFits ==
    ASSUME NEW s \in Bytes, s # <<>>
    PROVE  /\ Len(s) \in Nat /\ Message!RuneSize(s) \in 1 .. 4 /\ Message!RuneSize(s) <= Len(s)
           /\ s[1] \in 0 .. 255
<1>1. Len(s) \in Nat /\ Len(s) >= 1 /\ s[1] \in 0 .. 255
  <2>1. Len(s) \in Nat \ {0}
    BY EmptySeq DEF Bytes
  <2>2. 1 \in 1 .. Len(s)
    BY <2>1
  <2>3. s[1] \in Message!Byte
    BY <2>2, ElementOfSeq DEF Bytes
  <2> QED
    BY <2>1, <2>3 DEF Message!Byte
<1> DEFINE size == CASE s[1] \in 194 .. 223 -> 2
                     [] s[1] \in 224 .. 239 -> 3
                     [] s[1] \in 240 .. 244 -> 4
                     [] OTHER -> 1
<1>2. size \in 1 .. 4
    BY <1>1
<1>3. Message!RuneSize(s) =
        IF /\ size <= Len(s)
           /\ size > 1 => s[2] \in Message!SecondByte(s[1])
           /\ \A i \in 3 .. size : s[i] \in 128 .. 191
        THEN size ELSE 1
    BY Zenon DEF Message!RuneSize
<1> HIDE DEF size
<1> QED
    BY <1>1, <1>2, <1>3

\* What follows it is a shorter text.
LEMMA RuneRest ==
    ASSUME NEW s \in Bytes, s # <<>>
    PROVE  /\ Message!From(s, Message!RuneSize(s) + 1) \in Bytes
           /\ Len(Message!From(s, Message!RuneSize(s) + 1)) < Len(s)
<1>1. PICK k \in 1 .. 4 : k = Message!RuneSize(s) /\ k <= Len(s) /\ Len(s) \in Nat
    BY RuneFits
<1>2. \A i \in (k + 1) .. Len(s) : s[i] \in Message!Byte
    BY <1>1 DEF Bytes
<1>3. PICK l \in Nat, m \in Nat : l = Len(s) /\ m = k + 1
    BY <1>1
<1>4. /\ SubSeq(s, m, l) \in Seq(Message!Byte)
      /\ Len(SubSeq(s, m, l)) = IF m <= l THEN l - m + 1 ELSE 0
    BY <1>2, <1>3, SubSeqProperties
<1> QED
    BY <1>1, <1>3, <1>4 DEF Message!From, Bytes

\* A character is one to four bytes, also the one that stands for what is not UTF-8.
LEMMA RuneIsBytes ==
    ASSUME NEW s \in Bytes, s # <<>>
    PROVE  Message!RuneBytes(s) \in Bytes /\ Len(Message!RuneBytes(s)) \in 1 .. 4
<1>1. PICK k \in 1 .. 4 : k = Message!RuneSize(s) /\ k <= Len(s) /\ Len(s) \in Nat
    BY RuneFits
<1>2. \A i \in 1 .. k : s[i] \in Message!Byte
    BY <1>1 DEF Bytes
<1>3. SubSeq(s, 1, k) \in Bytes /\ Len(SubSeq(s, 1, k)) = k
  <2>1. /\ SubSeq(s, 1, k) \in Bytes
        /\ Len(SubSeq(s, 1, k)) = IF 1 <= k THEN k - 1 + 1 ELSE 0
    BY <1>2, SubSeqProperties DEF Bytes
  <2> QED
    BY <2>1
<1>4. <<239, 191, 189>> \in Bytes /\ Len(<<239, 191, 189>>) = 3
    BY DEF Bytes, Message!Byte
<1> QED
    BY <1>1, <1>3, <1>4 DEF Message!RuneBytes

\* What goes into the header.
Printable == Seq(32 .. 126)

\* Printable ASCII is bytes.
LEMMA PrintableIsBytes ==
    /\ Printable \subseteq Bytes /\ <<>> \in Printable
    /\ \A s, t \in Printable : s \o t \in Printable
<1>1. 32 .. 126 \subseteq Message!Byte
    BY DEF Message!Byte
<1>2. ASSUME NEW s \in Printable PROVE s \in Bytes
    BY <1>1, SeqMonotonic DEF Printable, Bytes
<1> QED
    BY <1>2 DEF Printable

\* The digits are printable, and no two of them look alike.
LEMMA Hex ==
    ASSUME NEW n \in 0 .. 15
    PROVE  /\ Message!HexDigit(n) \in 48 .. 70
           /\ Message!HexDigit(n) \in Message!HexDigits
           /\ Message!HexValue(Message!HexDigit(n)) = n
BY DEF Message!HexDigit, Message!HexDigits, Message!HexValue

\* A digit has a value.
LEMMA HexType ==
    ASSUME NEW d \in Message!HexDigits
    PROVE  Message!HexValue(d) \in 0 .. 15
<1>1. PICK n \in 0 .. 15 : d = Message!HexDigit(n)
    BY DEF Message!HexDigits
<1> QED
    BY <1>1, Hex

\* A byte is its two digits.
LEMMA Nibbles ==
    ASSUME NEW b \in Message!Byte
    PROVE  b \div 16 \in 0 .. 15 /\ b % 16 \in 0 .. 15 /\ 16 * (b \div 16) + (b % 16) = b
BY DEF Message!Byte

\* An encoded byte is printable.
LEMMA EncodedPrintable ==
    ASSUME NEW b \in Message!Byte, NEW size \in 1 .. 4
    PROVE  Message!EncodedByte(b, size) \in Printable
<1>1. Message!Percent(b) \in Printable
  <2>1. /\ Message!HexDigit(b \div 16) \in 32 .. 126
        /\ Message!HexDigit(b % 16) \in 32 .. 126
    <3>1. Message!HexDigit(b \div 16) \in 48 .. 70 /\ Message!HexDigit(b % 16) \in 48 .. 70
      BY Nibbles, Hex
    <3> QED
      BY <3>1
  <2> QED
    BY <2>1 DEF Message!Percent, Printable
<1>2. b \in 32 .. 126 => <<b>> \in Printable
    BY DEF Printable
<1> QED
    BY <1>1, <1>2 DEF Message!EncodedByte, Message!Allowable

\* FlattenSeq of the few parts of a character.
LEMMA Flatten ==
    ASSUME NEW q \in Seq(Printable), Len(q) \in 1 .. 4
    PROVE  /\ Len(q) = 1 => Message!FlattenSeq(q) = q[1]
           /\ Len(q) = 2 => Message!FlattenSeq(q) = q[1] \o q[2]
           /\ Len(q) = 3 => Message!FlattenSeq(q) = (q[1] \o q[2]) \o q[3]
           /\ Len(q) = 4 => Message!FlattenSeq(q) = ((q[1] \o q[2]) \o q[3]) \o q[4]
<1>1. PICK n \in 1 .. 4 : n = Len(q)
    OBVIOUS
<1> DEFINE Body(f) == [i \in 1 .. n |-> IF i = 1 THEN q[i] ELSE f[i - 1] \o q[i]]
           g == CHOOSE f : f = Body(f)
           h == [i \in 1 .. n |-> IF i = 1 THEN q[1]
                                  ELSE IF i = 2 THEN q[1] \o q[2]
                                  ELSE IF i = 3 THEN (q[1] \o q[2]) \o q[3]
                                  ELSE ((q[1] \o q[2]) \o q[3]) \o q[4]]
<1>2. Message!FlattenSeq(q) = g[n]
  <2>1. Message!FlattenSeq(q) = IF Len(q) = 0 THEN q
          ELSE (CHOOSE f : f = [i \in 1 .. Len(q) |-> IF i = 1 THEN q[i] ELSE f[i - 1] \o q[i]])[Len(q)]
    BY Zenon DEF Message!FlattenSeq
  <2> QED
    BY <1>1, <2>1
<1>3. h = Body(h)
  <2> SUFFICES ASSUME NEW i \in 1 .. n PROVE h[i] = IF i = 1 THEN q[i] ELSE h[i - 1] \o q[i]
    BY Zenon
  <2>1. i = 1 \/ i = 2 \/ i = 3 \/ i = 4
    OBVIOUS
  <2> QED
    BY <2>1
<1>4. g = Body(g)
  <2> HIDE DEF h, Body
  <2> QED
    BY <1>3
<1> HIDE DEF g, h
<1>5. \A i \in 1 .. n : g[i] = IF i = 1 THEN q[i] ELSE g[i - 1] \o q[i]
    BY <1>4
<1>6. g[1] = q[1]
    BY <1>5
<1>7. ASSUME n >= 2 PROVE g[2] = q[1] \o q[2]
  <2>1. 2 \in 1 .. n /\ 2 # 1 /\ 2 - 1 = 1
    BY <1>7
  <2> QED
    BY <1>5, <1>6, <2>1
<1>8. ASSUME n >= 3 PROVE g[3] = (q[1] \o q[2]) \o q[3]
  <2>1. 3 \in 1 .. n /\ 3 # 1 /\ 3 - 1 = 2 /\ n >= 2
    BY <1>8
  <2> QED
    BY <1>5, <1>7, <2>1
<1>9. ASSUME n >= 4 PROVE g[4] = ((q[1] \o q[2]) \o q[3]) \o q[4]
  <2>1. 4 \in 1 .. n /\ 4 # 1 /\ 4 - 1 = 3 /\ n >= 3
    BY <1>9
  <2> QED
    BY <1>5, <1>8, <2>1
<1>10. n = 1 => g[n] = q[1]
    BY <1>6
<1>11. n = 2 => g[n] = q[1] \o q[2]
  <2>1. n = 2 => n >= 2
    OBVIOUS
  <2> QED
    BY <1>7, <2>1, Zenon
<1>12. n = 3 => g[n] = (q[1] \o q[2]) \o q[3]
  <2>1. n = 3 => n >= 3
    OBVIOUS
  <2> QED
    BY <1>8, <2>1, Zenon
<1>13. n = 4 => g[n] = ((q[1] \o q[2]) \o q[3]) \o q[4]
  <2>1. n = 4 => n >= 4
    OBVIOUS
  <2> QED
    BY <1>9, <2>1, Zenon
<1> QED
    BY <1>1, <1>2, <1>10, <1>11, <1>12, <1>13, Zenon

\* The bytes of a character, each encoded.
EncodedBytes(s) ==
    LET r == Message!RuneBytes(s)
    IN  [i \in DOMAIN r |-> Message!EncodedByte(r[i], Message!RuneSize(s))]

\* They are printable, one part for each byte.
LEMMA EncodedParts ==
    ASSUME NEW s \in Bytes, s # <<>>
    PROVE  /\ EncodedBytes(s) \in Seq(Printable)
           /\ Len(EncodedBytes(s)) = Len(Message!RuneBytes(s))
           /\ \A i \in 1 .. Len(Message!RuneBytes(s)) :
                 EncodedBytes(s)[i] = Message!EncodedByte(Message!RuneBytes(s)[i], Message!RuneSize(s))
           /\ Message!EncodedRune(s) = Message!FlattenSeq(EncodedBytes(s))
<1>1. PICK r : r = Message!RuneBytes(s)
    OBVIOUS
<1>2. PICK k \in 1 .. 4 : k = Message!RuneSize(s)
    BY RuneFits
<1>3. r \in Bytes /\ Len(r) \in 1 .. 4
    BY <1>1, RuneIsBytes
<1>4. DOMAIN r = 1 .. Len(r) /\ \A i \in 1 .. Len(r) : r[i] \in Message!Byte
    BY <1>3 DEF Bytes
<1>5. EncodedBytes(s) = [i \in 1 .. Len(r) |-> Message!EncodedByte(r[i], k)]
    BY <1>1, <1>2, <1>4 DEF EncodedBytes
<1>6. \A i \in 1 .. Len(r) : Message!EncodedByte(r[i], k) \in Printable
    BY <1>4, EncodedPrintable
<1>7. PICK n \in Nat : n = Len(r)
    BY <1>3
<1>8. /\ EncodedBytes(s) \in Seq(Printable) /\ Len(EncodedBytes(s)) = n
      /\ \A i \in 1 .. n : EncodedBytes(s)[i] = Message!EncodedByte(r[i], k)
    BY <1>5, <1>6, <1>7
<1>9. Message!EncodedRune(s) = Message!FlattenSeq(EncodedBytes(s))
    BY Zenon DEF Message!EncodedRune, EncodedBytes
<1> QED
    BY <1>1, <1>2, <1>7, <1>8, <1>9

\* An encoded character is printable.
LEMMA EncodedRuneType ==
    ASSUME NEW s \in Bytes, s # <<>>
    PROVE  Message!EncodedRune(s) \in Printable
<1>1. PICK q \in Seq(Printable) : q = EncodedBytes(s) /\ Len(q) \in 1 .. 4
    BY EncodedParts, RuneIsBytes
<1>2. \A i \in 1 .. Len(q) : q[i] \in Printable
    OBVIOUS
<1>3. Message!EncodedRune(s) = Message!FlattenSeq(q)
    BY <1>1, EncodedParts
<1>4. CASE Len(q) = 1
  <2>1. q[1] \in Printable
    BY <1>2, <1>4
  <2> QED
    BY <1>1, <1>3, <1>4, <2>1, Flatten
<1>5. CASE Len(q) = 2
  <2>1. q[1] \in Printable /\ q[2] \in Printable
    BY <1>2, <1>5
  <2>2. q[1] \o q[2] \in Printable
    BY <2>1, PrintableIsBytes
  <2>3. Message!FlattenSeq(q) = q[1] \o q[2]
    BY <1>1, <1>5, Flatten
  <2> QED
    BY <1>3, <2>2, <2>3
<1>6. CASE Len(q) = 3
  <2>1. q[1] \in Printable /\ q[2] \in Printable /\ q[3] \in Printable
    BY <1>2, <1>6
  <2>2. (q[1] \o q[2]) \o q[3] \in Printable
    BY <2>1, PrintableIsBytes
  <2>3. Message!FlattenSeq(q) = (q[1] \o q[2]) \o q[3]
    BY <1>1, <1>6, Flatten
  <2> QED
    BY <1>3, <2>2, <2>3
<1>7. CASE Len(q) = 4
  <2>1. q[1] \in Printable /\ q[2] \in Printable /\ q[3] \in Printable /\ q[4] \in Printable
    BY <1>2, <1>7
  <2>2. ((q[1] \o q[2]) \o q[3]) \o q[4] \in Printable
    BY <2>1, PrintableIsBytes
  <2>3. Message!FlattenSeq(q) = ((q[1] \o q[2]) \o q[3]) \o q[4]
    BY <1>1, <1>7, Flatten
  <2> QED
    BY <1>3, <2>2, <2>3
<1> QED
    BY <1>1, <1>4, <1>5, <1>6, <1>7

\* encodeGrpcMessageUnchecked is what its definition says.
LEMMA EncodeUnfold ==
    /\ \A s \in Bytes : Message!encodeGrpcMessageUnchecked[s] =
          IF s = <<>> THEN <<>>
          ELSE Message!EncodedRune(s)
                 \o Message!encodeGrpcMessageUnchecked[Message!From(s, Message!RuneSize(s) + 1)]
    /\ \A s \in Bytes : Message!encodeGrpcMessageUnchecked[s] \in Printable
<1> DEFINE F == Message!encodeGrpcMessageUnchecked
           Left(s) == Message!From(s, Message!RuneSize(s) + 1)
           Body(f, s) == IF s = <<>> THEN <<>> ELSE Message!EncodedRune(s) \o f[Left(s)]
           piece == [s \in Bytes |-> IF s = <<>> THEN <<>> ELSE Message!EncodedRune(s)]
           rest == [s \in Bytes |-> IF s = <<>> THEN <<>> ELSE Left(s)]
<1>1. <<>> \in Bytes
    BY DEF Bytes
<1>2. ASSUME NEW s \in Bytes, s # <<>>
      PROVE  Message!EncodedRune(s) \in Bytes /\ Left(s) \in Bytes /\ Len(Left(s)) < Len(s)
    BY <1>2, EncodedRuneType, RuneRest, PrintableIsBytes
<1> HIDE DEF Left
<1>3. /\ piece \in [Bytes -> Bytes] /\ rest \in [Bytes -> Bytes]
      /\ \A s \in Bytes : s # <<>> =>
            piece[s] = Message!EncodedRune(s) /\ rest[s] = Left(s) /\ Len(rest[s]) < Len(s)
    BY <1>1, <1>2
<1> HIDE DEF piece, rest
<1>4. PICK f \in [Bytes -> Bytes] : Pieces(f, piece, rest)
    BY <1>3, PieceByPiece
<1>5. f = [s \in Bytes |-> Body(f, s)]
    BY <1>3, <1>4 DEF Pieces
<1>6. F = CHOOSE g : g = [s \in Bytes |-> Body(g, s)]
    BY Zenon DEF Message!encodeGrpcMessageUnchecked, Left, Bytes
<1>7. F = [s \in Bytes |-> Body(F, s)]
  <2> HIDE DEF F, Body
  <2> QED
    BY <1>5, <1>6
<1>8. \A s \in Bytes : F[s] = Body(F, s)
  <2> HIDE DEF F, Body
  <2> QED
    BY <1>7
<1>9. \A s \in Bytes : F[s] \in Printable
  <2> DEFINE P == {s \in Bytes : F[s] \in Printable}
  <2> HIDE DEF F
  <2>1. ASSUME NEW s \in Bytes, \A t \in Bytes : Len(t) < Len(s) => t \in P PROVE s \in P
    <3>1. CASE s = <<>>
      BY <1>8, <3>1, PrintableIsBytes
    <3>2. CASE s # <<>>
      <4>1. F[Left(s)] \in Printable
        BY <1>2, <2>1, <3>2
      <4>2. F[s] = Message!EncodedRune(s) \o F[Left(s)]
        BY <1>8, <3>2
      <4> QED
        BY <3>2, <4>1, <4>2, EncodedRuneType, PrintableIsBytes
    <3> QED
      BY <3>1, <3>2
  <2> HIDE DEF P
  <2>2. Bytes \subseteq P
    BY <2>1, TextInduction
  <2> QED
    BY <2>2 DEF P
<1> QED
    BY <1>8, <1>9 DEF Left

\* Repaired is what its definition says.
LEMMA RepairUnfold ==
    \A s \in Bytes : Message!Repaired[s] =
        IF s = <<>> THEN <<>>
        ELSE Message!RuneBytes(s) \o Message!Repaired[Message!From(s, Message!RuneSize(s) + 1)]
<1> DEFINE F == Message!Repaired
           Left(s) == Message!From(s, Message!RuneSize(s) + 1)
           Body(f, s) == IF s = <<>> THEN <<>> ELSE Message!RuneBytes(s) \o f[Left(s)]
           piece == [s \in Bytes |-> IF s = <<>> THEN <<>> ELSE Message!RuneBytes(s)]
           rest == [s \in Bytes |-> IF s = <<>> THEN <<>> ELSE Left(s)]
<1>1. <<>> \in Bytes
    BY DEF Bytes
<1>2. ASSUME NEW s \in Bytes, s # <<>>
      PROVE  Message!RuneBytes(s) \in Bytes /\ Left(s) \in Bytes /\ Len(Left(s)) < Len(s)
    BY <1>2, RuneIsBytes, RuneRest
<1> HIDE DEF Left
<1>3. /\ piece \in [Bytes -> Bytes] /\ rest \in [Bytes -> Bytes]
      /\ \A s \in Bytes : s # <<>> =>
            piece[s] = Message!RuneBytes(s) /\ rest[s] = Left(s) /\ Len(rest[s]) < Len(s)
    BY <1>1, <1>2
<1> HIDE DEF piece, rest
<1>4. PICK f \in [Bytes -> Bytes] : Pieces(f, piece, rest)
    BY <1>3, PieceByPiece
<1>5. f = [s \in Bytes |-> Body(f, s)]
    BY <1>3, <1>4 DEF Pieces
<1>6. F = CHOOSE g : g = [s \in Bytes |-> Body(g, s)]
    BY Zenon DEF Message!Repaired, Left, Bytes
<1>7. F = [s \in Bytes |-> Body(F, s)]
  <2> HIDE DEF F, Body
  <2> QED
    BY <1>5, <1>6
<1>8. \A s \in Bytes : F[s] = Body(F, s)
  <2> HIDE DEF F, Body
  <2> QED
    BY <1>7
<1> QED
    BY <1>8 DEF Left

\* A text that begins with "%" and two digits.
Escaped(s) == s[1] = 37 /\ Len(s) > 2 /\ Message!Range(SubSeq(s, 2, 3)) \subseteq Message!HexDigits

\* It is an escape if these are digits.
LEMMA EscapedMeans ==
    ASSUME NEW s \in Bytes, Len(s) > 2
    PROVE  Escaped(s) <=> s[1] = 37 /\ s[2] \in Message!HexDigits /\ s[3] \in Message!HexDigits
<1>1. Len(s) \in Nat /\ \A i \in 2 .. 3 : s[i] \in Message!Byte
    BY DEF Bytes
<1>2. PICK t : t = SubSeq(s, 2, 3)
    OBVIOUS
<1>3. t \in Seq(Message!Byte) /\ Len(t) = 2 /\ t[1] = s[2] /\ t[2] = s[3]
  <2>1. /\ t \in Seq(Message!Byte)
        /\ Len(t) = IF 2 <= 3 THEN 3 - 2 + 1 ELSE 0
        /\ \A i \in 1 .. (3 - 2 + 1) : t[i] = s[2 + i - 1]
    BY <1>1, <1>2, SubSeqProperties
  <2> QED
    BY <2>1
<1>4. DOMAIN t = 1 .. 2
    BY <1>3
<1>5. Message!Range(t) = {s[2], s[3]}
    BY <1>3, <1>4 DEF Message!Range
<1> QED
    BY <1>2, <1>5 DEF Escaped

\* Decoded is what its definition says.
LEMMA DecodeUnfold ==
    /\ \A s \in Bytes : Message!Decoded[s] =
          IF s = <<>> THEN <<>>
          ELSE IF Escaped(s)
          THEN <<16 * Message!HexValue(s[2]) + Message!HexValue(s[3])>>
                 \o Message!Decoded[Message!From(s, 4)]
          ELSE <<s[1]>> \o Message!Decoded[Tail(s)]
    /\ \A s \in Bytes : Message!Decoded[s] \in Bytes
<1> DEFINE F == Message!Decoded
           First(s) == IF Escaped(s) THEN <<16 * Message!HexValue(s[2]) + Message!HexValue(s[3])>>
                       ELSE <<s[1]>>
           Left(s) == IF Escaped(s) THEN Message!From(s, 4) ELSE Tail(s)
           Body(f, s) == IF s = <<>> THEN <<>>
                         ELSE IF Escaped(s)
                         THEN <<16 * Message!HexValue(s[2]) + Message!HexValue(s[3])>>
                                \o f[Message!From(s, 4)]
                         ELSE <<s[1]>> \o f[Tail(s)]
           piece == [s \in Bytes |-> IF s = <<>> THEN <<>> ELSE First(s)]
           rest == [s \in Bytes |-> IF s = <<>> THEN <<>> ELSE Left(s)]
<1>1. <<>> \in Bytes
    BY DEF Bytes
<1>2. ASSUME NEW s \in Bytes, s # <<>>
      PROVE  First(s) \in Bytes /\ Left(s) \in Bytes /\ Len(Left(s)) < Len(s)
  <2>1. Len(s) \in Nat /\ Len(s) > 0 /\ s[1] \in Message!Byte
    BY <1>2, RuneFits DEF Message!Byte
  <2>2. CASE Escaped(s)
    <3>1. Len(s) > 2
      BY <2>2 DEF Escaped
    <3>2. s[2] \in Message!HexDigits /\ s[3] \in Message!HexDigits
      BY <2>2, <3>1, EscapedMeans
    <3>3. PICK m \in 0 .. 15, n \in 0 .. 15 : m = Message!HexValue(s[2]) /\ n = Message!HexValue(s[3])
      BY <3>2, HexType
    <3>4. 16 * m + n \in Message!Byte
      BY DEF Message!Byte
    <3>5. First(s) \in Bytes
      BY <2>2, <3>3, <3>4 DEF Bytes
    <3>6. PICK l \in Nat : l = Len(s) /\ l > 2
      BY <2>1, <3>1
    <3>7. \A i \in 4 .. l : s[i] \in Message!Byte
      BY <3>6 DEF Bytes
    <3>8. SubSeq(s, 4, l) \in Seq(Message!Byte) /\ Len(SubSeq(s, 4, l)) = IF 4 <= l THEN l - 4 + 1 ELSE 0
      BY <3>7, SubSeqProperties
    <3> QED
      BY <2>2, <3>5, <3>6, <3>8 DEF Message!From, Bytes
  <2>3. CASE ~Escaped(s)
    <3>1. Tail(s) \in Bytes /\ Len(Tail(s)) = Len(s) - 1
      BY <1>2, HeadTailProperties DEF Bytes
    <3>2. <<s[1]>> \in Bytes
      BY <2>1 DEF Bytes
    <3> QED
      BY <2>1, <2>3, <3>1, <3>2
  <2> QED
    BY <2>2, <2>3
<1>3. ASSUME NEW s \in Bytes, NEW f, s # <<>> PROVE Body(f, s) = First(s) \o f[Left(s)]
    BY <1>3, Zenon
<1> HIDE DEF First, Left
<1>4. /\ piece \in [Bytes -> Bytes] /\ rest \in [Bytes -> Bytes]
      /\ \A s \in Bytes : s # <<>> =>
            piece[s] = First(s) /\ rest[s] = Left(s) /\ Len(rest[s]) < Len(s)
    BY <1>1, <1>2
<1> HIDE DEF piece, rest
<1>5. PICK f \in [Bytes -> Bytes] : Pieces(f, piece, rest)
    BY <1>4, PieceByPiece
<1>6. f = [s \in Bytes |-> Body(f, s)]
  <2>1. ASSUME NEW s \in Bytes PROVE f[s] = Body(f, s)
    <3>1. CASE s = <<>>
      BY <1>5, <3>1 DEF Pieces
    <3>2. CASE s # <<>>
      <4>1. f[s] = piece[s] \o f[rest[s]]
        BY <1>5, <3>2 DEF Pieces
      <4> HIDE DEF Body
      <4> QED
        BY <1>3, <1>4, <3>2, <4>1
    <3> QED
      BY <3>1, <3>2
  <2> HIDE DEF Body
  <2> QED
    BY <2>1
<1>7. F = CHOOSE g : g = [s \in Bytes |-> Body(g, s)]
    BY Zenon DEF Message!Decoded, Bytes, Escaped
<1>8. F = [s \in Bytes |-> Body(F, s)]
  <2> HIDE DEF F, Body
  <2> QED
    BY <1>6, <1>7
<1>9. \A s \in Bytes : F[s] = Body(F, s)
  <2> HIDE DEF F, Body
  <2> QED
    BY <1>8
<1>10. \A s \in Bytes : F[s] \in Bytes
  <2> HIDE DEF F, Body
  <2>1. ASSUME NEW s \in Bytes PROVE F[s] = IF s = <<>> THEN <<>> ELSE piece[s] \o F[rest[s]]
    <3>1. CASE s = <<>>
      BY <1>9, <3>1 DEF Body
    <3>2. CASE s # <<>>
      BY <1>3, <1>4, <1>9, <3>2
    <3> QED
      BY <3>1, <3>2
  <2>2. Pieces(F, piece, rest)
    BY <2>1 DEF Pieces
  <2>3. \A s \in Bytes : f[s] = F[s]
    BY <1>4, <1>5, <2>2, SamePieces
  <2> QED
    BY <2>3
<1> QED
    BY <1>9, <1>10, Zenon

\* Wherever x stands before something, the gRPC client decodes it to r.
Decodes(x, r) ==
    /\ x \in Bytes /\ r \in Bytes
    /\ \A v \in Bytes : Message!Decoded[x \o v] = r \o Message!Decoded[v]

\* Texts are put together in any order.
Associative(x, y, v) == (x \o y) \o v = x \o (y \o v)

\* Of texts that is so.
LEMMA BytesConcat ==
    ASSUME NEW x \in Bytes, NEW y \in Bytes, NEW v \in Bytes
    PROVE  Associative(x, y, v)
<1>1. PICK S : S = Message!Byte
    OBVIOUS
<1>2. x \in Seq(S) /\ y \in Seq(S) /\ v \in Seq(S)
    BY <1>1 DEF Bytes
<1> QED
    BY <1>2, ConcatAssociative DEF Associative

\* What is decoded on its own is decoded in a row.
LEMMA DecodesConcat ==
    ASSUME NEW x, NEW r, NEW y, NEW t, Decodes(x, r), Decodes(y, t)
    PROVE  Decodes(x \o y, r \o t)
<1>1. x \in Bytes /\ r \in Bytes /\ y \in Bytes /\ t \in Bytes
    BY DEF Decodes
<1>2. x \o y \in Bytes /\ r \o t \in Bytes
    BY <1>1 DEF Bytes
<1>3. ASSUME NEW v \in Bytes PROVE Message!Decoded[(x \o y) \o v] = (r \o t) \o Message!Decoded[v]
  <2>1. y \o v \in Bytes /\ (x \o y) \o v = x \o (y \o v)
    <3>1. Associative(x, y, v)
      BY <1>1, BytesConcat, Zenon
    <3>2. y \o v \in Bytes
      BY <1>1 DEF Bytes
    <3> QED
      BY <3>1, <3>2, Zenon DEF Associative
  <2>2. PICK d \in Bytes : d = Message!Decoded[v]
    BY DecodeUnfold
  <2>3. Message!Decoded[y \o v] = t \o d /\ Message!Decoded[x \o (y \o v)] = r \o Message!Decoded[y \o v]
    BY <2>1, <2>2 DEF Decodes
  <2>4. (r \o t) \o d = r \o (t \o d)
    <3>1. Associative(r, t, d)
      BY <1>1, BytesConcat, Zenon
    <3> QED
      BY <3>1, Zenon DEF Associative
  <2> QED
    BY <2>1, <2>2, <2>3, <2>4, Zenon
<1> QED
    BY <1>2, <1>3 DEF Decodes

\* An escape is the byte it stands for.
LEMMA DecodesPercent ==
    ASSUME NEW b \in Message!Byte
    PROVE  Decodes(Message!Percent(b), <<b>>)
<1>1. PICK m \in 0 .. 15, n \in 0 .. 15 : m = b \div 16 /\ n = b % 16 /\ 16 * m + n = b
    BY Nibbles
<1>2. PICK c, d : /\ c = Message!HexDigit(m) /\ c \in 48 .. 70 /\ c \in Message!HexDigits
                  /\ d = Message!HexDigit(n) /\ d \in 48 .. 70 /\ d \in Message!HexDigits
                  /\ Message!HexValue(c) = m /\ Message!HexValue(d) = n
    BY Hex
<1>3. PICK p : p = <<37, c, d>>
    OBVIOUS
<1>4. p = Message!Percent(b)
    BY <1>1, <1>2, <1>3 DEF Message!Percent
<1>5. p \in Seq(Message!Byte) /\ Len(p) = 3 /\ p[1] = 37 /\ p[2] = c /\ p[3] = d
    BY <1>2, <1>3 DEF Message!Byte
<1>6. ASSUME NEW v \in Bytes PROVE Message!Decoded[p \o v] = <<b>> \o Message!Decoded[v]
  <2>1. PICK t \in Seq(Message!Byte), l \in Nat :
          /\ t = p \o v /\ l = Len(v) /\ Len(t) = 3 + l
          /\ \A i \in 1 .. (3 + l) : t[i] = IF i <= 3 THEN p[i] ELSE v[i - 3]
    <3>1. /\ p \o v \in Seq(Message!Byte) /\ Len(v) \in Nat
          /\ Len(p \o v) = Len(p) + Len(v)
          /\ \A i \in 1 .. (Len(p) + Len(v)) : (p \o v)[i] = IF i <= Len(p) THEN p[i] ELSE v[i - Len(p)]
      <4>1. PICK S : S = Message!Byte
        OBVIOUS
      <4>2. p \in Seq(S) /\ v \in Seq(S)
        BY <1>5, <4>1, Zenon DEF Bytes
      <4> QED
        BY <4>1, <4>2, ConcatProperties, LenProperties, Zenon
    <3>2. PICK t, l : t = p \o v /\ l = Len(v)
      OBVIOUS
    <3>3. /\ t \in Seq(Message!Byte) /\ l \in Nat /\ Len(t) = 3 + l
          /\ \A i \in 1 .. (3 + l) : t[i] = IF i <= 3 THEN p[i] ELSE v[i - 3]
      BY <1>5, <3>1, <3>2
    <3> QED
      BY <3>2, <3>3
  <2>2. t[1] = 37 /\ t[2] = c /\ t[3] = d /\ Len(t) > 2
    BY <1>5, <2>1
  <2>3. t \in Bytes /\ t # <<>> /\ Escaped(t)
    <3>1. t \in Bytes /\ t # <<>>
      BY <2>2 DEF Bytes
    <3> QED
      BY <1>2, <2>2, <3>1, EscapedMeans
  <2>4. Message!From(t, 4) = v
    <3>1. PICK k \in Nat : k = Len(t) /\ k = 3 + l
      BY <2>1
    <3>2. ASSUME NEW i \in 4 .. k PROVE t[i] \in Message!Byte
      <4>1. i \in 1 .. Len(t)
        BY <3>1
      <4> QED
        BY <4>1, ElementOfSeq
    <3>3. PICK z : z = SubSeq(t, 4, k)
      OBVIOUS
    <3>4. /\ z \in Seq(Message!Byte) /\ Len(z) = (IF 4 <= k THEN k - 4 + 1 ELSE 0)
          /\ \A i \in 1 .. (k - 4 + 1) : z[i] = t[4 + i - 1]
      BY <3>2, <3>3, SubSeqProperties
    <3>5. Len(z) = l
      BY <3>1, <3>4
    <3>6. ASSUME NEW i \in 1 .. l PROVE z[i] = v[i]
      <4>1. i \in 1 .. (k - 4 + 1) /\ 4 + i - 1 = i + 3 /\ i + 3 \in 1 .. (3 + l) /\ ~(i + 3 <= 3) /\ (i + 3) - 3 = i
        BY <3>1
      <4> QED
        BY <2>1, <3>4, <4>1
    <3>7. z = v
      <4>1. v \in Seq(Message!Byte) /\ Len(z) = Len(v) /\ \A i \in 1 .. Len(z) : z[i] = v[i]
        BY <2>1, <3>5, <3>6 DEF Bytes
      <4> QED
        BY <3>4, <4>1, SeqEqual
    <3> QED
      BY <3>1, <3>3, <3>7 DEF Message!From
  <2>5. 16 * Message!HexValue(t[2]) + Message!HexValue(t[3]) = b
    BY <1>1, <1>2, <2>2
  <2>6. Message!Decoded[t] = <<16 * Message!HexValue(t[2]) + Message!HexValue(t[3])>>
                               \o Message!Decoded[Message!From(t, 4)]
    BY <2>3, DecodeUnfold, Zenon
  <2> QED
    BY <2>1, <2>4, <2>5, <2>6
<1>7. <<b>> \in Bytes /\ p \in Bytes
    BY <1>5 DEF Bytes
<1> QED
    BY <1>4, <1>6, <1>7 DEF Decodes

\* A byte other than "%" is itself.
LEMMA DecodesPlain ==
    ASSUME NEW b \in Message!Byte, b # 37
    PROVE  Decodes(<<b>>, <<b>>)
<1>1. PICK p : p = <<b>>
    OBVIOUS
<1>2. p \in Seq(Message!Byte) /\ Len(p) = 1 /\ p[1] = b
    BY <1>1
<1>3. ASSUME NEW v \in Bytes PROVE Message!Decoded[p \o v] = <<b>> \o Message!Decoded[v]
  <2>1. PICK t \in Seq(Message!Byte), l \in Nat :
          /\ t = p \o v /\ l = Len(v) /\ Len(t) = 1 + l
          /\ \A i \in 1 .. (1 + l) : t[i] = IF i <= 1 THEN p[i] ELSE v[i - 1]
    <3>1. /\ p \o v \in Seq(Message!Byte) /\ Len(v) \in Nat
          /\ Len(p \o v) = Len(p) + Len(v)
          /\ \A i \in 1 .. (Len(p) + Len(v)) : (p \o v)[i] = IF i <= Len(p) THEN p[i] ELSE v[i - Len(p)]
      BY <1>2, ConcatProperties, LenProperties DEF Bytes
    <3>2. PICK t, l : t = p \o v /\ l = Len(v)
      OBVIOUS
    <3>3. /\ t \in Seq(Message!Byte) /\ l \in Nat /\ Len(t) = 1 + l
          /\ \A i \in 1 .. (1 + l) : t[i] = IF i <= 1 THEN p[i] ELSE v[i - 1]
      BY <1>2, <3>1, <3>2
    <3> QED
      BY <3>2, <3>3
  <2>2. t \in Bytes /\ t # <<>> /\ t[1] = b /\ ~Escaped(t)
    BY <1>2, <2>1 DEF Bytes, Escaped
  <2>3. Tail(t) = v
    <3>1. /\ Tail(t) \in Seq(Message!Byte) /\ Len(Tail(t)) = Len(t) - 1
          /\ \A i \in 1 .. Len(Tail(t)) : Tail(t)[i] = t[i + 1]
      BY <2>2, HeadTailProperties
    <3>2. PICK z : z = Tail(t)
      OBVIOUS
    <3>3. z \in Seq(Message!Byte) /\ Len(z) = l /\ \A i \in 1 .. l : z[i] = t[i + 1]
      BY <2>1, <3>1, <3>2
    <3>4. ASSUME NEW i \in 1 .. l PROVE z[i] = v[i]
      <4>1. i + 1 \in 1 .. (1 + l) /\ ~(i + 1 <= 1) /\ (i + 1) - 1 = i
        OBVIOUS
      <4> QED
        BY <2>1, <3>3, <4>1
    <3>5. v \in Seq(Message!Byte) /\ Len(z) = Len(v) /\ \A i \in 1 .. Len(z) : z[i] = v[i]
      BY <2>1, <3>3, <3>4 DEF Bytes
    <3> QED
      BY <3>2, <3>3, <3>5, SeqEqual
  <2>4. Message!Decoded[t] = <<t[1]>> \o Message!Decoded[Tail(t)]
    BY <2>2, DecodeUnfold, Zenon
  <2> QED
    BY <2>1, <2>2, <2>3, <2>4
<1>4. p \in Bytes
    BY <1>2 DEF Bytes
<1> QED
    BY <1>1, <1>3, <1>4 DEF Decodes

\* An encoded byte is decoded to the byte.
LEMMA DecodesByte ==
    ASSUME NEW b \in Message!Byte, NEW size \in 1 .. 4
    PROVE  Decodes(Message!EncodedByte(b, size), <<b>>)
<1>1. CASE size > 1 \/ ~Message!Allowable(b)
    BY <1>1, DecodesPercent DEF Message!EncodedByte
<1>2. CASE ~(size > 1 \/ ~Message!Allowable(b))
  <2>1. b # 37 /\ Message!EncodedByte(b, size) = <<b>>
    BY <1>2 DEF Message!EncodedByte, Message!Allowable
  <2> QED
    BY <2>1, DecodesPlain
<1> QED
    BY <1>1, <1>2

\* The first byte of a text.
LEMMA FirstByte ==
    ASSUME NEW r \in Bytes, r # <<>>
    PROVE  SubSeq(r, 1, 1) = <<r[1]>>
<1>1. Len(r) \in Nat /\ 1 \in 1 .. Len(r) /\ r[1] \in Message!Byte
    BY RuneFits DEF Message!Byte
<1>2. SubSeq(r, 1, 1) = SubSeq(r, 1, 1 - 1) \o <<r[1]>>
  <2>1. 1 \in 1 .. Len(r)
    BY <1>1
  <2> QED
    BY <2>1, SubSeqRecursiveSecond DEF Bytes
<1>3. SubSeq(r, 1, 1 - 1) = <<>>
    BY SubSeqEmpty
<1>4. <<>> \o <<r[1]>> = <<r[1]>>
    BY <1>1, ConcatEmptySeq
<1> QED
    BY <1>2, <1>3, <1>4, Zenon

\* A short sequence is its bytes in a row.
LEMMA InARow ==
    ASSUME NEW r \in Bytes
    PROVE  /\ Len(r) = 1 => r = <<r[1]>>
           /\ Len(r) = 2 => r = <<r[1]>> \o <<r[2]>>
           /\ Len(r) = 3 => r = (<<r[1]>> \o <<r[2]>>) \o <<r[3]>>
           /\ Len(r) = 4 => r = ((<<r[1]>> \o <<r[2]>>) \o <<r[3]>>) \o <<r[4]>>
<1>1. r \in Seq(Message!Byte) /\ Len(r) \in Nat /\ r = SubSeq(r, 1, Len(r))
    BY SubSeqFull DEF Bytes
<1>2. ASSUME NEW n \in 2 .. 4, n <= Len(r) PROVE SubSeq(r, 1, n) = SubSeq(r, 1, n - 1) \o <<r[n]>>
  <2>1. 1 \in 1 .. Len(r) /\ n \in 1 .. Len(r)
    BY <1>1, <1>2
  <2> QED
    BY <1>1, <2>1, SubSeqRecursiveSecond
<1>3. ASSUME Len(r) >= 1 PROVE SubSeq(r, 1, 1) = <<r[1]>>
  <2>1. r # <<>>
    BY <1>1, <1>3
  <2> QED
    BY <2>1, FirstByte
<1>4. ASSUME Len(r) >= 2 PROVE SubSeq(r, 1, 2) = <<r[1]>> \o <<r[2]>>
  <2>1. 2 \in 2 .. 4 /\ 2 - 1 = 1 /\ Len(r) >= 1 /\ 2 <= Len(r)
    BY <1>1, <1>4
  <2> QED
    BY <1>2, <1>3, <2>1
<1>5. ASSUME Len(r) >= 3 PROVE SubSeq(r, 1, 3) = (<<r[1]>> \o <<r[2]>>) \o <<r[3]>>
  <2>1. 3 \in 2 .. 4 /\ 3 - 1 = 2 /\ Len(r) >= 2 /\ 3 <= Len(r)
    BY <1>1, <1>5
  <2> QED
    BY <1>2, <1>4, <2>1
<1>6. ASSUME Len(r) >= 4 PROVE SubSeq(r, 1, 4) = ((<<r[1]>> \o <<r[2]>>) \o <<r[3]>>) \o <<r[4]>>
  <2>1. 4 \in 2 .. 4 /\ 4 - 1 = 3 /\ Len(r) >= 3 /\ 4 <= Len(r)
    BY <1>1, <1>6
  <2> QED
    BY <1>2, <1>5, <2>1
<1>7. /\ Len(r) = 1 => Len(r) >= 1
      /\ Len(r) = 2 => Len(r) >= 2
      /\ Len(r) = 3 => Len(r) >= 3
      /\ Len(r) = 4 => Len(r) >= 4
    BY <1>1
<1> QED
    BY <1>1, <1>3, <1>4, <1>5, <1>6, <1>7, Zenon

\* An encoded character is decoded to its bytes.
LEMMA DecodesRune ==
    ASSUME NEW s \in Bytes, s # <<>>
    PROVE  Decodes(Message!EncodedRune(s), Message!RuneBytes(s))
<1>1. PICK r \in Bytes : r = Message!RuneBytes(s) /\ Len(r) \in 1 .. 4
    BY RuneIsBytes
<1>2. PICK k \in 1 .. 4 : k = Message!RuneSize(s)
    BY RuneFits
<1>3. PICK q \in Seq(Printable) :
        /\ Message!EncodedRune(s) = Message!FlattenSeq(q) /\ Len(q) = Len(r)
        /\ \A i \in 1 .. Len(r) : q[i] = Message!EncodedByte(r[i], k)
    BY <1>1, <1>2, EncodedParts
<1>4. ASSUME NEW i \in 1 .. Len(r) PROVE Decodes(q[i], <<r[i]>>)
  <2>1. r[i] \in Message!Byte
    BY DEF Bytes
  <2> QED
    BY <1>3, <2>1, DecodesByte
<1>5. CASE Len(r) = 1
  <2>1. Decodes(q[1], <<r[1]>>)
    BY <1>4, <1>5
  <2> QED
    BY <1>1, <1>3, <1>5, <2>1, Flatten, InARow
<1>6. CASE Len(r) = 2
  <2>1. Decodes(q[1], <<r[1]>>) /\ Decodes(q[2], <<r[2]>>)
    BY <1>4, <1>6
  <2>2. Decodes(q[1] \o q[2], <<r[1]>> \o <<r[2]>>)
    BY <2>1, DecodesConcat, Zenon
  <2>3. Message!FlattenSeq(q) = q[1] \o q[2] /\ r = <<r[1]>> \o <<r[2]>>
    BY <1>1, <1>3, <1>6, Flatten, InARow
  <2> QED
    BY <1>1, <1>3, <2>2, <2>3, Zenon
<1>7. CASE Len(r) = 3
  <2>1. Decodes(q[1], <<r[1]>>) /\ Decodes(q[2], <<r[2]>>) /\ Decodes(q[3], <<r[3]>>)
    BY <1>4, <1>7
  <2>2. Decodes(q[1] \o q[2], <<r[1]>> \o <<r[2]>>)
    BY <2>1, DecodesConcat, Zenon
  <2>3. Decodes((q[1] \o q[2]) \o q[3], (<<r[1]>> \o <<r[2]>>) \o <<r[3]>>)
    BY <2>1, <2>2, DecodesConcat, Zenon
  <2>4. Message!FlattenSeq(q) = (q[1] \o q[2]) \o q[3] /\ r = (<<r[1]>> \o <<r[2]>>) \o <<r[3]>>
    BY <1>1, <1>3, <1>7, Flatten, InARow
  <2> QED
    BY <1>1, <1>3, <2>3, <2>4, Zenon
<1>8. CASE Len(r) = 4
  <2>1. /\ Decodes(q[1], <<r[1]>>) /\ Decodes(q[2], <<r[2]>>)
        /\ Decodes(q[3], <<r[3]>>) /\ Decodes(q[4], <<r[4]>>)
    BY <1>4, <1>8
  <2>2. Decodes(q[1] \o q[2], <<r[1]>> \o <<r[2]>>)
    BY <2>1, DecodesConcat, Zenon
  <2>3. Decodes((q[1] \o q[2]) \o q[3], (<<r[1]>> \o <<r[2]>>) \o <<r[3]>>)
    BY <2>1, <2>2, DecodesConcat, Zenon
  <2>4. Decodes(((q[1] \o q[2]) \o q[3]) \o q[4], ((<<r[1]>> \o <<r[2]>>) \o <<r[3]>>) \o <<r[4]>>)
    BY <2>1, <2>3, DecodesConcat, Zenon
  <2>5. /\ Message!FlattenSeq(q) = ((q[1] \o q[2]) \o q[3]) \o q[4]
        /\ r = ((<<r[1]>> \o <<r[2]>>) \o <<r[3]>>) \o <<r[4]>>
    BY <1>1, <1>3, <1>8, Flatten, InARow
  <2> QED
    BY <1>1, <1>3, <2>4, <2>5, Zenon
<1> QED
    BY <1>1, <1>5, <1>6, <1>7, <1>8

\* Decoding undoes the encoding, but for the repair.
LEMMA UncheckedArrives ==
    \A s \in Bytes : Message!Decoded[Message!encodeGrpcMessageUnchecked[s]] = Message!Repaired[s]
<1> DEFINE P == {s \in Bytes :
                   Message!Decoded[Message!encodeGrpcMessageUnchecked[s]] = Message!Repaired[s]}
<1>1. ASSUME NEW s \in Bytes, \A t \in Bytes : Len(t) < Len(s) => t \in P PROVE s \in P
  <2>1. CASE s = <<>>
    <3>1. <<>> \in Bytes /\ Message!encodeGrpcMessageUnchecked[s] = <<>> /\ Message!Repaired[s] = <<>>
      BY <2>1, EncodeUnfold, RepairUnfold
    <3>2. Message!Decoded[<<>>] = <<>>
      BY <3>1, DecodeUnfold
    <3> QED
      BY <3>1, <3>2
  <2>2. CASE s # <<>>
    <3>1. PICK t \in Bytes : t = Message!From(s, Message!RuneSize(s) + 1) /\ Len(t) < Len(s)
      BY <2>2, RuneRest
    <3>2. PICK e \in Bytes : e = Message!encodeGrpcMessageUnchecked[t]
      BY EncodeUnfold, PrintableIsBytes
    <3>3. Message!encodeGrpcMessageUnchecked[s] = Message!EncodedRune(s) \o e
      BY <2>2, <3>1, <3>2, EncodeUnfold
    <3>4. Message!Repaired[s] = Message!RuneBytes(s) \o Message!Repaired[t]
      BY <2>2, <3>1, RepairUnfold
    <3>5. Message!Decoded[e] = Message!Repaired[t]
      BY <1>1, <3>1, <3>2
    <3>6. Message!Decoded[Message!EncodedRune(s) \o e] = Message!RuneBytes(s) \o Message!Decoded[e]
      BY <2>2, DecodesRune DEF Decodes
    <3> QED
      BY <3>3, <3>4, <3>5, <3>6
  <2> QED
    BY <2>1, <2>2
<1> HIDE DEF P
<1>2. Bytes \subseteq P
    BY <1>1, TextInduction
<1> QED
    BY <1>2 DEF P

\* A printable character is one byte.
LEMMA AsciiSize ==
    ASSUME NEW s, s[1] \in 32 .. 126
    PROVE  Message!RuneSize(s) = 1
<1> DEFINE size == CASE s[1] \in 194 .. 223 -> 2
                     [] s[1] \in 224 .. 239 -> 3
                     [] s[1] \in 240 .. 244 -> 4
                     [] OTHER -> 1
<1>1. size = 1
    OBVIOUS
<1>2. Message!RuneSize(s) =
        IF /\ size <= Len(s)
           /\ size > 1 => s[2] \in Message!SecondByte(s[1])
           /\ \A i \in 3 .. size : s[i] \in 128 .. 191
        THEN size ELSE 1
    BY Zenon DEF Message!RuneSize
<1> HIDE DEF size
<1> QED
    BY <1>1, <1>2

\* A text that needs no encoding is decoded to itself, and has nothing to repair.
LEMMA PlainArrives ==
    \A s \in Bytes : (\A i \in 1 .. Len(s) : Message!Allowable(s[i])) =>
                        Message!Decoded[s] = Message!Repaired[s]
<1> DEFINE Plain(s) == \A i \in 1 .. Len(s) : Message!Allowable(s[i])
           P == {s \in Bytes : Plain(s) => Message!Decoded[s] = Message!Repaired[s]}
<1>1. ASSUME NEW s \in Bytes, \A t \in Bytes : Len(t) < Len(s) => t \in P PROVE s \in P
  <2> SUFFICES ASSUME Plain(s) PROVE Message!Decoded[s] = Message!Repaired[s]
    OBVIOUS
  <2>1. CASE s = <<>>
    BY <2>1, DecodeUnfold, RepairUnfold
  <2>2. CASE s # <<>>
    <3>1. Len(s) \in Nat /\ Len(s) >= 1 /\ s[1] \in 32 .. 126 /\ s[1] # 37
      <4>1. Len(s) \in Nat /\ Len(s) >= 1
        BY <2>2, RuneFits
      <4>2. 1 \in 1 .. Len(s)
        BY <4>1
      <4> QED
        BY <4>1, <4>2 DEF Message!Allowable
    <3>2. Message!RuneSize(s) = 1
      BY <3>1, AsciiSize
    <3>3. SubSeq(s, 1, 1) = <<s[1]>>
      BY <2>2, FirstByte
    <3>4. Message!RuneBytes(s) = <<s[1]>>
      <4>1. ~(s[1] > 127)
        <5>1. \A c \in 32 .. 126 : ~(c > 127)
          OBVIOUS
        <5> QED
          BY <3>1, <5>1, Zenon
      <4> QED
        BY <3>2, <3>3, <4>1, Zenon DEF Message!RuneBytes
    <3>5. Message!From(s, Message!RuneSize(s) + 1) = Tail(s)
      BY <2>2, <3>2, TailIsSubSeq DEF Message!From, Bytes
    <3>6. PICK t \in Bytes : t = Tail(s) /\ Len(t) = Len(s) - 1 /\ \A i \in 1 .. Len(t) : t[i] = s[i + 1]
      BY <2>2, HeadTailProperties DEF Bytes
    <3>7. Plain(t)
      <4>1. ASSUME NEW i \in 1 .. Len(t) PROVE Message!Allowable(t[i])
        <5>1. i + 1 \in 1 .. Len(s) /\ t[i] = s[i + 1]
          BY <3>1, <3>6
        <5> QED
          BY <5>1
      <4> QED
        BY <4>1
    <3>8. Message!Decoded[t] = Message!Repaired[t]
      <4>1. Len(t) < Len(s)
        BY <3>1, <3>6
      <4> HIDE DEF Plain
      <4> QED
        BY <1>1, <3>7, <4>1
    <3>9. Message!Decoded[s] = <<s[1]>> \o Message!Decoded[t]
      <4>1. ~Escaped(s)
        BY <3>1 DEF Escaped
      <4> QED
        BY <2>2, <3>6, <4>1, DecodeUnfold, Zenon
    <3>10. Message!Repaired[s] = <<s[1]>> \o Message!Repaired[t]
      BY <2>2, <3>4, <3>5, <3>6, RepairUnfold, Zenon
    <3> QED
      BY <3>8, <3>9, <3>10
  <2> QED
    BY <2>1, <2>2
<1> HIDE DEF P
<1>2. Bytes \subseteq P
    BY <1>1, TextInduction
<1> QED
    BY <1>2 DEF P

\* Whatever the text of an error is, its encoding is printable, and the client reads it.
LEMMA TextArrives ==
    ASSUME NEW s \in Bytes
    PROVE  /\ Message!EncodeGrpcMessage(s) \in Printable
           /\ Message!Decoded[Message!EncodeGrpcMessage(s)] = Message!Repaired[s]
<1>1. DOMAIN s = 1 .. Len(s) /\ s \in Seq(Message!Byte) /\ Len(s) \in Nat
    BY DEF Bytes
<1>2. CASE \A i \in DOMAIN s : Message!Allowable(s[i])
  <2>1. Message!EncodeGrpcMessage(s) = s
    BY <1>2 DEF Message!EncodeGrpcMessage
  <2>2. \A i \in 1 .. Len(s) : s[i] \in 32 .. 126
    BY <1>1, <1>2 DEF Message!Allowable
  <2>3. s \in Printable
    BY <1>1, <2>2 DEF Printable
  <2>4. Message!Decoded[s] = Message!Repaired[s]
    BY <1>1, <1>2, PlainArrives
  <2> QED
    BY <2>1, <2>3, <2>4
<1>3. CASE ~(\A i \in DOMAIN s : Message!Allowable(s[i]))
  <2>1. Message!EncodeGrpcMessage(s) = Message!encodeGrpcMessageUnchecked[s]
    BY <1>3 DEF Message!EncodeGrpcMessage
  <2> QED
    BY <2>1, EncodeUnfold, UncheckedArrives
<1> QED
    BY <1>2, <1>3

------------------------------------------------------------------------------
(* The options                                                              *)

\* The last option of a kind among those at the places T.
LastAt(g, T, kind, default) ==
    LET I == {i \in T : g[i] \in kind}
    IN  IF I = {} THEN default ELSE g[CHOOSE i \in I : \A j \in I : j <= i]

WebSocketKind == {"UseWebSocket", "DontUseWebSocket"}
DowngradeKind == {"ForceDowngrade", "DontForceDowngrade"}

\* What the documentation says of the options at the places T.
Settings(g, T) ==
    [forceHTTP2     |-> \E i \in T : g[i] = "ForceHTTP2",
     useWebSocket   |-> LastAt(g, T, WebSocketKind, "") = "UseWebSocket",
     forceDowngrade |-> LastAt(g, T, DowngradeKind, "") = "ForceDowngrade",
     contentType    |-> LastAt(g, T, Negotiation!ContentTypes, "")]

\* A set of places has a last one.
LEMMA Greatest ==
    ASSUME NEW n \in Nat, NEW T, T \subseteq 1 .. n, T # {}
    PROVE  /\ Negotiation!Max(T) \in T
           /\ \A j \in T : j <= Negotiation!Max(T)
<1> DEFINE D == {n - t : t \in T}
<1>1. D \subseteq Nat /\ D # {}
  <2>1. PICK t : t \in T
    OBVIOUS
  <2>2. n - t \in D
    BY <2>1
  <2>3. \A x \in D : x \in Nat
    OBVIOUS
  <2> QED
    BY <2>2, <2>3
<1>2. PICK d \in D : \A e \in D : d <= e
  <2> HIDE DEF D
  <2> QED
    BY <1>1, Least
<1>3. PICK x \in T : d = n - x
    OBVIOUS
<1>4. \A y \in T : x >= y
  <2> SUFFICES ASSUME NEW y \in T PROVE x >= y
    OBVIOUS
  <2>1. n - x <= n - y
    BY <1>2, <1>3
  <2> QED
    BY <2>1
<1>5. /\ Negotiation!Max(T) \in T
      /\ \A y \in T : Negotiation!Max(T) >= y
    BY <1>4, Zenon DEF Negotiation!Max
<1> QED
    BY <1>5

\* m is the last of the places T.
IsLast(m, T) == T \subseteq Nat /\ m \in T /\ \A j \in T : j <= m

\* The option at the last place is the last of its kind, and changes nothing of the
\* other kinds.
LEMMA LastStep ==
    ASSUME NEW T, NEW m, IsLast(m, T), NEW g, NEW kind, NEW default
    PROVE  /\ g[m] \in kind => LastAt(g, T, kind, default) = g[m]
           /\ g[m] \notin kind => LastAt(g, T, kind, default) = LastAt(g, T \ {m}, kind, default)
<1>0. T \subseteq Nat /\ m \in T /\ \A j \in T : j <= m
    BY DEF IsLast
<1> DEFINE I == {i \in T : g[i] \in kind}
           J == {i \in T \ {m} : g[i] \in kind}
<1>1. CASE g[m] \in kind
  <2>1. m \in I /\ \A j \in I : j <= m
    BY <1>0, <1>1
  <2>2. ASSUME NEW i \in I, \A j \in I : j <= i PROVE i = m
    <3>1. m <= i /\ i <= m /\ i \in Nat /\ m \in Nat
      BY <1>0, <2>1, <2>2
    <3> QED
      BY <3>1
  <2>3. (CHOOSE i \in I : \A j \in I : j <= i) = m
    <3> HIDE DEF I
    <3> QED
      BY <2>1, <2>2
  <2>4. LastAt(g, T, kind, default) = IF I = {} THEN default ELSE g[CHOOSE i \in I : \A j \in I : j <= i]
    BY Zenon DEF LastAt
  <2> HIDE DEF I
  <2> QED
    BY <1>1, <2>1, <2>3, <2>4
<1>2. CASE g[m] \notin kind
  <2>1. I = J
    BY <1>2
  <2>2. LastAt(g, T, kind, default) = IF I = {} THEN default ELSE g[CHOOSE i \in I : \A j \in I : j <= i]
    BY Zenon DEF LastAt
  <2>3. LastAt(g, T \ {m}, kind, default) = IF J = {} THEN default ELSE g[CHOOSE i \in J : \A j \in J : j <= i]
    BY Zenon DEF LastAt
  <2> HIDE DEF I, J
  <2> QED
    BY <1>2, <2>1, <2>2, <2>3
<1> QED
    BY <1>1, <1>2

\* The last option of a kind is of that kind.
LEMMA LastAtType ==
    ASSUME NEW n \in Nat, NEW T, T \subseteq 1 .. n, NEW g, NEW kind, NEW default
    PROVE  LastAt(g, T, kind, default) \in kind \cup {default}
<1> DEFINE I == {i \in T : g[i] \in kind}
<1>1. LastAt(g, T, kind, default) = IF I = {} THEN default ELSE g[CHOOSE i \in I : \A j \in I : j <= i]
    BY Zenon DEF LastAt
<1>2. CASE I # {}
  <2>1. I \subseteq 1 .. n
    OBVIOUS
  <2>2. PICK x \in I : \A j \in I : j <= x
    <3> HIDE DEF I
    <3> QED
      BY <1>2, <2>1, Greatest
  <2>3. (CHOOSE i \in I : \A j \in I : j <= i) \in I
    <3> HIDE DEF I
    <3> QED
      BY <2>2, Zenon
  <2>4. PICK y \in I : LastAt(g, T, kind, default) = g[y]
    BY <1>1, <1>2, <2>3, Zenon
  <2> QED
    BY <2>4
<1> HIDE DEF I
<1> QED
    BY <1>1, <1>2

\* No option is of two kinds.
LEMMA Kinds ==
    ASSUME NEW opt \in Negotiation!Option
    PROVE  \/ /\ opt = "ForceHTTP2"
              /\ opt \notin WebSocketKind /\ opt \notin DowngradeKind /\ opt \notin Negotiation!ContentTypes
           \/ /\ opt \in WebSocketKind
              /\ opt # "ForceHTTP2" /\ opt \notin DowngradeKind /\ opt \notin Negotiation!ContentTypes
           \/ /\ opt \in DowngradeKind
              /\ opt # "ForceHTTP2" /\ opt \notin WebSocketKind /\ opt \notin Negotiation!ContentTypes
           \/ /\ opt \in Negotiation!ContentTypes
              /\ opt # "ForceHTTP2" /\ opt \notin WebSocketKind /\ opt \notin DowngradeKind
BY DEF Negotiation!Option, Negotiation!ContentTypes, WebSocketKind, DowngradeKind

\* The settings.
SettingType == [forceHTTP2: BOOLEAN, useWebSocket: BOOLEAN, forceDowngrade: BOOLEAN,
                contentType: Negotiation!ContentTypes]

\* An option changes the setting of its kind.
Changes(o, opt, p) ==
    /\ p.forceHTTP2 <=> opt = "ForceHTTP2" \/ o.forceHTTP2
    /\ IF opt \in WebSocketKind THEN p.useWebSocket <=> opt = "UseWebSocket"
       ELSE p.useWebSocket = o.useWebSocket
    /\ IF opt \in DowngradeKind THEN p.forceDowngrade <=> opt = "ForceDowngrade"
       ELSE p.forceDowngrade = o.forceDowngrade
    /\ p.contentType = IF opt \in Negotiation!ContentTypes THEN opt ELSE o.contentType

\* That is what the apply methods do.
LEMMA AppliedTo ==
    ASSUME NEW o \in SettingType, NEW p \in SettingType, NEW opt \in Negotiation!Option,
           Changes(o, opt, p)
    PROVE  p = Negotiation!Applied(o, opt)
<1>0. /\ o = [forceHTTP2 |-> o.forceHTTP2, useWebSocket |-> o.useWebSocket,
              forceDowngrade |-> o.forceDowngrade, contentType |-> o.contentType]
      /\ p = [forceHTTP2 |-> p.forceHTTP2, useWebSocket |-> p.useWebSocket,
              forceDowngrade |-> p.forceDowngrade, contentType |-> p.contentType]
      /\ o.forceHTTP2 \in BOOLEAN /\ o.useWebSocket \in BOOLEAN /\ o.forceDowngrade \in BOOLEAN
      /\ p.forceHTTP2 \in BOOLEAN /\ p.useWebSocket \in BOOLEAN /\ p.forceDowngrade \in BOOLEAN
    BY DEF SettingType
<1>1. CASE opt = "ForceHTTP2"
  <2>1. Negotiation!Applied(o, opt) = [o EXCEPT !.forceHTTP2 = TRUE]
    BY <1>1 DEF Negotiation!Applied, Negotiation!ContentTypes
  <2>2. /\ p.forceHTTP2 = TRUE /\ p.useWebSocket = o.useWebSocket
        /\ p.forceDowngrade = o.forceDowngrade /\ p.contentType = o.contentType
    BY <1>0, <1>1, Kinds DEF Changes
  <2> QED
    BY <1>0, <2>1, <2>2
<1>2. CASE opt \in WebSocketKind
  <2>1. Negotiation!Applied(o, opt) = [o EXCEPT !.useWebSocket = (opt = "UseWebSocket")]
    BY <1>2 DEF Negotiation!Applied, Negotiation!ContentTypes, WebSocketKind
  <2>2. /\ p.forceHTTP2 = o.forceHTTP2 /\ p.useWebSocket = (opt = "UseWebSocket")
        /\ p.forceDowngrade = o.forceDowngrade /\ p.contentType = o.contentType
    BY <1>0, <1>2, Kinds DEF Changes
  <2> QED
    BY <1>0, <2>1, <2>2
<1>3. CASE opt \in DowngradeKind
  <2>1. Negotiation!Applied(o, opt) = [o EXCEPT !.forceDowngrade = (opt = "ForceDowngrade")]
    BY <1>3 DEF Negotiation!Applied, Negotiation!ContentTypes, DowngradeKind
  <2>2. /\ p.forceHTTP2 = o.forceHTTP2 /\ p.useWebSocket = o.useWebSocket
        /\ p.forceDowngrade = (opt = "ForceDowngrade") /\ p.contentType = o.contentType
    BY <1>0, <1>3, Kinds DEF Changes
  <2> QED
    BY <1>0, <2>1, <2>2
<1>4. CASE opt \in Negotiation!ContentTypes
  <2>1. Negotiation!Applied(o, opt) = [o EXCEPT !.contentType = opt]
    BY <1>4 DEF Negotiation!Applied, Negotiation!ContentTypes
  <2>2. /\ p.forceHTTP2 = o.forceHTTP2 /\ p.useWebSocket = o.useWebSocket
        /\ p.forceDowngrade = o.forceDowngrade /\ p.contentType = opt
    BY <1>0, <1>4, Kinds DEF Changes
  <2> QED
    BY <1>0, <2>1, <2>2
<1> QED
    BY <1>1, <1>2, <1>3, <1>4, Kinds

\* The settings have their type.
LEMMA SettingsType ==
    ASSUME NEW n \in Nat, NEW T, T \subseteq 1 .. n, NEW g
    PROVE  Settings(g, T) \in SettingType
<1>1. PICK none : none = ""
    OBVIOUS
<1>2. none \in Negotiation!ContentTypes
    BY <1>1, Zenon DEF Negotiation!ContentTypes
<1>3. LastAt(g, T, Negotiation!ContentTypes, none) \in Negotiation!ContentTypes \cup {none}
    BY LastAtType
<1>4. LastAt(g, T, Negotiation!ContentTypes, "") \in Negotiation!ContentTypes
    BY <1>1, <1>2, <1>3, Zenon
<1> QED
    BY <1>4, Zenon DEF Settings, SettingType

\* Applying the option at the last place to the settings from those before it.
LEMMA SettingsStep ==
    ASSUME NEW T, NEW m, IsLast(m, T), NEW g, g[m] \in Negotiation!Option,
           Settings(g, T) \in SettingType, Settings(g, T \ {m}) \in SettingType
    PROVE  Settings(g, T) = Negotiation!Applied(Settings(g, T \ {m}), g[m])
<1>1. PICK opt \in Negotiation!Option : opt = g[m]
    OBVIOUS
<1>2. PICK none : none = ""
    OBVIOUS
<1>3. PICK u, v, c, d, a, b :
        /\ u = LastAt(g, T, WebSocketKind, none) /\ v = LastAt(g, T \ {m}, WebSocketKind, none)
        /\ c = LastAt(g, T, DowngradeKind, none) /\ d = LastAt(g, T \ {m}, DowngradeKind, none)
        /\ a = LastAt(g, T, Negotiation!ContentTypes, none)
        /\ b = LastAt(g, T \ {m}, Negotiation!ContentTypes, none)
    OBVIOUS
<1>4. ASSUME NEW kind
      PROVE  /\ opt \in kind => LastAt(g, T, kind, none) = opt
             /\ opt \notin kind => LastAt(g, T, kind, none) = LastAt(g, T \ {m}, kind, none)
    BY <1>1, LastStep
<1>5. PICK p \in SettingType : p = Settings(g, T)
    OBVIOUS
<1>6. PICK o \in SettingType : o = Settings(g, T \ {m})
    OBVIOUS
<1>7. /\ p.forceHTTP2 = (\E i \in T : g[i] = "ForceHTTP2")
      /\ p.useWebSocket = (u = "UseWebSocket") /\ p.forceDowngrade = (c = "ForceDowngrade")
      /\ p.contentType = a
    BY <1>2, <1>3, <1>5 DEF Settings
<1>8. /\ o.forceHTTP2 = (\E i \in T \ {m} : g[i] = "ForceHTTP2")
      /\ o.useWebSocket = (v = "UseWebSocket") /\ o.forceDowngrade = (d = "ForceDowngrade")
      /\ o.contentType = b
    BY <1>2, <1>3, <1>6 DEF Settings
<1>9. p.forceHTTP2 <=> opt = "ForceHTTP2" \/ o.forceHTTP2
    BY <1>1, <1>7, <1>8, Zenon DEF IsLast
<1>10. /\ u = IF opt \in WebSocketKind THEN opt ELSE v
       /\ c = IF opt \in DowngradeKind THEN opt ELSE d
       /\ a = IF opt \in Negotiation!ContentTypes THEN opt ELSE b
    BY <1>3, <1>4, Zenon
<1>11. Changes(o, opt, p)
    BY <1>7, <1>8, <1>9, <1>10, Zenon DEF Changes
<1> QED
    BY <1>1, <1>5, <1>6, <1>11, AppliedTo

\* ConnectViaProxy ends up with the last option of each kind.
LEMMA OptionsInOrder ==
    ASSUME NEW n \in Nat, NEW g \in [1 .. n -> Negotiation!Option]
    PROVE  Negotiation!ConnectOptions(g) = Settings(g, DOMAIN g)
<1> DEFINE Places == SUBSET (1 .. n)
           Last(T) == Negotiation!Max(T)
           Step(f, T) == IF T = {} THEN Negotiation!Defaults
                         ELSE Negotiation!Applied(f[T \ {Last(T)}], g[Last(T)])
           fold == CHOOSE f : f = [T \in Places |-> Step(f, T)]
           known == [T \in Places |-> Settings(g, T)]
<1>1. DOMAIN g = 1 .. n
    OBVIOUS
<1>2. Negotiation!ConnectOptions(g) = fold[1 .. n]
  <2>1. Negotiation!ConnectOptions(g) =
          (CHOOSE f : f = [T \in SUBSET DOMAIN g |-> Step(f, T)])[DOMAIN g]
    BY Zenon DEF Negotiation!ConnectOptions, Negotiation!FoldLeft, Negotiation!MapThenFoldSet
  <2> HIDE DEF Step
  <2> QED
    BY <1>1, <2>1, Zenon
<1>3. Settings(g, {}) = Negotiation!Defaults
  <2>1. \A kind : LastAt(g, {}, kind, "") = ""
    BY Zenon DEF LastAt
  <2>2. "" # "UseWebSocket" /\ "" # "ForceDowngrade"
    BY Zenon
  <2> QED
    BY <2>1, <2>2, Zenon DEF Settings, Negotiation!Defaults
<1>4. ASSUME NEW T \in Places, T # {}
      PROVE  /\ IsLast(Last(T), T) /\ Last(T) \in 1 .. n /\ T \ {Last(T)} \in Places
             /\ Settings(g, T) = Negotiation!Applied(Settings(g, T \ {Last(T)}), g[Last(T)])
  <2>1. Last(T) \in T /\ \A j \in T : j <= Last(T)
    BY <1>4, Greatest
  <2> HIDE DEF Last
  <2>2. IsLast(Last(T), T) /\ Last(T) \in 1 .. n /\ T \ {Last(T)} \in Places
    <3>1. 1 .. n \subseteq Nat
      OBVIOUS
    <3>2. T \subseteq 1 .. n /\ T \subseteq Nat
      BY <3>1, Zenon
    <3> QED
      BY <2>1, <3>2, Zenon DEF IsLast
  <2>3. g[Last(T)] \in Negotiation!Option
    BY <2>2
  <2>4. Settings(g, T) \in SettingType /\ Settings(g, T \ {Last(T)}) \in SettingType
    BY <2>2, SettingsType
  <2> QED
    BY <2>2, <2>3, <2>4, SettingsStep
<1> HIDE DEF Last
<1>5. known = [T \in Places |-> Step(known, T)]
  <2>1. ASSUME NEW T \in Places PROVE Settings(g, T) = Step(known, T)
    <3>1. CASE T = {}
      BY <1>3, <3>1
    <3>2. CASE T # {}
      <4>1. known[T \ {Last(T)}] = Settings(g, T \ {Last(T)})
        BY <1>4, <3>2
      <4> HIDE DEF known
      <4> QED
        BY <1>4, <3>2, <4>1, Zenon
    <3> QED
      BY <3>1, <3>2
  <2> HIDE DEF Step
  <2> QED
    BY <2>1
<1>6. fold = [T \in Places |-> Step(fold, T)]
  <2> HIDE DEF known, Step
  <2> QED
    BY <1>5
<1> HIDE DEF fold, known
<1>7. ASSUME NEW T \in Places PROVE fold[T] = Step(fold, T)
  <2> HIDE DEF Step
  <2> QED
    BY <1>6
<1> DEFINE P == {k \in Nat : k <= n => fold[1 .. k] = Settings(g, 1 .. k)}
<1>8. 0 \in P
  <2>1. 1 .. 0 = {} /\ {} \in Places
    OBVIOUS
  <2>2. fold[{}] = Settings(g, {})
    BY <1>3, <1>7, <2>1, Zenon
  <2> QED
    BY <2>1, <2>2
<1>9. ASSUME NEW k \in Nat, k \in P PROVE k + 1 \in P
  <2> SUFFICES ASSUME k + 1 <= n PROVE fold[1 .. (k + 1)] = Settings(g, 1 .. (k + 1))
    OBVIOUS
  <2>1. PICK T \in Places : T = 1 .. (k + 1)
    OBVIOUS
  <2>2. T # {} /\ k + 1 \in T /\ \A j \in T : j <= k + 1
    <3>1. \A l \in Nat : l + 1 \in 1 .. (l + 1) /\ \A j \in 1 .. (l + 1) : j <= l + 1
      OBVIOUS
    <3> QED
      BY <2>1, <3>1, Zenon
  <2>3. Last(T) = k + 1
    <3>1. Last(T) \in Nat /\ Last(T) \in T /\ k + 1 <= Last(T)
      BY <1>4, <2>2 DEF IsLast
    <3>2. Last(T) <= k + 1
      BY <2>2, <3>1
    <3> QED
      BY <3>1, <3>2
  <2>4. T \ {Last(T)} = 1 .. k
    BY <2>1, <2>3
  <2>5. fold[1 .. k] = Settings(g, 1 .. k)
    BY <1>9
  <2>6. fold[T] = Negotiation!Applied(fold[T \ {Last(T)}], g[Last(T)])
    BY <1>7, <2>2, Zenon
  <2>7. Settings(g, T) = Negotiation!Applied(Settings(g, T \ {Last(T)}), g[Last(T)])
    BY <1>4, <2>2
  <2> QED
    BY <2>1, <2>4, <2>5, <2>6, <2>7, Zenon
<1>10. n \in P
  <2> HIDE DEF P
  <2> QED
    BY <1>8, <1>9, SetInduction
<1> QED
    BY <1>1, <1>2, <1>10

------------------------------------------------------------------------------
(* The answer                                                               *)

\* The content type that is sent.
Sent(o) == IF o.contentType = "" THEN "grpc" ELSE o.contentType

\* A request, given by its fields.
Fields(p, t, a, v, c, s, u) ==
    [proto |-> p, te |-> t, accept |-> a, webOnly |-> v, contentType |-> c, subprotocol |-> s, upgrade |-> u]

\* The request of a gRPC client of its own, as it arrives.
LEMMA PlainRequest ==
    ASSUME NEW e, NEW o, e.client = "plain", e.path.te \in BOOLEAN, e.path.upgrade \in BOOLEAN
    PROVE  Negotiation!Request(e, o)
             = Fields(Negotiation!Protocol(e, o), e.path.te, {}, FALSE, "grpc", FALSE, FALSE)
<1>1. PICK q : q = Negotiation!GRPCRequest
    OBVIOUS
<1>2. Negotiation!Request(e, o) = Negotiation!Passed(e, o, q)
    BY <1>1, Zenon DEF Negotiation!Request
<1>3. q = Fields(2, TRUE, {}, FALSE, "grpc", FALSE, FALSE)
    BY <1>1 DEF Negotiation!GRPCRequest, Fields
<1>4. PICK q1 : q1 = [q EXCEPT !.proto = Negotiation!Protocol(e, o)]
    OBVIOUS
<1>5. q1 = Fields(Negotiation!Protocol(e, o), TRUE, {}, FALSE, "grpc", FALSE, FALSE)
    BY <1>3, <1>4 DEF Fields
<1>6. PICK q2 : q2 = [q1 EXCEPT !.te = q.te /\ e.path.te]
    OBVIOUS
<1>7. q2 = Fields(Negotiation!Protocol(e, o), e.path.te, {}, FALSE, "grpc", FALSE, FALSE)
  <2>1. (q.te /\ e.path.te) = e.path.te
    BY <1>3 DEF Fields
  <2> QED
    BY <1>5, <1>6, <2>1 DEF Fields
<1>8. PICK q3 : q3 = [q2 EXCEPT !.upgrade = q.upgrade /\ e.path.upgrade]
    OBVIOUS
<1>9. q3 = Fields(Negotiation!Protocol(e, o), e.path.te, {}, FALSE, "grpc", FALSE, FALSE)
  <2>1. (q.upgrade /\ e.path.upgrade) = FALSE
    BY <1>3 DEF Fields
  <2> QED
    BY <1>7, <1>8, <2>1 DEF Fields
<1> QED
    BY <1>2, <1>4, <1>6, <1>8, <1>9, Zenon DEF Negotiation!Passed

\* The handshake of a WebSocket.
LEMMA WebSocketRequest ==
    ASSUME NEW e, NEW o, e.client = "proxy", o.useWebSocket,
           e.path.te \in BOOLEAN, e.path.upgrade \in BOOLEAN
    PROVE  Negotiation!Request(e, o)
             = Fields(Negotiation!Protocol(e, o), e.path.te, {}, FALSE, "grpc", TRUE, e.path.upgrade)
<1>1. PICK r : r = Negotiation!GRPCRequest
    OBVIOUS
<1>2. PICK q : q = Negotiation!Handshake(r)
    OBVIOUS
<1>3. Negotiation!Request(e, o) = Negotiation!Passed(e, o, q)
  <2>1. e.client # "plain"
    OBVIOUS
  <2> QED
    BY <1>1, <1>2, <2>1, Zenon DEF Negotiation!Request
<1>4. q = Fields(2, TRUE, {}, FALSE, "grpc", TRUE, TRUE)
  <2>1. PICK r1 : r1 = [r EXCEPT !.subprotocol = TRUE]
    OBVIOUS
  <2>2. r1 = Fields(2, TRUE, {}, FALSE, "grpc", TRUE, FALSE)
    BY <1>1, <2>1 DEF Negotiation!GRPCRequest, Fields
  <2>3. q = [r1 EXCEPT !.upgrade = TRUE]
    BY <1>2, <2>1, Zenon DEF Negotiation!Handshake
  <2> QED
    BY <2>2, <2>3 DEF Fields
<1>5. PICK q1 : q1 = [q EXCEPT !.proto = Negotiation!Protocol(e, o)]
    OBVIOUS
<1>6. q1 = Fields(Negotiation!Protocol(e, o), TRUE, {}, FALSE, "grpc", TRUE, TRUE)
    BY <1>4, <1>5 DEF Fields
<1>7. PICK q2 : q2 = [q1 EXCEPT !.te = q.te /\ e.path.te]
    OBVIOUS
<1>8. q2 = Fields(Negotiation!Protocol(e, o), e.path.te, {}, FALSE, "grpc", TRUE, TRUE)
  <2>1. (q.te /\ e.path.te) = e.path.te
    BY <1>4 DEF Fields
  <2> QED
    BY <1>6, <1>7, <2>1 DEF Fields
<1>9. PICK q3 : q3 = [q2 EXCEPT !.upgrade = q.upgrade /\ e.path.upgrade]
    OBVIOUS
<1>10. q3 = Fields(Negotiation!Protocol(e, o), e.path.te, {}, FALSE, "grpc", TRUE, e.path.upgrade)
  <2>1. (q.upgrade /\ e.path.upgrade) = e.path.upgrade
    BY <1>4 DEF Fields
  <2> QED
    BY <1>8, <1>9, <2>1 DEF Fields
<1> QED
    BY <1>3, <1>5, <1>7, <1>9, <1>10, Zenon DEF Negotiation!Passed

\* The request of the reverse proxy.
LEMMA WebRequest ==
    ASSUME NEW e, NEW o, e.client = "proxy", ~o.useWebSocket,
           e.path.te \in BOOLEAN, e.path.upgrade \in BOOLEAN, NEW a, NEW c, c = Sent(o),
           a = IF o.forceDowngrade THEN {"grpc-web"} ELSE {"grpc", "grpc-web"}
    PROVE  Negotiation!Request(e, o)
             = Fields(Negotiation!Protocol(e, o), e.path.te, a, o.forceDowngrade, c, FALSE, FALSE)
<1>1. PICK r : r = Negotiation!GRPCRequest
    OBVIOUS
<1>2. r = Fields(2, TRUE, {}, FALSE, "grpc", FALSE, FALSE) /\ r.contentType = "grpc"
    BY <1>1 DEF Negotiation!GRPCRequest, Fields
<1>3. PICK q : q = Negotiation!Directed(o, r)
    OBVIOUS
<1>4. Negotiation!Request(e, o) = Negotiation!Passed(e, o, q)
  <2>1. e.client # "plain"
    OBVIOUS
  <2> QED
    BY <1>1, <1>3, <2>1, Zenon DEF Negotiation!Request
<1>5. q = Fields(2, TRUE, a, o.forceDowngrade, c, FALSE, FALSE)
  <2>1. PICK r1 : r1 = [r EXCEPT !.accept = a]
    OBVIOUS
  <2>2. r1 = Fields(2, TRUE, a, FALSE, "grpc", FALSE, FALSE)
    BY <1>2, <2>1 DEF Fields
  <2>3. PICK r2 : r2 = [r1 EXCEPT !.webOnly = o.forceDowngrade]
    OBVIOUS
  <2>4. r2 = Fields(2, TRUE, a, o.forceDowngrade, "grpc", FALSE, FALSE)
    BY <2>2, <2>3 DEF Fields
  <2>5. q = [[[r EXCEPT !.accept = a] EXCEPT !.webOnly = o.forceDowngrade] EXCEPT !.contentType = c]
    BY <1>2, <1>3, Zenon DEF Negotiation!Directed, Sent
  <2>6. q = [r2 EXCEPT !.contentType = c]
    BY <2>1, <2>3, <2>5, Zenon
  <2> QED
    BY <2>4, <2>6 DEF Fields
<1>6. PICK q1 : q1 = [q EXCEPT !.proto = Negotiation!Protocol(e, o)]
    OBVIOUS
<1>7. q1 = Fields(Negotiation!Protocol(e, o), TRUE, a, o.forceDowngrade, c, FALSE, FALSE)
    BY <1>5, <1>6 DEF Fields
<1>8. PICK q2 : q2 = [q1 EXCEPT !.te = q.te /\ e.path.te]
    OBVIOUS
<1>9. q2 = Fields(Negotiation!Protocol(e, o), e.path.te, a, o.forceDowngrade, c, FALSE, FALSE)
  <2>1. (q.te /\ e.path.te) = e.path.te
    BY <1>5 DEF Fields
  <2> QED
    BY <1>7, <1>8, <2>1 DEF Fields
<1>10. PICK q3 : q3 = [q2 EXCEPT !.upgrade = q.upgrade /\ e.path.upgrade]
    OBVIOUS
<1>11. q3 = Fields(Negotiation!Protocol(e, o), e.path.te, a, o.forceDowngrade, c, FALSE, FALSE)
  <2>1. (q.upgrade /\ e.path.upgrade) = FALSE
    BY <1>5 DEF Fields
  <2> QED
    BY <1>9, <1>10, <2>1 DEF Fields
<1> QED
    BY <1>4, <1>6, <1>8, <1>10, <1>11, Zenon DEF Negotiation!Passed

\* What the surroundings of a call can be.
Around(e) ==
    /\ e.client \in {"plain", "proxy"} /\ e.server \in {"plain", "downgrading"}
    /\ e.preferGRPCWeb \in BOOLEAN /\ e.tls \in BOOLEAN /\ e.clientStream \in BOOLEAN
    /\ e.path.http1 \in BOOLEAN /\ e.path.te \in BOOLEAN
    /\ e.path.trailers \in BOOLEAN /\ e.path.upgrade \in BOOLEAN
    /\ ~e.path.http1 => e.path.te /\ e.path.trailers /\ e.path.upgrade

\* All surroundings of the model are of this kind.
LEMMA SurroundingsAround ==
    ASSUME NEW e \in Negotiation!Surroundings
    PROVE  Around(e)
<1>1. e.path \in Negotiation!Path
    BY DEF Negotiation!Surroundings
<1>2. PICK p \in Negotiation!Path : p = e.path
    BY <1>1
<1>3. /\ p.http1 \in BOOLEAN /\ p.te \in BOOLEAN
      /\ p.trailers \in BOOLEAN /\ p.upgrade \in BOOLEAN
      /\ ~p.http1 => p.te /\ p.trailers /\ p.upgrade
    BY DEF Negotiation!Path
<1>4. /\ e.client \in {"plain", "proxy"} /\ e.server \in {"plain", "downgrading"}
      /\ e.preferGRPCWeb \in BOOLEAN /\ e.tls \in BOOLEAN /\ e.clientStream \in BOOLEAN
    BY DEF Negotiation!Surroundings
<1> QED
    BY <1>2, <1>3, <1>4 DEF Around

\* The protocols the server can be reached with.
LEMMA ProtocolsOf ==
    ASSUME NEW e, Around(e)
    PROVE  /\ 1 \in Negotiation!Protocols(e) <=> e.path.http1 \/ e.server = "downgrading"
           /\ 2 \in Negotiation!Protocols(e) <=> ~e.path.http1
    BY DEF Around, Negotiation!Protocols

\* The answer of a plain server.
LEMMA PlainServer ==
    ASSUME NEW r
    PROVE  /\ r.proto = 2 /\ r.contentType = "grpc" => Negotiation!PlainAnswer(r) = "grpc"
           /\ ~(r.proto = 2 /\ r.contentType = "grpc") => Negotiation!PlainAnswer(r) = "error"
    BY Zenon DEF Negotiation!PlainAnswer

\* What a request without the handshake asks for.
Asks(r) ==
    /\ r.te \in BOOLEAN /\ r.webOnly \in BOOLEAN /\ r.subprotocol = FALSE
    /\ \/ r.accept = {} /\ ~r.webOnly
       \/ r.accept = {"grpc-web"} /\ r.webOnly
       \/ r.accept = {"grpc", "grpc-web"} /\ ~r.webOnly

\* The answer of a downgrading server to such a request.
LEMMA DowngradingServer ==
    ASSUME NEW e, Around(e), NEW r, Asks(r)
    PROVE  /\ r.contentType \notin {"grpc", "grpc-web"}
                => Negotiation!DowngradingAnswer(e, r) = "http"
           /\ r.contentType \in {"grpc", "grpc-web"} /\ r.accept = {} /\ r.proto = 2 /\ r.te
                => Negotiation!DowngradingAnswer(e, r) = "grpc"
           /\ r.contentType \in {"grpc", "grpc-web"} /\ r.accept # {}
                => Negotiation!DowngradingAnswer(e, r)
                     = IF e.clientStream
                       THEN IF r.proto = 2 /\ r.te /\ ~r.webOnly THEN "grpc" ELSE "error"
                       ELSE IF r.te /\ ~r.webOnly /\ ~e.preferGRPCWeb THEN "grpc" ELSE "grpc-web"
<1>1. e.preferGRPCWeb \in BOOLEAN /\ e.clientStream \in BOOLEAN
    BY DEF Around
<1>2. /\ r.te \in BOOLEAN /\ r.webOnly \in BOOLEAN /\ r.subprotocol = FALSE
      /\ \/ r.accept = {} /\ ~r.webOnly
         \/ r.accept = {"grpc-web"} /\ r.webOnly
         \/ r.accept = {"grpc", "grpc-web"} /\ ~r.webOnly
    BY Zenon DEF Asks
<1>3. Negotiation!DowngradingAnswer(e, r)
        = IF r.contentType \notin {"grpc", "grpc-web"} THEN "http" ELSE Negotiation!WebAnswer(e, r)
    BY <1>2, Zenon DEF Negotiation!DowngradingAnswer
<1>4. Negotiation!AsGRPC(e, r)
        <=> /\ r.te /\ ~r.webOnly
            /\ r.accept # {} => ~(e.preferGRPCWeb /\ ~e.clientStream)
    BY <1>1, <1>2 DEF Negotiation!AsGRPC, Negotiation!AcceptGRPC, Negotiation!AcceptGRPCWeb,
                Negotiation!DowngradableMethod
<1>5. Negotiation!AcceptGRPCWeb(r) <=> r.accept # {}
    BY <1>2 DEF Negotiation!AcceptGRPCWeb
<1>6. Negotiation!WebAnswer(e, r)
        = IF r.proto # 2 /\ e.clientStream THEN "error"
          ELSE IF Negotiation!AsGRPC(e, r) THEN "grpc"
          ELSE IF Negotiation!AcceptGRPCWeb(r) /\ ~e.clientStream THEN "grpc-web" ELSE "error"
    BY Zenon DEF Negotiation!WebAnswer, Negotiation!DowngradableMethod
<1> QED
    BY <1>1, <1>2, <1>3, <1>4, <1>5, <1>6

\* What a gRPC client of its own gets.
LEMMA PlainClient ==
    ASSUME NEW e, Around(e), NEW o, e.client = "plain"
    PROVE  Negotiation!Answer(e, o) = IF e.path.http1 THEN "unreachable" ELSE "grpc"
<1>1. Negotiation!Protocol(e, o) = 2
    BY DEF Negotiation!Protocol
<1>2. 2 \in Negotiation!Protocols(e) <=> ~e.path.http1
    BY ProtocolsOf
<1>3. CASE e.path.http1
    BY <1>1, <1>2, <1>3, Zenon DEF Negotiation!Answer
<1>4. CASE ~e.path.http1
  <2>1. e.path.te /\ e.path.te \in BOOLEAN /\ e.path.upgrade \in BOOLEAN
    BY <1>4 DEF Around
  <2>2. PICK r : r = Negotiation!Request(e, o)
    OBVIOUS
  <2>3. r = Fields(2, e.path.te, {}, FALSE, "grpc", FALSE, FALSE)
    BY <1>1, <2>1, <2>2, PlainRequest
  <2>4. /\ r.proto = 2 /\ r.te = TRUE /\ r.accept = {} /\ r.webOnly = FALSE
        /\ r.contentType = "grpc" /\ r.subprotocol = FALSE
    BY <2>1, <2>3 DEF Fields
  <2>5. Negotiation!PlainAnswer(r) = "grpc"
    BY <2>4, PlainServer, Zenon
  <2>6. Negotiation!DowngradingAnswer(e, r) = "grpc"
    <3>1. Asks(r)
      BY <2>4, Zenon DEF Asks
    <3> QED
      BY <2>4, <3>1, DowngradingServer, Zenon
  <2> QED
    BY <1>1, <1>2, <1>4, <2>2, <2>5, <2>6, Zenon DEF Negotiation!Answer
<1> QED
    BY <1>3, <1>4, Zenon DEF Around

\* What a WebSocket gets.
LEMMA WebSocketClient ==
    ASSUME NEW e, Around(e), NEW o, e.client = "proxy", o.useWebSocket
    PROVE  /\ e.server = "plain" => Negotiation!Answer(e, o) \in {"unreachable", "error"}
           /\ e.server = "downgrading" =>
                 Negotiation!Answer(e, o) = IF e.path.upgrade THEN "websocket" ELSE "error"
<1>1. Negotiation!Protocol(e, o) = 1
  <2>1. e.client # "plain"
    OBVIOUS
  <2> QED
    BY <2>1, Zenon DEF Negotiation!Protocol
<1>2. 1 \in Negotiation!Protocols(e) <=> e.path.http1 \/ e.server = "downgrading"
    BY ProtocolsOf
<1>3. PICK r : r = Negotiation!Request(e, o)
    OBVIOUS
<1>4. r = Fields(1, e.path.te, {}, FALSE, "grpc", TRUE, e.path.upgrade)
    BY <1>1, <1>3, WebSocketRequest DEF Around
<1>5. Negotiation!PlainAnswer(r) = "error"
  <2>1. r.proto # 2
    BY <1>4 DEF Fields
  <2> QED
    BY <2>1, PlainServer, Zenon
<1>6. Negotiation!DowngradingAnswer(e, r) = IF e.path.upgrade THEN "websocket" ELSE "error"
  <2>1. r.subprotocol = TRUE /\ r.upgrade = e.path.upgrade
    BY <1>4 DEF Fields
  <2> QED
    BY <2>1, Zenon DEF Negotiation!DowngradingAnswer
<1>7. e.server = "downgrading" => e.server # "plain"
    OBVIOUS
<1> QED
    BY <1>1, <1>2, <1>3, <1>5, <1>6, <1>7, Zenon DEF Negotiation!Answer

\* What the reverse proxy gets.
LEMMA WebClient ==
    ASSUME NEW e, Around(e), NEW o, e.client = "proxy", ~o.useWebSocket, o.forceDowngrade \in BOOLEAN,
           NEW c, c = Sent(o), NEW p, p = Negotiation!Protocol(e, o)
    PROVE  /\ p \notin Negotiation!Protocols(e) => Negotiation!Answer(e, o) = "unreachable"
           /\ p \in Negotiation!Protocols(e) /\ e.server = "plain" =>
                 Negotiation!Answer(e, o) = IF p = 2 /\ c = "grpc" THEN "grpc" ELSE "error"
           /\ p \in Negotiation!Protocols(e) /\ e.server = "downgrading" /\ c \notin {"grpc", "grpc-web"} =>
                 Negotiation!Answer(e, o) = "http"
           /\ p \in Negotiation!Protocols(e) /\ e.server = "downgrading" /\ c \in {"grpc", "grpc-web"} =>
                 Negotiation!Answer(e, o)
                   = IF e.clientStream
                     THEN IF p = 2 /\ e.path.te /\ ~o.forceDowngrade THEN "grpc" ELSE "error"
                     ELSE IF e.path.te /\ ~o.forceDowngrade /\ ~e.preferGRPCWeb THEN "grpc" ELSE "grpc-web"
<1>1. PICK a : a = IF o.forceDowngrade THEN {"grpc-web"} ELSE {"grpc", "grpc-web"}
    OBVIOUS
<1>2. PICK r : r = Negotiation!Request(e, o)
    OBVIOUS
<1>3. r = Fields(p, e.path.te, a, o.forceDowngrade, c, FALSE, FALSE)
    BY <1>1, <1>2, WebRequest DEF Around
<1>4. /\ r.proto = p /\ r.te = e.path.te /\ r.accept = a /\ r.webOnly = o.forceDowngrade
      /\ r.contentType = c /\ r.subprotocol = FALSE
    BY <1>3 DEF Fields
<1>5. Negotiation!PlainAnswer(r) = IF p = 2 /\ c = "grpc" THEN "grpc" ELSE "error"
    BY <1>4, PlainServer, Zenon
<1>6. /\ c \notin {"grpc", "grpc-web"} => Negotiation!DowngradingAnswer(e, r) = "http"
      /\ c \in {"grpc", "grpc-web"} =>
           Negotiation!DowngradingAnswer(e, r)
             = IF e.clientStream
               THEN IF p = 2 /\ e.path.te /\ ~o.forceDowngrade THEN "grpc" ELSE "error"
               ELSE IF e.path.te /\ ~o.forceDowngrade /\ ~e.preferGRPCWeb THEN "grpc" ELSE "grpc-web"
  <2>1. r.te \in BOOLEAN /\ r.webOnly \in BOOLEAN
    BY <1>4, Zenon DEF Around
  <2>2. \/ r.accept = {"grpc-web"} /\ r.webOnly
        \/ r.accept = {"grpc", "grpc-web"} /\ ~r.webOnly
    <3>1. CASE o.forceDowngrade
      <4>1. r.accept = {"grpc-web"}
        BY <1>1, <1>4, <3>1, Zenon
      <4>2. r.webOnly
        BY <1>4, <3>1
      <4> QED
        BY <4>1, <4>2
    <3>2. CASE ~o.forceDowngrade
      <4>1. r.accept = {"grpc", "grpc-web"}
        BY <1>1, <1>4, <3>2, Zenon
      <4>2. ~r.webOnly
        BY <1>4, <3>2
      <4> QED
        BY <4>1, <4>2, Zenon
    <3> QED
      BY <3>1, <3>2, Zenon
  <2>3. r.accept # {}
    BY <2>2
  <2>4. /\ r.contentType \notin {"grpc", "grpc-web"}
             => Negotiation!DowngradingAnswer(e, r) = "http"
        /\ r.contentType \in {"grpc", "grpc-web"} /\ r.accept # {}
             => Negotiation!DowngradingAnswer(e, r)
                  = IF e.clientStream
                    THEN IF r.proto = 2 /\ r.te /\ ~r.webOnly THEN "grpc" ELSE "error"
                    ELSE IF r.te /\ ~r.webOnly /\ ~e.preferGRPCWeb THEN "grpc" ELSE "grpc-web"
    <3>1. Asks(r)
      BY <1>4, <2>1, <2>2, Zenon DEF Asks
    <3> QED
      BY <3>1, DowngradingServer, Zenon
  <2> QED
    BY <1>4, <2>3, <2>4, Zenon
<1>7. e.server = "downgrading" => e.server # "plain"
    OBVIOUS
<1> QED
    BY <1>2, <1>5, <1>6, <1>7, Zenon DEF Negotiation!Answer

\* The options as the documentation reads them, and the settings they come to.
Reads(g, o) ==
    /\ o = Negotiation!ConnectOptions(g)
    /\ o.useWebSocket \in BOOLEAN /\ o.forceDowngrade \in BOOLEAN /\ o.forceHTTP2 \in BOOLEAN
    /\ o.useWebSocket <=> Negotiation!LastOf(g, {"UseWebSocket", "DontUseWebSocket"}, "") = "UseWebSocket"
    /\ o.forceDowngrade <=> Negotiation!Forced(g)
    /\ o.forceHTTP2 <=> "ForceHTTP2" \in Negotiation!Range(g)
    /\ o.contentType = Negotiation!LastOf(g, Negotiation!ContentTypes, "")
    /\ o.contentType \in Negotiation!ContentTypes

\* ConnectViaProxy comes to the settings the documentation reads.
LEMMA OptionsReadInOrder ==
    ASSUME NEW n \in Nat, NEW g \in [1 .. n -> Negotiation!Option]
    PROVE  Reads(g, Negotiation!ConnectOptions(g))
<1>1. PICK o : o = Negotiation!ConnectOptions(g)
    OBVIOUS
<1>2. o = Settings(g, DOMAIN g) /\ DOMAIN g = 1 .. n
    BY <1>1, OptionsInOrder
<1>3. o \in SettingType
    BY <1>2, SettingsType
<1>4. \A kind, d : Negotiation!LastOf(g, kind, d) = LastAt(g, DOMAIN g, kind, d)
    BY Zenon DEF Negotiation!LastOf, LastAt
<1>5. o.useWebSocket = (LastAt(g, DOMAIN g, WebSocketKind, "") = "UseWebSocket")
    BY <1>2, Zenon DEF Settings
<1>6. o.forceDowngrade = (LastAt(g, DOMAIN g, DowngradeKind, "") = "ForceDowngrade")
    BY <1>2, Zenon DEF Settings
<1>7. o.forceHTTP2 = (\E i \in DOMAIN g : g[i] = "ForceHTTP2")
    BY <1>2, Zenon DEF Settings
<1>8. o.contentType = LastAt(g, DOMAIN g, Negotiation!ContentTypes, "")
    BY <1>2, Zenon DEF Settings
<1>9. /\ o.useWebSocket \in BOOLEAN /\ o.forceDowngrade \in BOOLEAN /\ o.forceHTTP2 \in BOOLEAN
      /\ o.contentType \in Negotiation!ContentTypes
    BY <1>3 DEF SettingType
<1>10. o.forceHTTP2 <=> "ForceHTTP2" \in Negotiation!Range(g)
    BY <1>7, Zenon DEF Negotiation!Range
<1>11. o.forceDowngrade <=> Negotiation!Forced(g)
    BY <1>4, <1>6, Zenon DEF Negotiation!Forced, DowngradeKind
<1>12. o.useWebSocket <=> Negotiation!LastOf(g, {"UseWebSocket", "DontUseWebSocket"}, "") = "UseWebSocket"
    BY <1>4, <1>5, Zenon DEF WebSocketKind
<1>13. o.contentType = Negotiation!LastOf(g, Negotiation!ContentTypes, "")
    BY <1>4, <1>8, Zenon
<1> QED
    BY <1>1, <1>9, <1>10, <1>11, <1>12, <1>13, Zenon DEF Reads

\* The content type that is sent is gRPC's unless another is given.
LEMMA SentTypes ==
    ASSUME NEW o, o.contentType \in Negotiation!ContentTypes
    PROVE  /\ Sent(o) \in {"grpc", "grpc-web", "other"}
           /\ Sent(o) = "grpc" <=> o.contentType \in {"", "grpc"}
           /\ Sent(o) = "other" <=> o.contentType = "other"
<1>1. \/ o.contentType = "" \/ o.contentType = "grpc"
      \/ o.contentType = "grpc-web" \/ o.contentType = "other"
    BY Zenon DEF Negotiation!ContentTypes
<1>2. "" # "grpc" /\ "" # "grpc-web" /\ "" # "other"
    BY Zenon
<1>3. "grpc" # "grpc-web" /\ "grpc" # "other" /\ "grpc-web" # "other"
    OBVIOUS
<1>4. CASE o.contentType = ""
  <2>1. Sent(o) = "grpc"
    BY <1>4, Zenon DEF Sent
  <2> QED
    BY <1>2, <1>3, <1>4, <2>1, Zenon
<1>5. CASE o.contentType # ""
  <2>1. Sent(o) = o.contentType
    BY <1>5, Zenon DEF Sent
  <2> QED
    BY <1>1, <1>2, <1>3, <1>5, <2>1, Zenon
<1> QED
    BY <1>4, <1>5, Zenon

\* The promise is a matter of these conditions.
LEMMA PromiseMeans ==
    ASSUME NEW e, NEW g
    PROVE  /\ Negotiation!ForcedStreaming(e, g) /\ e.server = "plain"
                => Negotiation!Promise(e, g) = "nothing"
           /\ Negotiation!ForcedStreaming(e, g) /\ e.server # "plain"
                => Negotiation!Promise(e, g) = "fails"
           /\ ~Negotiation!ForcedStreaming(e, g) /\ ~Negotiation!TableApplies(e, g)
                => Negotiation!Promise(e, g) = "nothing"
           /\ ~Negotiation!ForcedStreaming(e, g) /\ Negotiation!TableApplies(e, g)
                => Negotiation!Promise(e, g)
                     = IF Negotiation!TableSaysOK(e, g) THEN "works" ELSE "fails"
    BY Zenon DEF Negotiation!Promise

\* A promise that is made is kept.
Honoured(e, g, a) ==
    Negotiation!Promise(e, g) # "nothing" =>
        (Negotiation!Usable(e, a) <=> Negotiation!Promise(e, g) = "works")

\* It is, if the answer is usable just where the table says so, and never by a
\* client-streaming call that is to be downgraded by a server with this library.
LEMMA HonouredIf ==
    ASSUME NEW e, NEW g, NEW a,
           ~Negotiation!ForcedStreaming(e, g) /\ Negotiation!TableApplies(e, g) =>
               (Negotiation!Usable(e, a) <=> Negotiation!TableSaysOK(e, g)),
           Negotiation!ForcedStreaming(e, g) /\ e.server # "plain" => ~Negotiation!Usable(e, a)
    PROVE  Honoured(e, g, a)
<1>1. "works" # "nothing" /\ "fails" # "nothing" /\ "works" # "fails"
    OBVIOUS
<1> QED
    BY <1>1, PromiseMeans, Zenon DEF Honoured

\* What the client can use of the answers there are.
LEMMA UsableAnswers ==
    ASSUME NEW e
    PROVE  /\ Negotiation!Usable(e, "grpc") <=> e.path.trailers
           /\ Negotiation!Usable(e, "grpc-web") <=> e.client = "proxy"
           /\ Negotiation!Usable(e, "websocket")
           /\ ~Negotiation!Usable(e, "error") /\ ~Negotiation!Usable(e, "http")
           /\ ~Negotiation!Usable(e, "unreachable")
    BY DEF Negotiation!Usable

\* To a gRPC client of its own.
LEMMA PlainPromised ==
    ASSUME NEW e, Around(e), NEW g, NEW o, e.client = "plain"
    PROVE  Honoured(e, g, Negotiation!Answer(e, o))
<1>1. Negotiation!Mode(e, g) = "plain"
    BY Zenon DEF Negotiation!Mode
<1>2. Negotiation!TableSaysOK(e, g) <=> ~e.path.http1
    BY <1>1 DEF Negotiation!TableSaysOK
<1>3. ~Negotiation!ForcedStreaming(e, g)
    BY <1>1 DEF Negotiation!ForcedStreaming
<1>4. Negotiation!Usable(e, Negotiation!Answer(e, o)) <=> ~e.path.http1
  <2>1. ~e.path.http1 => e.path.trailers
    BY DEF Around
  <2>2. Negotiation!Answer(e, o) = IF e.path.http1 THEN "unreachable" ELSE "grpc"
    BY PlainClient
  <2> QED
    BY <2>1, <2>2, UsableAnswers, Zenon
<1> QED
    BY <1>2, <1>3, <1>4, HonouredIf

\* Over a WebSocket.
LEMMA WebSocketPromised ==
    ASSUME NEW e, Around(e), NEW g, NEW o, Reads(g, o), e.client = "proxy", o.useWebSocket
    PROVE  Honoured(e, g, Negotiation!Answer(e, o))
<1>0. e.client # "plain" /\ (e.server = "plain" \/ e.server = "downgrading") /\ "plain" # "downgrading"
    BY DEF Around
<1>1. Negotiation!Mode(e, g) = "websocket"
    BY <1>0, Zenon DEF Negotiation!Mode, Reads
<1>2. Negotiation!TableSaysOK(e, g) <=> e.server = "downgrading" /\ e.path.upgrade
    BY <1>1 DEF Negotiation!TableSaysOK
<1>3. ~Negotiation!ForcedStreaming(e, g)
    BY <1>1 DEF Negotiation!ForcedStreaming
<1>4. Negotiation!Usable(e, Negotiation!Answer(e, o)) <=> e.server = "downgrading" /\ e.path.upgrade
  <2>1. CASE e.server = "plain"
    <3>1. Negotiation!Answer(e, o) = "unreachable" \/ Negotiation!Answer(e, o) = "error"
      BY <2>1, WebSocketClient, Zenon
    <3> QED
      BY <1>0, <2>1, <3>1, UsableAnswers, Zenon
  <2>2. CASE e.server = "downgrading"
    <3>1. Negotiation!Answer(e, o) = IF e.path.upgrade THEN "websocket" ELSE "error"
      BY <2>2, WebSocketClient, Zenon
    <3> QED
      BY <2>2, <3>1, UsableAnswers, Zenon
  <2> QED
    BY <1>0, <2>1, <2>2, Zenon
<1> QED
    BY <1>2, <1>3, <1>4, HonouredIf

\* Through the reverse proxy.
LEMMA WebPromised ==
    ASSUME NEW e, Around(e), NEW g, NEW o, Reads(g, o)
    PROVE  e.client = "proxy" /\ ~o.useWebSocket => Honoured(e, g, Negotiation!Answer(e, o))
<1> SUFFICES ASSUME e.client = "proxy", ~o.useWebSocket
             PROVE  Honoured(e, g, Negotiation!Answer(e, o))
    OBVIOUS
<1>1. e.client # "plain" /\ (e.server = "plain" \/ e.server = "downgrading") /\ "plain" # "downgrading"
    BY DEF Around
<1>2. Negotiation!Mode(e, g) = "web"
    BY <1>1, Zenon DEF Negotiation!Mode, Reads
<1>3. PICK p, c, a : p = Negotiation!Protocol(e, o) /\ c = Sent(o) /\ a = Negotiation!Answer(e, o)
    OBVIOUS
<1>4. /\ c \in {"grpc", "grpc-web", "other"}
      /\ c = "grpc" <=> Negotiation!LastOf(g, Negotiation!ContentTypes, "") \in {"", "grpc"}
      /\ c = "other" <=> Negotiation!LastOf(g, Negotiation!ContentTypes, "") = "other"
    BY <1>3, SentTypes, Zenon DEF Reads
<1>5. p = IF o.forceHTTP2 \/ (e.tls /\ 2 \in Negotiation!Protocols(e)) THEN 2 ELSE 1
    BY <1>1, <1>3, Zenon DEF Negotiation!Protocol
<1>6. /\ 1 \in Negotiation!Protocols(e) <=> e.path.http1 \/ e.server = "downgrading"
      /\ 2 \in Negotiation!Protocols(e) <=> ~e.path.http1
    BY ProtocolsOf
<1>7. /\ e.path.http1 \in BOOLEAN /\ e.path.te \in BOOLEAN /\ e.path.trailers \in BOOLEAN
      /\ e.tls \in BOOLEAN /\ e.clientStream \in BOOLEAN /\ e.preferGRPCWeb \in BOOLEAN
      /\ ~e.path.http1 => e.path.te /\ e.path.trailers
    BY DEF Around
<1>8. Negotiation!TableApplies(e, g)
        <=> /\ IF e.path.http1 THEN ~o.forceHTTP2 ELSE e.tls \/ o.forceHTTP2
            /\ e.path.te => e.path.trailers
    BY <1>2, Zenon DEF Negotiation!TableApplies, Reads
<1>9. o.forceHTTP2 \in BOOLEAN /\ o.forceDowngrade \in BOOLEAN
    BY DEF Reads
<1>10. Negotiation!TableApplies(e, g) =>
          /\ p \in Negotiation!Protocols(e)
          /\ p = 2 <=> ~e.path.http1
    BY <1>5, <1>6, <1>7, <1>8, <1>9
<1>11. CASE e.server = "plain"
  <2>1. Negotiation!TableSaysOK(e, g) <=> ~e.path.http1 /\ c = "grpc"
    BY <1>2, <1>4, <1>11 DEF Negotiation!TableSaysOK
  <2>3. p \in Negotiation!Protocols(e) => a = IF p = 2 /\ c = "grpc" THEN "grpc" ELSE "error"
    BY <1>3, <1>9, <1>11, WebClient, Zenon
  <2>4. Negotiation!TableApplies(e, g) =>
            (Negotiation!Usable(e, a) <=> Negotiation!TableSaysOK(e, g))
    BY <1>7, <1>10, <2>1, <2>3, UsableAnswers, Zenon
  <2> QED
    BY <1>3, <1>11, <2>4, HonouredIf
<1>12. CASE e.server = "downgrading"
  <2>1. Negotiation!TableSaysOK(e, g)
          <=> c # "other" /\ (e.clientStream => ~e.path.http1)
    BY <1>1, <1>2, <1>4, <1>12 DEF Negotiation!TableSaysOK
  <2>2. p \in Negotiation!Protocols(e) /\ c = "other" => a = "http"
    <3>1. c = "other" => c \notin {"grpc", "grpc-web"}
      OBVIOUS
    <3> QED
      BY <1>3, <1>9, <1>12, <3>1, WebClient, Zenon
  <2>3. p \in Negotiation!Protocols(e) /\ c # "other"
          => a = IF e.clientStream
                 THEN IF p = 2 /\ e.path.te /\ ~o.forceDowngrade THEN "grpc" ELSE "error"
                 ELSE IF e.path.te /\ ~o.forceDowngrade /\ ~e.preferGRPCWeb THEN "grpc" ELSE "grpc-web"
    BY <1>3, <1>4, <1>9, <1>12, WebClient, Zenon
  <2>4. Negotiation!ForcedStreaming(e, g) <=> o.forceDowngrade /\ e.clientStream
    BY <1>2, Zenon DEF Negotiation!ForcedStreaming, Reads
  <2>5. ~Negotiation!ForcedStreaming(e, g) /\ Negotiation!TableApplies(e, g) =>
            (Negotiation!Usable(e, a) <=> Negotiation!TableSaysOK(e, g))
    <3> SUFFICES ASSUME ~Negotiation!ForcedStreaming(e, g), Negotiation!TableApplies(e, g)
                 PROVE  Negotiation!Usable(e, a) <=> Negotiation!TableSaysOK(e, g)
      OBVIOUS
    <3>1. p \in Negotiation!Protocols(e) /\ (p = 2 <=> ~e.path.http1) /\ (e.path.te => e.path.trailers)
      BY <1>8, <1>10, Zenon
    <3>2. CASE c = "other"
      BY <2>1, <2>2, <3>1, <3>2, UsableAnswers, Zenon
    <3>3. CASE c # "other" /\ e.clientStream
      BY <1>7, <2>1, <2>3, <2>4, <3>1, <3>3, UsableAnswers, Zenon
    <3>4. CASE c # "other" /\ ~e.clientStream
      BY <1>7, <2>1, <2>3, <3>1, <3>4, UsableAnswers, Zenon
    <3> QED
      BY <3>2, <3>3, <3>4, Zenon
  <2>6. ASSUME Negotiation!ForcedStreaming(e, g) PROVE ~Negotiation!Usable(e, a)
    <3>1. CASE p \notin Negotiation!Protocols(e)
      <4>1. a = "unreachable"
        BY <1>3, <3>1, Zenon DEF Negotiation!Answer
      <4> QED
        BY <4>1, UsableAnswers, Zenon
    <3>2. CASE p \in Negotiation!Protocols(e)
      <4>1. a = "http" \/ a = "error"
        BY <2>2, <2>3, <2>4, <2>6, <3>2, Zenon
      <4> QED
        BY <4>1, UsableAnswers, Zenon
    <3> QED
      BY <3>1, <3>2, Zenon
  <2> QED
    BY <1>3, <2>5, <2>6, HonouredIf
<1> QED
    BY <1>1, <1>11, <1>12, Zenon

\* Whatever the options and the surroundings.
LEMMA Promised ==
    ASSUME NEW e \in Negotiation!Surroundings, NEW n \in Nat, NEW g \in [1 .. n -> Negotiation!Option]
    PROVE  Honoured(e, g, Negotiation!Answer(e, Negotiation!ConnectOptions(g)))
<1>1. PICK o : o = Negotiation!ConnectOptions(g)
    OBVIOUS
<1>2. Around(e) /\ Reads(g, o)
    BY <1>1, SurroundingsAround, OptionsReadInOrder
<1>3. e.client = "plain" \/ e.client = "proxy"
    BY <1>2 DEF Around
<1>4. e.client = "plain" => Honoured(e, g, Negotiation!Answer(e, o))
    BY <1>2, PlainPromised, Zenon
<1>5. e.client = "proxy" /\ o.useWebSocket => Honoured(e, g, Negotiation!Answer(e, o))
    BY <1>2, WebSocketPromised, Zenon
<1>6. e.client = "proxy" /\ ~o.useWebSocket => Honoured(e, g, Negotiation!Answer(e, o))
    BY <1>2, WebPromised
<1> QED
    BY <1>1, <1>3, <1>4, <1>5, <1>6, Zenon

\* The proxy's own instance of the encoding is the same.
LEMMA SameEncoding ==
    ASSUME NEW s
    PROVE  Client!Message!EncodeGrpcMessage(s) = Message!EncodeGrpcMessage(s)
    BY DEF Message!EncodeGrpcMessage, Message!encodeGrpcMessageUnchecked, Message!EncodedRune,
       Message!EncodedByte, Message!Percent, Message!HexDigit, Message!RuneBytes, Message!RuneSize,
       Message!SecondByte, Message!Allowable, Message!From, Message!Byte, Message!FlattenSeq,
       Client!Message!EncodeGrpcMessage, Client!Message!encodeGrpcMessageUnchecked,
       Client!Message!EncodedRune, Client!Message!EncodedByte, Client!Message!Percent,
       Client!Message!HexDigit, Client!Message!RuneBytes, Client!Message!RuneSize,
       Client!Message!SecondByte, Client!Message!Allowable, Client!Message!From,
       Client!Message!Byte, Client!Message!FlattenSeq

\* A text that is encoded can be read, and its encoding is printable.
LEMMA EncodedReadable ==
    ASSUME NEW t \in Texts, NEW m, m = Client!Message!EncodeGrpcMessage(t)
    PROVE  /\ \A i \in DOMAIN m : m[i] \in 32 .. 126
           /\ Message!Decoded[m] = Message!Repaired[t]
<1>1. t \in Bytes
    BY TextsAssumption, Zenon DEF Message!Text, Bytes
<1>2. m = Message!EncodeGrpcMessage(t)
    BY SameEncoding
<1>3. m \in Printable /\ Message!Decoded[m] = Message!Repaired[t]
    BY <1>1, <1>2, TextArrives
<1>4. \A q \in Seq(32 .. 126) : \A i \in DOMAIN q : q[i] \in 32 .. 126
  <2>1. \A q \in Seq(32 .. 126) : DOMAIN q = 1 .. Len(q)
    OBVIOUS
  <2> QED
    BY <2>1, ElementOfSeq, Zenon
<1> QED
    BY <1>3, <1>4, Zenon DEF Printable

\* Nobody but writeError sets the text of an error.
LEMMA TextKept ==
    ASSUME Inv, Client!Respond \/ Client!Copy \/ Client!CopyEnd \/ Client!CopyErr
    PROVE  out'.text = out.text /\ out'.message = out.message
<1>1. OutType
    BY DEF Inv, TypeInv
<1>2. PICK o : o = out
    OBVIOUS
<1>3. o = [headers |-> o.headers, headerKeys |-> o.headerKeys, ctype |-> o.ctype,
           data |-> o.data, trailerKeys |-> o.trailerKeys, end |-> o.end,
           origin |-> o.origin, text |-> o.text, message |-> o.message]
    BY <1>1, <1>2, OutFields
<1>4. CASE Client!Respond
  <2>1. PICK h, k, c : out' = [o EXCEPT !.headers = h, !.headerKeys = k, !.ctype = c]
    BY <1>2, <1>4 DEF Client!Respond, Client!WriteHeader
  <2> QED
    BY <1>2, <1>3, <2>1
<1>5. CASE Client!Copy
  <2>1. out' = out \/ \E h, d : out' = [o EXCEPT !.headers = h, !.data = d]
    BY <1>2, <1>5 DEF Client!Copy
  <2> QED
    BY <1>2, <1>3, <2>1
<1>6. CASE Client!CopyEnd
  <2>1. PICK u, k : u = [o EXCEPT !.trailerKeys = k] /\ out' = Client!Ended(u)
    BY <1>2, <1>6, Zenon DEF Client!CopyEnd
  <2>2. u = [headers |-> o.headers, headerKeys |-> o.headerKeys, ctype |-> o.ctype,
             data |-> o.data, trailerKeys |-> k, end |-> o.end,
             origin |-> o.origin, text |-> o.text, message |-> o.message]
    BY <1>3, <2>1
  <2>3. PICK h, e : out' = [u EXCEPT !.headers = h, !.end = e]
    BY <2>1 DEF Client!Ended
  <2> QED
    BY <1>2, <2>2, <2>3
<1>7. CASE Client!CopyErr
  <2>1. out' = [o EXCEPT !.end = "reset"]
    BY <1>2, <1>7 DEF Client!CopyErr
  <2> QED
    BY <1>2, <1>3, <2>1
<1> QED
    BY <1>4, <1>5, <1>6, <1>7

\* What writeError sends.
LEMMA TextSent ==
    ASSUME Inv, Client!WriteError
    PROVE  \E t \in Texts : out'.text = t /\ out'.message = Client!Message!EncodeGrpcMessage(t)
<1>1. OutType
    BY DEF Inv, TypeInv
<1>2. PICK t, u, m :
        /\ t \in Texts /\ u = Client!WriteHeader({}, "grpc") /\ m = Client!Message!EncodeGrpcMessage(t)
        /\ out' = Client!Ended([u EXCEPT !.trailerKeys = {"Grpc-Status"}, !.origin = "proxy",
                                         !.text = t, !.message = m])
    BY Zenon DEF Client!WriteError
<1>3. PICK o : o = out
    OBVIOUS
<1>4. o = [headers |-> o.headers, headerKeys |-> o.headerKeys, ctype |-> o.ctype,
           data |-> o.data, trailerKeys |-> o.trailerKeys, end |-> o.end,
           origin |-> o.origin, text |-> o.text, message |-> o.message]
    BY <1>1, <1>3, OutFields
<1>5. PICK h, k, c : u = [o EXCEPT !.headers = h, !.headerKeys = k, !.ctype = c]
    BY <1>2, <1>3 DEF Client!WriteHeader
<1>6. DOMAIN u = {"headers", "headerKeys", "ctype", "data", "trailerKeys", "end", "origin",
                  "text", "message"}
    BY <1>4, <1>5
<1>7. PICK v : v = [u EXCEPT !.trailerKeys = {"Grpc-Status"}, !.origin = "proxy",
                             !.text = t, !.message = m]
    OBVIOUS
<1>8. v.text = t /\ v.message = m /\ DOMAIN v = DOMAIN u
    BY <1>6, <1>7
<1>9. out' = Client!Ended(v)
    BY <1>2, <1>7, Zenon
<1>10. PICK g, e : out' = [v EXCEPT !.headers = g, !.end = e]
    BY <1>9 DEF Client!Ended
<1>11. out'.text = t /\ out'.message = m
    BY <1>6, <1>8, <1>10
<1> QED
    BY <1>2, <1>11

------------------------------------------------------------------------------
(* The theorems about errors and promises                                   *)

\* A call starts without an error, and no text is the encoding of no text.
LEMMA TextInit == Init => ErrorTextArrives
<1> SUFFICES ASSUME Init PROVE ErrorTextArrives
    OBVIOUS
<1>1. out.text = <<>> /\ out.message = <<>>
    BY DEF Init, Client!Init
<1>2. <<>> \in Bytes
    BY DEF Bytes
<1>3. Message!Decoded[<<>>] = <<>> /\ Message!Repaired[<<>>] = <<>>
    BY <1>2, DecodeUnfold, RepairUnfold
<1>4. DOMAIN <<>> = {}
    OBVIOUS
<1> QED
    BY <1>1, <1>3, <1>4, Zenon DEF ErrorTextArrives

\* Every step leaves a text that can be read.
LEMMA TextNext ==
    ASSUME Inv, ErrorTextArrives, [Next]_vars
    PROVE  ErrorTextArrives'
<1>1. CASE UNCHANGED <<out.text, out.message>>
    BY <1>1, Zenon DEF ErrorTextArrives
<1>2. CASE Proxy
  <2>1. CASE Client!WriteError
    <3>1. PICK t \in Texts : out'.text = t /\ out'.message = Client!Message!EncodeGrpcMessage(t)
      BY <2>1, TextSent
    <3>2. PICK m : m = Client!Message!EncodeGrpcMessage(t)
      OBVIOUS
    <3>3. (\A i \in DOMAIN m : m[i] \in 32 .. 126) /\ Message!Decoded[m] = Message!Repaired[t]
      BY <3>2, EncodedReadable
    <3> QED
      BY <3>1, <3>2, <3>3, Zenon DEF ErrorTextArrives
  <2>2. CASE Client!Respond \/ Client!Copy \/ Client!CopyEnd \/ Client!CopyErr
    BY <1>1, <2>2, TextKept
  <2> QED
    BY <1>2, <2>1, <2>2 DEF Proxy, Client!Proxy
<1>3. CASE UNCHANGED out
    BY <1>1, <1>3
<1>4. CASE Negotiate \/ GRPCServer \/ Handler \/ Cut \/ UNCHANGED vars
  <2>1. UNCHANGED out
    BY <1>4 DEF Negotiate, GRPCServer, Handler, Cut, vars, proxyVars
  <2> QED
    BY <1>3, <2>1
<1> QED
    BY <1>2, <1>4 DEF Next

\* Whatever bytes the text of an error consists of, what writeError puts into the
\* grpc-message header is printable ASCII, and the gRPC client decodes it to that text,
\* with a replacement character for each byte that is not UTF-8.
THEOREM ErrorTextReadable == Spec => []ErrorTextArrives
<1>1. Inv /\ ErrorTextArrives /\ [Next]_vars => ErrorTextArrives'
    BY TextNext
<1> QED
    BY InvHolds, TextInit, <1>1, PTL DEF Spec

\* The options of a call, also those of a client without this library, are a list.
LEMMA OptionsAreListed ==
    ASSUME NEW e, NEW g \in IF e.client = "proxy" THEN Negotiation!OptionLists(MaxOptions) ELSE {<<>>}
    PROVE  \E n \in Nat : g \in [1 .. n -> Negotiation!Option]
<1>1. CASE g = <<>>
    BY <1>1
<1>2. CASE g \in Negotiation!OptionLists(MaxOptions)
  <2>1. PICK n \in 0 .. MaxOptions : g \in [1 .. n -> Negotiation!Option]
    BY <1>2, Zenon DEF Negotiation!OptionLists
  <2>2. n \in Nat
    BY MaxOptionsAssumption
  <2> QED
    BY <2>1, <2>2, Zenon
<1> QED
    BY <1>1, <1>2, Zenon

\* Settling on a form keeps the promise, and it is not changed later.
LEMMA PromiseNext ==
    ASSUME PromiseKept, [Next]_vars
    PROVE  PromiseKept'
<1>1. CASE Negotiate
  <2>1. PICK e \in Negotiation!Surroundings :
         \E g \in IF e.client = "proxy" THEN Negotiation!OptionLists(MaxOptions) ELSE {<<>>} :
         LET a == Negotiation!Answer(e, Negotiation!ConnectOptions(g))
         IN  deal' = [answer |-> a, usable |-> Negotiation!Usable(e, a),
                      promise |-> Negotiation!Promise(e, g)]
    BY <1>1, Zenon DEF Negotiate
  <2>2. PICK g \in IF e.client = "proxy" THEN Negotiation!OptionLists(MaxOptions) ELSE {<<>>} :
         LET a == Negotiation!Answer(e, Negotiation!ConnectOptions(g))
         IN  deal' = [answer |-> a, usable |-> Negotiation!Usable(e, a),
                      promise |-> Negotiation!Promise(e, g)]
    BY <2>1, Zenon
  <2>3. PICK a : /\ a = Negotiation!Answer(e, Negotiation!ConnectOptions(g))
                 /\ deal' = [answer |-> a, usable |-> Negotiation!Usable(e, a),
                             promise |-> Negotiation!Promise(e, g)]
    BY <2>2, Zenon
  <2>4. PICK n \in Nat : g \in [1 .. n -> Negotiation!Option]
    BY OptionsAreListed
  <2>5. Honoured(e, g, a)
    BY <2>3, <2>4, Promised
  <2>6. deal'.usable = Negotiation!Usable(e, a) /\ deal'.promise = Negotiation!Promise(e, g)
    BY <2>3, Zenon
  <2> QED
    BY <2>5, <2>6, Zenon DEF PromiseKept, Honoured
<1>2. CASE GRPCServer \/ Handler \/ Proxy \/ Cut \/ UNCHANGED vars
  <2>1. UNCHANGED deal
    BY <1>2 DEF GRPCServer, Handler, Proxy, Cut, vars
  <2> QED
    BY <2>1, Zenon DEF PromiseKept
<1> QED
    BY <1>1, <1>2 DEF Next

\* For any list of options, however long, any kind of client and server, any method and
\* any proxy in between, a call is answered in a form its client can use exactly where
\* the table of the README says so; but client-streaming calls with ForceDowngrade never
\* are by a server with this library, as that option's comment says.  Nothing is claimed
\* for them and a server without it, of which the comment is wrong, nor where the table
\* does not apply.
THEOREM PromisesHold == Spec => []PromiseKept
<1>1. Init => PromiseKept
    BY DEF Init, PromiseKept
<1>2. PromiseKept /\ [Next]_vars => PromiseKept'
    BY PromiseNext
<1> QED
    BY <1>1, <1>2, PTL DEF Spec
==============================================================================
