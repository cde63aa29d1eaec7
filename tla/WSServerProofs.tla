---------------------------- MODULE WSServerProofs ----------------------------
(***************************************************************************)
(* Proofs about WSServer, for any number of messages, any sizes of their   *)
(* payloads and any length that an error text declares.                    *)
(***************************************************************************)
EXTENDS WSServer, FiniteSetTheorems, SequenceTheorems, TLAPS

\* The body of an HTTP error has been written, after the header.
HasText == Len(issued) >= 2 /\ issued[2].kind = "text"

\* The handler's side before Close: what the response writer has been given and what it
\* remembers of it.
ServeInv ==
    /\ mainPc = "accept" => writePc = "idle"
    /\ mainPc \in {"accept", "serve"} =>
         /\ headersSet = headerWritten
         /\ ~headersSet => hdr = {}
         /\ ~statusSet /\ ~HasText
    /\ mainPc \in {"accept", "serve", "returned"} =>
         /\ ~headerWritten => issued = <<>>
         /\ headerWritten => issued # <<>> /\ issued[1].keys \subseteq {"H"}
         /\ \A i \in 2 .. Len(issued) : issued[i].keys = {}
         /\ issued # <<>> => announced \/ HasText
         /\ HasText => Len(issued) = 2
         /\ statusSet => "Grpc-Status" \in hdr
         /\ ~pipeClosed

\* And after it: the last frame is the trailers.
CloseInv ==
    /\ mainPc \in {"closing", "wait", "done"} /\ writePc # "idle" =>
         /\ Len(issued) >= 1
         /\ HasText => Len(issued) = 3 /\ issued[3].length <= 6
         /\ statusSet => "Grpc-Status" \in issued[Len(issued)].keys
    /\ writePc = "idle" => issued = <<>> /\ pipe = <<>> /\ ~statusSet

KeysInv ==
    /\ \A i \in 1 .. Len(issued) :
         /\ issued[i].keys \cap {"Trailer", "Trailer:T"} = {}
         /\ issued[i].kind = "text" => i = 2 /\ issued[i].length = TextSize
    /\ ~HasText =>
         \A i, j \in 1 .. Len(issued) : i # j => issued[i].keys \cap issued[j].keys = {}

\* The frame that grpcwebsocket.Write has before it, and the two pieces of a frame.
Current == Len(outbox) + 1

Hdr(i) == [frame |-> i, size |-> MessageHeaderLength, length |-> issued[i].length]

Pay(i) == [frame |-> i, size |-> issued[i].length, length |-> 0]

\* The pieces of the frames from the i-th on; the pipe never has more than two.
RestOf(frames, i) ==
    IF i > Len(frames) THEN <<>>
    ELSE IF i = Len(frames) THEN Pieces(i, frames[i])
    ELSE Pieces(i, frames[i]) \o Pieces(i + 1, frames[i + 1])

Rest(i) == RestOf(issued, i)

\* Between two frames; the empty payload of the last one may still be in the pipe.
Between ==
    /\ writePc = "header" /\ msg = <<>> /\ need = MessageHeaderLength
    /\ Len(issued) - 1 <= Current
    /\ HasText => Len(issued) = 2
    /\ \/ pipe = Rest(Current)
       \/ /\ Current > 1
          /\ issued[Current - 1].length = 0
          /\ pipe = <<Pay(Current - 1)>> \o Rest(Current)

InFrame ==
    /\ Len(issued) - 1 <= Current /\ Current <= Len(issued)
    /\ issued[Current].kind # "text"
    /\ HasText => Len(issued) = 2

\* The header is read; its length is known; the payload is read too.
InHeader ==
    /\ writePc = "header" /\ msg = <<Hdr(Current)>> /\ need = 0
    /\ InFrame
    /\ pipe = <<Pay(Current)>> \o Rest(Current + 1)

InPayload ==
    /\ writePc = "payload" /\ msg = <<Hdr(Current)>> /\ need = issued[Current].length
    /\ InFrame
    /\ pipe = <<Pay(Current)>> \o Rest(Current + 1)

AllRead ==
    /\ writePc = "payload" /\ msg = <<Hdr(Current), Pay(Current)>> /\ need = 0
    /\ issued[Current].length > 0
    /\ InFrame
    /\ pipe = Rest(Current + 1)

\* The text is taken for a frame, whose end never comes.
TextRest == [frame |-> 2, size |-> TextSize - MessageHeaderLength, length |-> TextLength]

InTextHeader ==
    /\ writePc = "header" /\ need = 0 /\ msg # <<>> /\ msg[1].length = TextLength
    /\ HasText /\ Len(outbox) = 1 /\ Len(issued) = 2
    /\ pipe = <<TextRest>>

InText ==
    /\ writePc = "payload"
    /\ HasText /\ Len(outbox) = 1
    /\ \/ Len(issued) = 2 /\ need = TextLength /\ pipe = <<TextRest>>
       \/ Len(issued) = 2 /\ need = TextLength - 1 /\ pipe = <<>>
       \/ Len(issued) = 3 /\ need = TextLength - 1 /\ pipe = <<Hdr(3), Pay(3)>>
       \/ Len(issued) = 3 /\ need = TextLength - 6 /\ pipe = <<Pay(3)>>
       \/ Len(issued) = 3 /\ need >= TextLength - 12 /\ pipe = <<>>

WriterInv ==
    /\ writePc = "idle" => mainPc \in {"accept", "done"} /\ link = "none" /\ msg = <<>>
                             /\ need = MessageHeaderLength /\ outbox = <<>>
    /\ writePc \in {"header", "payload"} =>
         Between \/ InHeader \/ InPayload \/ AllRead \/ InTextHeader \/ InText

\* A normal closure comes from a writer that has met the end of the pipe.
EndInv ==
    /\ pipeClosed => mainPc \in {"wait", "done"}
    /\ writePc = "done" /\ link = "up" => pipeClosed /\ Len(outbox) = Len(issued)
    /\ closeCode = "normal" =>
         /\ mainPc = "done" /\ writePc = "done" /\ link = "down"
         /\ Len(outbox) = Len(issued)

Inv == TypeOK /\ ServeInv /\ CloseInv /\ KeysInv /\ FramesInOrder /\ WriterInv /\ EndInv

------------------------------------------------------------------------------
(* Sequences and frames                                                     *)

\* A sequence of one element, and one put before another sequence.
LEMMA One ==
    ASSUME NEW S, NEW a \in S, NEW s \in Seq(S)
    PROVE  /\ <<a>> \in Seq(S) /\ <<a>> # <<>> /\ <<a>>[1] = a
           /\ <<a>> \o s \in Seq(S) /\ <<a>> \o s # <<>>
           /\ Head(<<a>> \o s) = a /\ Tail(<<a>> \o s) = s
           /\ <<a>> \o <<>> = <<a>>
<1>1. <<a>> \in Seq(S) /\ Len(<<a>>) = 1 /\ <<a>>[1] = a
    BY EmptySeq, AppendProperties
<1> DEFINE c == <<a>> \o s
<1>2. /\ c \in Seq(S) /\ Len(c) = 1 + Len(s) /\ Len(s) \in Nat
      /\ c[1] = a /\ \A i \in 1 .. Len(s) : c[i + 1] = s[i]
  <2>1. /\ c \in Seq(S) /\ Len(c) = 1 + Len(s) /\ Len(s) \in Nat
        /\ \A i \in 1 .. 1 + Len(s) : c[i] = IF i <= 1 THEN <<a>>[i] ELSE s[i - 1]
    BY <1>1, ConcatProperties, LenProperties
  <2> QED
    BY <1>1, <2>1
<1>3. <<a>> \o <<>> = <<a>>
    BY <1>1, ConcatEmptySeq
<1> HIDE DEF c
<1>4. c # <<>>
    BY <1>2, EmptySeq
<1>5. Head(c) = a /\ Tail(c) \in Seq(S) /\ Len(Tail(c)) = Len(s)
      /\ \A i \in 1 .. Len(s) : Tail(c)[i] = c[i + 1]
    BY <1>2, <1>4, HeadTailProperties
<1>6. Tail(c) = s
    BY <1>2, <1>5, SeqEqual
<1>7. <<a>> # <<>>
    BY <1>1, EmptySeq
<1> QED
    BY <1>1, <1>2, <1>3, <1>4, <1>5, <1>6, <1>7 DEF c

\* The same of two elements.
LEMMA Two ==
    ASSUME NEW S, NEW a \in S, NEW b \in S, NEW s \in Seq(S)
    PROVE  /\ <<a, b>> \in Seq(S) /\ <<a, b>> # <<>> /\ <<a, b>> = <<a>> \o <<b>>
           /\ <<a, b>> \o s \in Seq(S)
           /\ <<a, b>> \o <<>> = <<a, b>> /\ Append(<<a>>, b) = <<a, b>>
<1>1. <<a>> \in Seq(S) /\ <<b>> \in Seq(S) /\ Len(<<a>>) = 1 /\ <<b>>[1] = b /\ <<a>>[1] = a
    BY EmptySeq, AppendProperties
<1>2. <<a, b>> = Append(<<a>>, b)
    OBVIOUS
<1>3. <<a, b>> = <<a>> \o <<b>>
    BY <1>1, <1>2, AppendIsConcat
<1>4. <<a, b>> \in Seq(S) /\ <<a, b>> # <<>>
    BY <1>1, <1>2, AppendProperties
<1> QED
    BY <1>2, <1>3, <1>4, ConcatProperties, ConcatEmptySeq

\* The first of two elements, then the rest.
LEMMA TwoThenRest ==
    ASSUME NEW S, NEW a \in S, NEW b \in S, NEW s \in Seq(S)
    PROVE  <<a, b>> \o s = <<a>> \o (<<b>> \o s)
<1>1. <<a>> \in Seq(S) /\ <<b>> \in Seq(S) /\ <<a, b>> = <<a>> \o <<b>>
    BY One, Two
<1> QED
    BY <1>1, ConcatAssociative

\* A header map has six keys at most.
LEMMA KeysCount ==
    ASSUME NEW keys, keys \subseteq Keys
    PROVE  Cardinality(keys) \in Nat /\ Cardinality(keys) <= 6
<1> DEFINE k1 == {"H"}
           k2 == k1 \cup {"Content-Length"}
           k3 == k2 \cup {"Trailer"}
           k4 == k3 \cup {"Grpc-Status"}
           k5 == k4 \cup {"Trailer:T"}
           k6 == k5 \cup {"T"}
<1>1. IsFiniteSet(k1) /\ Cardinality(k1) = 1
    BY FS_Singleton
<1> HIDE DEF k1
<1>2. IsFiniteSet(k2) /\ Cardinality(k2) \in Nat /\ Cardinality(k2) <= 2
    BY <1>1, FS_AddElement
<1> HIDE DEF k2
<1>3. IsFiniteSet(k3) /\ Cardinality(k3) \in Nat /\ Cardinality(k3) <= 3
    BY <1>2, FS_AddElement
<1> HIDE DEF k3
<1>4. IsFiniteSet(k4) /\ Cardinality(k4) \in Nat /\ Cardinality(k4) <= 4
    BY <1>3, FS_AddElement
<1> HIDE DEF k4
<1>5. IsFiniteSet(k5) /\ Cardinality(k5) \in Nat /\ Cardinality(k5) <= 5
    BY <1>4, FS_AddElement
<1> HIDE DEF k5
<1>6. IsFiniteSet(k6) /\ Cardinality(k6) \in Nat /\ Cardinality(k6) <= 6
    BY <1>5, FS_AddElement
<1>7. keys \in SUBSET k6
    BY DEF Keys, k1, k2, k3, k4, k5
<1> HIDE DEF k6
<1>8. IsFiniteSet(keys) /\ Cardinality(keys) <= Cardinality(k6)
    BY <1>6, <1>7, FS_Subset
<1> QED
    BY <1>6, <1>8, FS_CardinalityType

\* What is written are frames, and text.
LEMMA FrameTypes ==
    /\ \A keys \in SUBSET Keys : Metadata(keys) \in Frame /\ Metadata(keys).length <= 6
    /\ \A n \in PayloadSizes : Data(n) \in Frame
    /\ Text \in Frame
<1>1. ASSUME NEW keys \in SUBSET Keys
      PROVE Metadata(keys) \in Frame /\ Metadata(keys).length <= 6
    BY KeysCount DEF Metadata, Frame
<1>2. ASSUME NEW n \in PayloadSizes PROVE Data(n) \in Frame
    BY PayloadSizesAssumption DEF Data, Frame
<1>3. Text \in Frame
    BY DEF Text, Frame, TextSize
<1> QED
    BY <1>1, <1>2, <1>3

\* What goes into the pipe are pieces.
LEMMA PiecesType ==
    ASSUME NEW i \in Nat, NEW f \in Frame
    PROVE  Pieces(i, f) \in Seq(Piece) /\ Pieces(i, f) # <<>>
<1>1. /\ [frame |-> i, size |-> f.length, length |-> TextLength] \in Piece
      /\ [frame |-> i, size |-> MessageHeaderLength, length |-> f.length] \in Piece
      /\ [frame |-> i, size |-> f.length, length |-> 0] \in Piece
    BY TextLengthAssumption DEF Piece, Frame, MessageHeaderLength
<1>2. <<>> \in Seq(Piece)
    BY EmptySeq
<1> QED
    BY <1>1, <1>2, One, Two DEF Pieces

\* The pieces of the frames from the i-th on.
LEMMA RestType ==
    ASSUME NEW frames \in Seq(Frame), NEW i \in Nat \ {0}
    PROVE  RestOf(frames, i) \in Seq(Piece)
<1>1. ASSUME NEW j \in Nat \ {0}, j <= Len(frames)
      PROVE  Pieces(j, frames[j]) \in Seq(Piece)
  <2>1. frames[j] \in Frame
    BY <1>1, ElementOfSeq
  <2> QED
    BY <2>1, PiecesType
<1>2. CASE i > Len(frames)
    BY <1>2, EmptySeq DEF RestOf
<1>3. CASE i = Len(frames)
    BY <1>1, <1>3 DEF RestOf
<1>4. CASE i < Len(frames)
  <2>1. i + 1 \in Nat \ {0} /\ i + 1 <= Len(frames)
    BY <1>4
  <2>2. Pieces(i, frames[i]) \in Seq(Piece) /\ Pieces(i + 1, frames[i + 1]) \in Seq(Piece)
    BY <1>1, <1>4, <2>1
  <2>3. RestOf(frames, i) = Pieces(i, frames[i]) \o Pieces(i + 1, frames[i + 1])
    BY <1>4 DEF RestOf
  <2> QED
    BY <2>2, <2>3, ConcatProperties
<1>5. Len(frames) \in Nat
    OBVIOUS
<1> QED
    BY <1>2, <1>3, <1>4, <1>5

\* Of the last two frames, those of the i-th come first.
LEMMA RestStep ==
    ASSUME NEW frames \in Seq(Frame), NEW i \in 1 .. Len(frames), Len(frames) - 1 <= i
    PROVE  /\ RestOf(frames, i) = Pieces(i, frames[i]) \o RestOf(frames, i + 1)
           /\ RestOf(frames, i) # <<>>
<1>0. Len(frames) \in Nat /\ i \in Nat \ {0}
    OBVIOUS
<1>1. Pieces(i, frames[i]) \in Seq(Piece) /\ Pieces(i, frames[i]) # <<>>
  <2>1. frames[i] \in Frame
    BY ElementOfSeq
  <2> QED
    BY <1>0, <2>1, PiecesType
<1>2. RestOf(frames, i) = Pieces(i, frames[i]) \o RestOf(frames, i + 1)
  <2>1. CASE i = Len(frames)
    <3>1. RestOf(frames, i + 1) = <<>> /\ RestOf(frames, i) = Pieces(i, frames[i])
        BY <1>0, <2>1 DEF RestOf
    <3> QED
        BY <1>1, <3>1, ConcatEmptySeq
  <2>2. CASE i + 1 = Len(frames)
    <3>1. ~(i > Len(frames)) /\ i # Len(frames) /\ ~(i + 1 > Len(frames))
        BY <1>0, <2>2
    <3>2. RestOf(frames, i + 1) = Pieces(i + 1, frames[i + 1])
        BY <2>2, <3>1 DEF RestOf
    <3> QED
        BY <3>1, <3>2 DEF RestOf
  <2> QED
    BY <1>0, <2>1, <2>2
<1>3. RestOf(frames, i + 1) \in Seq(Piece)
  <2>1. i + 1 \in Nat \ {0}
    BY <1>0
  <2> QED
    BY <2>1, RestType
<1> QED
    BY <1>1, <1>2, <1>3, ConcatProperties, EmptySeq

\* The initial states satisfy the invariant.
LEMMA InvInit == Init => Inv
<1> SUFFICES ASSUME Init PROVE Inv
    OBVIOUS
<1>0. \A S : <<>> \in Seq(S)
    BY EmptySeq
<1>1. Len(issued) = 0 /\ Len(outbox) = 0
    BY EmptySeq DEF Init
<1>2. TypeOK
    BY <1>0, Zenon DEF Init, TypeOK, MessageHeaderLength
<1>3. ~HasText
    BY <1>1 DEF HasText
<1>4. ServeInv
  <2>1. \A i \in 2 .. Len(issued) : issued[i].keys = {}
    BY <1>1
  <2> QED
    BY <1>3, <2>1, Zenon DEF Init, ServeInv
<1>5. CloseInv /\ KeysInv
    BY <1>1, <1>3 DEF Init, CloseInv, KeysInv
<1>6. FramesInOrder /\ WriterInv /\ EndInv
    BY <1>1 DEF Init, FramesInOrder, WriterInv, EndInv
<1> QED
    BY <1>2, <1>4, <1>5, <1>6 DEF Inv

------------------------------------------------------------------------------
(* What is put into the pipe                                                *)

\* What the steps have in common that write to the response writer.
Extends ==
    /\ mainPc \in {"serve", "returned"}
    /\ pipe = <<>>
    /\ issued' \in Seq(Frame)
    /\ Len(issued') = Len(issued) + 1 \/ (issued = <<>> /\ Len(issued') = 2)
    /\ \A i \in 1 .. Len(issued) : issued'[i] = issued[i]
    /\ pipe' = RestOf(issued', Len(issued) + 1)
    /\ UNCHANGED <<pipeClosed, writeVars, connVars>>

\* One frame appended, or two to none.
LEMMA ExtendsByOne ==
    ASSUME TypeOK, NEW f \in Frame, issued' = Append(issued, f),
           pipe' = Pieces(Len(issued'), f)
    PROVE  /\ issued' \in Seq(Frame) /\ Len(issued') = Len(issued) + 1
           /\ \A i \in 1 .. Len(issued) : issued'[i] = issued[i]
           /\ issued'[Len(issued) + 1] = f
           /\ pipe' = RestOf(issued', Len(issued) + 1)
<1>1. issued \in Seq(Frame) /\ Len(issued) \in Nat
    BY DEF TypeOK
<1>2. /\ issued' \in Seq(Frame) /\ Len(issued') = Len(issued) + 1
      /\ \A i \in 1 .. Len(issued) : issued'[i] = issued[i]
      /\ issued'[Len(issued) + 1] = f
    BY <1>1, AppendProperties
<1> QED
    BY <1>1, <1>2 DEF RestOf

\* The header's frame comes first if WriteHeader was not called.
LEMMA ExtendsByTwo ==
    ASSUME NEW f \in Frame, NEW g \in Frame, issued = <<>>,
           issued' = issued \o <<f, g>>,
           pipe' = Pieces(Len(issued) + 1, f) \o Pieces(Len(issued'), g)
    PROVE  /\ issued' \in Seq(Frame) /\ Len(issued) = 0 /\ Len(issued') = 2
           /\ issued'[1] = f /\ issued'[2] = g
           /\ pipe' = RestOf(issued', Len(issued) + 1)
<1>1. issued' = <<f, g>>
    BY Two, ConcatEmptySeq, EmptySeq
<1>2. issued' \in Seq(Frame) /\ Len(issued) = 0 /\ Len(issued') = 2 /\ issued'[1] = f /\ issued'[2] = g
    BY <1>1, Two, EmptySeq
<1> QED
    BY <1>2 DEF RestOf

\* The first header map that the gRPC server makes.
LEMMA FirstHeaders ==
    ASSUME hdr = {}, ~headersSet, NEW h \in ResponseHeaders
    PROVE  HeaderKeys(h) = {"H"} /\ Announced(h)
BY DEF ResponseHeaders, HeaderKeys, Announced

\* SendHeader writes the first frame.
LEMMA SendHeaderStep ==
    ASSUME Inv, GRPCSendHeader
    PROVE  Extends /\ hdr' \subseteq Keys /\ ServeInv' /\ CloseInv' /\ KeysInv'
<1>0. TypeOK /\ ServeInv /\ CloseInv /\ KeysInv
    BY DEF Inv
<1>1. mainPc = "serve" /\ pipe = <<>> /\ ~headersSet /\ ~headerWritten /\ hdr = {} /\ issued = <<>>
    BY <1>0 DEF GRPCSendHeader, Serving, ServeInv
<1>2. PICK h \in ResponseHeaders : WriteHeader(h)
    BY DEF GRPCSendHeader
<1>3. /\ hdr' = {"H"} /\ announced' = TRUE /\ headerWritten' = TRUE
      /\ issued' = Append(issued, Metadata({"H"}))
      /\ pipe' = Pieces(Len(issued'), Metadata({"H"}))
    BY <1>1, <1>2, FirstHeaders DEF WriteHeader, Announced
<1>4. Metadata({"H"}) \in Frame /\ Metadata({"H"}).length <= 6
    BY FrameTypes DEF Keys
<1>5. /\ issued' \in Seq(Frame) /\ Len(issued) = 0 /\ Len(issued') = 1
      /\ issued'[1] = Metadata({"H"})
      /\ pipe' = RestOf(issued', Len(issued) + 1)
  <2>1. Len(issued) = 0
    BY <1>1, EmptySeq
  <2> QED
    BY <1>0, <1>3, <1>4, <2>1, ExtendsByOne
<1>6. /\ UNCHANGED <<mainPc, statusSet, pipeClosed, writeVars, connVars>>
      /\ headersSet' = TRUE /\ writePc # "idle"
    BY <1>0, <1>1 DEF GRPCSendHeader, Inv, WriterInv
<1>7. Extends
    BY <1>1, <1>5, <1>6 DEF Extends
<1>8. ~HasText' /\ issued' # <<>>
  <2>1. Len(issued') = 1
    BY <1>5
  <2> QED
    BY <2>1, EmptySeq DEF HasText
<1>9. ServeInv'
    BY <1>0, <1>1, <1>3, <1>5, <1>6, <1>8 DEF ServeInv, Metadata, writeVars
<1>10. CloseInv'
    BY <1>1, <1>6 DEF CloseInv, writeVars
<1>11. KeysInv'
    BY <1>4, <1>5, <1>8 DEF KeysInv, Metadata
<1> QED
    BY <1>3, <1>7, <1>9, <1>10, <1>11 DEF Keys

\* A message: one frame, or the header's and one.
LEMMA SendStep ==
    ASSUME Inv, GRPCSend
    PROVE  Extends /\ hdr' \subseteq Keys /\ ServeInv' /\ CloseInv' /\ KeysInv'
<1>0. TypeOK /\ ServeInv /\ CloseInv /\ KeysInv /\ Len(issued) \in Nat /\ hdr \subseteq Keys
    BY DEF Inv, TypeOK
<1>1. mainPc = "serve" /\ pipe = <<>> /\ ~HasText /\ headersSet = headerWritten
    BY <1>0 DEF GRPCSend, Serving, ServeInv
<1>2. PICK h \in ResponseHeaders, n \in PayloadSizes : WriteFrame(h, Data(n))
    BY DEF GRPCSend
<1>3. /\ UNCHANGED <<mainPc, statusSet, pipeClosed, writeVars, connVars>>
      /\ headersSet' = TRUE /\ writePc # "idle"
    BY <1>1 DEF GRPCSend, Inv, WriterInv
<1>4. Data(n) \in Frame /\ Data(n).keys = {} /\ Data(n).kind = "data"
    BY FrameTypes DEF Data
<1>5. CloseInv'
    BY <1>1, <1>3 DEF CloseInv, writeVars
<1>6. CASE headerWritten
  <2>1. /\ UNCHANGED <<hdr, announced, headerWritten>>
        /\ issued' = Append(issued, Data(n))
        /\ pipe' = Pieces(Len(issued'), Data(n))
    BY <1>1, <1>2, <1>6 DEF WriteFrame, ResponseHeaders
  <2>2. /\ issued' \in Seq(Frame) /\ Len(issued') = Len(issued) + 1
        /\ \A i \in 1 .. Len(issued) : issued'[i] = issued[i]
        /\ issued'[Len(issued) + 1] = Data(n)
        /\ pipe' = RestOf(issued', Len(issued) + 1)
    BY <1>0, <1>4, <2>1, ExtendsByOne
  <2>3. Extends
    BY <1>1, <1>3, <2>2 DEF Extends
  <2>4. Len(issued) >= 1 /\ announced /\ issued[1].keys \subseteq {"H"}
        /\ \A i \in 2 .. Len(issued) : issued[i].keys = {}
    BY <1>0, <1>1, <1>6, EmptySeq DEF ServeInv, TypeOK
  <2>5. ~HasText' /\ issued' # <<>>
    BY <1>0, <1>1, <1>4, <2>2, <2>4, EmptySeq DEF HasText
  <2>6. \A i \in 2 .. Len(issued') : issued'[i].keys = {}
    BY <1>0, <1>4, <2>2, <2>4
  <2>7. ServeInv'
    BY <1>0, <1>1, <1>3, <1>6, <2>1, <2>2, <2>4, <2>5, <2>6 DEF ServeInv, writeVars
  <2>8. KeysInv'
    BY <1>0, <1>4, <2>2, <2>4, <2>5, <2>6 DEF KeysInv
  <2> QED
    BY <1>0, <1>5, <2>1, <2>3, <2>7, <2>8
<1>7. CASE ~headerWritten
  <2>1. hdr = {} /\ issued = <<>> /\ ~headersSet
    BY <1>0, <1>1, <1>7 DEF ServeInv
  <2>2. /\ hdr' = {"H"} /\ announced' = TRUE /\ headerWritten' = TRUE
        /\ issued' = issued \o <<Metadata({"H"}), Data(n)>>
        /\ pipe' = Pieces(Len(issued) + 1, Metadata({"H"})) \o Pieces(Len(issued'), Data(n))
    BY <1>2, <1>7, <2>1, FirstHeaders DEF WriteFrame, Announced
  <2>3. Metadata({"H"}) \in Frame /\ Metadata({"H"}).length <= 6
    BY FrameTypes DEF Keys
  <2>4. /\ issued' \in Seq(Frame) /\ Len(issued) = 0 /\ Len(issued') = 2
        /\ issued'[1] = Metadata({"H"}) /\ issued'[2] = Data(n)
        /\ pipe' = RestOf(issued', Len(issued) + 1)
    BY <1>4, <2>1, <2>2, <2>3, ExtendsByTwo
  <2>5. Extends
    BY <1>1, <1>3, <2>1, <2>4 DEF Extends
  <2>6. ~HasText' /\ issued' # <<>>
    BY <1>4, <2>4, EmptySeq DEF HasText
  <2>7. ServeInv'
    BY <1>0, <1>1, <1>3, <1>4, <2>2, <2>4, <2>6 DEF ServeInv, writeVars, Metadata
  <2>8. KeysInv'
    BY <1>4, <2>3, <2>4, <2>6 DEF KeysInv, Metadata
  <2> QED
    BY <1>5, <2>2, <2>5, <2>7, <2>8 DEF Keys
<1> QED
    BY <1>6, <1>7

\* http.Error: the header's frame and the text.
LEMMA RejectStep ==
    ASSUME Inv, GRPCReject
    PROVE  Extends /\ hdr' \subseteq Keys /\ ServeInv' /\ CloseInv' /\ KeysInv'
<1>0. TypeOK /\ ServeInv /\ CloseInv
    BY DEF Inv
<1>1. mainPc = "serve" /\ pipe = <<>> /\ ~headerWritten /\ issued = <<>> /\ ~statusSet
    BY <1>0 DEF GRPCReject, Serving, ServeInv
<1>2. /\ UNCHANGED <<statusSet, pipeClosed, writeVars, connVars>>
      /\ headersSet' = TRUE /\ mainPc' = "returned" /\ writePc # "idle"
    BY <1>1 DEF GRPCReject, Inv, WriterInv
<1>3. /\ hdr' = {"H"} /\ headerWritten' = TRUE
      /\ issued' = issued \o <<Metadata({"H"}), Text>>
      /\ pipe' = Pieces(Len(issued) + 1, Metadata({"H"})) \o Pieces(Len(issued'), Text)
  <2>1. HeaderKeys({"H"}) = {"H"}
    BY DEF HeaderKeys
  <2> QED
    BY <1>1, <2>1 DEF GRPCReject, WriteFrame
<1>4. Metadata({"H"}) \in Frame /\ Metadata({"H"}).length <= 6 /\ Text \in Frame
    BY FrameTypes DEF Keys
<1>5. /\ issued' \in Seq(Frame) /\ Len(issued) = 0 /\ Len(issued') = 2
      /\ issued'[1] = Metadata({"H"}) /\ issued'[2] = Text
      /\ pipe' = RestOf(issued', Len(issued) + 1)
    BY <1>1, <1>3, <1>4, ExtendsByTwo
<1>6. Extends
    BY <1>1, <1>2, <1>5 DEF Extends
<1>7. HasText' /\ issued' # <<>>
  <2>1. Text.kind = "text"
    BY DEF Text
  <2>2. HasText'
    BY <1>5, <2>1 DEF HasText
  <2> QED
    BY <1>5, <2>2, EmptySeq
<1>8. ServeInv'
    BY <1>0, <1>1, <1>2, <1>3, <1>5, <1>7 DEF ServeInv, writeVars, Metadata, Text
<1>9. CloseInv'
    BY <1>2 DEF CloseInv, writeVars
<1>10. KeysInv'
    BY <1>4, <1>5, <1>7 DEF KeysInv, Metadata, Text, TextSize
<1> QED
    BY <1>3, <1>6, <1>8, <1>9, <1>10 DEF Keys

\* The trailers never repeat a header that was sent before announced trailers.
LEMMA TrailerKeysAre ==
    ASSUME TypeOK
    PROVE  /\ TrailerKeys \subseteq Keys
           /\ TrailerKeys \cap {"Trailer", "Trailer:T"} = {}
           /\ announced => TrailerKeys \subseteq {"Grpc-Status", "T"}
           /\ "Grpc-Status" \in hdr => "Grpc-Status" \in TrailerKeys
<1>1. hdr \subseteq Keys
    BY DEF TypeOK
<1> QED
    BY <1>1 DEF TrailerKeys, Announcement, Keys

\* Close writes the trailers' frame.
LEMMA CloseResponseStep ==
    ASSUME Inv, CloseResponse
    PROVE  Extends /\ hdr' \subseteq Keys /\ ServeInv' /\ CloseInv' /\ KeysInv'
<1> DEFINE f == Metadata(TrailerKeys)
<1>0. TypeOK /\ ServeInv /\ CloseInv /\ KeysInv /\ Len(issued) \in Nat /\ hdr \subseteq Keys
    BY DEF Inv, TypeOK
<1>1. mainPc = "returned" /\ pipe = <<>> /\ writePc # "idle"
    BY DEF CloseResponse, Inv, WriterInv
<1>2. UNCHANGED <<statusSet, pipeClosed, writeVars, connVars>> /\ mainPc' = "closing"
    BY DEF CloseResponse
<1>3. /\ TrailerKeys \subseteq Keys
      /\ TrailerKeys \cap {"Trailer", "Trailer:T"} = {}
      /\ announced => TrailerKeys \subseteq {"Grpc-Status", "T"}
      /\ "Grpc-Status" \in hdr => "Grpc-Status" \in TrailerKeys
    BY <1>0, TrailerKeysAre
<1>4. f \in Frame /\ f.length <= 6 /\ f.keys = TrailerKeys /\ f.kind = "metadata"
  <2>1. f \in Frame /\ f.length <= 6
    BY <1>3, FrameTypes
  <2> QED
    BY <2>1 DEF Metadata
<1> HIDE DEF f
<1>5. issued' = Append(issued, f) /\ pipe' = Pieces(Len(issued'), f)
    BY DEF CloseResponse, f
<1>6. /\ issued' \in Seq(Frame) /\ Len(issued') = Len(issued) + 1
      /\ \A i \in 1 .. Len(issued) : issued'[i] = issued[i]
      /\ issued'[Len(issued) + 1] = f
      /\ pipe' = RestOf(issued', Len(issued) + 1)
    BY <1>0, <1>4, <1>5, ExtendsByOne
<1>7. Extends
    BY <1>1, <1>2, <1>6 DEF Extends
<1>8. hdr' \subseteq Keys
    BY <1>0, <1>3 DEF CloseResponse
<1>9. ServeInv'
    BY <1>2 DEF ServeInv
<1>10. HasText' <=> HasText
    BY <1>0, <1>4, <1>6 DEF HasText
<1>11. CloseInv'
  <2>1. Len(issued') >= 1
    BY <1>0, <1>6
  <2>2. HasText' => Len(issued') = 3 /\ issued'[3].length <= 6
    <3>1. HasText => Len(issued) = 2
        BY <1>0, <1>1, Zenon DEF ServeInv
    <3>2. CASE HasText
      <4>1. Len(issued) = 2
        BY <3>1, <3>2, Zenon
      <4> QED
        BY <1>4, <1>6, <4>1
    <3>3. CASE ~HasText
        BY <1>10, <3>3, Zenon
    <3> QED
        BY <3>2, <3>3
  <2>3. statusSet' => "Grpc-Status" \in issued'[Len(issued')].keys
    BY <1>0, <1>1, <1>2, <1>3, <1>4, <1>6 DEF ServeInv
  <2> QED
    BY <1>1, <1>2, <2>1, <2>2, <2>3 DEF CloseInv, writeVars
<1>12. KeysInv'
  <2>1. \A i \in 1 .. Len(issued') :
          /\ issued'[i].keys \cap {"Trailer", "Trailer:T"} = {}
          /\ issued'[i].kind = "text" => i = 2 /\ issued'[i].length = TextSize
    BY <1>0, <1>3, <1>4, <1>6 DEF KeysInv
  <2>2. ASSUME ~HasText, NEW i \in 1 .. Len(issued)
        PROVE  issued[i].keys \cap TrailerKeys = {}
    <3>1. issued # <<>>
        BY <1>0, <2>2, EmptySeq
    <3>2. announced /\ issued[1].keys \subseteq {"H"}
          /\ \A j \in 2 .. Len(issued) : issued[j].keys = {}
        BY <1>0, <1>1, <2>2, <3>1 DEF ServeInv
    <3>3. i = 1 \/ i \in 2 .. Len(issued)
        BY <1>0
    <3> QED
        BY <1>3, <3>2, <3>3
  <2>3. ASSUME ~HasText, NEW i \in 1 .. Len(issued'), NEW j \in 1 .. Len(issued'), i # j
        PROVE  issued'[i].keys \cap issued'[j].keys = {}
    <3>1. CASE i \in 1 .. Len(issued) /\ j \in 1 .. Len(issued)
        BY <1>0, <1>6, <2>3, <3>1 DEF KeysInv
    <3>2. CASE i \in 1 .. Len(issued) /\ j = Len(issued) + 1
        BY <1>4, <1>6, <2>2, <2>3, <3>2
    <3>3. CASE j \in 1 .. Len(issued) /\ i = Len(issued) + 1
        BY <1>4, <1>6, <2>2, <2>3, <3>3
    <3> QED
        BY <1>0, <1>6, <2>3, <3>1, <3>2, <3>3
  <2> QED
    BY <1>10, <2>1, <2>3 DEF KeysInv
<1> QED
    BY <1>7, <1>8, <1>9, <1>11, <1>12

\* The steps that write nothing to the response writer.
LEMMA QuietHandlerStep ==
    ASSUME Inv, GRPCStatus \/ GRPCStop \/ Accept \/ AcceptErr \/ ClosePipe \/ Finish
    PROVE  ServeInv' /\ CloseInv' /\ KeysInv' /\ UNCHANGED issued
<1>0. ServeInv /\ CloseInv /\ KeysInv /\ WriterInv
    BY DEF Inv
<1>1. UNCHANGED <<issued, pipe>>
    BY DEF GRPCStatus, GRPCStop, Accept, AcceptErr, ClosePipe, Finish, pipeVars
<1>2. KeysInv' /\ (HasText' <=> HasText)
    BY <1>0, <1>1 DEF KeysInv, HasText
<1>3. CASE GRPCStatus
  <2>1. /\ mainPc = "serve" /\ mainPc' = "returned" /\ "Grpc-Status" \in hdr'
        /\ UNCHANGED <<headerWritten, announced, pipeClosed, writePc>> /\ writePc # "idle"
    BY <1>0, <1>3 DEF GRPCStatus, Serving, WriterInv, pipeVars, writeVars
  <2> QED
    BY <1>0, <1>1, <1>2, <2>1 DEF ServeInv, CloseInv, HasText
<1>4. CASE GRPCStop
  <2>1. /\ mainPc = "serve" /\ mainPc' = "returned" /\ writePc # "idle"
        /\ UNCHANGED <<hdr, headerWritten, announced, pipeClosed, writePc, statusSet>>
    BY <1>0, <1>4 DEF GRPCStop, Serving, WriterInv, pipeVars, writeVars, headerVars
  <2> QED
    BY <1>0, <1>1, <1>2, <2>1 DEF ServeInv, CloseInv, HasText
<1>5. CASE Accept
  <2>1. /\ mainPc = "accept" /\ mainPc' = "serve" /\ writePc' = "header"
        /\ UNCHANGED <<hdr, headerWritten, announced, pipeClosed, headersSet, statusSet>>
    BY <1>5 DEF Accept, pipeVars, headerVars
  <2> QED
    BY <1>0, <1>1, <1>2, <2>1 DEF ServeInv, CloseInv, HasText
<1>6. CASE AcceptErr \/ ClosePipe \/ Finish
  <2>1. /\ mainPc \in {"accept", "closing", "wait"} /\ mainPc' \in {"wait", "done"}
        /\ mainPc = "accept" => writePc = "idle"
        /\ UNCHANGED <<statusSet, writePc>>
    BY <1>0, <1>6 DEF AcceptErr, ClosePipe, Finish, MayFinish, ServeInv, writeVars
  <2> QED
    BY <1>0, <1>1, <1>2, <2>1 DEF ServeInv, CloseInv, HasText
<1> QED
    BY <1>1, <1>2, <1>3, <1>4, <1>5, <1>6

\* Nor do the writer and the connection.
LEMMA QuietWriterStep ==
    ASSUME Inv, Writer \/ Peer \/ UNCHANGED vars
    PROVE  /\ ServeInv' /\ CloseInv' /\ KeysInv'
           /\ UNCHANGED <<serverVars, headerVars, issued, pipeClosed>>
<1>0. ServeInv /\ CloseInv /\ KeysInv
    BY DEF Inv
<1>1. /\ UNCHANGED <<serverVars, headerVars, issued, pipeClosed>>
      /\ writePc' = "idle" <=> writePc = "idle"
      /\ writePc = "idle" => pipe' = pipe
    BY DEF Writer, WriteRead, WriteParse, WriteSend, WriteSendErr, WriteEOF, AtEOF, WriteFail,
           Peer, LinkDown, Stall, vars, pipeVars, writeVars
<1>2. KeysInv' /\ (HasText' <=> HasText)
    BY <1>0, <1>1 DEF KeysInv, HasText
<1>3. ServeInv'
    BY <1>0, <1>1, <1>2 DEF ServeInv, HasText, serverVars, headerVars
<1>4. CloseInv'
    BY <1>0, <1>1, <1>2 DEF CloseInv, HasText, serverVars
<1> QED
    BY <1>1, <1>2, <1>3, <1>4

------------------------------------------------------------------------------
(* Types                                                                    *)

\* What the response writer remembers of a write.
LEMMA WrittenTypes ==
    ASSUME TypeOK, NEW h, NEW f, WriteHeader(h) \/ WriteFrame(h, f)
    PROVE  headerWritten' \in BOOLEAN /\ announced' \in BOOLEAN
<1>0. Announced(h) \in BOOLEAN
    BY DEF Announced
<1>1. headerWritten \in BOOLEAN /\ announced \in BOOLEAN
    BY DEF TypeOK
<1>2. \/ UNCHANGED <<headerWritten, announced>>
      \/ announced' = Announced(h) /\ headerWritten' = TRUE
    BY Zenon DEF WriteHeader, WriteFrame
<1> QED
    BY <1>0, <1>1, <1>2, Zenon

\* Every step keeps the types.
LEMMA TypeStep == Inv /\ [Next]_vars => TypeOK'
<1> SUFFICES ASSUME Inv, [Next]_vars PROVE TypeOK'
    OBVIOUS
<1>0. TypeOK
    BY DEF Inv
<1>1. ASSUME Extends, hdr' \subseteq Keys, headersSet' \in BOOLEAN, statusSet' \in BOOLEAN,
             headerWritten' \in BOOLEAN, announced' \in BOOLEAN,
             mainPc' \in {"serve", "returned", "closing"}
      PROVE  TypeOK'
  <2>1. Len(issued) + 1 \in Nat \ {0} /\ issued' \in Seq(Frame)
    BY <1>0, <1>1 DEF TypeOK, Extends
  <2>2. pipe' \in Seq(Piece)
    BY <1>1, <2>1, RestType DEF Extends
  <2>3. issued' \in Seq(Frame) /\ UNCHANGED <<pipeClosed, writeVars, connVars>>
    BY <1>1 DEF Extends
  <2> QED
    BY <1>0, <1>1, <2>2, <2>3 DEF TypeOK, writeVars, connVars
<1>2. ASSUME GRPCSendHeader PROVE TypeOK'
  <2>1. Extends /\ hdr' \subseteq Keys
    BY <1>2, SendHeaderStep
  <2>2. headerWritten' \in BOOLEAN /\ announced' \in BOOLEAN
    <3>1. PICK h \in ResponseHeaders : WriteHeader(h)
        BY <1>2 DEF GRPCSendHeader
    <3> QED
        BY <1>0, <3>1, WrittenTypes
  <2>3. headersSet' \in BOOLEAN /\ statusSet' \in BOOLEAN /\ mainPc' = "serve"
    BY <1>0, <1>2 DEF GRPCSendHeader, Serving, TypeOK
  <2> QED
    BY <1>1, <2>1, <2>2, <2>3
<1>3. ASSUME GRPCSend PROVE TypeOK'
  <2>1. Extends /\ hdr' \subseteq Keys
    BY <1>3, SendStep
  <2>2. headerWritten' \in BOOLEAN /\ announced' \in BOOLEAN
    <3>1. PICK h \in ResponseHeaders, n \in PayloadSizes : WriteFrame(h, Data(n))
        BY <1>3 DEF GRPCSend
    <3> QED
        BY <1>0, <3>1, WrittenTypes
  <2>3. headersSet' \in BOOLEAN /\ statusSet' \in BOOLEAN /\ mainPc' = "serve"
    BY <1>0, <1>3 DEF GRPCSend, Serving, TypeOK
  <2> QED
    BY <1>1, <2>1, <2>2, <2>3
<1>4. ASSUME GRPCReject PROVE TypeOK'
  <2>1. Extends /\ hdr' \subseteq Keys
    BY <1>4, RejectStep
  <2>2. headerWritten' \in BOOLEAN /\ announced' \in BOOLEAN
    BY <1>0, <1>4, WrittenTypes DEF GRPCReject
  <2>3. headersSet' \in BOOLEAN /\ statusSet' \in BOOLEAN /\ mainPc' = "returned"
    BY <1>0, <1>4 DEF GRPCReject, TypeOK
  <2> QED
    BY <1>1, <2>1, <2>2, <2>3
<1>5. ASSUME CloseResponse PROVE TypeOK'
  <2>1. Extends /\ hdr' \subseteq Keys
    BY <1>5, CloseResponseStep
  <2>2. /\ headerWritten' \in BOOLEAN /\ announced' \in BOOLEAN
        /\ headersSet' \in BOOLEAN /\ statusSet' \in BOOLEAN /\ mainPc' = "closing"
    BY <1>0, <1>5 DEF CloseResponse, TypeOK
  <2> QED
    BY <1>1, <2>1, <2>2
<1> USE DEF TypeOK, serverVars, headerVars, pipeVars, writeVars, connVars
<1>6. ASSUME GRPCStatus PROVE TypeOK'
  <2>1. hdr' \subseteq Keys
    BY <1>0, <1>6 DEF GRPCStatus, ResponseHeaders, Keys
  <2> QED
    BY <1>0, <1>6, <2>1 DEF GRPCStatus
<1>7. ASSUME GRPCStop \/ Accept \/ AcceptErr \/ ClosePipe \/ Finish PROVE TypeOK'
  <2>1. CASE GRPCStop
    BY <1>0, <2>1 DEF GRPCStop
  <2>2. CASE Accept
    BY <1>0, <2>2 DEF Accept
  <2>3. CASE AcceptErr
    BY <1>0, <2>3 DEF AcceptErr
  <2>4. CASE ClosePipe
    BY <1>0, <2>4 DEF ClosePipe
  <2>5. CASE Finish
    BY <1>0, <2>5 DEF Finish, CloseConn
  <2> QED
    BY <1>7, <2>1, <2>2, <2>3, <2>4, <2>5
<1>8. ASSUME WriteRead PROVE TypeOK'
  <2> DEFINE p == Head(pipe)
             n == IF p.size < need THEN p.size ELSE need
  <2>1. p \in Piece /\ Tail(pipe) \in Seq(Piece)
    BY <1>0, <1>8, HeadTailProperties DEF WriteRead
  <2>2. n \in Nat /\ need - n \in Nat /\ p.size - n \in Nat
    BY <1>0, <2>1, SMTT(30) DEF Piece
  <2>3. [p EXCEPT !.size = n] \in Piece /\ [p EXCEPT !.size = p.size - n] \in Piece
    BY <2>1, <2>2 DEF Piece
  <2>4. Append(msg, [p EXCEPT !.size = n]) \in Seq(Piece)
    BY <1>0, <2>3, AppendProperties
  <2>5. << [p EXCEPT !.size = p.size - n] >> \o Tail(pipe) \in Seq(Piece)
    BY <2>1, <2>3, One
  <2>6. /\ msg' = IF n = 0 THEN msg ELSE Append(msg, [p EXCEPT !.size = n])
        /\ need' = need - n
        /\ pipe' = IF n = p.size THEN Tail(pipe)
                   ELSE << [p EXCEPT !.size = p.size - n] >> \o Tail(pipe)
    BY <1>8, Zenon DEF WriteRead
  <2> HIDE DEF p, n
  <2>7. msg' \in Seq(Piece) /\ need' \in Nat /\ pipe' \in Seq(Piece)
    BY <1>0, <2>1, <2>2, <2>4, <2>5, <2>6
  <2>8. UNCHANGED <<serverVars, headerVars, issued, pipeClosed, writePc, connVars>>
    BY <1>8 DEF WriteRead
  <2> QED
    BY <1>0, <2>7, <2>8
<1>9. ASSUME WriteParse PROVE TypeOK'
  <2>1. need' \in Nat
    <3>1. msg # <<>>
      <4>1. Between \/ InHeader \/ InPayload \/ AllRead \/ InTextHeader \/ InText
        BY <1>9 DEF WriteParse, Inv, WriterInv
      <4>2. InHeader \/ InTextHeader
        BY <1>9, <4>1 DEF WriteParse, Between, InPayload, AllRead, InText, MessageHeaderLength
      <4>3. CASE InHeader
        <5>1. msg = <<Hdr(Current)>>
            BY <4>3 DEF InHeader
        <5> QED
            BY <5>1
      <4> QED
        BY <4>2, <4>3 DEF InTextHeader
    <3>2. msg[1] \in Piece
        BY <1>0, <3>1, EmptySeq, ElementOfSeq
    <3> QED
        BY <1>9, <3>2 DEF WriteParse, Piece
  <2> QED
    BY <1>0, <1>9, <2>1 DEF WriteParse
<1>10. ASSUME WriteSend PROVE TypeOK'
  <2>1. outbox' \in Seq(Seq(Piece)) /\ msg' \in Seq(Piece)
    BY <1>0, <1>10, AppendProperties, EmptySeq DEF WriteSend
  <2> QED
    BY <1>0, <1>10, <2>1 DEF WriteSend, MessageHeaderLength
<1>11. ASSUME WriteSendErr \/ WriteEOF \/ WriteFail \/ Peer PROVE TypeOK'
  <2>1. CASE WriteSendErr \/ WriteEOF \/ WriteFail
    BY <1>0, <2>1 DEF WriteSendErr, WriteEOF, AtEOF, WriteFail, CloseConn
  <2>2. CASE LinkDown
    BY <1>0, <2>2 DEF LinkDown
  <2>3. CASE Stall
    BY <1>0, <2>3 DEF Stall
  <2> QED
    BY <1>11, <2>1, <2>2, <2>3, Zenon DEF Peer
<1>12. ASSUME UNCHANGED vars PROVE TypeOK'
    BY <1>0, <1>12 DEF vars
<1> QED
    BY <1>2, <1>3, <1>4, <1>5, <1>6, <1>7, <1>8, <1>9, <1>10, <1>11, <1>12, Zenon
    DEF Next, GRPCServer, Handler, Writer
------------------------------------------------------------------------------
(* The writer's place in the frames                                         *)

\* The disjuncts of WriterInv that hold while the goroutine runs.
Placed == Between \/ InHeader \/ InPayload \/ AllRead \/ InTextHeader \/ InText

\* What a step does not touch stays where it is.
LEMMA SamePlace ==
    ASSUME UNCHANGED <<issued, pipe, writePc, msg, need, outbox>>
    PROVE  (Placed => Placed') /\ (FramesInOrder => FramesInOrder')
<1>1. UNCHANGED Current /\ UNCHANGED HasText /\ \A i : Rest(i)' = Rest(i)
    BY DEF Current, HasText, Rest
<1>2. \A i : Hdr(i)' = Hdr(i) /\ Pay(i)' = Pay(i)
    BY DEF Hdr, Pay
<1>3. Between => Between'
    BY <1>1, <1>2, Zenon DEF Between
<1>4. (InFrame => InFrame') /\ (InHeader => InHeader') /\ (InPayload => InPayload')
      /\ (AllRead => AllRead')
    BY <1>1, <1>2, Zenon DEF InFrame, InHeader, InPayload, AllRead
<1>5. (InTextHeader => InTextHeader') /\ (InText => InText')
    BY <1>1, <1>2, Zenon DEF InTextHeader, InText, TextRest
<1> QED
    BY <1>3, <1>4, <1>5, Zenon DEF Placed, FramesInOrder

\* There is something in the pipe when the writer is within a frame.
LEMMA PipeNotEmpty ==
    ASSUME TypeOK
    PROVE  /\ Len(issued) \in Nat /\ Len(outbox) \in Nat /\ Current \in Nat \ {0}
           /\ \A i \in Nat \ {0} : Rest(i) \in Seq(Piece)
           /\ \A i \in 1 .. Len(issued) : issued[i] \in Frame /\ Hdr(i) \in Piece /\ Pay(i) \in Piece
           /\ TextRest \in Piece
<1>1. issued \in Seq(Frame) /\ Len(issued) \in Nat /\ Len(outbox) \in Nat
    BY DEF TypeOK
<1>2. \A i \in Nat \ {0} : Rest(i) \in Seq(Piece)
    BY <1>1, RestType DEF Rest
<1>3. \A i \in 1 .. Len(issued) : issued[i] \in Frame
    BY <1>1, ElementOfSeq
<1>4. \A i \in 1 .. Len(issued) : Hdr(i) \in Piece /\ Pay(i) \in Piece
    BY <1>3 DEF Hdr, Pay, Piece, Frame, MessageHeaderLength
<1>5. TextRest \in Piece
    BY TextLengthAssumption DEF TextRest, Piece, TextSize, MessageHeaderLength
<1> QED
    BY <1>1, <1>2, <1>3, <1>4, <1>5 DEF Current

\* A write finds the writer between two frames, before the send of the last one, or in a text.
LEMMA EmptyPipe ==
    ASSUME TypeOK, FramesInOrder, Placed, pipe = <<>>
    PROVE  \/ Between /\ Current = Len(issued) + 1
           \/ AllRead /\ Current = Len(issued)
           \/ InText /\ Len(issued) = 2 /\ need = TextLength - 1
           \/ InText /\ Len(issued) = 3
<1>1. /\ Len(issued) \in Nat /\ Len(outbox) \in Nat /\ Current \in Nat \ {0}
      /\ \A i \in Nat \ {0} : Rest(i) \in Seq(Piece)
      /\ \A i \in 1 .. Len(issued) : issued[i] \in Frame /\ Hdr(i) \in Piece /\ Pay(i) \in Piece
      /\ TextRest \in Piece
    BY PipeNotEmpty
<1>2. Current <= Len(issued) + 1 /\ Len(outbox) = Current - 1
    BY <1>1 DEF FramesInOrder, Current
<1>3. ASSUME NEW i \in 1 .. Len(issued), Len(issued) - 1 <= i
      PROVE  Rest(i) # <<>>
    BY <1>3, RestStep DEF Rest, TypeOK
<1>4. ASSUME NEW i \in 1 .. Len(issued), NEW j \in Nat \ {0}
      PROVE  <<Pay(i)>> \o Rest(j) # <<>>
  <2>1. Pay(i) \in Piece /\ Rest(j) \in Seq(Piece)
    BY <1>1
  <2> QED
    BY <2>1, One
<1>5. CASE Between
  <2>1. CASE pipe = Rest(Current)
    <3>1. Len(issued) - 1 <= Current
        BY <1>5 DEF Between
    <3>2. Current \notin 1 .. Len(issued)
        BY <1>3, <2>1, <3>1
    <3>3. Current = Len(issued) + 1
      <4>1. \A c \in Nat \ {0}, m \in Nat : c <= m + 1 /\ c \notin 1 .. m => c = m + 1
        OBVIOUS
      <4> QED
        BY <1>1, <1>2, <3>2, <4>1, Zenon
    <3> QED
        BY <1>5, <3>3
  <2>2. CASE Current > 1 /\ pipe = <<Pay(Current - 1)>> \o Rest(Current)
    <3>1. Current - 1 \in 1 .. Len(issued)
        BY <1>1, <1>2, <2>2
    <3> QED
        BY <1>1, <1>4, <2>2, <3>1
  <2> QED
    BY <1>5, <2>1, <2>2, Zenon DEF Between
<1>6. CASE InHeader \/ InPayload
  <2>1. Current \in 1 .. Len(issued) /\ pipe = <<Pay(Current)>> \o Rest(Current + 1)
    BY <1>1, <1>6 DEF InHeader, InPayload, InFrame
  <2>2. Current + 1 \in Nat \ {0}
    BY <1>1
  <2> QED
    BY <1>4, <2>1, <2>2
<1>7. CASE AllRead
  <2>1. /\ Current \in 1 .. Len(issued) /\ pipe = Rest(Current + 1)
        /\ Len(issued) - 1 <= Current
    BY <1>1, <1>7 DEF AllRead, InFrame
  <2>2. Current + 1 \notin 1 .. Len(issued)
    BY <1>1, <1>3, <2>1
  <2> QED
    BY <1>1, <1>7, <2>1, <2>2
<1>8. CASE InTextHeader
  <2>1. pipe = <<TextRest>>
    BY <1>8 DEF InTextHeader
  <2> QED
    BY <2>1
<1>9. CASE InText
  <2>1. \/ Len(issued) = 2 /\ need = TextLength - 1
        \/ Len(issued) = 3
        \/ pipe = <<TextRest>>
    BY <1>9, Zenon DEF InText
  <2> QED
    BY <1>9, <2>1
<1> QED
    BY <1>5, <1>6, <1>7, <1>8, <1>9, Zenon DEF Placed

\* What the gRPC server and Close write comes after what is being sent.
LEMMA ExtendsPlace ==
    ASSUME Inv, Extends, KeysInv'
    PROVE  FramesInOrder' /\ WriterInv' /\ EndInv'
<1>0. TypeOK /\ ServeInv /\ FramesInOrder /\ WriterInv /\ EndInv
    BY DEF Inv
<1>1. /\ Len(issued) \in Nat /\ Len(outbox) \in Nat /\ Current \in Nat \ {0}
      /\ Len(outbox) <= Len(issued) /\ Current = Len(outbox) + 1
    BY <1>0, PipeNotEmpty DEF FramesInOrder, Current
<1>2. /\ mainPc \in {"serve", "returned"} /\ pipe = <<>>
      /\ issued' \in Seq(Frame)
      /\ Len(issued') = Len(issued) + 1 \/ (Len(issued) = 0 /\ Len(issued') = 2)
      /\ \A i \in 1 .. Len(issued) : issued'[i] = issued[i]
      /\ pipe' = RestOf(issued', Len(issued) + 1)
      /\ UNCHANGED <<pipeClosed, writePc, msg, need, link, closeCode, outbox, Current>>
    BY EmptySeq DEF Extends, writeVars, connVars, Current
<1>3. FramesInOrder'
  <2>1. \A i \in 1 .. Len(outbox) : i \in 1 .. Len(issued) /\ issued'[i] = issued[i]
    BY <1>1, <1>2
  <2>2. Len(outbox') <= Len(issued')
    BY <1>1, <1>2
  <2> QED
    BY <1>0, <1>2, <2>1, <2>2 DEF FramesInOrder
<1>4. EndInv'
  <2>1. ~pipeClosed /\ closeCode # "normal"
    BY <1>0, <1>2 DEF EndInv
  <2> QED
    BY <1>0, <1>2, <2>1 DEF EndInv
<1>5. writePc # "idle"
    BY <1>0, <1>2 DEF WriterInv
<1>6. HasText' /\ Len(issued) >= 2 => HasText
    BY <1>1, <1>2 DEF HasText
<1>9. \A n \in Nat : \A m : m = n + 1 \/ (n = 0 /\ m = 2) =>
                            m \in Nat /\ m - 1 <= n + 1 /\ (n < 2 /\ m >= 2 => m = 2)
    OBVIOUS
<1>10. /\ Len(issued') \in Nat /\ Len(issued') - 1 <= Len(issued) + 1
       /\ Len(issued) < 2 /\ Len(issued') >= 2 => Len(issued') = 2
  <2>1. Len(issued') = Len(issued) + 1 \/ (Len(issued) = 0 /\ Len(issued') = 2)
    BY <1>2
  <2>2. Len(issued) \in Nat
    BY <1>1
  <2> QED
    BY <1>9, <2>1, <2>2, Zenon
<1>11. Current' = Current
    BY <1>2
<1>12. ASSUME Len(issued) < 2 PROVE HasText' => Len(issued') = 2
  <2>1. HasText' => Len(issued') >= 2
    BY DEF HasText
  <2> QED
    BY <1>10, <1>12, <2>1, Zenon
<1>7. ASSUME writePc \in {"header", "payload"}
      PROVE  Placed'
  <2>1. Placed
    BY <1>0, <1>7 DEF WriterInv, Placed
  <2>2. CASE Between /\ Current = Len(issued) + 1
    <3>1. HasText' => Len(issued') = 2
      <4>1. CASE Len(issued) >= 2
        <5>1. 2 \in 1 .. Len(outbox)
            BY <1>1, <2>2, <4>1
        <5>2. ~HasText
            BY <1>0, <5>1 DEF FramesInOrder, HasText
        <5> QED
            BY <1>6, <4>1, <5>2, Zenon
      <4>2. CASE Len(issued) < 2
        BY <1>12, <4>2
      <4> QED
        BY <1>1, <4>1, <4>2
    <3>2. Len(issued') - 1 <= Current'
        BY <1>10, <1>11, <2>2, Zenon
    <3>3. pipe' = Rest(Current)'
        BY <1>2, <2>2 DEF Rest
    <3>4. writePc' = "header" /\ msg' = <<>> /\ need' = MessageHeaderLength
        BY <1>2, <2>2 DEF Between
    <3>5. Between'
        BY <3>1, <3>2, <3>3, <3>4, Zenon DEF Between
    <3> QED
        BY <3>5 DEF Placed
  <2>3. CASE AllRead /\ Current = Len(issued)
    <3>0. Current \in 1 .. Len(issued) /\ issued'[Current] = issued[Current]
        BY <1>1, <1>2, <2>3
    <3>1. HasText' => Len(issued') = 2
      <4>1. CASE Len(issued) >= 2
        <5>1. HasText => Len(issued) = 2
            BY <2>3, Zenon DEF AllRead, InFrame
        <5>2. ~HasText
            BY <2>3, <5>1 DEF AllRead, InFrame, HasText
        <5> QED
            BY <1>6, <4>1, <5>2, Zenon
      <4>2. CASE Len(issued) < 2
        BY <1>12, <4>2
      <4> QED
        BY <1>1, <4>1, <4>2
    <3>2. Len(issued') - 1 <= Current /\ Current <= Len(issued')
        BY <1>1, <1>2, <2>3
    <3>3. pipe' = Rest(Current + 1)'
        BY <1>2, <2>3 DEF Rest
    <3>4. /\ writePc' = "payload" /\ need' = 0 /\ issued'[Current].length > 0
          /\ issued'[Current].kind # "text"
        BY <1>2, <2>3, <3>0 DEF AllRead, InFrame
    <3>5. msg' = <<Hdr(Current), Pay(Current)>>'
        BY <1>2, <2>3, <3>0, Zenon DEF AllRead, Hdr, Pay
    <3>6. AllRead'
        BY <1>2, <3>1, <3>2, <3>3, <3>4, <3>5, Zenon DEF AllRead, InFrame
    <3> QED
        BY <3>6 DEF Placed
  <2>4. CASE InText /\ Len(issued) = 2 /\ need = TextLength - 1
    <3>1. Len(issued') = 3 /\ issued'[2] = issued[2]
        BY <1>2, <2>4
    <3>2. HasText'
        BY <2>4, <3>1 DEF InText, HasText
    <3>3. issued'[3].kind # "text"
        BY <3>1 DEF KeysInv
    <3>4. pipe' = Pieces(3, issued'[3])
        BY <1>2, <2>4, <3>1 DEF RestOf
    <3>5. pipe' = <<Hdr(3), Pay(3)>>'
        BY <3>3, <3>4 DEF Pieces, Hdr, Pay
    <3>6. writePc' = "payload" /\ Len(outbox') = 1 /\ need' = TextLength - 1
        BY <1>2, <2>4 DEF InText
    <3>7. InText'
        BY <3>1, <3>2, <3>5, <3>6, Zenon DEF InText
    <3> QED
        BY <3>7 DEF Placed
  <2>5. CASE InText /\ Len(issued) = 3
    <3>1. HasText /\ (HasText => Len(issued) = 2)
        BY <1>0, <1>2, <2>5, Zenon DEF InText, ServeInv
    <3> QED
        BY <2>5, <3>1
  <2> QED
    BY <1>0, <1>2, <2>1, <2>2, <2>3, <2>4, <2>5, EmptyPipe
<1>8. WriterInv'
    BY <1>2, <1>5, <1>7 DEF WriterInv, Placed
<1> QED
    BY <1>3, <1>4, <1>8
\* Accepting starts the writer; the other steps that write nothing leave it where it is.
LEMMA QuietHandlerPlace ==
    ASSUME Inv, GRPCStatus \/ GRPCStop \/ Accept \/ AcceptErr \/ ClosePipe \/ Finish
    PROVE  FramesInOrder' /\ WriterInv' /\ EndInv'
<1>0. TypeOK /\ ServeInv /\ CloseInv /\ FramesInOrder /\ WriterInv /\ EndInv
    BY DEF Inv
<1>1. CASE Accept
  <2>1. /\ writePc = "idle" /\ ~pipeClosed /\ closeCode # "normal"
        /\ issued = <<>> /\ pipe = <<>> /\ msg = <<>> /\ need = MessageHeaderLength /\ outbox = <<>>
    BY <1>0, <1>1 DEF Accept, ServeInv, CloseInv, WriterInv, EndInv
  <2>2. /\ UNCHANGED <<issued, pipe, pipeClosed, msg, need, closeCode, outbox>>
        /\ writePc' = "header"
    BY <1>1 DEF Accept, pipeVars
  <2>3. issued' = <<>> /\ outbox' = <<>> /\ Len(issued') = 0 /\ Len(outbox') = 0
    BY <2>1, <2>2, EmptySeq
  <2>4. Current' = 1 /\ ~HasText'
    BY <2>3 DEF Current, HasText
  <2>5. Rest(Current)' = <<>> /\ Len(issued') - 1 <= Current'
    BY <2>3, <2>4 DEF Rest, RestOf
  <2>6. Between'
    BY <2>1, <2>2, <2>4, <2>5, Zenon DEF Between
  <2>7. WriterInv'
    BY <2>2, <2>6, Zenon DEF WriterInv
  <2>8. FramesInOrder' /\ EndInv'
    BY <2>1, <2>2, <2>3 DEF FramesInOrder, EndInv
  <2> QED
    BY <2>7, <2>8
<1>2. CASE GRPCStatus \/ GRPCStop \/ AcceptErr \/ ClosePipe \/ Finish
  <2>1. UNCHANGED <<issued, pipe, writePc, msg, need, outbox>>
    BY <1>2 DEF GRPCStatus, GRPCStop, AcceptErr, ClosePipe, Finish, pipeVars, writeVars, connVars
  <2>2. /\ writePc = "idle" => mainPc' \in {"accept", "done"} /\ link' = link
    BY <1>0, <1>2 DEF GRPCStatus, GRPCStop, AcceptErr, ClosePipe, Finish, Serving, MayFinish,
                      WriterInv, connVars
  <2>3. (Placed => Placed') /\ FramesInOrder'
    BY <1>0, <2>1, SamePlace
  <2>4. WriterInv'
    BY <1>0, <2>1, <2>2, <2>3 DEF WriterInv, Placed
  <2>5. CASE GRPCStatus \/ GRPCStop \/ AcceptErr
    <3>1. /\ mainPc \in {"accept", "serve"}
          /\ UNCHANGED <<pipeClosed, link, closeCode>>
        BY <2>5 DEF GRPCStatus, GRPCStop, AcceptErr, Serving, pipeVars, connVars
    <3> QED
        BY <1>0, <2>1, <2>3, <2>4, <3>1 DEF EndInv
  <2>6. CASE ClosePipe
    <3>1. /\ mainPc = "closing" /\ mainPc' = "wait" /\ pipeClosed' = TRUE
          /\ UNCHANGED <<link, closeCode>>
        BY <2>6 DEF ClosePipe, connVars
    <3> QED
        BY <1>0, <2>1, <2>3, <2>4, <3>1 DEF EndInv
  <2>7. CASE Finish
    <3>1. /\ mainPc = "wait" /\ writePc = "done" /\ mainPc' = "done" /\ link' = "down"
          /\ closeCode' = (IF link = "up" THEN "normal" ELSE closeCode)
        BY <2>7 DEF Finish, MayFinish, CloseConn
    <3> QED
        BY <1>0, <2>1, <2>3, <2>4, <3>1 DEF EndInv
  <2> QED
    BY <1>2, <2>5, <2>6, <2>7
<1> QED
    BY <1>1, <1>2

------------------------------------------------------------------------------
(* grpcwebsocket.Write                                                      *)

\* A Read takes the first piece of the pipe, or the part of it that is wanted.
LEMMA ReadPiece ==
    ASSUME NEW p \in Piece, NEW s \in Seq(Piece), pipe = <<p>> \o s, WriteRead,
           need \in Nat, msg \in Seq(Piece)
    PROVE  /\ p.size = 0 => msg' = msg /\ need' = need /\ pipe' = s
           /\ p.size > 0 /\ p.size <= need =>
                msg' = Append(msg, p) /\ need' = need - p.size /\ pipe' = s
           /\ p.size > need =>
                /\ msg' = Append(msg, [p EXCEPT !.size = need]) /\ need' = 0
                /\ pipe' = << [p EXCEPT !.size = p.size - need] >> \o s
<1>1. Head(pipe) = p /\ Tail(pipe) = s
    BY One
<1>2. need > 0 /\ p.size \in Nat /\ need \in Nat
    BY DEF WriteRead, Piece
<1> DEFINE n == IF p.size < need THEN p.size ELSE need
<1>3. /\ msg' = IF n = 0 THEN msg ELSE Append(msg, [p EXCEPT !.size = n])
      /\ need' = need - n
      /\ pipe' = IF n = p.size THEN s ELSE << [p EXCEPT !.size = p.size - n] >> \o s
    BY <1>1, Zenon DEF WriteRead
<1>4. p.size <= need => n = p.size
    BY <1>2
<1>5. p.size > need => n = need /\ n # p.size /\ need - n = 0
    BY <1>2
<1>6. [p EXCEPT !.size = p.size] = p
    BY DEF Piece
<1> HIDE DEF n
<1>7. ASSUME p.size = 0 PROVE msg' = msg /\ need' = need /\ pipe' = s
  <2>1. n = 0 /\ n = p.size /\ need - n = need
    BY <1>2, <1>4, <1>7
  <2> QED
    BY <1>3, <2>1, Zenon
<1>8. ASSUME p.size > 0, p.size <= need
      PROVE  msg' = Append(msg, p) /\ need' = need - p.size /\ pipe' = s
  <2>1. n = p.size /\ n # 0
    BY <1>2, <1>4, <1>8
  <2> QED
    BY <1>3, <1>6, <2>1, Zenon
<1>9. ASSUME p.size > need
      PROVE  /\ msg' = Append(msg, [p EXCEPT !.size = need]) /\ need' = 0
             /\ pipe' = << [p EXCEPT !.size = p.size - need] >> \o s
  <2>1. n = need /\ n # p.size /\ n # 0 /\ need - n = 0
    BY <1>2, <1>5, <1>9
  <2> QED
    BY <1>3, <2>1, Zenon
<1> QED
    BY <1>7, <1>8, <1>9, Zenon

\* A step of the writer leaves these alone.
LEMMA WriterFrame ==
    ASSUME WriteRead \/ WriteParse \/ WriteSend
    PROVE  /\ UNCHANGED <<issued, pipeClosed, mainPc, link, closeCode, HasText>>
           /\ \A i : Hdr(i)' = Hdr(i) /\ Pay(i)' = Pay(i) /\ Rest(i)' = Rest(i)
<1>1. UNCHANGED <<issued, pipeClosed, mainPc, link, closeCode>>
    BY DEF WriteRead, WriteParse, WriteSend, serverVars, pipeVars, connVars
<1> QED
    BY <1>1 DEF HasText, Hdr, Pay, Rest

\* Reading takes the writer through a frame.
LEMMA ReadPlace ==
    ASSUME Inv, WriteRead
    PROVE  Placed'
<1>0. TypeOK /\ ServeInv /\ CloseInv /\ KeysInv /\ FramesInOrder /\ WriterInv
    BY DEF Inv
<1>1. /\ Len(issued) \in Nat /\ Len(outbox) \in Nat /\ Current \in Nat \ {0}
      /\ \A i \in Nat \ {0} : Rest(i) \in Seq(Piece)
      /\ \A i \in 1 .. Len(issued) : issued[i] \in Frame /\ Hdr(i) \in Piece /\ Pay(i) \in Piece
      /\ TextRest \in Piece
      /\ Current = Len(outbox) + 1 /\ Current <= Len(issued) + 1
    BY <1>0, PipeNotEmpty DEF Current, FramesInOrder
<1>2. /\ UNCHANGED <<issued, outbox, writePc>> /\ need > 0 /\ pipe # <<>>
      /\ writePc \in {"header", "payload"} /\ need \in Nat /\ msg \in Seq(Piece)
    BY <1>0 DEF WriteRead, connVars, TypeOK
<1>3. Placed
    BY <1>0, <1>2 DEF WriterInv, Placed
<1>4. Current' = Current /\ (HasText' <=> HasText)
    BY <1>2 DEF Current, HasText
<1>5. \A i : Hdr(i)' = Hdr(i) /\ Pay(i)' = Pay(i) /\ Rest(i)' = Rest(i)
    BY WriterFrame
<1>6. \A s : <<>> \in Seq(s)
    BY EmptySeq
<1>7. ASSUME Between, pipe = Rest(Current)
      PROVE  Placed'
  <2>1. Current \in 1 .. Len(issued) /\ Len(issued) - 1 <= Current
    BY <1>1, <1>2, <1>7 DEF Between, Rest, RestOf
  <2>2. pipe = Pieces(Current, issued[Current]) \o Rest(Current + 1)
    BY <1>0, <1>7, <2>1, RestStep DEF Rest, TypeOK
  <2>3. /\ Hdr(Current) \in Piece /\ Pay(Current) \in Piece /\ Rest(Current + 1) \in Seq(Piece)
        /\ issued[Current] \in Frame
    BY <1>1, <2>1
  <2>4. writePc = "header" /\ msg = <<>> /\ need = 5 /\ (HasText => Len(issued) = 2)
    BY <1>7, Zenon DEF Between, MessageHeaderLength
  <2>5. CASE issued[Current].kind # "text"
    <3>1. Pieces(Current, issued[Current]) = <<Hdr(Current), Pay(Current)>>
        BY <2>5 DEF Pieces, Hdr, Pay
    <3> DEFINE q == <<Pay(Current)>> \o Rest(Current + 1)
    <3>2. pipe = <<Hdr(Current)>> \o q /\ q \in Seq(Piece)
      <4>1. q \in Seq(Piece)
        BY <2>3, One
      <4>2. <<Hdr(Current), Pay(Current)>> \o Rest(Current + 1) = <<Hdr(Current)>> \o q
        <5>1. \A a, b \in Piece, t \in Seq(Piece) : <<a, b>> \o t = <<a>> \o (<<b>> \o t)
            BY TwoThenRest
        <5> QED
            BY <2>3, <5>1, Zenon
      <4> QED
        BY <2>2, <3>1, <4>1, <4>2, Zenon
    <3>3. Hdr(Current).size = need /\ Hdr(Current).size > 0 /\ Hdr(Current).size <= need
        BY <2>4 DEF Hdr, MessageHeaderLength
    <3> HIDE DEF q
    <3>4. msg' = Append(msg, Hdr(Current)) /\ need' = need - Hdr(Current).size /\ pipe' = q
        BY <1>2, <2>3, <3>2, <3>3, ReadPiece, Zenon
    <3>5. msg' = <<Hdr(Current)>> /\ need' = 0
        BY <1>2, <2>4, <3>3, <3>4
    <3>6. InFrame'
        BY <1>1, <1>2, <1>4, <2>1, <2>4, <2>5 DEF InFrame
    <3>7. InHeader'
        BY <1>2, <1>4, <1>5, <2>4, <3>4, <3>5, <3>6 DEF InHeader, q
    <3> QED
        BY <3>7 DEF Placed
  <2>6. CASE issued[Current].kind = "text"
    <3>1. Current = 2 /\ issued[2].length = 6 /\ Len(issued) >= 2
        BY <1>0, <1>1, <2>1, <2>6 DEF KeysInv, TextSize
    <3>2. HasText
        BY <2>6, <3>1 DEF HasText
    <3>3. Len(issued) = 2 /\ Len(outbox) = 1
      <4>1. Len(issued) = 2
        BY <2>4, <3>2, Zenon
      <4>2. Len(outbox) + 1 = 2 /\ Len(outbox) \in Nat
        BY <1>1, <3>1
      <4>3. \A n \in Nat : n + 1 = 2 => n = 1
        OBVIOUS
      <4> QED
        BY <4>1, <4>2, <4>3, Zenon
    <3> DEFINE p == [frame |-> 2, size |-> 6, length |-> TextLength]
    <3>4. p \in Piece /\ p.size > need /\ [p EXCEPT !.size = p.size - need] = TextRest
        BY <2>4, TextLengthAssumption DEF Piece, TextRest, TextSize, MessageHeaderLength
    <3>5. pipe = <<p>> \o <<>>
      <4>1. Rest(Current + 1) = <<>>
        BY <3>1, <3>3 DEF Rest, RestOf
      <4>2. Pieces(Current, issued[Current]) = <<p>>
        BY <2>6, <3>1 DEF Pieces
      <4> QED
        BY <2>2, <4>1, <4>2
    <3>6. [p EXCEPT !.size = need].length = TextLength
        OBVIOUS
    <3> HIDE DEF p
    <3>7. /\ msg' = Append(msg, [p EXCEPT !.size = need]) /\ need' = 0
          /\ pipe' = << [p EXCEPT !.size = p.size - need] >> \o <<>>
        BY <1>2, <1>6, <3>4, <3>5, ReadPiece, Zenon
    <3>8. msg' = << [p EXCEPT !.size = need] >> /\ pipe' = <<TextRest>>
      <4>1. <<TextRest>> \o <<>> = <<TextRest>>
        BY <1>1, <1>6, One
      <4>2. Append(<<>>, [p EXCEPT !.size = need]) = << [p EXCEPT !.size = need] >>
        OBVIOUS
      <4> QED
        BY <2>4, <3>4, <3>7, <4>1, <4>2, Zenon
    <3>9. msg' # <<>> /\ msg'[1].length = TextLength
        BY <3>6, <3>8
    <3>10. TextRest' = TextRest
        BY DEF TextRest
    <3>11. InTextHeader'
        BY <1>2, <1>4, <2>4, <3>2, <3>3, <3>7, <3>8, <3>9, <3>10 DEF InTextHeader
    <3> QED
        BY <3>11 DEF Placed
  <2> QED
    BY <2>5, <2>6
<1>8. ASSUME Between, Current > 1, issued[Current - 1].length = 0,
             pipe = <<Pay(Current - 1)>> \o Rest(Current)
      PROVE  Placed'
  <2>1. Current - 1 \in 1 .. Len(issued)
    BY <1>1, <1>8
  <2>2. Pay(Current - 1) \in Piece /\ Rest(Current) \in Seq(Piece) /\ Pay(Current - 1).size = 0
    BY <1>1, <1>8, <2>1 DEF Pay
  <2>3. msg' = msg /\ need' = need /\ pipe' = Rest(Current)
    BY <1>2, <1>8, <2>2, ReadPiece
  <2>4. Between'
    BY <1>2, <1>4, <1>5, <1>8, <2>3, Zenon DEF Between
  <2> QED
    BY <2>4 DEF Placed
<1>9. CASE InPayload
  <2>1. /\ Current \in 1 .. Len(issued) /\ pipe = <<Pay(Current)>> \o Rest(Current + 1)
        /\ need = issued[Current].length /\ msg = <<Hdr(Current)>> /\ writePc = "payload"
    BY <1>1, <1>9 DEF InPayload, InFrame
  <2>2. Pay(Current) \in Piece /\ Rest(Current + 1) \in Seq(Piece) /\ Pay(Current).size = need
    BY <1>1, <2>1 DEF Pay
  <2>7. Pay(Current).size > 0 /\ Pay(Current).size <= need
    BY <1>2, <2>2
  <2>3. msg' = Append(msg, Pay(Current)) /\ need' = need - Pay(Current).size /\ pipe' = Rest(Current + 1)
    BY <1>2, <2>1, <2>2, <2>7, ReadPiece, Zenon
  <2>4. msg' = <<Hdr(Current), Pay(Current)>> /\ need' = 0
    <3>1. Append(<<Hdr(Current)>>, Pay(Current)) = <<Hdr(Current), Pay(Current)>>
      <4>1. Hdr(Current) \in Piece
        BY <1>1, <2>1
      <4> QED
        BY <1>6, <2>2, <4>1, Two, Zenon
    <3>2. need - need = 0
        BY <1>2
    <3> QED
        BY <2>1, <2>2, <2>3, <3>1, <3>2, Zenon
  <2>5. InFrame'
    BY <1>2, <1>4, <1>9, Zenon DEF InPayload, InFrame
  <2>6. AllRead'
    BY <1>2, <1>4, <1>5, <2>1, <2>3, <2>4, <2>5 DEF AllRead
  <2> QED
    BY <2>6 DEF Placed
<1>10. CASE InText
  <2>0. HasText /\ Len(outbox) = 1 /\ writePc = "payload"
    BY <1>10 DEF InText
  <2>1. CASE Len(issued) = 2 /\ need = TextLength /\ pipe = <<TextRest>>
    <3>1. TextRest.size = 1 /\ TextRest.size > 0 /\ TextRest.size <= need
        BY <1>2 DEF TextRest, TextSize, MessageHeaderLength
    <3>2. pipe = <<TextRest>> \o <<>>
        BY <1>1, <1>6, <2>1, One
    <3>3. need' = need - TextRest.size /\ pipe' = <<>>
        BY <1>1, <1>2, <1>6, <3>1, <3>2, ReadPiece, Zenon
    <3>4. need' = TextLength - 1
        BY <2>1, <3>1, <3>3
    <3>5. InText'
        BY <1>2, <1>4, <2>0, <2>1, <3>3, <3>4, Zenon DEF InText
    <3> QED
        BY <3>5 DEF Placed
  <2>2. CASE Len(issued) = 3 /\ need = TextLength - 1 /\ pipe = <<Hdr(3), Pay(3)>>
    <3>0. Hdr(3) \in Piece /\ Pay(3) \in Piece
        BY <1>1, <2>2
    <3>1. Hdr(3).size = 5 /\ Hdr(3).size > 0 /\ Hdr(3).size <= need
        BY <2>2, TextLengthAssumption DEF Hdr, MessageHeaderLength
    <3>2. pipe = <<Hdr(3)>> \o <<Pay(3)>> /\ <<Pay(3)>> \in Seq(Piece)
        BY <1>6, <2>2, <3>0, One, Two
    <3>3. need' = need - Hdr(3).size /\ pipe' = <<Pay(3)>>
        BY <1>2, <3>0, <3>1, <3>2, ReadPiece, Zenon
    <3>4. need' = TextLength - 6
        BY <2>2, <3>1, <3>3, TextLengthAssumption
    <3>5. InText'
        BY <1>2, <1>4, <1>5, <2>0, <2>2, <3>3, <3>4, Zenon DEF InText
    <3> QED
        BY <3>5 DEF Placed
  <2>3. CASE Len(issued) = 3 /\ need = TextLength - 6 /\ pipe = <<Pay(3)>>
    <3>0. Pay(3) \in Piece /\ Pay(3).size \in Nat /\ Pay(3).size <= 6
      <4>1. mainPc \in {"closing", "wait", "done"}
        BY <1>0, <2>0, <2>3 DEF ServeInv, TypeOK
      <4>2. issued[3].length <= 6
        BY <1>0, <1>2, <2>0, <4>1 DEF CloseInv
      <4>3. Pay(3) \in Piece
        BY <1>1, <2>3
      <4> QED
        BY <4>2, <4>3 DEF Pay, Piece
    <3>1. pipe = <<Pay(3)>> \o <<>>
        BY <1>6, <2>3, <3>0, One
    <3>2. need' = need - Pay(3).size /\ pipe' = <<>>
      <4>1. CASE Pay(3).size = 0
        <5>1. need' = need /\ pipe' = <<>>
            BY <1>2, <1>6, <3>0, <3>1, <4>1, ReadPiece, Zenon
        <5> QED
            BY <1>2, <4>1, <5>1
      <4>2. CASE Pay(3).size # 0
        <5>1. Pay(3).size > 0 /\ Pay(3).size <= need
            BY <2>3, <3>0, <4>2, TextLengthAssumption
        <5> QED
            BY <1>2, <1>6, <3>0, <3>1, <5>1, ReadPiece, Zenon
      <4> QED
        BY <4>1, <4>2
    <3>3. need' >= TextLength - 12
        BY <2>3, <3>0, <3>2, TextLengthAssumption
    <3>4. InText'
        BY <1>2, <1>4, <2>0, <2>3, <3>2, <3>3, Zenon DEF InText
    <3> QED
        BY <3>4 DEF Placed
  <2> QED
    BY <1>2, <1>10, <2>1, <2>2, <2>3 DEF InText
<1>11. ~InHeader /\ ~AllRead /\ ~InTextHeader
    BY <1>2 DEF InHeader, AllRead, InTextHeader
<1> QED
    BY <1>3, <1>7, <1>8, <1>9, <1>10, <1>11, Zenon DEF Placed, Between
\* The header tells how much is still to be read.
LEMMA ParsePlace ==
    ASSUME Inv, WriteParse
    PROVE  Placed'
<1>0. TypeOK /\ FramesInOrder /\ WriterInv
    BY DEF Inv
<1>1. /\ writePc = "header" /\ need = 0 /\ need' = msg[1].length /\ writePc' = "payload"
      /\ UNCHANGED <<issued, pipe, msg, outbox>>
    BY DEF WriteParse, pipeVars, connVars
<1>2. Current' = Current /\ (HasText' <=> HasText)
    BY <1>1 DEF Current, HasText
<1>3. \A i : Hdr(i)' = Hdr(i) /\ Pay(i)' = Pay(i) /\ Rest(i)' = Rest(i)
    BY WriterFrame
<1>4. InHeader \/ InTextHeader
  <2>1. Placed
    BY <1>0, <1>1 DEF WriterInv, Placed
  <2> QED
    BY <1>1, <2>1 DEF Placed, Between, InPayload, AllRead, InText, MessageHeaderLength
<1>5. CASE InHeader
  <2>1. msg[1].length = issued[Current].length
    <3>1. msg = <<Hdr(Current)>>
        BY <1>5 DEF InHeader
    <3>2. msg[1] = Hdr(Current)
        BY <3>1
    <3> QED
        BY <3>2 DEF Hdr
  <2>2. InFrame'
    BY <1>1, <1>2, <1>5, Zenon DEF InHeader, InFrame
  <2>3. InPayload'
    BY <1>1, <1>2, <1>3, <1>5, <2>1, <2>2, Zenon DEF InHeader, InPayload
  <2> QED
    BY <2>3 DEF Placed
<1>6. CASE InTextHeader
  <2>1. InText'
    BY <1>1, <1>2, <1>6, Zenon DEF InTextHeader, InText, TextRest
  <2> QED
    BY <2>1 DEF Placed
<1> QED
    BY <1>4, <1>5, <1>6

\* A message that is sent is the whole of the next frame.
LEMMA SendPlace ==
    ASSUME Inv, WriteSend
    PROVE  Placed' /\ FramesInOrder'
<1>0. TypeOK /\ FramesInOrder /\ WriterInv
    BY DEF Inv
<1>1. /\ writePc = "payload" /\ need = 0 /\ outbox' = Append(outbox, msg)
      /\ msg' = <<>> /\ need' = MessageHeaderLength /\ writePc' = "header"
      /\ UNCHANGED <<issued, pipe>>
    BY DEF WriteSend, pipeVars
<1>2. /\ Len(issued) \in Nat /\ Len(outbox) \in Nat /\ Current \in Nat \ {0}
      /\ \A i \in Nat \ {0} : Rest(i) \in Seq(Piece)
      /\ \A i \in 1 .. Len(issued) : issued[i] \in Frame /\ Hdr(i) \in Piece /\ Pay(i) \in Piece
      /\ Current = Len(outbox) + 1
    BY <1>0, PipeNotEmpty DEF Current
<1>3. HasText' <=> HasText
    BY <1>1 DEF HasText
<1>4. \A i : Hdr(i)' = Hdr(i) /\ Pay(i)' = Pay(i) /\ Rest(i)' = Rest(i)
    BY WriterFrame
<1>5. /\ Len(outbox') = Current /\ Current' = Current + 1 /\ outbox'[Current] = msg
      /\ \A i \in 1 .. Len(outbox) : outbox'[i] = outbox[i]
  <2>1. /\ Len(outbox') = Len(outbox) + 1 /\ outbox'[Len(outbox) + 1] = msg
        /\ \A i \in 1 .. Len(outbox) : outbox'[i] = outbox[i]
    BY <1>0, <1>1, AppendProperties DEF TypeOK
  <2> QED
    BY <1>2, <2>1 DEF Current
<1>6. InPayload \/ AllRead
  <2>1. Placed
    BY <1>0, <1>1 DEF WriterInv, Placed
  <2>2. ~InText
    BY <1>1, TextLengthAssumption DEF InText
  <2> QED
    BY <1>1, <2>1, <2>2 DEF Placed, Between, InHeader, InTextHeader
<1>7. InFrame /\ Current \in 1 .. Len(issued)
    BY <1>2, <1>6 DEF InPayload, AllRead, InFrame
<1>8. msg = Whole(Current, issued[Current])
  <2>1. Pieces(Current, issued[Current]) = <<Hdr(Current), Pay(Current)>>
    BY <1>7 DEF Pieces, Hdr, Pay, InFrame
  <2>2. CASE AllRead
    BY <2>1, <2>2 DEF AllRead, Whole
  <2>3. CASE InPayload
    <3>1. issued[Current].length = 0 /\ msg = <<Hdr(Current)>>
        BY <1>1, <2>3 DEF InPayload
    <3>2. ~(issued[Current].length > 0)
        BY <3>1
    <3>3. Head(<<Hdr(Current), Pay(Current)>>) = Hdr(Current)
        OBVIOUS
    <3> QED
        BY <2>1, <3>1, <3>2, <3>3, Zenon DEF Whole
  <2> QED
    BY <1>6, <2>2, <2>3
<1>9. FramesInOrder'
  <2>1. Len(outbox') <= Len(issued')
    BY <1>1, <1>2, <1>5, <1>7
  <2>2. ASSUME NEW i \in 1 .. Len(outbox')
        PROVE  issued'[i].kind # "text" /\ outbox'[i] = Whole(i, issued'[i])
    <3>1. CASE i = Current
        BY <1>1, <1>5, <1>7, <1>8, <3>1 DEF InFrame
    <3>2. CASE i # Current
      <4>1. i \in 1 .. Len(outbox)
        BY <1>2, <1>5, <3>2
      <4> QED
        BY <1>0, <1>1, <1>5, <4>1 DEF FramesInOrder
    <3> QED
        BY <3>1, <3>2
  <2> QED
    BY <2>1, <2>2 DEF FramesInOrder
<1>10. Between'
  <2>1. Len(issued') - 1 <= Current' /\ Current' - 1 = Current /\ Current' > 1
    BY <1>1, <1>2, <1>5, <1>7 DEF InFrame
  <2>2. HasText' => Len(issued') = 2
    BY <1>1, <1>3, <1>7, Zenon DEF InFrame
  <2>3. CASE AllRead
    <3>1. pipe' = Rest(Current)'
        BY <1>1, <1>4, <1>5, <2>3 DEF AllRead
    <3> QED
        BY <1>1, <2>1, <2>2, <3>1, Zenon DEF Between
  <2>4. CASE InPayload
    <3>1. issued'[Current].length = 0 /\ pipe' = <<Pay(Current)>> \o Rest(Current + 1)
        BY <1>1, <2>4 DEF InPayload
    <3>2. Pay(Current - 1)' = Pay(Current) /\ Rest(Current)' = Rest(Current + 1)
        BY <1>1, <1>5, <2>1 DEF Pay, Rest
    <3> QED
        BY <1>1, <2>1, <2>2, <3>1, <3>2, Zenon DEF Between
  <2> QED
    BY <1>6, <2>3, <2>4
<1> QED
    BY <1>9, <1>10 DEF Placed
\* The writer's steps, the peer's and stuttering.
LEMMA WriterPlace ==
    ASSUME Inv, Writer \/ Peer \/ UNCHANGED vars
    PROVE  FramesInOrder' /\ WriterInv' /\ EndInv'
<1>0. TypeOK /\ FramesInOrder /\ WriterInv /\ EndInv
    BY DEF Inv
<1>1. ASSUME WriteRead \/ WriteParse \/ WriteSend, Placed', FramesInOrder'
      PROVE  FramesInOrder' /\ WriterInv' /\ EndInv'
  <2>1. /\ writePc \in {"header", "payload"} /\ writePc' \in {"header", "payload"}
        /\ UNCHANGED <<pipeClosed, mainPc, closeCode>>
    BY <1>1 DEF WriteRead, WriteParse, WriteSend, serverVars, pipeVars, connVars
  <2>2. WriterInv'
    BY <1>1, <2>1 DEF WriterInv, Placed
  <2>3. EndInv'
    BY <1>0, <2>1 DEF EndInv
  <2> QED
    BY <1>1, <2>2, <2>3
<1>2. ASSUME WriteRead \/ WriteParse PROVE FramesInOrder'
  <2>1. UNCHANGED <<issued, outbox>>
    BY <1>2 DEF WriteRead, WriteParse, pipeVars, connVars
  <2> QED
    BY <1>0, <2>1, Zenon DEF FramesInOrder
<1>3. CASE WriteRead
    BY <1>1, <1>2, <1>3, ReadPlace
<1>4. CASE WriteParse
    BY <1>1, <1>2, <1>4, ParsePlace
<1>5. CASE WriteSend
    BY <1>1, <1>5, SendPlace
<1>6. CASE WriteSendErr
  <2>1. /\ writePc = "payload" /\ writePc' = "fail"
        /\ UNCHANGED <<issued, outbox, mainPc, pipeClosed, closeCode>>
    BY <1>6 DEF WriteSendErr, serverVars, pipeVars, connVars
  <2> QED
    BY <1>0, <2>1 DEF FramesInOrder, WriterInv, EndInv
<1>7. CASE WriteEOF
  <2>1. /\ writePc \in {"header", "payload"} /\ writePc' = AtEOF /\ pipe = <<>> /\ pipeClosed
        /\ UNCHANGED <<issued, outbox, mainPc, pipeClosed, closeCode, link, msg, need>>
    BY <1>7 DEF WriteEOF, serverVars, pipeVars, connVars
  <2>2. writePc' = "done" => writePc = "header"
    BY <2>1 DEF AtEOF
  <2>3. ASSUME writePc' = "done" PROVE Len(outbox) = Len(issued)
    <3>1. Placed
        BY <1>0, <2>1 DEF WriterInv, Placed
    <3>2. ~AllRead /\ ~InText
        BY <2>2, <2>3 DEF AllRead, InText
    <3>3. Current = Len(issued) + 1
        BY <1>0, <2>1, <3>1, <3>2, EmptyPipe
    <3>4. Len(outbox) \in Nat /\ Len(issued) \in Nat /\ Current = Len(outbox) + 1
        BY <1>0, PipeNotEmpty DEF Current
    <3> QED
        BY <3>3, <3>4
  <2>4. writePc' \in {"done", "fail"}
    BY <2>1 DEF AtEOF
  <2> QED
    BY <1>0, <2>1, <2>3, <2>4 DEF FramesInOrder, WriterInv, EndInv
<1>8. CASE WriteFail
  <2>1. /\ writePc = "fail" /\ writePc' = "done" /\ link' = "down"
        /\ closeCode' = (IF link = "up" THEN "internal" ELSE closeCode)
        /\ UNCHANGED <<issued, outbox, mainPc, pipeClosed>>
    BY <1>8 DEF WriteFail, CloseConn, serverVars, pipeVars
  <2> QED
    BY <1>0, <2>1 DEF FramesInOrder, WriterInv, EndInv
<1>9. CASE Peer \/ UNCHANGED vars
  <2>1. /\ UNCHANGED <<issued, pipe, writePc, msg, need, outbox, mainPc, pipeClosed, closeCode>>
        /\ link' = link \/ (link = "up" /\ link' = "down")
    BY <1>9 DEF Peer, LinkDown, Stall, vars, serverVars, pipeVars, writeVars, connVars
  <2>2. (Placed => Placed') /\ FramesInOrder'
    BY <1>0, <2>1, SamePlace
  <2>3. WriterInv'
    BY <1>0, <2>1, <2>2 DEF WriterInv, Placed
  <2>4. EndInv'
    BY <1>0, <2>1 DEF EndInv
  <2> QED
    BY <2>2, <2>3, <2>4
<1> QED
    BY <1>3, <1>4, <1>5, <1>6, <1>7, <1>8, <1>9 DEF Writer

------------------------------------------------------------------------------
(* The theorems                                                             *)

\* Every step keeps the invariant.
LEMMA InvStep == Inv /\ [Next]_vars => Inv'
<1> SUFFICES ASSUME Inv, [Next]_vars PROVE Inv'
    OBVIOUS
<1>1. TypeOK'
    BY TypeStep
<1>2. CASE GRPCSendHeader
    BY <1>1, <1>2, SendHeaderStep, ExtendsPlace DEF Inv
<1>3. CASE GRPCSend
    BY <1>1, <1>3, SendStep, ExtendsPlace DEF Inv
<1>4. CASE GRPCReject
    BY <1>1, <1>4, RejectStep, ExtendsPlace DEF Inv
<1>5. CASE CloseResponse
    BY <1>1, <1>5, CloseResponseStep, ExtendsPlace DEF Inv
<1>6. CASE GRPCStatus \/ GRPCStop \/ Accept \/ AcceptErr \/ ClosePipe \/ Finish
    BY <1>1, <1>6, QuietHandlerStep, QuietHandlerPlace DEF Inv
<1>7. CASE Writer \/ Peer \/ UNCHANGED vars
    BY <1>1, <1>7, QuietWriterStep, WriterPlace DEF Inv
<1> QED
    BY <1>2, <1>3, <1>4, <1>5, <1>6, <1>7 DEF Next, GRPCServer, Handler

\* The invariant holds of every behaviour.
THEOREM InvHolds == Spec => []Inv
<1>1. Inv /\ [Next]_vars => Inv'
    BY InvStep
<1> QED
    BY InvInit, <1>1, PTL DEF Spec

\* handleGRPCWS: whatever the gRPC server writes, every WebSocket message is one of its
\* frames, whole and in order, and an error text never passes for one.
THEOREM FramesIntact == Spec => []FramesInOrder
<1>1. Inv => FramesInOrder
    BY DEF Inv
<1> QED
    BY InvHolds, <1>1, PTL

\* A normal closure tells the client that it has everything, the status last.
THEOREM NormalMeansComplete == Spec => []NormalClosureMeansComplete
<1>1. Inv => NormalClosureMeansComplete
  <2> SUFFICES ASSUME Inv, closeCode = "normal"
               PROVE  /\ Len(outbox) = Len(issued)
                      /\ statusSet => "Grpc-Status" \in issued[Len(outbox)].keys
    BY DEF NormalClosureMeansComplete
  <2>1. mainPc = "done" /\ writePc = "done" /\ Len(outbox) = Len(issued)
    BY DEF Inv, EndInv
  <2>2. statusSet => "Grpc-Status" \in issued[Len(issued)].keys
    BY <2>1 DEF Inv, CloseInv
  <2> QED
    BY <2>1, <2>2
<1> QED
    BY InvHolds, <1>1, PTL

\* The client gets each header, trailer and the status at most once, and neither the
\* announcement of the trailers nor a trailer's prefix.
THEOREM KeysSentOnce == Spec => []EachKeyOnce
<1>1. Inv => EachKeyOnce
  <2> SUFFICES ASSUME Inv PROVE EachKeyOnce
    OBVIOUS
  <2>0. TypeOK /\ KeysInv /\ FramesInOrder
    BY DEF Inv
  <2>1. Len(issued) \in Nat /\ Len(outbox) \in Nat /\ Len(outbox) <= Len(issued)
    BY <2>0 DEF TypeOK, FramesInOrder
  <2>2. ASSUME NEW i \in 1 .. Len(outbox), NEW j \in 1 .. Len(outbox), i # j
        PROVE  issued[i].keys \cap issued[j].keys = {}
    <3>1. i \in 1 .. Len(issued) /\ j \in 1 .. Len(issued)
        BY <2>1
    <3>2. CASE ~HasText
        BY <2>0, <2>2, <3>1, <3>2, Zenon DEF KeysInv
    <3>3. CASE HasText
      <4>1. 2 \notin 1 .. Len(outbox)
        BY <2>0, <3>3 DEF HasText, FramesInOrder
      <4> QED
        BY <2>1, <2>2, <4>1
    <3> QED
        BY <3>2, <3>3, Zenon
  <2>3. ASSUME NEW i \in 1 .. Len(outbox)
        PROVE  issued[i].keys \cap {"Trailer", "Trailer:T"} = {}
    <3>1. i \in 1 .. Len(issued)
        BY <2>1
    <3> QED
        BY <2>0, <3>1, Zenon DEF KeysInv
  <2> QED
    BY <2>2, <2>3, Zenon DEF EachKeyOnce
<1> QED
    BY InvHolds, <1>1, PTL
==============================================================================
