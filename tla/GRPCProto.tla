------------------------------ MODULE GRPCProto ------------------------------
(***************************************************************************)
(* internal/grpcproto: the length-prefixed gRPC frame and the tests both   *)
(* ends of a gRPC-WebSocket connection make on a received WebSocket        *)
(* message.  A message is reduced to what those tests look at: its first   *)
(* byte (flags), the length its header declares, and its actual size.      *)
(***************************************************************************)
EXTENDS Naturals

MessageHeaderLength == 5

metadataMask == 128

compressionMask == 1

\* A WebSocket message: mt is its WebSocket message type.
Message == [mt: {"binary", "text"}, flags: 0 .. 255, length: Nat, size: Nat]

HasBit(flags, mask) == (flags \div mask) % 2 = 1

IsDataFrame(m) == ~HasBit(m.flags, metadataMask)

IsMetadataFrame(m) == HasBit(m.flags, metadataMask)

IsCompressed(m) == HasBit(m.flags, compressionMask)

\* A well-formed frame has a whole header and exactly the declared payload.
ValidateGRPCFrame(m) ==
    /\ m.size >= MessageHeaderLength
    /\ m.size = MessageHeaderLength + m.length

\* EndStreamHeader: the metadata flag alone and an empty payload.
IsEndOfStream(m) ==
    /\ m.flags = metadataMask
    /\ m.length = 0
    /\ m.size = MessageHeaderLength

\* MakeMessageHeader followed by its payload, sent as one binary message.
MakeFrame(flags, length) ==
    [mt |-> "binary", flags |-> flags, length |-> length,
     size |-> MessageHeaderLength + length]
==============================================================================
