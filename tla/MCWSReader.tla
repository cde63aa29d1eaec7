----------------------------- MODULE MCWSReader -----------------------------
(* Instances of WSReader for TLC. *)
EXTENDS WSReader

Data(n) == MakeFrame(0, n)
EOS == MakeFrame(metadataMask, 0)
Metadata == MakeFrame(metadataMask, 1)
Text == [Data(1) EXCEPT !.mt = "text"]
Short == [Data(0) EXCEPT !.size = 3]
Oversize == [Data(1) EXCEPT !.size = 7]

\* Complete requests (with a message after the end of the stream, which a
\* client should not send), and requests that break each of the rules.
MCScripts ==
    { <<>>, <<EOS>>,
      <<Data(0), Data(2), EOS>>,
      <<MakeFrame(compressionMask, 1), EOS, Data(0)>>,
      <<Data(0), Metadata, EOS>>,
      <<Data(1), Text, Data(0)>>,
      <<Data(0), Short, Data(0)>>,
      <<Oversize, EOS>> }

MCReadSizes == {2, 5}
==============================================================================
