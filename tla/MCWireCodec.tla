----------------------------- MODULE MCWireCodec -----------------------------
(* Messages of one or two fields: an int8 of 255, an int32 of 258 (bytes   *)
(* 2 1 0 0), an int64 of 1, the string of codes 1 2, the empty string and  *)
(* the raw bytes FF 00; each parsed from every prefix of its encoding.     *)
EXTENDS WireCodec

MCFields ==
    {Int8(255), Int32(258), Int64(1), Str(<< 1, 2 >>), Str(<< >>), Raw(<< 255, 0 >>)}

MCMessages ==
    {<< f >> : f \in MCFields} \cup {<< f, g >> : f, g \in MCFields}

=============================================================================
