------------------------ MODULE MCStreamReassembler ------------------------
(***************************************************************************)
(* Small instances of StreamReassemblerSpec.                               *)
(***************************************************************************)
EXTENDS StreamReassemblerSpec

OneByte == { <<x>> : x \in Byte }
OneOrAll == { 1, Capacity }
=============================================================================
