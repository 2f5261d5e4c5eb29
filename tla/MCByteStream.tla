---------------------------- MODULE MCByteStream ----------------------------
EXTENDS ByteStreamSpec, SequencesExt

\* strings up to one byte longer than the buffer, so that writes are cut short
AllChunks == BoundedSeq(Byte, Capacity + 1)

\* from nothing to one byte more than there can be
AllSizes == 0 .. Capacity + 1
=============================================================================
