----------------------------- MODULE MCProgram -----------------------------
EXTENDS Program

TwoBytes == <<"a", "b">>
OneByte == <<"c">>
=============================================================================
