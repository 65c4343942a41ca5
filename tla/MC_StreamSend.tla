--------------------------- MODULE MC_StreamSend ---------------------------
(* Model-checking instance of StreamSend: two bytes, two error codes.      *)
EXTENDS StreamSend, TLC

CONSTANTS e1, e2, NoneVal

MC_NumBytes == 3
MC_ErrorCodes == {e1, e2}

\* 2^64 - 1 is beyond TLC's integers; its largest one stands in.  Only the
\* wrap at 0 matters: every offset from NumBytes up is never acked.
MC_U64Max == 2147483647

\* The liveness run: two bytes and one error code keep the fairness
\* conditions (one per frame) within reach; the error code plays no part in
\* closure.
MC_NumBytesLive == 2
MC_ErrorCodesLive == {e1}

\* The two error codes are interchangeable.
MC_Symmetry == Permutations(MC_ErrorCodes)
=============================================================================
