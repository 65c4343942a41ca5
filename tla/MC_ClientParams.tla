-------------------------- MODULE MC_ClientParams --------------------------
(* Model-checking instance of ClientParams.  The limits are mvfst's        *)
(* constants, except the stream limit (2^60 in the code), which stands in  *)
(* as 1000 so that a server value above it stays small.                    *)
EXTENDS ClientParams, TLC

CONSTANTS NoneVal

\* A server that sends or omits each parameter that the negotiated fields
\* or the cache depend on, and may send an unacceptable reliable-reset
\* parameter or mismatching connection ids.
MC_ServerParams ==
    [malformed : {FALSE}, reliable : {"absent", "empty", "nonempty"},
     cidMatch : BOOLEAN, maxData : {1000, 2000}, maxStreamsBidi : {5, 10, 2000},
     idleTimeout : {NoneVal, 30000, 900000}, ackDelayExponent : {NoneVal},
     packetSize : {NoneVal}, maxDatagramFrameSize : {NoneVal},
     tsEnabled : {NoneVal, 1}, tsMax : {3, 200}, tsExp : {2},
     knob : {NoneVal, 1}]

\* A server whose ack_delay_exponent is too large, after everything before
\* that check is acceptable.
MC_ServerParamsAckDelay ==
    [malformed : {FALSE}, reliable : {"empty"}, cidMatch : {TRUE},
     maxData : {1000}, maxStreamsBidi : {10}, idleTimeout : {30000},
     ackDelayExponent : {25}, packetSize : {NoneVal},
     maxDatagramFrameSize : {NoneVal}, tsEnabled : {NoneVal}, tsMax : {NoneVal},
     tsExp : {NoneVal}, knob : {NoneVal}]

\* A server asking for ack receive timestamps with a per-ack maximum that
\* does not fit in eight bits.
MC_ServerParamsWideTs ==
    [malformed : {FALSE}, reliable : {"absent"}, cidMatch : {TRUE},
     maxData : {1000}, maxStreamsBidi : {10}, idleTimeout : {30000},
     ackDelayExponent : {NoneVal}, packetSize : {NoneVal},
     maxDatagramFrameSize : {NoneVal}, tsEnabled : {1}, tsMax : {256},
     tsExp : {2}, knob : {NoneVal}]
=============================================================================
