----------------------------- MODULE MCSessionIO -----------------------------
(* TLC instances of SessionIO: small packets, streams with a packet that is    *)
(* shorter than its header and with one that is longer than the limit.         *)
EXTENDS SessionIO

CONSTANTS s1, s2, s3, talker, listener
MCStreams ==
  [s \in Sessions |->
     CASE s = talker -> {<<2, 2, 4>>, <<3, 1, 2>>, <<5>>}
       [] s = listener -> {<<>>}
       [] OTHER -> {<<2>>}]
=============================================================================
