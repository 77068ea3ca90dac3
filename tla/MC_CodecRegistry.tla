-------------------------- MODULE MC_CodecRegistry --------------------------
(* CodecRegistry instantiated for TLC: application threads as model       *)
(* values, a handle counter of four values so that it wraps within the   *)
(* bound on constructed codecs.  MediaFormat's format conversions are    *)
(* checked in the same run.                                                 *)
EXTENDS CodecRegistry, MediaFormat

CONSTANTS t1, t2

MCThreadsOne == {t1}
MCThreadsTwo == {t1, t2}

\* JMediaCodec::configure converts the caller's format to the AMessage that
\* mCodec->configure() is given and back for its log.  At every configure
\* step, the two hand-written key chains of ConvertMediaFormatToMessage and
\* ConvertMessageToMediaFormat agree on every format a caller can pass. So
\* every field set reaches the codec under the key it is read back from,
\* and the format logged is the one passed in.
ConfigureKeepsFormat ==
    [][\A t \in Threads, h \in Ids : Configure(t, h) => FormatRoundTrip]_vars
====
