----------------------------- MODULE MediaFormat -----------------------------
(***************************************************************************)
(* The format conversions of the MediaCodec NDK wrapper (kosapi            *)
(* mediacodec2api.cpp).  JMediaCodec::configure turns the caller's        *)
(* kosMediaFormat into the AMessage MediaCodec::configure takes            *)
(* (ConvertMediaFormatToMessage), and converts that message back for its  *)
(* log (ConvertMessageToMediaFormat); getFormat converts the codec's       *)
(* input or output format the same way.                                    *)
(*                                                                         *)
(* A kosMediaFormat is a record of its twelve fields; mime is a string    *)
(* shorter than KOS_MAX_NAME_LEN (so strlcpy copies it whole), "" being    *)
(* the empty string of a zeroed struct.  An AMessage is the sequence of   *)
(* its entries in insertion order, each a key, a type and a value; a       *)
(* kTypeRect value is a record of left, top, right and bottom.             *)
(***************************************************************************)
EXTENDS Integers, Sequences, SequencesExt

\* The #defines KEY_MIME ... KEY_LEVEL: the string each macro stands for.
KEY == [KEY_MIME |-> "mime", KEY_WIDTH |-> "width", KEY_HEIGHT |-> "height",
        KEY_COLOR_FORMAT |-> "color-format", KEY_STRIDE |-> "stride",
        KEY_SLICE_HEIGHT |-> "slice-height", KEY_BIT_RATE |-> "bitrate",
        KEY_BITRATE_MODE |-> "bitrate-mode", KEY_FRAME_RATE |-> "frame-rate",
        KEY_I_FRAME_INTERVAL |-> "i-frame-interval", KEY_PROFILE |-> "profile",
        KEY_LEVEL |-> "level"]

\* The int fields of kosMediaFormat, in declaration order.
IntFields == <<"width", "height", "colorFormat", "stride", "sliceHeight",
               "bitrate", "bitrateMode", "frameRate", "iFrameIntervalSec",
               "profile", "level">>

\* memset(format, 0, sizeof(kosMediaFormat)).
ZeroFormat == [f \in {"mime"} \cup Range(IntFields) |-> IF f = "mime" THEN "" ELSE 0]

Entry(k, t, v) == [key |-> k, type |-> t, val |-> v]

\* Keys AMessage users keep private: ConvertMessageToMediaFormat skips every
\* key that starts with "android._".  The message keys of this model that do.
PrivateKeys == {"android._dataspace", "android._color-format"}

-----------------------------------------------------------------------------
(* ConvertMediaFormatToMessage *)

\* A slip of the setInt32 chain: stride and sliceHeight under each other's key.
ToMessageKeysSwapped ==
    [width |-> KEY.KEY_WIDTH, height |-> KEY.KEY_HEIGHT,
     colorFormat |-> KEY.KEY_COLOR_FORMAT, stride |-> KEY.KEY_SLICE_HEIGHT,
     sliceHeight |-> KEY.KEY_STRIDE, bitrate |-> KEY.KEY_BIT_RATE,
     bitrateMode |-> KEY.KEY_BITRATE_MODE, frameRate |-> KEY.KEY_FRAME_RATE,
     iFrameIntervalSec |-> KEY.KEY_I_FRAME_INTERVAL,
     profile |-> KEY.KEY_PROFILE, level |-> KEY.KEY_LEVEL]

\* The setInt32 calls, as written: the macro each field is set under.
ToMessageKeys ==
    [width |-> KEY.KEY_WIDTH, height |-> KEY.KEY_HEIGHT,
     colorFormat |-> KEY.KEY_COLOR_FORMAT, stride |-> KEY.KEY_STRIDE,
     sliceHeight |-> KEY.KEY_SLICE_HEIGHT, bitrate |-> KEY.KEY_BIT_RATE,
     bitrateMode |-> KEY.KEY_BITRATE_MODE, frameRate |-> KEY.KEY_FRAME_RATE,
     iFrameIntervalSec |-> KEY.KEY_I_FRAME_INTERVAL,
     profile |-> KEY.KEY_PROFILE, level |-> KEY.KEY_LEVEL]

\* setString(KEY_MIME) unless mime[0] is '\0', then setInt32 for every
\* field that is not 0, in order.
ConvertMediaFormatToMessage(fmt) ==
    (IF fmt.mime # "" THEN <<Entry(KEY.KEY_MIME, "String", fmt.mime)>> ELSE <<>>)
      \o [i \in 1..Len(SelectSeq(IntFields, LAMBDA f : fmt[f] # 0)) |->
            LET f == SelectSeq(IntFields, LAMBDA g : fmt[g] # 0)[i]
            IN Entry(ToMessageKeys[f], "Int32", fmt[f])]

-----------------------------------------------------------------------------
(* ConvertMessageToMediaFormat *)

\* The strcmp chain of the kTypeInt32 case, as written: each macro compared
\* with the key, in order, and the field its branch stores.
Int32Chain ==
    <<<<KEY.KEY_WIDTH, "width">>, <<KEY.KEY_HEIGHT, "height">>,
      <<KEY.KEY_COLOR_FORMAT, "colorFormat">>, <<KEY.KEY_STRIDE, "stride">>,
      <<KEY.KEY_SLICE_HEIGHT, "sliceHeight">>, <<KEY.KEY_BIT_RATE, "bitrate">>,
      <<KEY.KEY_BITRATE_MODE, "bitrateMode">>, <<KEY.KEY_FRAME_RATE, "frameRate">>,
      <<KEY.KEY_I_FRAME_INTERVAL, "iFrameIntervalSec">>,
      <<KEY.KEY_PROFILE, "profile">>, <<KEY.KEY_LEVEL, "level">>>>

\* The field the first matching branch stores a key in.
FromMessageField ==
    [k \in {Int32Chain[i][1] : i \in 1..Len(Int32Chain)} |->
        Int32Chain[SelectInSeq(Int32Chain, LAMBDA b : b[1] = k)][2]]

\* One entry of the loop: private keys are skipped; an int32 with a known
\* key, a string under KEY_MIME (strlcpy) and a rect (1 + right - left by
\* 1 + bottom - top) write the format; every other entry is only read.
ApplyEntry(fmt, e) ==
    CASE e.key \in PrivateKeys -> fmt
      [] e.type = "Int32" /\ e.key \in DOMAIN FromMessageField ->
           [fmt EXCEPT ![FromMessageField[e.key]] = e.val]
      [] e.type = "String" /\ e.key = KEY.KEY_MIME -> [fmt EXCEPT !.mime = e.val]
      [] e.type = "Rect" ->
           [fmt EXCEPT !.width = 1 + e.val.right - e.val.left,
                       !.height = 1 + e.val.bottom - e.val.top]
      [] OTHER -> fmt

\* memset, then every entry in order: a later entry overwrites an earlier.
ConvertMessageToMediaFormat(msg) == FoldLeft(ApplyEntry, ZeroFormat, msg)

-----------------------------------------------------------------------------
(* Inputs: the formats a caller passes to MediaCodec_configure *)

\* MediaFormat_create(mime, width, height): a zeroed format with three fields.
MediaFormat_create(mime, width, height) ==
    [ZeroFormat EXCEPT !.mime = mime, !.width = width, !.height = height]

\* Every format with a mime or none and at most two other fields set, to
\* 1 or 2, and MediaFormat_create's 1280x720 AVC format.
ConfigureFormats ==
    {[ZeroFormat EXCEPT !.mime = m, ![a] = va, ![b] = vb] :
        m \in {"", "video/avc"}, a \in Range(IntFields), b \in Range(IntFields),
        va \in 1..2, vb \in 0..2}
    \cup {MediaFormat_create("video/avc", 1280, 720)}

-----------------------------------------------------------------------------
(* The round trip JMediaCodec::configure performs *)

\* Every format a caller can pass converts to an AMessage that converts
\* back to the same format (checked at Configure steps by MC_CodecRegistry).
FormatRoundTrip ==
    \A fmt \in ConfigureFormats :
        ConvertMessageToMediaFormat(ConvertMediaFormatToMessage(fmt)) = fmt

=============================================================================
