---------------------------- MODULE RecordScreen ----------------------------
(***************************************************************************)
(* One capture session of kosapi screenrecord.cpp, end to end, on the     *)
(* encoder thread: kosRecordScreenLoop resets the globals and calls        *)
(* recordScreen, which reads the main display, sizes the video (with a    *)
(* 720p fallback), prepares the AVC encoder or a raw-frame surface and the *)
(* virtual display, runs runEncoder (or the copyFrame loop) until stopped  *)
(* or failed, shuts everything down, and kosRecordScreenLoop resets gPause *)
(* and gRequireSetPause.  Another thread calls kosStopRecordScreen and     *)
(* kosPauseRecordScreen; the caller may start the loop again.             *)
(*                                                                         *)
(* The codec is abstracted to what runEncoder reacts to: the results of   *)
(* dequeueOutputBuffer, its codec-specific data (CSD), numbered by        *)
(* generation, and whether a sync frame is due.  Pixel data is left out.  *)
(***************************************************************************)
EXTENDS Integers, Projection

CONSTANTS
    Orientations,  \* DISPLAY_ORIENTATION_* values the main display takes
    MainSizes,     \* <<w, h>> sizes of the main display at orientation 0
    MaxFormats,    \* CSD generations produced in one behaviour
    MaxRecords     \* kosRecordScreenLoop calls in one behaviour

ASSUME /\ Orientations \subseteq 0..3 /\ 0 \in Orientations
       /\ MainSizes \subseteq (Nat \X Nat)
          /\ MaxFormats \in Nat \ {0, 1} /\ MaxRecords \in Nat \ {0}

kFallbackWidth == 1280
kFallbackHeight == 720

\* Program counter of the encoder thread.
Pcs == {"idle", "dpyinfo", "encoder", "retry", "surface", "vdisplay",
        "getbufs", "top", "apply", "dequeue", "frames", "shutdown",
        "resetPause", "resetFlag"}

\* A frame handed to didScreenCaptured: raw (copyFrame) or AVC; for AVC
\* whether it is a sync frame, the CSD generation prepended to it (0 =
\* none), the generation of the codec's own CSD, the orientation in flags2,
\* and whether runEncoder's getDisplayInfo succeeded for it.
NoFrame == [raw |-> FALSE, sync |-> FALSE, prefix |-> 0, csd |-> 0, tag |-> 0,
            fresh |-> FALSE]

VARIABLES
    pc,               \* encoder thread
    h264,             \* gOutputFormat is FORMAT_H264 (else FORMAT_RAW_FRAMES)
    gVideo,           \* <<gVideoWidth, gVideoHeight>>
    gStopRequested,
    gPause,
    gRequireSetPause,
    rsOrient,         \* recordScreen's mainDpyInfo.orientation
    codecOn,          \* the encoder is created and started
    encDrop,          \* its drop-input-frames parameter
    csdGen,           \* generation of the CSD the codec now has
    csdDue,           \* the codec's next buffer is its CSD
    syncDue,          \* the codec's next frame is a sync frame
    configData,       \* runEncoder's configData: a CSD generation, 0 = none
    dpyOrient,        \* runEncoder's mainDpyInfo.orientation
    orientation,      \* runEncoder's orientation argument / local
    proj,             \* orientation the virtual display is projected for
    display,          \* the main display's orientation
    dpySize,          \* the main display's size (fixed in a behaviour)
    captured,         \* the last frame handed to didScreenCaptured
    ppc,              \* kosPauseRecordScreen's caller: "idle" or "flag",
                      \* between its gPause and gRequireSetPause stores
    records           \* kosRecordScreenLoop calls so far

vars == <<pc, h264, gVideo, gStopRequested, gPause, gRequireSetPause,
          rsOrient, codecOn, encDrop, csdGen, csdDue, syncDue, configData,
          dpyOrient, orientation, proj, display, dpySize, captured, ppc,
          records>>

codecVars == <<codecOn, encDrop, csdGen, csdDue, syncDue>>
localVars == <<configData, dpyOrient, orientation>>

isDeviceRotated(o) == o \notin {0, 2}

\* The video size recordScreen picks when gVideoWidth / gVideoHeight are 0.
VideoSize(o) ==
    IF isDeviceRotated(o) THEN <<dpySize[2], dpySize[1]>> ELSE dpySize

Frames == [raw : BOOLEAN, fresh : BOOLEAN, sync : BOOLEAN, prefix : 0..MaxFormats, csd : 0..MaxFormats,
           tag : Orientations]

TypeOK ==
    /\ pc \in Pcs
    /\ h264 \in BOOLEAN
    /\ gVideo \in {<<0, 0>>, VideoSize(0), VideoSize(1),
                   <<kFallbackWidth, kFallbackHeight>>,
                   <<kFallbackHeight, kFallbackWidth>>}
    /\ gStopRequested \in BOOLEAN /\ gPause \in BOOLEAN
    /\ gRequireSetPause \in BOOLEAN
    /\ rsOrient \in Orientations
    /\ codecOn \in BOOLEAN /\ encDrop \in BOOLEAN
    /\ csdGen \in 0..MaxFormats /\ csdDue \in BOOLEAN /\ syncDue \in BOOLEAN
    /\ configData \in 0..MaxFormats
    /\ dpyOrient \in Orientations /\ orientation \in Orientations
    /\ proj \in Orientations \cup {-1}
    /\ display \in Orientations
    /\ dpySize \in MainSizes
    /\ captured \in Frames
    /\ ppc \in {"idle", "flag"}
    /\ records \in 0..MaxRecords

Init ==
    /\ pc = "idle"
    /\ h264 = TRUE
    /\ gVideo = <<0, 0>>
    /\ gStopRequested = FALSE /\ gPause = FALSE /\ gRequireSetPause = FALSE
    /\ rsOrient = 0
    /\ codecOn = FALSE /\ encDrop = FALSE
    /\ csdGen = 0 /\ csdDue = FALSE /\ syncDue = FALSE
    /\ configData = 0 /\ dpyOrient = 0 /\ orientation = 0
    /\ proj = -1
    /\ display \in Orientations
    /\ dpySize \in MainSizes
    /\ captured = NoFrame
    /\ ppc = "idle"
    /\ records = 0

-----------------------------------------------------------------------------
(* Helpers *)

\* The 720p fallback, swapped for a portrait size.
FallbackSize(v) ==
    IF v[1] < v[2] THEN <<kFallbackHeight, kFallbackWidth>>
                   ELSE <<kFallbackWidth, kFallbackHeight>>

\* recordScreen retries only if both dimensions differ from the fallback.
RetryWanted(v) == v[1] # FallbackSize(v)[1] /\ v[2] # FallbackSize(v)[2]

\* A new CSD generation.  Generations cycle through 1..MaxFormats; two in a
\* row always differ.
NextCsd(g) == (g % MaxFormats) + 1

\* prepareEncoder succeeding: a new codec, configured and started, whose
\* first output is its CSD and whose first frame is a sync frame.
StartCodec ==
    /\ codecOn' = TRUE /\ encDrop' = FALSE
    /\ csdGen' = NextCsd(csdGen) /\ csdDue' = TRUE /\ syncDue' = TRUE

-----------------------------------------------------------------------------
(* Encoder thread: kosRecordScreenLoop and recordScreen.  Each action is  *)
(* one step of the thread between two reads or writes of shared state.    *)

\* kosRecordScreenLoop: gVideoWidth = gVideoHeight = 0, the output format
\* from the bitrate, gStopRequested = false, then recordScreen.
kosRecordScreenLoop(bitrate) ==
    /\ pc = "idle"
    /\ records < MaxRecords
    /\ records' = records + 1
    /\ h264' = (bitrate > 0)
    /\ gVideo' = <<0, 0>>
    /\ gStopRequested' = FALSE
    /\ pc' = "dpyinfo"
    /\ UNCHANGED <<gPause, gRequireSetPause, rsOrient, codecVars, localVars,
                   proj, display, dpySize, captured, ppc>>

\* getDisplayInfo(main): on failure recordScreen returns at once; on
\* success the video size follows the orientation.
RecordDisplayInfo ==
    /\ pc = "dpyinfo"
    /\ \/ /\ pc' = "resetPause"
          /\ UNCHANGED <<rsOrient, gVideo>>
       \/ /\ rsOrient' = display
          /\ gVideo' = VideoSize(display)
          /\ pc' = IF h264 THEN "encoder" ELSE "surface"
    /\ UNCHANGED <<h264, gStopRequested, gPause, gRequireSetPause, codecVars,
                   localVars, proj, display, dpySize, captured, ppc, records>>

\* Mutant: the retry sets only gVideoWidth to the fallback.
RecordPrepareEncoderWidthOnly ==
    /\ pc = "encoder"
    /\ \/ /\ StartCodec
          /\ pc' = "vdisplay"
          /\ UNCHANGED gVideo
       \/ /\ RetryWanted(gVideo)
          /\ gVideo' = [gVideo EXCEPT ![1] = FallbackSize(gVideo)[1]]
          /\ pc' = "retry"
          /\ UNCHANGED codecVars
       \/ /\ ~RetryWanted(gVideo)
          /\ pc' = "resetPause"
          /\ UNCHANGED <<codecVars, gVideo>>
    /\ UNCHANGED <<h264, gStopRequested, gPause, gRequireSetPause, rsOrient,
                   localVars, proj, display, dpySize, captured, ppc, records>>

\* prepareEncoder at the display's size.  On failure (create, configure,
\* createInputSurface or start; each releases the codec) recordScreen
\* retries at 720p when RetryWanted, else returns.
RecordPrepareEncoder ==
    /\ pc = "encoder"
    /\ \/ /\ StartCodec
          /\ pc' = "vdisplay"
          /\ UNCHANGED gVideo
       \/ /\ RetryWanted(gVideo)
          /\ gVideo' = FallbackSize(gVideo)
          /\ pc' = "retry"
          /\ UNCHANGED codecVars
       \/ /\ ~RetryWanted(gVideo)
          /\ pc' = "resetPause"
          /\ UNCHANGED <<codecVars, gVideo>>
    /\ UNCHANGED <<h264, gStopRequested, gPause, gRequireSetPause, rsOrient,
                   localVars, proj, display, dpySize, captured, ppc, records>>

\* The second prepareEncoder, at the fallback size.
RecordRetryEncoder ==
    /\ pc = "retry"
    /\ \/ /\ StartCodec
          /\ pc' = "vdisplay"
       \/ /\ pc' = "resetPause"
          /\ UNCHANGED codecVars
    /\ UNCHANGED <<h264, gVideo, gStopRequested, gPause, gRequireSetPause,
                   rsOrient, localVars, proj, display, dpySize, captured, ppc,
                   records>>

\* FORMAT_RAW_FRAMES: FrameOutput::createInputSurface, or return.
RecordRawSurface ==
    /\ pc = "surface"
    /\ pc' \in {"vdisplay", "resetPause"}
    /\ UNCHANGED <<h264, gVideo, gStopRequested, gPause, gRequireSetPause,
                   rsOrient, codecVars, localVars, proj, display, dpySize, captured,
                   ppc, records>>

\* prepareVirtualDisplay(mainDpyInfo, ...): createDisplay, then in one
\* global transaction the display surface, setDisplayProjection for the
\* orientation o and the layer stack; it always returns NO_ERROR.
prepareVirtualDisplay(o) == proj' = o

\* prepareVirtualDisplay for recordScreen's mainDpyInfo, then runEncoder or
\* the copyFrame loop.
RecordVirtualDisplay ==
    /\ pc = "vdisplay"
    /\ prepareVirtualDisplay(rsOrient)
    /\ pc' = IF h264 THEN "getbufs" ELSE "frames"
    /\ UNCHANGED <<h264, gVideo, gStopRequested, gPause, gRequireSetPause,
                   rsOrient, codecVars, localVars, display, dpySize, captured, ppc, records>>

\* The copyFrame loop: while (!gStopRequested) copyFrame with a 250 ms
\* timeout; a frame goes to didScreenCaptured inside copyFrame; an error
\* other than ETIMEDOUT breaks the loop.
RecordCopyFrame ==
    /\ pc = "frames"
    /\ IF gStopRequested
       THEN /\ pc' = "shutdown" /\ UNCHANGED captured
       ELSE \/ /\ captured' = [NoFrame EXCEPT !.raw = TRUE]
               /\ UNCHANGED pc
            \/ /\ pc' = "shutdown" /\ UNCHANGED captured
    /\ UNCHANGED <<h264, gVideo, gStopRequested, gPause, gRequireSetPause,
                   rsOrient, codecVars, localVars, proj, display, dpySize, ppc, records>>

\* The shutdown of recordScreen: destroyDisplay, then encoder->stop() and
\* release().
RecordShutdown ==
    /\ pc = "shutdown"
    /\ proj' = -1
    /\ codecOn' = FALSE
    /\ pc' = "resetPause"
    /\ UNCHANGED <<h264, gVideo, gStopRequested, gPause, gRequireSetPause,
                   rsOrient, encDrop, csdGen, csdDue, syncDue, localVars,
                   display, dpySize, captured, ppc, records>>

\* kosRecordScreenLoop after recordScreen returns: gPause = false, then
\* gRequireSetPause = false, two plain stores.  The locals of recordScreen
\* and runEncoder are out of scope from here on (reset to 0 in the model).
LoopResetPause ==
    /\ pc = "resetPause"
    /\ gPause' = FALSE
    /\ pc' = "resetFlag"
    /\ rsOrient' = 0 /\ configData' = 0 /\ dpyOrient' = 0 /\ orientation' = 0
    /\ UNCHANGED <<h264, gVideo, gStopRequested, gRequireSetPause, codecVars,
                   proj, display, dpySize, captured, ppc, records>>

LoopResetFlag ==
    /\ pc = "resetFlag"
    /\ gRequireSetPause' = FALSE
    /\ pc' = "idle"
    /\ UNCHANGED <<h264, gVideo, gStopRequested, gPause, rsOrient, codecVars,
                   localVars, proj, display, dpySize, captured, ppc, records>>

-----------------------------------------------------------------------------
(* Encoder thread: runEncoder *)

\* Mutant: runEncoder starts from orientation 0, not recordScreen's.
RunEncoderEntryUnrotated ==
    /\ pc = "getbufs"
    /\ configData' = 0
    /\ dpyOrient' \in Orientations
    /\ orientation' = 0
    /\ pc' \in {"top", "shutdown"}
    /\ UNCHANGED <<h264, gVideo, gStopRequested, gPause, gRequireSetPause,
                   rsOrient, codecVars, proj, display, dpySize, captured, ppc,
                   records>>

\* runEncoder's entry: its locals (configData empty; mainDpyInfo a fresh
\* DisplayInfo whose orientation the build may leave uninitialised; the
\* orientation argument from recordScreen's mainDpyInfo), then
\* getOutputBuffers, whose failure returns to recordScreen's shutdown.
RunEncoderEntry ==
    /\ pc = "getbufs"
    /\ configData' = 0
    /\ dpyOrient' \in Orientations
    /\ orientation' = rsOrient
    /\ pc' \in {"top", "shutdown"}
    /\ UNCHANGED <<h264, gVideo, gStopRequested, gPause, gRequireSetPause,
                   rsOrient, codecVars, proj, display, dpySize, captured, ppc, records>>

\* Mutant: the loop never tests gStopRequested.
EncTopNoStop ==
    /\ pc = "top"
    /\ pc' = IF gRequireSetPause THEN "apply" ELSE "dequeue"
    /\ gRequireSetPause' = FALSE
    /\ UNCHANGED <<h264, gVideo, gStopRequested, gPause, rsOrient, codecVars,
                   localVars, proj, display, dpySize, captured, ppc, records>>

\* The loop head: while (!gStopRequested), then the test and clear of
\* gRequireSetPause.
EncTop ==
    /\ pc = "top"
    /\ pc' = CASE gStopRequested   -> "shutdown"
               []  gRequireSetPause -> "apply"
               []  OTHER            -> "dequeue"
    /\ gRequireSetPause' = (gRequireSetPause /\ gStopRequested)
    /\ UNCHANGED <<h264, gVideo, gStopRequested, gPause, rsOrient, codecVars,
                   localVars, proj, display, dpySize, captured, ppc, records>>

\* setParameters("drop-input-frames", gPause): gPause is read here, after
\* the flag was cleared.
EncApply ==
    /\ pc = "apply"
    /\ encDrop' = gPause
    /\ pc' = "dequeue"
    /\ UNCHANGED <<h264, gVideo, gStopRequested, gPause, gRequireSetPause,
                   rsOrient, codecOn, csdGen, csdDue, syncDue, localVars, proj,
                   display, dpySize, captured, ppc, records>>

\* The orientation check for a data buffer: getDisplayInfo may fail and
\* leave mainDpyInfo as it was; on success a changed orientation is
\* reprojected and remembered.
CheckOrientation(ok) ==
    IF ok THEN /\ dpyOrient' = display
               /\ IF orientation # display
                  THEN proj' = display /\ orientation' = display
                  ELSE UNCHANGED <<proj, orientation>>
          ELSE UNCHANGED <<dpyOrient, proj, orientation>>

\* dequeueOutputBuffer returns NO_ERROR with the codec's CSD buffer
\* (BUFFER_FLAG_CODECCONFIG): muxer is NULL, so configData is reset to a
\* copy and size zeroed; then releaseOutputBuffer, whose failure returns.
DequeueConfig ==
    /\ pc = "dequeue" /\ csdDue
    /\ configData' = csdGen
    /\ csdDue' = FALSE
    /\ pc' \in {"top", "shutdown"}
    /\ UNCHANGED <<h264, gVideo, gStopRequested, gPause, gRequireSetPause,
                   rsOrient, codecOn, encDrop, csdGen, syncDue, dpyOrient,
                   orientation,
                   proj, display, dpySize, captured, ppc, records>>

\* dequeueOutputBuffer returns NO_ERROR with a frame: the orientation
\* check, configData prepended to a sync frame, flags2 |= the orientation of
\* mainDpyInfo, didScreenCaptured, releaseOutputBuffer (its failure
\* returns), and an EOS flag setting gStopRequested.  A codec that drops
\* input frames produces none; its first frame is a sync frame.
DequeueFrame ==
    /\ pc = "dequeue" /\ ~csdDue /\ ~encDrop
    /\ \E ok \in BOOLEAN, sync \in BOOLEAN :
        /\ syncDue => sync
        /\ CheckOrientation(ok)
        /\ captured' = [raw |-> FALSE, sync |-> sync,
                         prefix |-> IF sync THEN configData ELSE 0,
                         csd |-> csdGen, tag |-> dpyOrient', fresh |-> ok]
        /\ syncDue' = FALSE
    /\ \/ pc' = "shutdown" /\ UNCHANGED gStopRequested
       \/ pc' = "top" /\ gStopRequested' \in {gStopRequested, TRUE}
    /\ UNCHANGED <<h264, gVideo, gPause, gRequireSetPause, rsOrient, codecOn,
                   encDrop, csdGen, csdDue, configData, display, dpySize, ppc, records>>

\* -EAGAIN after the 250 ms timeout, INFO_FORMAT_CHANGED (getOutputFormat;
\* the codec's CSD is then a new one, sent before its next sync frame), or
\* INFO_OUTPUT_BUFFERS_CHANGED (getOutputBuffers, whose failure returns).
DequeueInfo ==
    /\ pc = "dequeue"
    /\ \/ /\ pc' = "top"
          /\ UNCHANGED <<csdGen, csdDue, syncDue>>
       \/ /\ pc' = "top"
          /\ csdGen' = NextCsd(csdGen) /\ csdDue' = TRUE /\ syncDue' = TRUE
       \/ /\ pc' \in {"top", "shutdown"}
          /\ UNCHANGED <<csdGen, csdDue, syncDue>>
    /\ UNCHANGED <<h264, gVideo, gStopRequested, gPause, gRequireSetPause,
                   rsOrient, codecOn, encDrop, localVars, proj, display, dpySize,
                   captured, ppc, records>>

\* INVALID_OPERATION or any other result: runEncoder returns the error.
DequeueError ==
    /\ pc = "dequeue"
    /\ pc' = "shutdown"
    /\ UNCHANGED <<h264, gVideo, gStopRequested, gPause, gRequireSetPause,
                   rsOrient, codecVars, localVars, proj, display, dpySize, captured,
                   ppc, records>>

-----------------------------------------------------------------------------
(* The other threads *)

\* kosPauseRecordScreen(pause): returns if gPause == pause, else stores
\* gPause, then (a second step) gRequireSetPause = true.
kosPauseRecordScreen(pause) ==
    /\ ppc = "idle" /\ gPause # pause
    /\ gPause' = pause
    /\ ppc' = "flag"
    /\ UNCHANGED <<pc, h264, gVideo, gStopRequested, gRequireSetPause,
                   rsOrient, codecVars, localVars, proj, display, dpySize, captured,
                   records>>

PauseSetFlag ==
    /\ ppc = "flag"
    /\ gRequireSetPause' = TRUE
    /\ ppc' = "idle"
    /\ UNCHANGED <<pc, h264, gVideo, gStopRequested, gPause, rsOrient,
                   codecVars, localVars, proj, display, dpySize, captured, records>>

\* kosStopRecordScreen: gStopRequested = true.
kosStopRecordScreen ==
    /\ gStopRequested' = TRUE
    /\ UNCHANGED <<pc, h264, gVideo, gPause, gRequireSetPause, rsOrient,
                   codecVars, localVars, proj, display, dpySize, captured, ppc, records>>

\* The user rotates the device.
Rotate ==
    /\ display' \in Orientations \ {display}
    /\ UNCHANGED <<pc, h264, gVideo, gStopRequested, gPause, gRequireSetPause,
                   rsOrient, codecVars, localVars, proj, dpySize, captured, ppc,
                   records>>

-----------------------------------------------------------------------------

\* One step of the encoder thread once kosRecordScreenLoop was called.
EncoderStep ==
    \/ RecordDisplayInfo \/ RecordPrepareEncoder \/ RecordRetryEncoder
    \/ RecordRawSurface \/ RecordVirtualDisplay \/ RecordCopyFrame
    \/ RunEncoderEntry \/ EncTop \/ EncApply
    \/ DequeueConfig \/ DequeueFrame \/ DequeueInfo \/ DequeueError
    \/ RecordShutdown \/ LoopResetPause \/ LoopResetFlag

Next ==
    \/ \E bitrate \in {0, 1} : kosRecordScreenLoop(bitrate)
    \/ EncoderStep
    \/ \E pause \in BOOLEAN : kosPauseRecordScreen(pause)
    \/ PauseSetFlag
    \/ kosStopRecordScreen
    \/ Rotate

\* The encoder thread is never starved: dequeueOutputBuffer and copyFrame
\* time out after 250 ms and every setup call returns.  Nothing forces
\* the caller, the pause/stop controller or the user to act.
Fairness == WF_vars(EncoderStep)

Spec == Init /\ [][Next]_vars /\ Fairness

-----------------------------------------------------------------------------
(* Properties *)

\* A frame whose orientation check succeeded is tagged (flags2) with the
\* orientation the virtual display is projected for when didScreenCaptured
\* is called: runEncoder's local orientation must track the projection
\* that prepareVirtualDisplay set up from recordScreen's mainDpyInfo.
FramesTaggedWithProjection ==
    [][DequeueFrame /\ captured'.fresh => captured'.tag = proj']_vars

\* kosStopRecordScreen ends the capture: recordScreen shuts down and
\* kosRecordScreenLoop returns, whatever the codec returns meanwhile.
StopEndsLoop ==
    gStopRequested ~> pc = "idle"

====
