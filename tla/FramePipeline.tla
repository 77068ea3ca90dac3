---------------------------- MODULE FramePipeline ----------------------------
(***************************************************************************)
(* The screen-frame path of one active session.                            *)
(*                                                                         *)
(*  - The encoder thread runs runEncoder (screenrecord.cpp): at the top of *)
(*    each iteration it applies a pending pause request as the codec's     *)
(*    "drop-input-frames" parameter, then dequeues one output buffer and   *)
(*    hands a frame to the capture callback, which appends it to           *)
(*    record_screen.encoded_images under its mutex.                        *)
(*  - The session thread runs rdpd_slice (rdp_server_rose.cc) every 20 ms: *)
(*    it pops frames while the queue is non-empty, the write buffer is not *)
(*    over its alert size and the graphics channel can take a surface,    *)
(*    then sends the orientation of the last frame it sent, then applies   *)
(*    the 4 / 1 pause hysteresis through kosPauseRecordScreen, which       *)
(*    writes the plain globals gPause and gRequireSetPause.                *)
(*  - The virtual display feeds the codec while it is not dropping input; *)
(*    the transport drains the write buffer; the display may rotate.       *)
(*                                                                         *)
(* The connection is handshaked and capture has started (ConnLifecycle    *)
(* models how it gets there and how it ends).                              *)
(***************************************************************************)
EXTENDS Integers, Sequences

CONSTANTS
  MaxFrames,      \* frames the encoder emits in one behaviour
  AlertImages,    \* alert_images in rdpd_slice (4)
  SafeImages,     \* safe_images in rdpd_slice (1)
  AlertBacklog,   \* write-buffer size, in frames, at which write_buf_is_alert()
  EncoderDepth,   \* frames the codec holds between input and output
  Orientations,   \* DISPLAY_ORIENTATION_* values of the main display
  StoreReorder    \* TRUE: the two plain stores of kosPauseRecordScreen may
                  \* become visible to the encoder thread in either order

ASSUME
  /\ MaxFrames \in Nat \ {0}
  /\ SafeImages \in Nat /\ AlertImages \in Nat /\ SafeImages < AlertImages
  /\ AlertBacklog \in Nat \ {0}
  /\ EncoderDepth \in Nat \ {0}
  /\ Orientations \subseteq Nat /\ Orientations # {}
  /\ StoreReorder \in BOOLEAN

NoOrient == -1     \* nposm: no frame sent in this slice

VARIABLES
  queue,            \* record_screen.encoded_images: <<[id, o]>>
  produced,         \* frames appended so far; they are numbered 1..produced
  inflight,         \* frames inside the codec, not yet dequeued
  encDrop,          \* the codec's drop-input-frames parameter as last set
  gPause,           \* screenrecord.cpp gPause
  gRequireSetPause, \* screenrecord.cpp gRequireSetPause
  pumpPc,           \* where runEncoder is: "top", "apply", "poll", "exit",
                    \* "resetFlag", "done"
  display,          \* orientation of the main display
  slicePc,          \* where rdpd_slice is: "idle", "drain", "write"
  curOrient,        \* rdpd_slice's current_orientation
  pendingPause,     \* the value kosPauseRecordScreen is storing
  writesLeft,       \* stores of kosPauseRecordScreen not yet visible
  backlog,          \* the connection's write buffer, in frames
  peerOrient,       \* orientation the peer was last told
  delivered         \* frames handed to the transport: <<[id, o, told]>>

vars == <<queue, produced, inflight, encDrop, gPause, gRequireSetPause,
          pumpPc, display, slicePc, curOrient, pendingPause, writesLeft,
          backlog, peerOrient, delivered>>

encoderVars == <<inflight, encDrop, pumpPc>>
sliceVars == <<slicePc, curOrient, pendingPause, writesLeft>>

Frame == [id : 1..MaxFrames, o : Orientations]

TypeOK ==
  /\ queue \in Seq(Frame)
  /\ produced \in 0..MaxFrames
  /\ inflight \in 0..EncoderDepth
  /\ encDrop \in BOOLEAN
  /\ gPause \in BOOLEAN
  /\ gRequireSetPause \in BOOLEAN
  /\ pumpPc \in {"top", "apply", "poll", "exit", "resetFlag", "done"}
  /\ display \in Orientations
  /\ slicePc \in {"idle", "drain", "write"}
  /\ curOrient \in Orientations \cup {NoOrient}
  /\ pendingPause \in BOOLEAN
  /\ writesLeft \subseteq {"pause", "flag"}
  /\ backlog \in 0..AlertBacklog
  /\ peerOrient \in Orientations
  /\ delivered \in Seq([id : 1..MaxFrames, o : Orientations, told : Orientations])

-----------------------------------------------------------------------------
(* Helpers of rdpd_slice                                                   *)

\* write_buf_is_alert(): the write buffer is at its alert size.
WriteBufIsAlert == backlog >= AlertBacklog

\* The pause decision of the hysteresis block of rdpd_slice, for the queue
\* size `images` seen by the last locked check of the drain loop: {TRUE}
\* asks for a pause, {FALSE} for a resume, {} leaves the encoder as it is.
HysteresisDesire(images) ==
  IF images >= AlertImages THEN {TRUE}
  ELSE IF images <= SafeImages THEN {FALSE}
  ELSE {}

\* Mutant: the flag is stored before the value (swapped statements).
NextStoreFlagFirst(w) ==
  \/ StoreReorder
  \/ w = "flag"
  \/ "flag" \notin writesLeft

\* Which of the two stores of kosPauseRecordScreen may become visible next.
NextStoreAllowed(w) ==
  \/ StoreReorder
  \/ w = "pause"
  \/ "pause" \notin writesLeft

-----------------------------------------------------------------------------
Init ==
  /\ queue = <<>>
  /\ produced = 0
  /\ inflight = 0
  /\ encDrop = FALSE
  /\ gPause = FALSE
  /\ gRequireSetPause = FALSE
  /\ pumpPc = "top"
  /\ display \in Orientations
  /\ slicePc = "idle"
  /\ curOrient = NoOrient
  /\ pendingPause = FALSE
  /\ writesLeft = {}
  /\ backlog = 0
  /\ peerOrient = display   \* freerdp_server_->initialOrientation
  /\ delivered = <<>>

-----------------------------------------------------------------------------
(* Session thread: rdpd_slice                                              *)

\* The delayed task posted by did_slice_quited fires: a new slice starts.
SliceStart ==
  /\ slicePc = "idle"
  /\ slicePc' = "drain"
  /\ curOrient' = NoOrient
  /\ UNCHANGED <<queue, produced, encoderVars, gPause, gRequireSetPause,
                 display, pendingPause, writesLeft, backlog, peerOrient, delivered>>

\* Mutant: the drain loop without the write_buf_is_alert() check.
SliceDrainNoAlertCheck ==
  /\ slicePc = "drain"
  /\ queue # <<>>
  /\ LET f == Head(queue) IN
       /\ queue' = Tail(queue)
       /\ delivered' = Append(delivered, [id |-> f.id, o |-> f.o, told |-> peerOrient])
       /\ curOrient' = f.o
  /\ backlog' = backlog + 1
  /\ UNCHANGED <<produced, encoderVars, gPause, gRequireSetPause,
                 display, slicePc, pendingPause, writesLeft, peerOrient>>

\* One pass of the drain loop that finds a frame, the buffer below alert and
\* can_xmit_screen_surface true: pop the head under the queue mutex and
\* send it with rose_did_update_peer_send.
SliceDrain ==
  /\ slicePc = "drain"
  /\ queue # <<>>
  /\ ~WriteBufIsAlert
  /\ LET f == Head(queue) IN
       /\ queue' = Tail(queue)
       /\ delivered' = Append(delivered, [id |-> f.id, o |-> f.o, told |-> peerOrient])
       /\ curOrient' = f.o
  /\ backlog' = backlog + 1
  /\ UNCHANGED <<produced, encoderVars, gPause, gRequireSetPause,
                 display, slicePc, pendingPause, writesLeft, peerOrient>>

\* The last pass of the drain loop (queue empty, buffer at alert, or the
\* graphics channel not ready) reads images = the queue size; then the slice
\* sends the orientation of the last frame it sent, if any, and runs the
\* pause hysteresis: handle_pause_record_screen compares with gPause and
\* calls kosPauseRecordScreen only on a change.
SliceEndDrain ==
  /\ slicePc = "drain"
  /\ LET change == {d \in HysteresisDesire(Len(queue)) : d # gPause}
     IN IF change # {}
          THEN /\ slicePc' = "write"
               /\ pendingPause' = CHOOSE d \in change : TRUE
               /\ writesLeft' = {"pause", "flag"}
          ELSE /\ slicePc' = "idle"
               /\ UNCHANGED <<pendingPause, writesLeft>>
  /\ peerOrient' = IF curOrient # NoOrient THEN curOrient ELSE peerOrient
  /\ UNCHANGED <<queue, produced, encoderVars, gPause, gRequireSetPause,
                 display, curOrient, backlog, delivered>>

\* kosPauseRecordScreen: gPause = pause; gRequireSetPause = true.  The two
\* are plain globals read by the encoder thread without a lock.
SliceWrite(w) ==
  /\ slicePc = "write"
  /\ w \in writesLeft
  /\ NextStoreAllowed(w)
  /\ IF w = "pause"
       THEN /\ gPause' = pendingPause
            /\ UNCHANGED gRequireSetPause
       ELSE /\ gRequireSetPause' = TRUE
            /\ UNCHANGED gPause
  /\ writesLeft' = writesLeft \ {w}
  /\ slicePc' = IF writesLeft' = {} THEN "idle" ELSE "write"
  /\ UNCHANGED <<queue, produced, encoderVars, display, curOrient,
                 pendingPause, backlog, peerOrient, delivered>>

-----------------------------------------------------------------------------
(* Encoder thread: runEncoder                                              *)

\* Top of the loop: if (gRequireSetPause) { gRequireSetPause = false; ...
PumpTop ==
  /\ pumpPc = "top"
  /\ IF gRequireSetPause
       THEN /\ gRequireSetPause' = FALSE
            /\ pumpPc' = "apply"
       ELSE /\ pumpPc' = "poll"
            /\ UNCHANGED gRequireSetPause
  /\ UNCHANGED <<queue, produced, inflight, encDrop, gPause, display,
                 sliceVars, backlog, peerOrient, delivered>>

\* ... params->setInt32("drop-input-frames", gPause); encoder->setParameters.
PumpApply ==
  /\ pumpPc = "apply"
  /\ encDrop' = gPause
  /\ pumpPc' = "poll"
  /\ UNCHANGED <<queue, produced, inflight, gPause, gRequireSetPause,
                 display, sliceVars, backlog, peerOrient, delivered>>

\* dequeueOutputBuffer returns a data buffer: read the display orientation,
\* tag the frame with it and hand it to the capture callback, which appends
\* it to encoded_images.
PumpEmit ==
  /\ pumpPc = "poll"
  /\ inflight > 0
  /\ queue' = Append(queue, [id |-> produced + 1, o |-> display])
  /\ produced' = produced + 1
  /\ inflight' = inflight - 1
  /\ pumpPc' = "top"
  /\ UNCHANGED <<encDrop, gPause, gRequireSetPause, display, sliceVars,
                 backlog, peerOrient, delivered>>

\* dequeueOutputBuffer times out (-EAGAIN) or reports a format or buffer
\* change, a codec-config buffer or an empty buffer: no frame, loop again.
PumpNoFrame ==
  /\ pumpPc = "poll"
  /\ pumpPc' = "top"
  /\ UNCHANGED <<queue, produced, inflight, encDrop, gPause,
                 gRequireSetPause, display, sliceVars, backlog, peerOrient, delivered>>

\* dequeueOutputBuffer, getOutputBuffers or releaseOutputBuffer fails, or
\* the loop ends on end-of-stream or kosStopRecordScreen: runEncoder returns.
PumpFail ==
  /\ pumpPc = "poll"
  /\ pumpPc' = "exit"
  /\ UNCHANGED <<queue, produced, inflight, encDrop, gPause,
                 gRequireSetPause, display, sliceVars, backlog, peerOrient, delivered>>

\* kosRecordScreenLoop after recordScreen returns: gPause = false ...
PumpExit ==
  /\ pumpPc = "exit"
  /\ pumpPc' = "resetFlag"
  /\ gPause' = FALSE
  /\ UNCHANGED <<queue, produced, inflight, encDrop, gRequireSetPause, display,
                 sliceVars, backlog, peerOrient, delivered>>

\* ... then gRequireSetPause = false, a second plain store.
PumpExitFlag ==
  /\ pumpPc = "resetFlag"
  /\ pumpPc' = "done"
  /\ gRequireSetPause' = FALSE
  /\ UNCHANGED <<queue, produced, inflight, encDrop, gPause, display,
                 sliceVars, backlog, peerOrient, delivered>>

-----------------------------------------------------------------------------
(* Environment                                                             *)

\* The virtual display hands a composed frame to the codec's input surface;
\* the codec discards input while drop-input-frames is set.
Capture ==
  /\ pumpPc \notin {"exit", "resetFlag", "done"}
  /\ ~encDrop
  /\ inflight < EncoderDepth
  /\ produced + inflight < MaxFrames
  /\ inflight' = inflight + 1
  /\ UNCHANGED <<queue, produced, encDrop, pumpPc, gPause,
                 gRequireSetPause, display, sliceVars, backlog, peerOrient, delivered>>

\* The device is rotated.
Rotate ==
  /\ \E o \in Orientations \ {display} : display' = o
  /\ UNCHANGED <<queue, produced, inflight, encDrop, pumpPc, gPause,
                 gRequireSetPause, sliceVars, backlog, peerOrient, delivered>>

\* The socket accepts queued bytes: the write buffer shrinks.
TransportWrite ==
  /\ backlog > 0
  /\ backlog' = backlog - 1
  /\ UNCHANGED <<queue, produced, inflight, encDrop, pumpPc, gPause,
                 gRequireSetPause, display, sliceVars, peerOrient, delivered>>

-----------------------------------------------------------------------------
SliceStep ==
  \/ SliceStart
  \/ SliceDrain
  \/ SliceEndDrain
  \/ \E w \in {"pause", "flag"} : SliceWrite(w)

PumpStep ==
  \/ PumpTop
  \/ PumpApply
  \/ PumpEmit
  \/ PumpNoFrame
  \/ PumpFail
  \/ PumpExit
  \/ PumpExitFlag

Next ==
  \/ SliceStep
  \/ PumpStep
  \/ Capture
  \/ Rotate
  \/ TransportWrite

\* The slice is re-posted every 20 ms while the session lives, the encoder
\* thread loops without blocking for more than 250 ms, and the transport
\* eventually writes what it holds.  Nothing forces a codec failure, a
\* rotation or a new captured frame.
Fairness ==
  /\ WF_vars(SliceStep)
  /\ WF_vars(PumpTop)
  /\ WF_vars(PumpApply)
  /\ WF_vars(PumpExit)
  /\ WF_vars(PumpExitFlag)
  /\ WF_vars(PumpEmit \/ PumpNoFrame)
  /\ WF_vars(TransportWrite)

Spec == Init /\ [][Next]_vars /\ Fairness

-----------------------------------------------------------------------------
(* Properties                                                              *)

PumpAlive == pumpPc \notin {"exit", "resetFlag", "done"}

\* Whenever the codec's drop-input-frames setting differs from what the
\* session thread last stored in gPause, the encoder thread eventually
\* applies gPause (or stops): a pause or resume asked for by the slice's
\* hysteresis through kosPauseRecordScreen is never lost.
PauseRequestApplied ==
  (PumpAlive /\ encDrop # gPause) ~> (encDrop = gPause \/ ~PumpAlive)

\* Every frame reaches the peer after the peer has been told the
\* orientation that frame was captured in (spec 4.4 step 3 and 8.5).
FramesShownInTheirOrientation ==
  \A i \in 1..Len(delivered) : delivered[i].o = delivered[i].told

=============================================================================
