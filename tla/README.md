# TLA+ models of the Launcher screen-mirroring server

This directory holds TLA+ specifications of the concurrent core of the
Launcher remote-desktop server. They are checked with TLC. The core is:
- the encoder thread that produces frames;
- the session thread that paces them into the connection;
- the bridges that carry events between the session thread, the UI thread
  and the netd listener thread.

Paths below are relative to the repository root.

## 1. The system

### Threads

| thread | code | what it runs |
|---|---|---|
| session (rdpd) thread | `src/launcher-src/launcher/launcher/rdp_server_rose.cc` | `OnConnect`, `OnRdpRequest`, `OnClose`, and the 20 ms tick `rdpd_slice`, rescheduled by `did_slice_quited` |
| encoder thread | `src/aosp/frameworks/native/libs/kosapi/screenrecord/screenrecord.cpp` | `kosRecordScreenLoop` → `recordScreen` → `runEncoder` |
| UI (SDL) thread | `gui/dialogs/explorer.cpp`, `statusbar.cpp`, `home.cpp`, `settings.cpp`, `main.cpp` | dialogs, and the `texplorer_slot` that receives explorer messages |
| netd listener thread | `src/aosp/frameworks/native/libs/kosapi/NetdListener.cpp` | `onDataAvailable` → `dispatchCommand` → `runCommand` |

### Components, their state and their operations

**FrameEncoderPump** (`runEncoder`, `kosRecordScreenLoop`, `kosPauseRecordScreen`, `kosRecordScreenPaused`)
- State:
  - the codec;
  - the plain globals `gPause` and `gRequireSetPause`;
  - `gStopRequested`;
  - `configData`;
  - the last `mainDpyInfo`.
- Operations, per loop iteration:
  - apply a pending pause request as `drop-input-frames`;
  - dequeue one output buffer;
  - on data, tag the frame with the display orientation and hand it to the capture callback;
  - otherwise it is one of TRY_AGAIN, FORMAT_CHANGED or BUFFERS_CHANGED, or a fatal error that ends the loop.
- On exit, `kosRecordScreenLoop` resets both pause globals.
- Modelled twice: in FramePipeline as an abstract pump composed with the session thread and the frame queue, and in RecordScreen step by step, with the setup in `recordScreen`, the raw-frame loop and the pause/stop thread.

**EncodedFrameQueue** (`record_screen.encoded_images`)
- A mutex-guarded `std::queue`.
- The capture callback appends to it; its push side is in the shadow subsystem, outside `src/`.
- `rdpd_slice` pops from it.

**SessionScheduler** (`rdpd_slice`, lines 297-451)
- It works only on the *first* normal connection.
- The steps, in order:
  1. the 30 s handshake timeout;
  2. starting the capture;
  3. the drain loop: pop while the queue is non-empty, the write buffer is below its alert size and the graphics channel can take a surface;
  4. the orientation request for the last frame sent;
  5. the 60 s capture timeout;
  6. the RTT probe and the drift check (`uint16_minus ≥ 3`);
  7. relaying explorer updates;
  8. the 4/1 pause hysteresis through `handle_pause_record_screen`;
  9. stats.
- `did_slice_quited` reposts the tick, or stops it when no connection is left.

**ConnectionState lifecycle**
- Each connection has create and handshake ticks, `next_rtt_ticks` and `next_rtt_sequence_number`.
- `OnConnect`, `OnRdpRequest` and `OnClose` run on the session thread.
- Every timeout closes the connection.

**Explorer bridge (CrossThreadMailbox)**
- `game_config::explorer_singleton` is guarded by `texplorer_slot::construct_mutex`.
- The session-thread callbacks `wf_leagor_server_receive_capabilities`, `wf_leagor_server_receive_explorer_update` and `send_startup_msg` post heap payloads to the UI thread.
- `push_explorer_update` appends, from the UI thread, to `rdpd_thread_explorer_update_`, which `rdpd_slice` drains.

**NetdListener bridge** (`sendMsg`, `runCommand`, `calcCmdNum`)
- Callers on the UI thread (`app_update_ip`, and `getipv4_prefixlen` from the BLE read handler) insert a slot keyed by `mCmdNum`, send the command, and wait up to 3 s on one shared manual-reset `mRespEvent`.
- The listener thread fills the slot and sets the event.

**MediaCodec NDK wrapper** (`mediacodec2api.cpp`)
- A static map `codecs` from an integer handle to a `JMediaCodec`, guarded by `sCodecsLock`.
- `MediaCodec_setup` constructs a codec, takes a handle from `JMediaCodec::nextUniqueId()` (an unlocked `uniqueId ++` that wraps at `INT_MAX` and skips taken ids) and registers it with `setMediaCodec`.
- `MediaCodec_configure/start/stop/release` resolve the handle with `getMediaCodec` and drive the codec; `start` fills the cached buffer vectors, `stop` and `release` free them.
- `MediaCodec_dequeueInputBuffer/dequeueOutputBuffer` return a buffer index, or a negative `DEQUEUE_INFO_*` value from `status_t_2_dequeue_info`. `MediaCodec_queueInputBuffer/releaseOutputBuffer` hand a buffer back, `flush` takes all of them back, and `getBuffer/getBufferLength` read the cached vectors.
- The callers are application threads outside src/.

**Input injection** (`sendinput.cpp`, `kosCreateInput/kosSendInput/kosDestroyInput` in `screenrecord.cpp`)
- One global `gConnectionPtr` to a `NativeConnection` over a uinput device.
- `send_input` turns Windows-style INPUT records into uinput events: an else-if chain over the mouse flags, and scan code → SDL code → Android key code → Linux key code through three tables. One `SYN_REPORT` closes the batch if any record set `requireSend`.
- `kosDestroyInput` deletes the connection, whose destructor runs `nativeClear` (release the right button and every key, then sync).

**Not modelled** (see PROJECT.json):
- the status bar, home and settings dialogs;
- the BLE codec;
- the platform bindings: camera, eventhub, InputEventReceiver, gui2main, sys2api, and the aidl headers.

### What is hard

**Two threads share the pause flags without synchronisation.** The session thread's `kosPauseRecordScreen` and the encoder's loop top share the two globals with no lock. The result depends on how their steps interleave and on the order in which the stores become visible.

**Frames pass through a producer/consumer queue.** The queue links a callback on the encoder thread to a tick on the session thread. The tick paces its drain by the transport backlog, and the queue depth drives the pause hysteresis.

**The explorer singleton can vanish while it is in use.** The session thread reads it while the UI thread creates and destroys the dialog. One reader checks it without the lock.

**One response event serves every netd call.** Successive calls share it and it has a timeout, so a late reply to one call can Set it for the next; the slot keys wrap around; and the replies are parsed by a hand-written tokenizer and packed into a fixed buffer.

**Timeouts use wrapping counters.** They are computed on 32-bit ticks and 16-bit sequence numbers.

### Correctness properties, by component

- **Pipeline:**
  - a pause or resume request is eventually applied;
  - the peer knows a frame's orientation before it shows the frame;
  - the encoder is never left paused with an empty queue.
- **Lifecycle:**
  - every connection that does not handshake within its timeout is closed;
  - the tick runs while a connection exists;
  - RTT probes are issued in order.
- **Explorer bridge:**
  - no post dereferences a vanished singleton;
  - a drag-copy peer is told SHOWN while the explorer is shown.
- **MediaCodec wrapper:**
  - every handle an application holds resolves to its own, unreleased codec, and the map holds nothing else;
  - the cached buffers exist only while a codec is started;
  - the buffers the application believes it holds, from the signs of the dequeue results, are the ones the codec handed out;
  - a setup returns;
  - a format passed to configure comes back unchanged from the AMessage it becomes.
- **Input injection:**
  - every batch that writes an event is published by a `SYN_REPORT`;
  - Android sees the buttons, keys and position the requests ask for.
- **NetdBridge:**
  - a woken call returns the code and words of the reply to its own number;
  - the reply tokenizer and the packing loop agree with reference definitions.

## 2. Modules

### FramePipeline.tla: encoder thread + session-thread drain + pause hysteresis

The connection is taken as handshaked with capture started. ConnLifecycle will model how it gets there.

**State:**
- the queue, as a sequence of `[id, o]`;
- the codec's in-flight frames and its `drop-input-frames` setting (`encDrop`);
- `gPause` and `gRequireSetPause`;
- the encoder's program counter;
- the display orientation;
- the slice's program counter and `current_orientation`;
- the kosPauseRecordScreen stores not yet visible;
- the write backlog;
- the orientation the peer was last told;
- the frames delivered, each with the orientation the peer had been told when it arrived.

**Actions and the code they come from:**

| action | code |
|---|---|
| `SliceStart` | the posted tick firing (`did_slice_quited`) |
| `SliceDrain` | one pass of the drain loop that sends a frame |
| `SliceEndDrain` | the last pass, the orientation request and `handle_pause_record_screen` |
| `SliceWrite(w)` | one of the two stores of `kosPauseRecordScreen` becoming visible |
| `PumpTop`, `PumpApply` | the loop top, `runEncoder` 366-371 |
| `PumpEmit` | the data-buffer case up to `didScreenCaptured` (395-445) |
| `PumpNoFrame` | the TRY_AGAIN, format and buffer cases |
| `PumpFail` | the error returns and the loop end |
| `PumpExit`, `PumpExitFlag` | the two plain stores of `kosRecordScreenLoop` after `recordScreen` returns (724, 725) |

The environment has three further actions:
- `Capture`: the virtual display feeds the codec unless `drop-input-frames` is set;
- `Rotate`;
- `TransportWrite`: the socket drains the backlog.

**Store visibility.** `StoreReorder` chooses how the two stores of `kosPauseRecordScreen` become visible:
- `FALSE` gives program order;
- `TRUE` lets either store become visible first. The code writes plain `bool`s from one thread and reads them from another without a lock, which is a data race. The compiler and CPU may reorder the stores.

### ConnLifecycle.tla: connections, timeouts and RTT probes on the session thread

Up to `NConns` connections, each with the fields of `RdpConnection` the slice reads: create and handshake ticks, `next_rtt_ticks`, `next_rtt_sequence_number`, the last answered sequence number, and the probes not yet answered.

- **Time** is counted in slice periods (`now`). `Ticks == (TickStart + now) % TickMod` is `SDL_GetTicks` at a reduced width, so the wrap of the tick counter is reachable; sequence numbers wrap at `SeqMod` like the code's `uint16_t`.
- **`Tick`** advances time. The posted slice runs at most once per period and may run late by at most `MaxStall` periods. A "good" peer (chosen per connection in `Init`) answers each probe within `MaxLatency` periods and handshakes before the handshake timeout; both are guards on `Tick`.
- **`Slice`** is one run of `rdpd_slice`. It serves only `FindFirstNormalConnection` (the lowest live id), and each path through it (no connection, awaiting handshake, handshake timeout, start capture, capture timeout, RTT close, RTT probe, quiet) is a disjunct, ended by `did_slice_quited` (`DidSliceQuited`).
- **`OnConnect`**, **`Handshake`** (a second client is rejected), **`PeerAnswer`** and **`PeerDrop`** are the other session-thread events. `CloseConn` is `server_->Close` followed by `OnClose`, which stops the shared capture.

### ExplorerBridge.tla: the explorer dialog between the UI and session threads

| action | code |
|---|---|
| `Construct` | `texplorer_slot` constructor: publishes `explorer_singleton` without the lock, pushes SHOWN |
| `Show` | `rexplorer_pre_show`: `drag_copy_.support = support_drag_copy()` |
| `DispatchConnectionFinished`, `DispatchConnectionClosed`, `DispatchCapabilities`, `DispatchExplorer` | the cases of `rexplorer_OnMessage` |
| `PostShowClear`, `PostShowUnpublish` | `rexplorer_post_show`: push HIDDEN and `clear_msg()`, then null the singleton under `construct_mutex` |
| `OnConnect`, `OnRdpRequestActivated`, `OnClose` | the session-thread handlers; the last two call `send_startup_msg` |
| `StartupCheck`, `StartupPost` | the two halves of `send_startup_msg`: the unlocked test and the locked post |
| `ReceiveCapabilities`, `ReceiveExplorerUpdate` | the Leagor channel callbacks: allocate, lock, post or drop |
| `SliceDrainLock`, `SliceDrainSend`, `SliceDrainClear` | the explorer-update relay of `rdpd_slice` (lines 410-417) |
| `LongPress` | `rexplorer_handler_longpress_item`: with a connection-finished client, start a server-side drag and push START_DRAG |
| `AppDidEnterBackground`, `AppDidEnterForeground` (`AppVisibility`) | `game_instance::app_didenterbackground` / `app_didenterforeground` in main.cpp: with an explorer published, `send_LG_EXPLORER_CODE_HIDDEN` / `_SHOWN` |

Payloads are numbered as they are allocated and freed when dispatched or removed by `clear_msg`; a payload allocated while no explorer is published is never freed, which is recorded as a hazard at `rdp_server_rose.cc:67` rather than as a run. A null dereference ends the process, after which the model only stutters. `fg` is `instance->foreground()`: MSG_CAPABILITIES pushes SHOWN only in the foreground, as the code tests. The UI thread's event pump runs the background and foreground handlers while it is idle between dialogs or in the explorer's loop. The constructor and the long press need the application in front, because both follow a tap. `peerView` changes only on SHOWN and HIDDEN; a START_DRAG leaves it.

### NetdBridge.tla: sendMsg, netd and the listener thread

| action | code |
|---|---|
| `SendMsgInsert` | `sendMsg` 348-357: insert the slot under `mSlotsLock`, format the number, advance `mCmdNum` with its wrap |
| `SendMsgSend` | 359-364: `mRespEvent.Reset()`, write "<num> <msg>" |
| `WaitSignaled`, `WaitTimeout` | 366-370: the 3 s wait returns true, or times out and Resets |
| `SendMsgCollect` | 372-378: read the slot's code, erase it; the caller reads `result` |
| `NetdAnswer`, `NetdDrop`, `NetdBroadcast` | netd (outside the repository): reply "<code> <num> <words>", drop a command, or write an unsolicited line |
| `DispatchIgnored` | a line refused by the tokenizer, `argc <= 1` noise, a broadcast, or a reply whose slot is gone |
| `RunCommandFill` | `runCommand` 304-330: set the code, pack the words into the caller's buffer, `Set` the event |

The pure parts are operators: `Tokenize` (the scanner of `dispatchCommand`, folded over the characters of a line), `CalcCmdNum` (RECURSIVE) and `PackArgs` (RECURSIVE). Lines travel as character sequences, so the listener parses what netd formatted. There is one caller thread, as in the code (both callers run on the UI thread); its `result` buffer persists across calls, as in `app_update_ip`.

### CodecRegistry.tla: the MediaCodec handle table

| action | code |
|---|---|
| `SetupConstruct` | `setupMediaCodec` 840-868: `new JMediaCodec`, `initCheck`; on error setup returns -1 and the codec is destroyed |
| `NuiLoad`, `NuiStore`, `NuiTest` | `nextUniqueId` 318-326, one step per unlocked access: load `uniqueId`, store the increment (0 after `INT_MAX`), test `codecs.count` and loop or return |
| `SetupRegister` | 870-874: `setMediaCodec(handle, codec)` under the lock: release the old codec under the handle, insert only if the handle was free |
| `Configure`, `Start`, `Stop`, `Release`, `Flush` | `MediaCodec_configure/start/stop/release/flush` through `getMediaCodec` (`Call`). `Start` and `Stop` are `JMediaCodec::start` (`JMediaCodecStart`: `mCodec->start()`, then `GetBuffers` fills both caches) and `JMediaCodec::stop` (`JMediaCodecStop`: `mCodec->stop()`, then `FreeAllTrackedBuffers`). `stop`, `release` and `flush` take the codec's buffers back |
| `Dequeue` | `JMediaCodec::dequeueInputBuffer/dequeueOutputBuffer` 649-679: the codec's answer (a free buffer, `-EAGAIN`, on the output port `INFO_FORMAT_CHANGED` or `INFO_OUTPUT_BUFFERS_CHANGED`, and `INVALID_OPERATION` when not started), then the index or `status_t_2_dequeue_info(err)` |
| `QueueInputBuffer`, `ReleaseOutputBuffer` | `JMediaCodec::queueInputBuffer` 624-630 and `releaseOutputBuffer` 681-687, through `GiveBack` |

A codec is an object number with its lifecycle state (`mstate`), whether its buffer vectors are cached, and the buffers it has handed out (`owned`). `appBufs` is what each application thread believes it holds: a dequeue result of 0 or more is taken as a buffer index, as the API's callers do. The application forgets a codec's buffers when it flushes, stops or releases it, and hands back only buffers it believes it holds. `index` is uninitialised when the dequeue fails, so the model lets it be any index. `BufferLength` and `GetBuffer` are `getBufferLength` and `getBuffer` over the cache; the codec's arrays have `NBufs` buffers and never change. `JMediaCodecNew` is the constructor and `initCheck`: a codec whose `mCodec` could not be created is modelled as released. `DestroyedUnregistered` is `~JMediaCodec` releasing the codec `setMediaCodec` did not insert. `held` is the handles each application thread got back. `IdMax` is `INT_MAX` at reduced width, so the wrap of the counter and the skip over taken ids are both reached. `SetMediaCodecTable` is the map as a partial function (`@@`, `:>`, `Restrict`).

### InputPath.tla: uinput injection

| action | code |
|---|---|
| `kosCreateInput(keyboard)` | `kosCreateInput` and `NativeConnection::open`: a new device; the KEYS codes are registered only for a keyboard. A failing open and a second create return false and change nothing |
| `kosSendInput(b, oob)` | `kosSendInput` → `send_input` over a batch of one or two records, written to the device in one step |
| `kosDestroyInput` | `delete gConnectionPtr`: `nativeClear`, then `UI_DEV_DESTROY` |

Each `NativeConnection` method is an operator giving the events it writes (`nativeSendPointerDown`, `nativeSendKey`, `nativeClear`, …); `MouseInput` is the else-if chain, `FirstFlag` its first matching flag, and `send_input` folds the records and adds the final `SYN_REPORT`. The kernel side, `KernelEvent`, keeps the pressed codes and the axis, drops key events for unregistered codes or unchanged values, and publishes the state to Android (`dev.seen`) at `SYN_REPORT`. `want` applies every flag of every record the way Windows `SendInput` does; `wf` records that every record since creation had a single action, the case `send_input` is meant to handle. A scan code above 127 makes `win_scan_code_2_android_scan_code` read past its table; `oob` is the value that read returns, one of `OobReads`. `Write` applies the events in order. `nativeClear` is a function of the device state. Its loop writes a key-up for each of the 96 KEYS codes (`KeyCodes`), and `ReleaseKeys` gives the effect of those events: they are for distinct codes, so their order does not matter.

### KeyTables.tla: the key tables of sendinput

`windows_scancode_table` (128 entries), `Android_Keycodes` (280 entries; the index is the AKEYCODE) and `KEYS` (96 pairs, sendinput.h) as the source writes them. SDL codes and Linux codes are their enumerator names, and AKEYCODEs are the indices that `Android_Keycodes`' comments name. `SDL_Scancode` is the enum of sendinput.cpp 63-429, name to value, in three pages (`SDL_ScancodePage07Low`, `SDL_ScancodePage07High`, `SDL_ScancodePage0C`). `AndroidRows` is split at AKEYCODE 144 into `AndroidRowsLow` and `AndroidRowsHigh`. `AndroidIndex` is the search loop of `win_scan_code_2_android_scan_code`: the first match, or -1. The loop compares SDL_Scancode values; `MC_InputPath` assumes that no two enumerators share a value and that every entry of both tables is an enumerator, so comparing names is the same. `initKeysMap` builds `keysMap`, where a later pair overwrites an earlier one. `MC_InputPath` binds InputPath's `WinTable`, `AndroidOf`, `KEYS` and `KeyCodes` to these. It also assumes that keysMap keeps every Linux code KEYS lists, since no two KEYS entries share an AKEYCODE.

### RecordScreen.tla: one capture session of screenrecord.cpp, end to end

The encoder thread's program counter `pc` walks through `kosRecordScreenLoop`, `recordScreen` and `runEncoder`; a second thread calls `kosPauseRecordScreen` (its two stores are two steps, `ppc`) and `kosStopRecordScreen`. The state is the globals (`gVideo`, `gStopRequested`, `gPause`, `gRequireSetPause`, the output format `h264`), the locals that cross steps (recordScreen's `mainDpyInfo.orientation` as `rsOrient`; runEncoder's `configData`, `mainDpyInfo.orientation` as `dpyOrient` and `orientation`), the codec as seen from runEncoder (`codecOn`, its drop-input-frames `encDrop`, its current CSD generation `csdGen`, whether a CSD buffer or a sync frame is due), the virtual display's projection `proj`, the main display (`display`, `dpySize`) and the last frame handed to `didScreenCaptured` (`captured`).

| action | code |
|---|---|
| `kosRecordScreenLoop(bitrate)` | `gVideoWidth/Height = 0`, the format from the bitrate, `gStopRequested = false` |
| `RecordDisplayInfo` | `getDisplayInfo(main)`: return on failure, else the video size from the orientation |
| `RecordPrepareEncoder`, `RecordRetryEncoder` | `prepareEncoder` (`StartCodec`), and on failure the 720p retry when `RetryWanted`, else return |
| `RecordRawSurface` | `FrameOutput::createInputSurface` for `FORMAT_RAW_FRAMES` |
| `RecordVirtualDisplay` | `prepareVirtualDisplay` (its operator): the display surface, and the projection for recordScreen's orientation |
| `RecordCopyFrame` | the `copyFrame` loop: a frame, a timeout, or an error that breaks |
| `RunEncoderEntry` | runEncoder's locals (the build may leave `mainDpyInfo.orientation` uninitialised) and `getOutputBuffers` |
| `EncTop`, `EncApply` | the loop head's stop test, the test-and-clear of `gRequireSetPause`, then `setParameters(gPause)` |
| `DequeueConfig`, `DequeueFrame`, `DequeueInfo`, `DequeueError` | every `dequeueOutputBuffer` result: a CODECCONFIG buffer saved to `configData`; a frame with the orientation check (`CheckOrientation`), the CSD prepended to a sync frame, `releaseOutputBuffer` and EOS; `-EAGAIN`, `INFO_FORMAT_CHANGED`, `INFO_OUTPUT_BUFFERS_CHANGED`; `INVALID_OPERATION` and the rest |
| `RecordShutdown` | `destroyDisplay`, `encoder->stop()`, `release()` |
| `LoopResetPause`, `LoopResetFlag` | the two stores after `recordScreen` returns |
| `kosPauseRecordScreen(pause)`, `PauseSetFlag` | the early return, `gPause = pause`, then `gRequireSetPause = true` |
| `kosStopRecordScreen`, `Rotate` | the stop; the user turning the device |

A codec dropping input produces no frames; its first output is its CSD and its first frame a sync frame; a format change brings a new CSD. CSD generations cycle through `1..MaxFormats`, so consecutive ones differ. Each call into the codec or SurfaceFlinger that can fail is a nondeterministic success or failure.

### Projection.tla: the geometry of setDisplayProjection

`setDisplayProjection` (screenrecord.cpp 219-288) is an operator of the display size, whether the device is rotated, and the video size. It returns the layer-stack size (`SourceSize`, swapped when rotated), the content size and the offsets. `gRotate` is never set, so the video is `gVideoWidth` x `gVideoHeight`. The code's `float` arithmetic is modelled as IEEE-754 binary32 with round-to-nearest-even:
- a value is `[m, e]`, for `m * 2^e`;
- `F32Div` is the quotient, produced one bit at a time (`DivBits`, RECURSIVE);
- `F32MulInt` is the product of an integer and a float. It splits the 24-bit mantissa into two 12-bit halves (`MulHi`, `MulShift`), so no intermediate exceeds TLC's 32-bit integers;
- `TruncU32` is the `(uint32_t)` cast.

`ContentFits` is what the projection should achieve:
- the content rect lies inside the video;
- it is centred to within a pixel;
- it fills the width or the height;
- its other side is within one pixel of the displayed aspect.

`MC_RecordScreen` checks this (`ProjectionFitsVideo`) for nine real display sizes, rotated or not, against the display's own size either way round and the 720p fallback. It checks the same for the model's displays, in every state where a projection is set. Both checks are constant tables, which TLC evaluates once.

### MediaFormat.tla: the format conversions of the MediaCodec wrapper

`kosMediaFormat` is a record of its twelve fields, and an `AMessage` is the sequence of its entries (key, type, value) in insertion order. `ConvertMediaFormatToMessage` is the `setString`/`setInt32` chain of 514-562: mime when it is not empty, then each field that is not 0, under the macro `ToMessageKeys` names for it, transcribed call by call. `ConvertMessageToMediaFormat` is the loop of 411-512. It zeroes the format, skips the `android._` keys (`PrivateKeys`), stores an int32 through the `strcmp` chain (`Int32Chain`, transcribed branch by branch, and `FromMessageField`, the field of the first branch that matches) and a string only under `KEY_MIME`. A rect sets width and height to `1 + right - left` by `1 + bottom - top`. Int64, float and buffer entries are read and dropped. `ConfigureFormats` (test input, not code) are the formats a caller gives `MediaCodec_configure`: each with a mime or none and at most two other fields set, and `MediaFormat_create`'s. Both chains name the `KEY_*` macros (`KEY`) separately, as the code does, so the round trip compares two independent transcriptions. A mime string is shorter than `KOS_MAX_NAME_LEN`, so `strlcpy` copies it whole. The module has no state. `FormatRoundTrip` says that converting each of these formats and back gives the format itself. `MC_CodecRegistry` checks it as `ConfigureKeepsFormat`, an action property of CodecRegistry's `Configure` steps. TLC evaluates the constant sweep once.

### MC modules

`MC_FramePipeline`, `MC_ConnLifecycle`, `MC_ExplorerBridge`, `MC_NetdBridge`, `MC_CodecRegistry`, `MC_InputPath` and `MC_RecordScreen` are the model-checking roots; each extends its module, and the constants are set in the .cfg files. `MC_NetdBridge` also defines the reply and broadcast lines, which hold quote characters a .cfg cannot write. `MC_CodecRegistry` defines the one- and two-thread sets and extends MediaFormat too. `MC_InputPath` takes the tables from KeyTables. A caller sends five scan codes: ESC, A, PrintScreen (whose `AKEYCODE_SYSRQ` is not in KEYS), 0x54 (UNKNOWN in the table) and 200 (past the table). The read past the table returns UNKNOWN, ESCAPE, A or PRINTSCREEN. `MC_RecordScreen` sets two orientations and two display sizes: a 1080x1920 phone, for which a failed `prepareEncoder` is retried at 720p, and a 1280x800 panel, for which the `&&` in the retry test skips it.

### Planned modules, in order

1. **Composition**
   - ConnLifecycle + FramePipeline: restarting capture after the pump exits, checking that a reset `gPause` does not leave the codec paused.
2. **NetdBridge extensions**
   - `calcCmdNum` at 32-bit width, and the client list so the unlocked `mClients->empty()` read can be checked.

## 3. Runs

| run | cfg | expect | what it shows |
|---|---|---|---|
| pipeline_fifo | FramePipeline.cfg | pass | `TypeOK`; `PauseRequestApplied`: under program-order stores every pause or resume request is eventually applied. |
| pipeline_pause_reordered | FramePipeline_reorder.cfg | violation | With reordered stores, the encoder consumes the flag with the old `gPause`. The slice then sees `kosRecordScreenPaused()` equal to its desire and never asks again, so the codec stays dropping input. |
| record_screen | RecordScreen.cfg | pass | `TypeOK` (including: the video size is the display's, rotated or not, or the 720p fallback); `FramesTaggedWithProjection`: a frame whose orientation check succeeded is tagged with the projection in force; `StopEndsLoop`: after `kosStopRecordScreen` the loop returns; `ProjectionFitsVideo`: `setDisplayProjection`'s content rect, in binary32 arithmetic, lies inside the video, is centred, fills one side and keeps the display's aspect to within a pixel. |
| conn_lifecycle | ConnLifecycle.cfg | pass | `TypeOK`; `SliceRunsWhileConnected`: the slice is scheduled whenever a connection is live; `GoodPeerKeptByRtt`: a peer that answers every probe in time is never closed by the drift check. |
| conn_capture_kill | ConnLifecycle_capture.cfg | violation | `CaptureTimeoutOnlyBeforeCapture`: the `OnClose` of a rejected second client stops the shared capture, and the capture timeout then closes the first, already capturing, connection. |
| explorer_bridge | ExplorerBridge.cfg | pass | `TypeOK`; `ExplorerShownToPeer`: a drag-copy peer is told SHOWN while the explorer is shown in the foreground, across dialogs, clients, long presses and background/foreground switches. |
| explorer_null_slot | ExplorerBridge_nullslot.cfg | violation | `NoNullSlotDeref`: the dialog closes between `send_startup_msg`'s unlocked check and its locked post. |
| explorer_longpress_drag | ExplorerBridge_longpress.cfg | violation | `NoDragAtConnectionFinished`: a long press between `OnRdpRequest` marking the connection finished and the UI dispatching the connectionfinished message fails `VALIDATE(!drag_copy_.draging)`. |
| netd_bridge | NetdBridge.cfg | pass | `TypeOK`; `ReturnsOwnResponse`: a call woken by the event returns the code and packed words of the reply to its own number, across timeouts, late and dropped replies and broadcasts; `PackIsLongestFit`, `TokenizeInvertsEncode`: the packing loop and the tokenizer against reference definitions. |
| codec_registry | CodecRegistry.cfg | pass | One application thread, six setups, `IdMax = 3`. `TypeOK`; `RegistryMatchesHandles`: every held handle resolves to its own unreleased codec, across the counter's wrap and the skip over taken ids; `CacheOnlyWhileStarted`: `stop` and `release` free the cached buffers; `AppBuffersMatchCodec`: across dequeues, give-backs, flushes, stops and releases, the indices the application took from non-negative dequeue results are exactly the buffers its codec has handed out, and `getBuffer` resolves each of them; `SetupReturns`: `nextUniqueId`'s loop ends. `ConfigureKeepsFormat`: at every configure step, `JMediaCodec::configure` converts the format to the AMessage it configures the codec with, and converting that back gives the format passed in. The two hand-written key chains agree, so every field reaches the codec under the key it is read back from. |
| codec_id_race | CodecRegistry_race.cfg | violation | `RegistryMatchesHandles`: two threads in `nextUniqueId` both load the same `uniqueId` and return the same handle; `setMediaCodec` releases the first codec and drops the second, and both callers hold a handle to a released codec. |
| input_path | InputPath.cfg | pass | `TypeOK`; `SyncedView`: after every call Android has seen all the device's events; `ViewFollowsRequests`: for single-action records Android sees the buttons, keys and position requested since creation. |

### Bounds

**pipeline_fifo:**
- `MaxFrames = 5`, `EncoderDepth = 2`, `AlertBacklog = 2`.
- The code's alert/safe images are 4/1.
- Two orientations.
- These bounds let the queue reach the alert size (4), so a pause request happens. They also let the backlog block the drain, and the pump fail mid-stream.
- About 2 minutes, most of it spent on the liveness check.

**conn_lifecycle:**
- Two connections, so the first-connection-only logic and the rejection of a second client both happen.
- `SeqMod = 4`: the probe sequence wraps inside `Horizon = 10` periods. `TickMod = 16` with `TickStart = 0`: the tick counter stays clear of its wrap in this run; started two probe periods before it, the same model breaks `GoodPeerKeptByRtt` (see the hazard at `rdp_server_rose.cc:393`). `TimeBound` (`now <= Horizon`) is a state constraint, not a guard, so the end of the horizon is not a deadlock.
- The timeouts are scaled down (`HandshakeTimeout = 3`, `CaptureTimeout = 4`, `RttPeriod = 2`); `DriftThreshold = 3` is the code's.
- `MaxStall = 1`: the slice is a task reposted every 20 ms on a thread that never blocks (spec.md 5), so it can be late by a period but not starve.
- About 2.7 million states, under a minute.

**explorer_bridge:**
- Two dialogs one after the other and two client sessions, so a payload can be posted to a dialog that has gone and an update can be left in the vector for the next client; three payloads (a connectionfinished, a connectionclosed and a capabilities message), three updates, and two visibility switches (to the background and back). Three updates are enough for a SHOWN, the HIDDEN of a switch to the background and the SHOWN of the return, or for a long press's START_DRAG between them.
- The bounds are a state constraint (`Bounds`).
- About 2.1 million states, under a minute.

**explorer_longpress_drag:** one dialog, one client, one payload and one update: the race needs only the connectionfinished message and the long press.

**netd_bridge:**
- Three calls with `CMDNUM_MAX = 3`: the wrap of `mCmdNum` is taken, and no number is issued twice (reuse needs 2^31 calls in the code).
- Replies with no word, one word, two words of which only the first fits the 4-byte buffer, and one refused word (a lone quote); codes 200 and 213 so mixing two replies shows; one unsolicited line, noise or broadcast.
- netd may answer any command late, after the call timed out, or drop it.
- About 220,000 states, a minute and a half.

**codec_registry:**
- One thread: with two, the id race breaks the registry properties, and that is the codec_id_race run.
- `IdMax = 3` and six setups: the counter wraps, a setup skips an id still held, and a failed setup happens.
- `NBufs = 1`: one buffer per port, so a dequeue can find it free or handed out, and a non-negative error result would name a real index.
- About 40,000 states, about 11 s. With `NBufs = 2` the run grows to 650,000 states and over 5 minutes.
- `ConfigureKeepsFormat` sweeps 487 formats: the zeroed format, each int field alone, every pair of fields with every combination of the values 1 and 2, and each of these with and without a mime, plus MediaFormat_create's. A field swapped with another, dropped, or sent under a wrong key in either chain changes the format that comes back.

**input_path:**
- Batches of up to two records over nine flag sets (single actions, a click with a move, two button flags in one record, a right click with a move) and five scan codes, with two positions and two wheel values.
- Keyboard and non-keyboard devices, and any number of creates and destroys.
- 778 states, about 70 s: the 540,000 transitions are the batches, and a destroy writes the 100 events of `nativeClear`.

**record_screen:**
- `MaxRecords = 2`: a second capture starts after the first ended, with the globals the first left behind.
- `MaxFormats = 2`: a format change mid-stream gives a CSD different from the first one.
- Two orientations, two display sizes (see MC modules), AVC and raw format.
- `ProjectionFitsVideo` sweeps 9 display sizes x 2 rotations x 4 video sizes, chosen to include aspect ratios whose float quotient rounds up and ones that round down.
- About 1.35 million states, two minutes, most of it the liveness check.

**The violation runs** use the smallest bounds that show the trace.

### Fairness

Weak fairness is assumed for:
- **the slice's steps,** because `did_slice_quited` reposts the tick every 20 ms while the session lives;
- **the encoder's loop top, apply and exit steps,** because they never block;
- **a dequeue result (`PumpEmit \/ PumpNoFrame`),** because `dequeueOutputBuffer` returns within `kTimeout`;
- **`TransportWrite`,** because the socket eventually drains.

No fairness is assumed for capture, rotation or codec failure. Nothing in the code forces them.

RecordScreen assumes weak fairness of the encoder thread (`EncoderStep`): `dequeueOutputBuffer` and `copyFrame` return within 250 ms and every setup call returns. The caller of `kosRecordScreenLoop`, the pause/stop thread and rotation get none.

ConnLifecycle assumes weak fairness of `Slice` (the reposted task runs) and of `Tick` (time passes). Its properties are safety properties; the fairness is stated for the liveness checks planned for the composition. ExplorerBridge, NetdBridge and InputPath check only safety and assume no fairness. CodecRegistry assumes weak fairness of each thread's setup steps, which are plain code that does not block; the API calls are the application's choice and have none. Its runs do not check deadlock: an application that has stopped calling the API may stop.

## 4. Findings so far

- **`screenrecord.cpp:742`.** The unsynchronised store pair in `kosPauseRecordScreen` can lose a resume, and the stream then stays frozen (run pipeline_pause_reordered).
- **`rdp_server_rose.cc:374`.** The orientation request follows the frames it describes. Spec 4.4 step 3 requires it first. A violation run of `FramesShownInTheirOrientation` showed it; the run was retired for record_screen and the hazard keeps the note.

- **`rdp_server_rose.cc:310`.** The handshake timeout only applies to the first normal connection. `HandshakeDeadline` in ConnLifecycle fails under ConnLifecycle.cfg's bounds with a second connection that never handshakes. Its run was retired for explorer_longpress_drag, and the hazard keeps the note.
- **`explorer.cpp:197`.** A long press after the session thread marked a client connection-finished, and before the UI dispatched the connectionfinished message, starts a drag that the message's `VALIDATE(!drag_copy_.draging)` then rejects; the exception ends `do_gameloop` (run explorer_longpress_drag).
- **`rdp_server_rose.cc:520`.** `OnClose` of a rejected second client stops the capture of the first one, whose capture timeout then closes it (run conn_capture_kill).
- **`rdp_server_rose.cc:538`.** `send_startup_msg` can dereference a null explorer (run explorer_null_slot).
- **`mediacodec2api.cpp:870`.** `nextUniqueId` runs outside `sCodecsLock`, so two concurrent setups can get the same handle and both end with a released codec (run codec_id_race).

Seen while modelling, and kept as hazards without a run:
- a `kosPauseRecordScreen(true)` between the two stores at the end of `kosRecordScreenLoop` (`screenrecord.cpp:724`) leaves `gPause` true and the flag cleared, so the next capture runs unpaused while reporting paused. In RecordScreen the invariant "in runEncoder's loop with no request pending and no `kosPauseRecordScreen` in progress, `encDrop = gPause`" fails in 8 steps;
- when runEncoder's first `getDisplayInfo` fails, the frame is tagged with the default or uninitialised `mainDpyInfo.orientation` (`screenrecord.cpp:405`): the form of `FramesTaggedWithProjection` without the success condition fails on the first frame;
- when the video has the display's own size, `(uint32_t)(videoWidth * displayAspect)` can fall one pixel short of the exact side, because the float aspect rounds down (`screenrecord.cpp:263`). 720x1600 gives a 719-pixel-wide content rect, as do 1440x3200 and, rotated, 480x800 and 1200x2000. So `ContentFits` allows one pixel. Without that pixel, `ProjectionFitsVideo` fails on the sweep;
- the retry test `gVideoWidth != newWidth && gVideoHeight != newHeight` (`screenrecord.cpp:596`) skips the 720p retry for any display with one side equal to the fallback's, such as 1280x800;
- the RTT drift closes after two unanswered probes, not three (`rdp_server_rose.cc:396`);
- a wrap of `SDL_GetTicks` makes the RTT probe fire every tick (`rdp_server_rose.cc:393`);
- the receive callbacks leak their payload when no explorer is shown (`rdp_server_rose.cc:67`);
- a SHOWN pushed while a client is connected but not yet activated stays in `rdpd_thread_explorer_update_` when it disconnects, and the HIDDEN of `app_didenterbackground` is dropped while no client is connected; the next client is then told SHOWN while the application is in the background. `ExplorerHiddenInBackground` fails in 14 steps (`rdp_server_rose.cc:410`);
- `win_code >= 0 || win_code <= 127` is always true, so a scan code above 127 reads past `windows_scancode_table` (`sendinput.cpp:747`);
- `send_input` acts on only the first button flag of a record and drops the move of a right-button or wheel record (`sendinput.cpp:992`).
- 14 of the 96 KEYS codes that `open()` registers can never be sent. They are the keypad digits, KEY_KPDOT, KEY_KPASTERISK, KEY_NUMLOCK, KEY_RIGHTCTRL and KEY_RIGHTALT.
  - `send_input` ignores the extended-key flag. `windows_scancode_table` gives 0x47-0x53 their navigation meaning (Home, Up, PageUp…), so a client's keypad 8 arrives as KEY_UP.
  - 0x37 is PrintScreen, which has no Linux key. 0x45 is NUMLOCKCLEAR, which is not in `Android_Keycodes`.
  - sendinput.h calls KEYS "all of the keycodes that the remote is capable of sending".
  - This was found by evaluating the tables in KeyTables. It is not a run.

## 5. Not modelled, and why

- **The pixel copies and `FrameOutput`.** RecordScreen keeps which orientation the projection is for, and Projection its geometry; `FrameOutput` is not under src/, so a raw frame carries no orientation in the model.
- **Pixel data, the H.264 payloads, logging and stats.** No property distinguishes them.
- **Wall-clock time.** The 20 ms period is not a quantity in FramePipeline; it only justifies the fairness.
- **The status bar, home and settings UI, BLE packet coding and the Android platform bindings.** They hold no shared protocol state. `eventhub.cpp` is a copy of Android's EventHub that no code under src/ instantiates.
- **The remaining MediaCodec calls** (`getFormat`, `getOutputFormat`, `getName`, `setParameters`, `signalEndOfInputStream`, the input surface calls, `MediaCodecList`). They are reads, or they forward to the framework state that no property is about. Two things were seen in them while modelling:
  - `MediaCodec_getOutputFormat` returns `codec->getFormat(false, format)`, a `status_t`, as `bool`. It is false exactly when the format was read (`OK` is 0) and true on error (`mediacodec2api.cpp:1000`).
  - The codec's buffer arrays are fixed in CodecRegistry. After `DEQUEUE_INFO_OUTPUT_BUFFERS_CHANGED` the framework has a new output array, but the cache `start` filled is never refreshed, so `getBuffer` returns a buffer of the old array (`mediacodec2api.cpp:746`). Spec 4.1 has the encoder loop refresh its buffer handles on BUFFERS_CHANGED. The twelve runs are taken, so neither is kept as a violation run.
- **Concurrent calls of the kos*Input API.** Its callers are outside src/, so InputPath runs the calls one at a time; the unlocked `gConnectionPtr` is a hazard.
- **Every scan code in the behaviours.** The tables are complete, but a caller sends five scan codes. They cover a mapped key, an unmapped key, a key missing from KEYS and the read past the table. Each pressed key doubles the state space.
- **The explorer's copy and paste (`rdp_copy`, `rdp_paste`, `rexplorer_click_edit`) and the CAN_PASTE updates of `rexplorer_handler_mouse_motion`.** They go to the clipboard channel outside src/, or push updates that change neither the drag state nor the explorer's visibility.
- **The netd client list and the sequence-number mode of `dispatchCommand`.** The list is managed by the SocketListener base class outside src/, and `mWithSeq` is false.
- **What a netd caller reads after a timeout or an empty reply.** The model keeps `result` across calls and reaches that state; see the hazard at `main.cpp:279`.
- **Whether `slot->rexplorer_` is valid between the `texplorer_slot` constructor and `trexplorer`'s.** That is decided by code outside this repository.
