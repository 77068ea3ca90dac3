--------------------------- MODULE CodecRegistry ---------------------------
(***************************************************************************)
(* The handle table of the MediaCodec NDK wrapper (kosapi                  *)
(* mediacodec2api.cpp).  MediaCodec_setup constructs a JMediaCodec, takes  *)
(* a handle from JMediaCodec::nextUniqueId() and stores the codec in the   *)
(* static map `codecs` under sCodecsLock; every other MediaCodec_* call    *)
(* resolves its handle through getMediaCodec().  nextUniqueId() runs       *)
(* outside the lock, on whatever application thread calls setup.          *)
(*                                                                         *)
(* A JMediaCodec is an object number; its MediaCodec is abstracted to the  *)
(* lifecycle state the wrapper relies on and the buffers it has handed    *)
(* out; the buffer vectors start() caches are abstracted to whether they  *)
(* are filled.  Buffers are <<port, index>> pairs of NBufs per port.       *)
(***************************************************************************)
EXTENDS Integers, FiniteSets, Functions, TLC

CONSTANTS
    Threads,     \* application threads calling the MediaCodec_* API
    IdMax,       \* INT_MAX of the handle counter
    MaxSetups,   \* JMediaCodec objects constructed in one behaviour
    NBufs        \* buffers in each of a codec's input and output arrays

ASSUME IdMax \in Nat /\ MaxSetups \in Nat \ {0} /\ NBufs \in Nat \ {0}

Ids  == 0..IdMax
Objs == 1..MaxSetups
None == 0                   \* a null sp<JMediaCodec>

\* "none": not constructed yet; "uninit": mCodec created but not
\* configured (also after stop()); "released": mCodec cleared.
CodecStates == {"none", "uninit", "configured", "started", "released"}

\* Program counter of a thread inside MediaCodec_setup.
SetupPcs == {"idle", "nui_load", "nui_store", "nui_test", "set"}

Ports == {"in", "out"}
BufIdx == 0..(NBufs - 1)
Bufs == Ports \X BufIdx

VARIABLES
    uniqueId,   \* JMediaCodec::uniqueId
    codecs,     \* the static map: handle -> JMediaCodec
    made,       \* JMediaCodec objects constructed so far
    mstate,     \* per object: the state of its mCodec
    cached,     \* per object: mCachedInput/OutputBuffers are filled
    pc,         \* per thread: position inside setupMediaCodec
    mine,       \* per thread: the codec being set up (local `codec`)
    tmp,        \* per thread: the value nextUniqueId loaded, then returned
    held,       \* per thread: <<handle, codec it was returned for>>
    owned,      \* per object: buffers its MediaCodec has handed out
    appBufs     \* per thread: <<handle, port, index>> it believes it holds

vars == <<uniqueId, codecs, made, mstate, cached, pc, mine, tmp, held, owned, appBufs>>

TypeOK ==
    /\ uniqueId \in Ids
    /\ DOMAIN codecs \subseteq Ids /\ \A h \in DOMAIN codecs : codecs[h] \in Objs
    /\ made \in 0..MaxSetups
    /\ mstate \in [Objs -> CodecStates]
    /\ cached \in [Objs -> BOOLEAN]
    /\ pc \in [Threads -> SetupPcs]
    /\ mine \in [Threads -> {None} \cup Objs]
    /\ tmp \in [Threads -> Ids]
    /\ held \in [Threads -> SUBSET (Ids \X Objs)]
    /\ owned \in [Objs -> SUBSET Bufs]
    /\ appBufs \in [Threads -> SUBSET (Ids \X Ports \X BufIdx)]

Init ==
    /\ uniqueId = 0
    /\ codecs = <<>>
    /\ made = 0
    /\ mstate = [o \in Objs |-> "none"]
    /\ cached = [o \in Objs |-> FALSE]
    /\ pc = [t \in Threads |-> "idle"]
    /\ mine = [t \in Threads |-> None]
    /\ tmp = [t \in Threads |-> 0]
    /\ held = [t \in Threads |-> {}]
    /\ owned = [o \in Objs |-> {}]
    /\ appBufs = [t \in Threads |-> {}]

-----------------------------------------------------------------------------
(* Helpers *)

NextIdNoWrap(u) == u + 1

NextIdStuck(u) == IF u # IdMax THEN u + 1 ELSE IdMax

\* The counter step of nextUniqueId: wraps from INT_MAX to 0.
NextId(u) == IF u # IdMax THEN u + 1 ELSE 0

\* The JMediaCodec constructor and initCheck(): the looper is started and
\* mCodec created by component name; CHECK((mCodec != NULL) != (mInitStatus
\* != OK)), so initCheck() is OK exactly when mCodec exists.  A codec whose
\* mCodec is null is modelled as released: nothing can be called on it.
JMediaCodecNew(ok) == IF ok THEN "uninit" ELSE "released"

\* freeAllTrackedBuffers() of the codecs in S: under mBufferLock both caches
\* are cleared.
FreeAllTrackedBuffers(S) == cached' = [o \in Objs |-> ~(o \in S) /\ cached[o]]

\* getBuffers(true, mCachedInputBuffers) and getBuffers(false,
\* mCachedOutputBuffers): each vector is cleared and takes the codec's array.
GetBuffers(o) == cached' = [cached EXCEPT ![o] = TRUE]

\* JMediaCodec::release() applied to the codecs in S: freeAllTrackedBuffers()
\* clears the cache, mCodec->release() (which takes every buffer back) and
\* clear() leave it null.  A codec already released has nothing left to
\* release.
ReleaseAll(S) ==
    /\ mstate' = [o \in Objs |-> IF o \in S THEN "released" ELSE mstate[o]]
    /\ FreeAllTrackedBuffers(S)
    /\ owned' = [o \in Objs |-> IF o \in S THEN {} ELSE owned[o]]

\* ~JMediaCodec: when the last sp goes and mCodec or mLooper is still set,
\* the destructor calls release().  SetupRegister's local sp is the last
\* one of a codec setMediaCodec did not insert (the handle was taken).
DestroyedUnregistered(id, c) == IF id \in DOMAIN codecs THEN {c} ELSE {}

\* setMediaCodec(id, codec) under sCodecsLock: the old codec under id, if any,
\* is released; a non-null codec is inserted only if id was free; a null one
\* erases id.  The table part; OldCodec is the codec it releases.
SetMediaCodecTable(id, c) ==
    codecs' = IF c # None
              THEN IF id \in DOMAIN codecs THEN codecs ELSE codecs @@ (id :> c)
              ELSE Restrict(codecs, DOMAIN codecs \ {id})

OldCodec(id) == IF id \in DOMAIN codecs THEN {codecs[id]} ELSE {}

\* getMediaCodec(id): codecs.find(id)->second, with no check against end().
\* The application is modelled to call only with handles it holds; whether
\* such a handle still resolves to its own live codec is what
\* RegistryMatchesHandles asks, so the unchecked end() is never reached
\* unnoticed.
Resolve(h) == codecs[h]

\* Handles the application holds, over all threads.
HeldIds == {p[1] : p \in UNION {held[t] : t \in Threads}}

-----------------------------------------------------------------------------
(* MediaCodec_setup -> setupMediaCodec, one step per shared access *)

\* new JMediaCodec(...) and initCheck().  On NAME_NOT_FOUND, NO_MEMORY or any
\* other error setup returns -1 and the local sp destroys the codec, whose
\* mCodec is null.  On success registerSelf() and nextUniqueId() follow.  The
\* application never holds INT_MAX + 1 handles at once (it could not
\* allocate the codecs), so nextUniqueId always has a free id to find.
SetupConstruct(t) ==
    /\ pc[t] = "idle"
    /\ made < MaxSetups
    /\ Cardinality(HeldIds) < IdMax
    /\ made' = made + 1
    /\ \E ok \in BOOLEAN :
         /\ mstate' = [mstate EXCEPT ![made + 1] = JMediaCodecNew(ok)]
         /\ mine' = [mine EXCEPT ![t] = IF ok THEN made + 1 ELSE None]
         /\ pc' = [pc EXCEPT ![t] = IF ok THEN "nui_load" ELSE "idle"]
    /\ UNCHANGED <<uniqueId, codecs, cached, tmp, held, owned, appBufs>>

\* nextUniqueId, first half of `uniqueId ++` (or `uniqueId = 0`): the load.
NuiLoad(t) ==
    /\ pc[t] = "nui_load"
    /\ tmp' = [tmp EXCEPT ![t] = uniqueId]
    /\ pc' = [pc EXCEPT ![t] = "nui_store"]
    /\ UNCHANGED <<uniqueId, codecs, made, mstate, cached, mine, held, owned, appBufs>>

\* nextUniqueId, the store of the incremented (or wrapped) value.
NuiStore(t) ==
    /\ pc[t] = "nui_store"
    /\ uniqueId' = NextId(tmp[t])
    /\ pc' = [pc EXCEPT ![t] = "nui_test"]
    /\ UNCHANGED <<codecs, made, mstate, cached, mine, tmp, held, owned, appBufs>>

NuiTestNoSkip(t) ==
    /\ pc[t] = "nui_test"
    /\ pc' = [pc EXCEPT ![t] = "set"]
    /\ tmp' = [tmp EXCEPT ![t] = uniqueId]
    /\ UNCHANGED <<uniqueId, codecs, made, mstate, cached, mine, held, owned, appBufs>>

\* nextUniqueId, `while (codecs.count(uniqueId))` and `return uniqueId`: both
\* read the shared counter, and the map, without sCodecsLock.
NuiTest(t) ==
    /\ pc[t] = "nui_test"
    /\ IF uniqueId \in DOMAIN codecs
       THEN /\ pc' = [pc EXCEPT ![t] = "nui_load"]
            /\ UNCHANGED tmp
       ELSE /\ pc' = [pc EXCEPT ![t] = "set"]
            /\ tmp' = [tmp EXCEPT ![t] = uniqueId]
    /\ UNCHANGED <<uniqueId, codecs, made, mstate, cached, mine, held, owned, appBufs>>

\* setMediaCodec(handle, codec) and `return handle`.  If the handle is taken
\* the old codec is released and the new one, not inserted, is destroyed
\* with setup's local sp, its destructor releasing it too.
SetupRegister(t) ==
    LET id == tmp[t]
        c  == mine[t]
    IN
    /\ pc[t] = "set"
    /\ SetMediaCodecTable(id, c)
    /\ ReleaseAll(OldCodec(id) \cup DestroyedUnregistered(id, c))
    /\ held' = [held EXCEPT ![t] = @ \cup {<<id, c>>}]
    /\ pc' = [pc EXCEPT ![t] = "idle"]
    /\ mine' = [mine EXCEPT ![t] = None]
    /\ UNCHANGED <<uniqueId, made, tmp, appBufs>>

-----------------------------------------------------------------------------
(* The NDK wrappers, each `getMediaCodec(handle)` and its `codec == NULL`  *)
(* check followed by the JMediaCodec method.  A thread calls them between  *)
(* setups, with a handle it holds.  Calls the MediaCodec refuses in its    *)
(* current state (INVALID_OPERATION) change nothing and are left out,      *)
(* except dequeue, whose error is a return value the application reads.    *)
(* The application forgets the buffers of a codec it flushes, stops or     *)
(* releases, and passes back only indices it believes it holds.            *)

Call(t, h) == pc[t] = "idle" /\ h \in {p[1] : p \in held[t]} /\ h \in DOMAIN codecs

\* The application's buffers of handle h dropped.
Forget(t, h) == appBufs' = [appBufs EXCEPT ![t] = {b \in @ : b[1] # h}]

\* MediaCodec_configure -> JMediaCodec::configure -> mCodec->configure().
Configure(t, h) ==
    /\ Call(t, h)
    /\ mstate[Resolve(h)] = "uninit"
    /\ mstate' = [mstate EXCEPT ![Resolve(h)] = "configured"]
    /\ UNCHANGED <<uniqueId, codecs, made, cached, pc, mine, tmp, held, owned, appBufs>>

\* JMediaCodec::start(): mCodec->start() (legal once configured; on error it
\* returns), then, under mBufferLock, getBuffers() fills both caches.
JMediaCodecStart(o) ==
    /\ mstate[o] = "configured"
    /\ mstate' = [mstate EXCEPT ![o] = "started"]
    /\ GetBuffers(o)

\* MediaCodec_start -> JMediaCodec::start().
Start(t, h) ==
    /\ Call(t, h)
    /\ JMediaCodecStart(Resolve(h))
    /\ UNCHANGED <<uniqueId, codecs, made, pc, mine, tmp, held, owned, appBufs>>

StopNoFree(t, h) ==
    /\ Call(t, h)
    /\ mstate[Resolve(h)] \in {"configured", "started"}
    /\ mstate' = [mstate EXCEPT ![Resolve(h)] = "uninit"]
    /\ owned' = [owned EXCEPT ![Resolve(h)] = {}]
    /\ Forget(t, h)
    /\ UNCHANGED <<uniqueId, codecs, made, cached, pc, mine, tmp, held>>

\* JMediaCodec::stop(): mCodec->stop() (legal when configured or started,
\* taking every buffer back and leaving the codec to be configured again;
\* on error it returns), then freeAllTrackedBuffers().
JMediaCodecStop(o) ==
    /\ mstate[o] \in {"configured", "started"}
    /\ mstate' = [mstate EXCEPT ![o] = "uninit"]
    /\ FreeAllTrackedBuffers({o})
    /\ owned' = [owned EXCEPT ![o] = {}]

\* MediaCodec_stop -> JMediaCodec::stop().
Stop(t, h) ==
    /\ Call(t, h)
    /\ JMediaCodecStop(Resolve(h))
    /\ Forget(t, h)
    /\ UNCHANGED <<uniqueId, codecs, made, pc, mine, tmp, held>>

\* MediaCodec_release -> setMediaCodec(handle, NULL): the codec is released
\* and its entry erased; the application gives the handle up.
Release(t, h) ==
    /\ Call(t, h)
    /\ SetMediaCodecTable(h, None)
    /\ ReleaseAll(OldCodec(h))
    /\ held' = [held EXCEPT ![t] = {p \in @ : p[1] # h}]
    /\ Forget(t, h)
    /\ UNCHANGED <<uniqueId, made, pc, mine, tmp>>

\* MediaCodec_flush -> JMediaCodec::flush() -> mCodec->flush(): a started
\* codec takes every buffer back; the caches are kept.
Flush(t, h) ==
    /\ Call(t, h)
    /\ mstate[Resolve(h)] = "started"
    /\ owned' = [owned EXCEPT ![Resolve(h)] = {}]
    /\ Forget(t, h)
    /\ UNCHANGED <<uniqueId, codecs, made, mstate, cached, pc, mine, tmp, held>>

status_t_2_dequeue_infoAgainZero(err) ==
    CASE err \in {"OK", "EAGAIN"} -> 0
      [] err = "INFO_FORMAT_CHANGED" -> -2
      [] err = "INFO_OUTPUT_BUFFERS_CHANGED" -> -3
      [] OTHER -> -4

\* The switch: OK -> 0, -EAGAIN -> DEQUEUE_INFO_TRY_AGAIN_LATER (-1), the
\* two INFO codes -> -2 and -3, INVALID_OPERATION, BAD_VALUE and every
\* other error -> DEQUEUE_INFO_OTHER_ERROR (-4).
status_t_2_dequeue_info(err) ==
    CASE err = "OK" -> 0
      [] err = "EAGAIN" -> -1
      [] err = "INFO_FORMAT_CHANGED" -> -2
      [] err = "INFO_OUTPUT_BUFFERS_CHANGED" -> -3
      [] OTHER -> -4

\* What mCodec->dequeueInput/OutputBuffer can answer: an error when the
\* codec is not started; when started a free buffer, -EAGAIN, and on the
\* output port the two INFO codes.
DequeueErrs(o, port) ==
    IF mstate[o] = "started"
    THEN {"OK", "EAGAIN"} \cup (IF port = "out"
                               THEN {"INFO_FORMAT_CHANGED", "INFO_OUTPUT_BUFFERS_CHANGED"}
                               ELSE {})
    ELSE {"INVALID_OPERATION"}

\* MediaCodec_dequeueInputBuffer / MediaCodec_dequeueOutputBuffer ->
\* JMediaCodec::dequeueInput/OutputBuffer: on err != OK the converted error,
\* else (int)index.  `index` is uninitialised unless err is OK, so i ranges
\* over every index.  The application takes a result >= 0 as a buffer.
Dequeue(t, h, port) ==
    /\ Call(t, h)
    /\ mstate[Resolve(h)] \in {"uninit", "configured", "started"}
    /\ \E err \in DequeueErrs(Resolve(h), port), i \in BufIdx :
         LET r == IF err # "OK" THEN status_t_2_dequeue_info(err) ELSE i
         IN /\ err = "OK" => <<port, i>> \notin owned[Resolve(h)]
            /\ owned' = IF err = "OK"
                        THEN [owned EXCEPT ![Resolve(h)] = @ \cup {<<port, i>>}]
                        ELSE owned
            /\ appBufs' = IF r >= 0
                          THEN [appBufs EXCEPT ![t] = @ \cup {<<h, port, r>>}]
                          ELSE appBufs
    /\ UNCHANGED <<uniqueId, codecs, made, mstate, cached, pc, mine, tmp, held>>

\* The application hands buffer <<port, i>> of h back: the codec takes it if
\* it is started and owns it out (else the call fails and nothing changes);
\* either way the application no longer counts it as its own.
GiveBack(t, h, port, i) ==
    /\ Call(t, h)
    /\ <<h, port, i>> \in appBufs[t]
    /\ owned' = IF mstate[Resolve(h)] = "started"
                THEN [owned EXCEPT ![Resolve(h)] = @ \ {<<port, i>>}]
                ELSE owned
    /\ appBufs' = [appBufs EXCEPT ![t] = @ \ {<<h, port, i>>}]
    /\ UNCHANGED <<uniqueId, codecs, made, mstate, cached, pc, mine, tmp, held>>

\* MediaCodec_queueInputBuffer -> JMediaCodec::queueInputBuffer ->
\* mCodec->queueInputBuffer(); returns err == OK.
QueueInputBuffer(t, h, i) == GiveBack(t, h, "in", i)

\* MediaCodec_releaseOutputBuffer -> JMediaCodec::releaseOutputBuffer with
\* neither render nor updatePTS -> mCodec->releaseOutputBuffer().
ReleaseOutputBuffer(t, h, i) == GiveBack(t, h, "out", i)

\* JMediaCodec::getBufferLength(input): the size of the copied cache, the
\* codec's array while filled (INFO_OUTPUT_BUFFERS_CHANGED is not followed
\* by a new array in this model).
BufferLength(o) == IF cached[o] THEN NBufs ELSE 0

\* JMediaCodec::getBuffer(input, index): false if index >= buffers.size().
GetBuffer(o, i) == i < BufferLength(o)

-----------------------------------------------------------------------------

SetupStep(t) == NuiLoad(t) \/ NuiStore(t) \/ NuiTest(t) \/ SetupRegister(t)

Next ==
    \E t \in Threads :
        \/ SetupConstruct(t)
        \/ SetupStep(t)
        \/ \E h \in Ids :
             \/ Configure(t, h) \/ Start(t, h) \/ Stop(t, h) \/ Release(t, h)
             \/ Flush(t, h)
             \/ \E port \in Ports : Dequeue(t, h, port)
             \/ \E i \in BufIdx : QueueInputBuffer(t, h, i) \/ ReleaseOutputBuffer(t, h, i)

\* A thread inside MediaCodec_setup is scheduled by the OS; the other calls
\* are the application's choice and get no fairness.
Spec == Init /\ [][Next]_vars /\ \A t \in Threads : WF_vars(SetupStep(t))

-----------------------------------------------------------------------------
(* Properties *)

\* Every handle MediaCodec_setup returned and the application has not
\* released resolves through the map to the codec created for it, and that
\* codec is not released; the map holds no entry nobody holds.  Broken if
\* nextUniqueId hands out a handle in use (setMediaCodec then releases the
\* old codec and drops the new one) or an entry is not erased.
RegistryMatchesHandles ==
    /\ \A t \in Threads : \A p \in held[t] :
          /\ p[1] \in DOMAIN codecs
          /\ codecs[p[1]] = p[2]
          /\ mstate[p[2]] # "released"
    /\ DOMAIN codecs \subseteq HeldIds

\* The buffer vectors getBuffer/getBufferLength hand out are filled only
\* while the codec is started: stop() and release() both free them.
CacheOnlyWhileStarted ==
    \A o \in Objs : cached[o] => mstate[o] = "started"

\* The application's view of its buffers, built only from the signs of
\* what MediaCodec_dequeue*Buffer returned, is the codec's: every index it
\* believes it holds is a buffer its codec has handed out and that
\* MediaCodec_getBuffer resolves, and the codec has handed out no buffer the
\* application does not know of.  Broken if an error or INFO code comes
\* back as a non-negative value, if an index is returned on error, or if
\* stop, flush or release leave the two sides disagreeing.
AppBuffersMatchCodec ==
    /\ \A t \in Threads : \A b \in appBufs[t] :
          /\ b[1] \in DOMAIN codecs
          /\ <<b[2], b[3]>> \in owned[codecs[b[1]]]
          /\ GetBuffer(codecs[b[1]], b[3])
    /\ \A h \in DOMAIN codecs : \A b \in owned[codecs[h]] :
          \E t \in Threads : <<h, b[1], b[2]>> \in appBufs[t]

\* Every MediaCodec_setup that got past initCheck returns: nextUniqueId's
\* loop, wrapping at INT_MAX, finds a free handle.
SetupReturns ==
    \A t \in Threads : pc[t] # "idle" ~> pc[t] = "idle"

=============================================================================
