---------------------------- MODULE ConnLifecycle ----------------------------
(***************************************************************************)
(* Connection lifecycle and the slice's timeouts (rdp_server_rose.cc).     *)
(*                                                                         *)
(* Everything here runs on the session thread: OnConnect, OnClose and the  *)
(* 20 ms tick rdpd_slice, which looks only at the FIRST normal connection  *)
(* (FindFirstNormalConnection) and, for it, enforces the 30 s handshake    *)
(* timeout, starts the capture subsystem, enforces the 60 s capture        *)
(* timeout and runs the RTT probe with its drift check.  did_slice_quited  *)
(* reposts the tick while a connection exists.  The frame drain of the     *)
(* tick is modelled in FramePipeline.                                      *)
(*                                                                         *)
(* Time is counted in slice periods.  now is the elapsed time of the       *)
(* behaviour; the value SDL_GetTicks() returns is (TickStart + now) %      *)
(* TickMod, a reduced-width image of the 32-bit millisecond counter.       *)
(***************************************************************************)
EXTENDS Integers, Sequences, FiniteSets

CONSTANTS
  NConns,           \* connections accepted in one behaviour, ids 1..NConns
  MaxLive,          \* SUPPORTED_MAX_CLIENTS + 1 connections may coexist
  HandshakeTimeout, \* create_threshold (30 s)
  CaptureTimeout,   \* capture_thread_threshold (60 s)
  RttPeriod,        \* rtt_threshold (5 s)
  DriftThreshold,   \* sequence_number_threshold (3)
  TickMod,          \* range of SDL_GetTicks()
  TickStart,        \* SDL_GetTicks() when the behaviour starts
  SeqMod,           \* range of the uint16 probe sequence number
  InitSeq,          \* initial next_rtt_sequence_number
  Horizon,          \* slice periods explored (state constraint TimeBound)
  MaxStall,         \* periods the posted slice may run late
  MaxLatency        \* periods a responsive peer takes to answer a probe

ASSUME
  /\ NConns \in Nat \ {0} /\ MaxLive \in Nat \ {0}
  /\ {HandshakeTimeout, CaptureTimeout, RttPeriod, DriftThreshold} \subseteq Nat \ {0}
  /\ TickMod \in Nat /\ Horizon < TickMod /\ TickStart \in 0..(TickMod - 1)
  /\ SeqMod \in Nat \ {0} /\ InitSeq \in 0..(SeqMod - 1)
  /\ MaxStall \in Nat /\ MaxLatency \in Nat \ {0}

Conns == 1..NConns
Reasons == {"none", "handshake", "capture", "rtt", "peer", "reject"}

VARIABLES
  now,             \* slice periods elapsed
  st,              \* per connection: "idle", "connecting", "handshaked", "closed"
  good,            \* the peer answers in time and never drops the link
  createTicks,     \* connection->create_ticks()
  handshakedTicks, \* connection->handshaked_ticks()
  nextRttTicks,    \* connection->next_rtt_ticks, 0 = no probe scheduled
  nextRttSeq,      \* connection->next_rtt_sequence_number
  lastSeq,         \* context->autodetect->lastSequenceNumber
  probes,          \* probes sent and not yet answered: <<[seq, at]>>
  closedBy,        \* why the connection was closed
  everCaptured,    \* capture was running while this connection was first
  capture,         \* record_screen.thread_started()
  sliceRunning,    \* slice_running_
  ranThisTick,     \* the posted slice already ran in this period
  stall            \* periods the posted slice has been late

vars == <<now, st, good, createTicks, handshakedTicks, nextRttTicks, nextRttSeq,
          lastSeq, probes, closedBy, everCaptured, capture, sliceRunning,
          ranThisTick, stall>>

connVars == <<good, createTicks, handshakedTicks, nextRttTicks, nextRttSeq,
              lastSeq, probes, everCaptured>>

TypeOK ==
  /\ now \in Nat
  /\ st \in [Conns -> {"idle", "connecting", "handshaked", "closed"}]
  /\ good \in [Conns -> BOOLEAN]
  /\ createTicks \in [Conns -> 0..(TickMod - 1)]
  /\ handshakedTicks \in [Conns -> 0..(TickMod - 1)]
  /\ nextRttTicks \in [Conns -> 0..(TickMod - 1)]
  /\ nextRttSeq \in [Conns -> 0..(SeqMod - 1)]
  /\ lastSeq \in [Conns -> 0..(SeqMod - 1)]
  /\ probes \in [Conns -> Seq([seq : 0..(SeqMod - 1), at : Nat])]
  /\ closedBy \in [Conns -> Reasons]
  /\ everCaptured \in [Conns -> BOOLEAN]
  /\ capture \in BOOLEAN
  /\ sliceRunning \in BOOLEAN
  /\ ranThisTick \in BOOLEAN
  /\ stall \in 0..MaxStall

-----------------------------------------------------------------------------
(* Helpers                                                                 *)

\* SDL_GetTicks(), and unsigned 32-bit subtraction of two tick values.
Ticks == (TickStart + now) % TickMod
TicksSince(t) == (Ticks - t) % TickMod

\* Mutant: uint16_minus with its operands swapped.
Uint16MinusSwapped(a, b) == (b - a) % SeqMod

\* uint16_minus(a, b): the 16-bit difference a - b.
Uint16Minus(a, b) == (a - b) % SeqMod

\* The connections in the server's table (connection_count()).
Live == {c \in Conns : st[c] \in {"connecting", "handshaked"}}

\* FindFirstNormalConnection(): the lowest id in the table.
First == CHOOSE c \in Live : \A d \in Live : c <= d

\* server_->Close(id) followed by OnClose: the connection leaves the table
\* and, its client_ptr being set by OnConnect, rose_shadow_subsystem_stop
\* stops the one capture subsystem of the server.
CloseConn(c, why) ==
  /\ st' = [st EXCEPT ![c] = "closed"]
  /\ closedBy' = [closedBy EXCEPT ![c] = why]
  /\ capture' = FALSE

\* Mutant: the tick stops when no connection is handshaked
\* (normal_connection_count instead of connection_count).
DidSliceQuitedNormalOnly(liveAfter) ==
  /\ sliceRunning' = (\E c \in liveAfter : st[c] = "handshaked")
  /\ ranThisTick' = TRUE
  /\ stall' = 0

\* did_slice_quited, run when rdpd_slice returns by any path: stop the
\* tick if the table is empty, else post it again 20 ms later.
DidSliceQuited(liveAfter) ==
  /\ sliceRunning' = (liveAfter # {})
  /\ ranThisTick' = TRUE
  /\ stall' = 0

-----------------------------------------------------------------------------
Init ==
  /\ now = 0
  /\ st = [c \in Conns |-> "idle"]
  /\ good \in [Conns -> BOOLEAN]
  /\ createTicks = [c \in Conns |-> 0]
  /\ handshakedTicks = [c \in Conns |-> 0]
  /\ nextRttTicks = [c \in Conns |-> 0]
  /\ nextRttSeq = [c \in Conns |-> InitSeq]
  /\ lastSeq = [c \in Conns |-> 0]
  /\ probes = [c \in Conns |-> <<>>]
  /\ closedBy = [c \in Conns |-> "none"]
  /\ everCaptured = [c \in Conns |-> FALSE]
  /\ capture = FALSE
  /\ sliceRunning = FALSE
  /\ ranThisTick = FALSE
  /\ stall = 0

-----------------------------------------------------------------------------
(* Transport and peer (outside src/: the net server and FreeRDP)           *)

\* A socket is accepted, the connection enters the table and OnConnect
\* runs: it starts the tick unless slice_running_ says it is running.
OnConnect(c) ==
  /\ st[c] = "idle"
  /\ \A d \in 1..(c - 1) : st[d] # "idle"
  /\ Cardinality(Live) < MaxLive
  /\ st' = [st EXCEPT ![c] = "connecting"]
  /\ createTicks' = [createTicks EXCEPT ![c] = Ticks]
  /\ IF ~sliceRunning
       THEN /\ sliceRunning' = TRUE
            /\ ranThisTick' = FALSE
            /\ stall' = 0
       ELSE UNCHANGED <<sliceRunning, ranThisTick, stall>>
  /\ UNCHANGED <<now, good, handshakedTicks, nextRttTicks, nextRttSeq, lastSeq,
                 probes, closedBy, everCaptured, capture>>

\* The connection request completes the handshake; the server rejects a
\* second client at this point, closing it (and so running OnClose).
Handshake(c) ==
  /\ st[c] = "connecting"
  /\ IF \E d \in Live : st[d] = "handshaked"
       THEN /\ CloseConn(c, "reject")
            /\ UNCHANGED handshakedTicks
       ELSE /\ st' = [st EXCEPT ![c] = "handshaked"]
            /\ handshakedTicks' = [handshakedTicks EXCEPT ![c] = Ticks]
            /\ UNCHANGED <<closedBy, capture>>
  /\ UNCHANGED <<now, good, createTicks, nextRttTicks, nextRttSeq, lastSeq,
                 probes, everCaptured, sliceRunning, ranThisTick, stall>>

\* The peer's RTT response to its oldest outstanding probe is read:
\* lastSequenceNumber takes its sequence number.
PeerAnswer(c) ==
  /\ st[c] = "handshaked"
  /\ probes[c] # <<>>
  /\ lastSeq' = [lastSeq EXCEPT ![c] = Head(probes[c]).seq]
  /\ probes' = [probes EXCEPT ![c] = Tail(@)]
  /\ UNCHANGED <<now, st, good, createTicks, handshakedTicks, nextRttTicks,
                 nextRttSeq, closedBy, everCaptured, capture, sliceRunning,
                 ranThisTick, stall>>

\* An unresponsive peer's link fails: the read error closes it.
PeerDrop(c) ==
  /\ c \in Live
  /\ ~good[c]
  /\ CloseConn(c, "peer")
  /\ UNCHANGED <<now, connVars, sliceRunning, ranThisTick, stall>>

\* One slice period passes.  The posted slice may be late by at most
\* MaxStall periods; a responsive peer answers every probe within
\* MaxLatency periods and completes its handshake before the timeout.
Tick ==
  /\ sliceRunning => (ranThisTick \/ stall < MaxStall)
  /\ \A c \in Live : good[c] =>
       /\ \A i \in 1..Len(probes[c]) : now + 1 - probes[c][i].at <= MaxLatency
       /\ st[c] = "connecting" => TicksSince(createTicks[c]) + 1 < HandshakeTimeout
  /\ now' = now + 1
  /\ stall' = IF sliceRunning /\ ~ranThisTick THEN stall + 1 ELSE 0
  /\ ranThisTick' = FALSE
  /\ UNCHANGED <<st, connVars, closedBy, capture, sliceRunning>>

-----------------------------------------------------------------------------
(* Session thread: rdpd_slice for the first normal connection c, one       *)
(* action per path through it; each ends in did_slice_quited.              *)

\* No connection: return at once; the tick stops.
SliceNoConnection ==
  /\ Live = {}
  /\ DidSliceQuited(Live)
  /\ UNCHANGED <<now, st, connVars, closedBy, capture>>

\* Not handshaked and within create_threshold: return.
SliceAwaitHandshake(c) ==
  /\ st[c] = "connecting"
  /\ TicksSince(createTicks[c]) < HandshakeTimeout
  /\ DidSliceQuited(Live)
  /\ UNCHANGED <<now, st, connVars, closedBy, capture>>

\* Not handshaked for create_threshold: server_->Close(id).
SliceHandshakeTimeout(c) ==
  /\ st[c] = "connecting"
  /\ TicksSince(createTicks[c]) >= HandshakeTimeout
  /\ CloseConn(c, "handshake")
  /\ DidSliceQuited(Live \ {c})
  /\ UNCHANGED <<now, connVars>>

\* Capture not started and can_xmit_screen_surface: start the capture
\* subsystem, schedule the first probe, return.
SliceStartCapture(c) ==
  /\ st[c] = "handshaked"
  /\ ~capture
  /\ capture' = TRUE
  /\ everCaptured' = [everCaptured EXCEPT ![c] = TRUE]
  /\ nextRttTicks' = [nextRttTicks EXCEPT ![c] = (Ticks + RttPeriod) % TickMod]
  /\ DidSliceQuited(Live)
  /\ UNCHANGED <<now, st, good, createTicks, handshakedTicks, nextRttSeq,
                 lastSeq, probes, closedBy>>

\* The capture has not started (the surface could not be sent) for
\* capture_thread_threshold since the handshake: server_->Close(id).
SliceCaptureTimeout(c) ==
  /\ st[c] = "handshaked"
  /\ ~capture
  /\ TicksSince(handshakedTicks[c]) >= CaptureTimeout
  /\ CloseConn(c, "capture")
  /\ DidSliceQuited(Live \ {c})
  /\ UNCHANGED <<now, connVars>>

\* The tick got past both capture checks.
PastCaptureChecks(c) ==
  /\ st[c] = "handshaked"
  /\ capture \/ TicksSince(handshakedTicks[c]) < CaptureTimeout

\* next_rtt_ticks != 0 && now >= next_rtt_ticks
RttDue(c) == nextRttTicks[c] # 0 /\ Ticks >= nextRttTicks[c]

\* A probe is due and the peer lags sequence_number_threshold behind:
\* server_->Close(id).
SliceRttClose(c) ==
  /\ PastCaptureChecks(c)
  /\ RttDue(c)
  /\ Uint16Minus(nextRttSeq[c], lastSeq[c]) >= DriftThreshold
  /\ CloseConn(c, "rtt")
  /\ DidSliceQuited(Live \ {c})
  /\ UNCHANGED <<now, connVars>>

\* Mutant: the sequence number is not kept to 16 bits.
SliceRttProbeNoWrap(c) ==
  /\ PastCaptureChecks(c)
  /\ RttDue(c)
  /\ Uint16Minus(nextRttSeq[c], lastSeq[c]) < DriftThreshold
  /\ probes' = [probes EXCEPT ![c] = Append(@, [seq |-> nextRttSeq[c], at |-> now])]
  /\ nextRttSeq' = [nextRttSeq EXCEPT ![c] = @ + 1]
  /\ nextRttTicks' = [nextRttTicks EXCEPT ![c] = (@ + RttPeriod) % TickMod]
  /\ DidSliceQuited(Live)
  /\ UNCHANGED <<now, st, good, createTicks, handshakedTicks, lastSeq,
                 closedBy, everCaptured, capture>>

\* A probe is due: RTTMeasureRequest(next_rtt_sequence_number++) and
\* next_rtt_ticks += rtt_threshold.
SliceRttProbe(c) ==
  /\ PastCaptureChecks(c)
  /\ RttDue(c)
  /\ Uint16Minus(nextRttSeq[c], lastSeq[c]) < DriftThreshold
  /\ probes' = [probes EXCEPT ![c] = Append(@, [seq |-> nextRttSeq[c], at |-> now])]
  /\ nextRttSeq' = [nextRttSeq EXCEPT ![c] = (@ + 1) % SeqMod]
  /\ nextRttTicks' = [nextRttTicks EXCEPT ![c] = (@ + RttPeriod) % TickMod]
  /\ DidSliceQuited(Live)
  /\ UNCHANGED <<now, st, good, createTicks, handshakedTicks, lastSeq,
                 closedBy, everCaptured, capture>>

\* No probe due: the tick ends after the drain and the hysteresis.
SliceQuiet(c) ==
  /\ PastCaptureChecks(c)
  /\ ~RttDue(c)
  /\ DidSliceQuited(Live)
  /\ UNCHANGED <<now, st, connVars, closedBy, capture>>

\* The posted task runs (at most once per period).
Slice ==
  /\ sliceRunning
  /\ ~ranThisTick
  /\ \/ SliceNoConnection
     \/ /\ Live # {}
        /\ LET c == First IN
             \/ SliceAwaitHandshake(c)
             \/ SliceHandshakeTimeout(c)
             \/ SliceStartCapture(c)
             \/ SliceCaptureTimeout(c)
             \/ SliceRttClose(c)
             \/ SliceRttProbe(c)
             \/ SliceQuiet(c)

-----------------------------------------------------------------------------
Next ==
  \/ Slice
  \/ \E c \in Conns :
       \/ OnConnect(c)
       \/ Handshake(c)
       \/ PeerAnswer(c)
       \/ PeerDrop(c)
  \/ Tick

\* The posted slice runs once it is due; time advances.  Peers need no
\* fairness: the properties are about what the server does to them.
Spec == Init /\ [][Next]_vars /\ WF_vars(Slice) /\ WF_vars(Tick)

\* Behaviours are explored for Horizon periods, fewer than one wrap of the
\* tick counter past TickStart.
TimeBound == now <= Horizon

-----------------------------------------------------------------------------
(* Properties                                                              *)

\* While any connection is in the table the tick is scheduled: OnConnect
\* starts it only when slice_running_ is false, and did_slice_quited
\* clears slice_running_ only when connection_count() is zero (spec 4.4:
\* the next accepted connection restarts the scheduler).
SliceRunsWhileConnected == Live # {} => sliceRunning

\* A peer that answers every RTT probe within MaxLatency < rtt_threshold
\* periods is never closed by the drift check of rdpd_slice, whatever the
\* order of its answers, the other connection and the slice's lateness
\* (spec 4.3: only a dead peer is presumed dead).
GoodPeerKeptByRtt == \A c \in Conns : good[c] => closedBy[c] # "rtt"

\* No connection stays un-handshaked for longer than create_threshold plus
\* the slice's lateness: the 30 s handshake timeout of rdpd_slice applies
\* to every connection in the table (spec 4.3 and 8.3).
HandshakeDeadline ==
  \A c \in Live :
    st[c] = "connecting" => TicksSince(createTicks[c]) <= HandshakeTimeout + MaxStall

\* A connection is closed by the 60 s capture timeout of rdpd_slice only if
\* the capture never started for it (spec 4.3: the timeout is for a peer
\* that never becomes ready; spec 4.4: faults are local to a connection).
CaptureTimeoutOnlyBeforeCapture ==
  \A c \in Conns : closedBy[c] = "capture" => ~everCaptured[c]

====
