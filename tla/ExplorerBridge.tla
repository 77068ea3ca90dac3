---------------------------- MODULE ExplorerBridge ----------------------------
(***************************************************************************)
(* The bridge between the session (rdpd) thread and the UI thread around  *)
(* the remote-explorer dialog:                                             *)
(*  - the UI thread constructs a texplorer_slot, which publishes itself   *)
(*    in game_config::explorer_singleton, shows the dialog, dispatches    *)
(*    the messages posted to it, and in rexplorer_post_show clears its    *)
(*    pending messages and unpublishes itself under construct_mutex;      *)
(*  - the session thread posts heap payloads to it from the Leagor        *)
(*    channel callbacks and from send_startup_msg (OnRdpRequest, OnClose);*)
(*  - in the other direction the UI thread appends explorer updates to    *)
(*    rdpd_thread_explorer_update_ and rdpd_slice relays them to the peer.*)
(* One client is modelled: the server rejects a second one at its        *)
(* connection request (ConnLifecycle models that part).                   *)
(***************************************************************************)
EXTENDS Naturals, Sequences, FiniteSets

CONSTANTS
  MaxShows,     \* explorer dialogs the UI loop opens, one after the other
  MaxConnects,  \* client sessions, one after the other
  MaxPayloads,  \* heap payloads the session thread allocates
  MaxUpdates,   \* explorer updates the UI thread pushes
  MaxSwitches   \* times the application goes to the background or comes back

ASSUME MaxShows \in Nat /\ MaxConnects \in Nat
ASSUME MaxPayloads \in Nat /\ MaxUpdates \in Nat /\ MaxSwitches \in Nat

NoExplorer == 0                       \* explorer_singleton == nullptr
MsgKinds == {"finished", "closed", "caps", "start_drag", "end_drag"}
Codes == {"SHOWN", "HIDDEN", "START_DRAG"}  \* LG_EXPLORER_CODE_*
Visibility == {"SHOWN", "HIDDEN"}

VARIABLES
  ui,          \* UI thread: where it is in the life of the current dialog
  shows,       \* dialogs constructed so far; the current one is number shows
  singleton,   \* game_config::explorer_singleton
  support,     \* current dialog's drag_copy_.support
  draging,     \* current dialog's drag_copy_.draging
  mailbox,     \* sdl_thread message queue: <<[kind, to, p, flag]>>
  allocs,      \* payloads allocated with new
  freed,       \* payloads released after dispatch or by clear_msg
  client,      \* "none", "connected" (OnConnect) or "activated"
  connects,    \* OnConnect calls so far
  capsSeen,    \* the current client has sent its capabilities
  canDrop,     \* the current client's leagor->canDropCopy
  sess,        \* send_startup_msg between its unlocked check and its lock
  crashed,     \* send_startup_msg dereferenced a null slot
  assertFailed, \* a VALIDATE in rexplorer_OnMessage failed
  pending,     \* rdpd_thread_explorer_update_: <<[code, id]>>
  pushed,      \* explorer updates pushed so far (their ids are 1..pushed)
  sliceLock,   \* rdpd_slice holds rdpd_thread_explorer_update_mutex_
  drainIdx,    \* rdpd_slice's iterator into pending while it holds the lock
  relayed,     \* ids of the updates sent to the peer, in order
  peerView,    \* the explorer visibility the current peer was last told
  fg,          \* instance->foreground(): the application is in front
  switches     \* background/foreground transitions so far

vars == <<ui, shows, singleton, support, draging, mailbox, allocs, freed,
          client, connects, capsSeen, canDrop, sess,
          crashed, assertFailed, pending, pushed, sliceLock, drainIdx,
          relayed, peerView, fg, switches>>

(* The counters run past their bounds only in states the Bounds         *)
(* constraint cuts off.                                                   *)
TypeOK ==
  /\ ui \in {"idle", "constructed", "showing", "cleared"}
  /\ shows \in Nat /\ connects \in Nat /\ allocs \in Nat /\ pushed \in Nat
  /\ singleton \in 0..shows
  /\ support \in BOOLEAN /\ draging \in BOOLEAN
  /\ mailbox \in Seq([kind : MsgKinds, to : 1..shows, p : 1..allocs,
                      flag : BOOLEAN])
  /\ freed \subseteq 1..allocs
  /\ client \in {"none", "connected", "activated"}
  /\ capsSeen \in BOOLEAN /\ canDrop \in BOOLEAN
  /\ sess \in {"idle", "finished", "closed"}
  /\ crashed \in BOOLEAN /\ assertFailed \in BOOLEAN
  /\ pending \in Seq([code : Codes, id : 1..pushed])
  /\ sliceLock \in BOOLEAN
  /\ drainIdx \in 0..Len(pending)
  /\ relayed \in Seq(1..pushed)
  /\ peerView \in {"none"} \cup Visibility
  /\ fg \in BOOLEAN /\ switches \in Nat

-----------------------------------------------------------------------------
(* RdpServerRose::push_explorer_update: dropped while the server has no   *)
(* connection, else appended under rdpd_thread_explorer_update_mutex_;    *)
(* the UI thread waits for that mutex while rdpd_slice holds it.          *)
PushExplorerUpdate(code) ==
  IF client = "none"
  THEN UNCHANGED <<pending, pushed>>
  ELSE /\ ~sliceLock
       /\ pending' = Append(pending, [code |-> code, id |-> pushed + 1])
       /\ pushed' = pushed + 1

(* The messages of the sdl_thread queue addressed to dialog e.           *)
MsgsTo(e) == {i \in 1..Len(mailbox) : mailbox[i].to = e}

(* mailbox without the messages carrying the payloads in ps.            *)
Without(ps) == SelectSeq(mailbox, LAMBDA m : m.p \notin ps)

(* A session-thread callback hands a fresh payload to the dialog under    *)
(* construct_mutex: Post(slot->rexplorer_, ...) when explorer_singleton   *)
(* is set; otherwise the payload, allocated before the lock, is dropped   *)
(* without being freed.                                                   *)
Post(kind, flag) ==
  /\ allocs' = allocs + 1
  /\ mailbox' = Append(mailbox, [kind |-> kind, to |-> singleton,
                                 p |-> allocs + 1, flag |-> flag])

PostOrDrop(kind, flag) ==
  \/ singleton = NoExplorer /\ allocs' = allocs + 1 /\ UNCHANGED mailbox
  \/ singleton # NoExplorer /\ Post(kind, flag)

-----------------------------------------------------------------------------
(* UI thread.                                                              *)

Init ==
  /\ ui = "idle" /\ shows = 0 /\ singleton = NoExplorer
  /\ support = FALSE /\ draging = FALSE
  /\ mailbox = <<>> /\ allocs = 0
  /\ freed = {}
  /\ client = "none" /\ connects = 0 /\ capsSeen = FALSE /\ canDrop = FALSE
  /\ sess = "idle" /\ crashed = FALSE /\ assertFailed = FALSE
  /\ pending = <<>> /\ pushed = 0 /\ sliceLock = FALSE /\ drainIdx = 0
  /\ relayed = <<>> /\ peerView = "none"
  /\ fg = TRUE /\ switches = 0

(* texplorer_slot's constructor: publishes itself without taking         *)
(* construct_mutex, then pushes SHOWN.  do_gameloop builds it right after *)
(* the home dialog returns EXPLORER, which takes a tap (click_explorer),  *)
(* so the application is in front.                                        *)
Construct ==
  /\ ui = "idle" /\ fg
  /\ shows' = shows + 1
  /\ singleton' = shows + 1
  /\ support' = FALSE /\ draging' = FALSE
  /\ PushExplorerUpdate("SHOWN")
  /\ ui' = "constructed"
  /\ UNCHANGED <<mailbox, allocs, freed, client, connects,
                 capsSeen, canDrop, sess, crashed, assertFailed, sliceLock,
                 drainIdx, relayed, peerView, fg, switches>>

(* trexplorer dlg(slot, ...); dlg.show() -> rexplorer_pre_show: reads     *)
(* support_drag_copy() of the first connection-finished connection.      *)
Show ==
  /\ ui = "constructed"
  /\ support' = (client = "activated" /\ canDrop)
  /\ ui' = "showing"
  /\ UNCHANGED <<shows, singleton, draging, mailbox, allocs, freed,
                 client, connects, capsSeen, canDrop, sess, crashed,
                 assertFailed, pending, pushed, sliceLock, drainIdx, relayed,
                 peerView, fg, switches>>

(* The sdl_thread runs the oldest message for the shown dialog; the      *)
(* message framework releases its payload after rexplorer_OnMessage.     *)
NextMsg ==
  mailbox[CHOOSE i \in MsgsTo(shows) : \A j \in MsgsTo(shows) : i <= j]

Dispatched(m) ==
  /\ mailbox' = Without({m.p})
  /\ freed' = freed \cup {m.p}

DispatchUnchanged ==
  UNCHANGED <<ui, shows, singleton, allocs, client,
              connects, capsSeen, canDrop, sess, crashed, fg, switches>>

(* MSG_STARTUP_MSG, connectionfinished: did_rdpd_client_connectionfinished *)
(* starts with VALIDATE(!drag_copy_.draging).                             *)
DispatchConnectionFinished ==
  /\ ui = "showing" /\ MsgsTo(shows) # {}
  /\ NextMsg.kind = "finished"
  /\ Dispatched(NextMsg)
  /\ assertFailed' = (assertFailed \/ draging)
  /\ DispatchUnchanged
  /\ UNCHANGED <<support, draging, pending, pushed, sliceLock, drainIdx,
                 relayed, peerView>>

(* MSG_STARTUP_MSG, connectionclosed: did_rdpd_client_closed resets the  *)
(* drag state and clears drag_copy_.support.                             *)
DispatchConnectionClosed ==
  /\ ui = "showing" /\ MsgsTo(shows) # {}
  /\ NextMsg.kind = "closed"
  /\ Dispatched(NextMsg)
  /\ draging' = FALSE /\ support' = FALSE
  /\ DispatchUnchanged
  /\ UNCHANGED <<assertFailed, pending, pushed, sliceLock, drainIdx, relayed,
                 peerView>>

(* Mutant: MSG_CAPABILITIES without send_LG_EXPLORER_CODE_SHOWN.        *)
DispatchCapabilitiesNoShown ==
  /\ ui = "showing" /\ MsgsTo(shows) # {}
  /\ NextMsg.kind = "caps"
  /\ Dispatched(NextMsg)
  /\ support' = NextMsg.flag
  /\ DispatchUnchanged
  /\ UNCHANGED <<draging, assertFailed, pending, pushed, sliceLock, drainIdx,
                 relayed, peerView>>

(* MSG_CAPABILITIES: support follows LG_CAP_DROP_COPY; with it, and the  *)
(* application in the foreground, send_LG_EXPLORER_CODE_SHOWN pushes     *)
(* SHOWN.                                                                 *)
DispatchCapabilities ==
  /\ ui = "showing" /\ MsgsTo(shows) # {}
  /\ NextMsg.kind = "caps"
  /\ Dispatched(NextMsg)
  /\ support' = NextMsg.flag
  /\ IF NextMsg.flag /\ fg THEN PushExplorerUpdate("SHOWN")
                           ELSE UNCHANGED <<pending, pushed>>
  /\ DispatchUnchanged
  /\ UNCHANGED <<draging, assertFailed, sliceLock, drainIdx, relayed,
                 peerView>>

(* MSG_EXPLORER: START_DRAG sets drag_copy_.draging, END_DRAG resets it. *)
DispatchExplorer ==
  /\ ui = "showing" /\ MsgsTo(shows) # {}
  /\ NextMsg.kind \in {"start_drag", "end_drag"}
  /\ Dispatched(NextMsg)
  /\ draging' = (NextMsg.kind = "start_drag")
  /\ DispatchUnchanged
  /\ UNCHANGED <<support, assertFailed, pending, pushed, sliceLock, drainIdx,
                 relayed, peerView>>

(* rexplorer_handler_longpress_item with a connection-finished client:   *)
(* the server starts a drag (drag_copy_.draging, src_is_server) and       *)
(* pushes START_DRAG.  A long press is a touch, so the application is in  *)
(* front.                                                                 *)
LongPress ==
  /\ ui = "showing" /\ fg /\ client = "activated"
  /\ draging' = TRUE
  /\ PushExplorerUpdate("START_DRAG")
  /\ DispatchUnchanged
  /\ UNCHANGED <<support, mailbox, freed, assertFailed, sliceLock, drainIdx,
                 relayed, peerView>>

(* game_instance::app_didenterbackground / app_didenterforeground (main.cpp), *)
(* run by the UI thread's event pump while it is in a dialog loop: with an *)
(* explorer published, send_LG_EXPLORER_CODE_HIDDEN / _SHOWN push the code. *)
AppVisibility(front, code) ==
  /\ ui \in {"idle", "showing"} /\ fg = ~front
  /\ fg' = front /\ switches' = switches + 1
  /\ IF singleton # NoExplorer THEN PushExplorerUpdate(code)
                              ELSE UNCHANGED <<pending, pushed>>
  /\ UNCHANGED <<ui, shows, singleton, support, draging, mailbox, allocs,
                 freed, client, connects, capsSeen, canDrop, sess, crashed,
                 assertFailed, sliceLock, drainIdx, relayed, peerView>>

AppDidEnterBackground == AppVisibility(FALSE, "HIDDEN")
AppDidEnterForeground == AppVisibility(TRUE, "SHOWN")

(* rexplorer_post_show: push HIDDEN, clear_msg() frees the messages still *)
(* queued for this dialog, and only then the lock and the unpublish.     *)
PostShowClear ==
  /\ ui = "showing"
  /\ PushExplorerUpdate("HIDDEN")
  /\ LET ps == {mailbox[i].p : i \in MsgsTo(shows)} IN
       /\ mailbox' = Without(ps)
       /\ freed' = freed \cup ps
  /\ ui' = "cleared"
  /\ UNCHANGED <<shows, singleton, support, draging, allocs,
                 client, connects, capsSeen, canDrop, sess, crashed,
                 assertFailed, sliceLock, drainIdx, relayed, peerView, fg, switches>>

(* The rest of rexplorer_post_show: explorer_singleton = nullptr under    *)
(* construct_mutex; the dialog and the slot then go out of scope and the *)
(* UI loop may open a new one.                                            *)
PostShowUnpublish ==
  /\ ui = "cleared"
  /\ singleton' = NoExplorer
  /\ ui' = "idle"
  /\ support' = FALSE /\ draging' = FALSE
  /\ UNCHANGED <<shows, mailbox, allocs, freed, client,
                 connects, capsSeen, canDrop, sess, crashed, assertFailed,
                 pending,
                 pushed, sliceLock, drainIdx, relayed, peerView, fg, switches>>

-----------------------------------------------------------------------------
(* Session thread.  Its handlers run one at a time; send_startup_msg and  *)
(* the update drain are split where another thread can step in.          *)

SessionFree == sess = "idle" /\ ~sliceLock

(* First half of send_startup_msg: explorer_singleton read without the   *)
(* lock; nullptr returns.                                                *)
StartupCheck(status) ==
  sess' = IF singleton = NoExplorer THEN "idle" ELSE status

SessionUnchanged ==
  UNCHANGED <<ui, shows, singleton, support, draging, freed, assertFailed,
              pending, pushed, sliceLock, drainIdx, relayed, fg, switches>>

(* OnConnect.                                                              *)
OnConnect ==
  /\ SessionFree /\ client = "none"
  /\ client' = "connected"
  /\ connects' = connects + 1
  /\ capsSeen' = FALSE /\ canDrop' = FALSE
  /\ peerView' = "none"
  /\ SessionUnchanged
  /\ UNCHANGED <<mailbox, allocs, sess, crashed>>

(* OnRdpRequest on the read that activates the client: then              *)
(* send_startup_msg(now, rdpdstatus_connectionfinished).                 *)
OnRdpRequestActivated ==
  /\ SessionFree /\ client = "connected"
  /\ client' = "activated"
  /\ StartupCheck("finished")
  /\ SessionUnchanged
  /\ UNCHANGED <<mailbox, allocs, connects, capsSeen,
                 canDrop, crashed, peerView>>

(* OnClose: the client is torn down, then                                *)
(* send_startup_msg(SDL_GetTicks(), rdpdstatus_connectionclosed).        *)
OnClose ==
  /\ SessionFree /\ client # "none"
  /\ client' = "none"
  /\ capsSeen' = FALSE /\ canDrop' = FALSE
  /\ StartupCheck("closed")
  /\ SessionUnchanged
  /\ UNCHANGED <<mailbox, allocs, connects, crashed,
                 peerView>>

(* Second half of send_startup_msg: lock construct_mutex, read            *)
(* explorer_singleton again and post through it without testing it.     *)
StartupPost ==
  /\ sess # "idle" /\ ~sliceLock
  /\ \/ /\ singleton = NoExplorer
        /\ crashed' = TRUE
        /\ UNCHANGED <<mailbox, allocs, sess>>
     \/ /\ singleton # NoExplorer
        /\ Post(sess, FALSE)
        /\ sess' = "idle"
        /\ UNCHANGED crashed
  /\ SessionUnchanged
  /\ UNCHANGED <<client, connects, capsSeen, canDrop, peerView>>

(* wf_leagor_server_receive_capabilities with LG_CAP_DROP_COPY set or    *)
(* not; the client's capability set is kept on its context.              *)
ReceiveCapabilities(flag) ==
  /\ SessionFree /\ client = "activated" /\ ~capsSeen
  /\ capsSeen' = TRUE /\ canDrop' = flag
  /\ PostOrDrop("caps", flag)
  /\ SessionUnchanged
  /\ UNCHANGED <<client, connects, sess, crashed, peerView>>

(* wf_leagor_server_receive_explorer_update: START_DRAG or END_DRAG.     *)
ReceiveExplorerUpdate(kind) ==
  /\ SessionFree /\ client = "activated"
  /\ PostOrDrop(kind, FALSE)
  /\ SessionUnchanged
  /\ UNCHANGED <<client, connects, capsSeen, canDrop, sess, crashed,
                 peerView>>

(* rdpd_slice, for the connection it serves: a non-empty                 *)
(* rdpd_thread_explorer_update_ (read without the lock) takes the lock.  *)
SliceDrainLock ==
  /\ SessionFree /\ client = "activated" /\ pending # <<>>
  /\ sliceLock' = TRUE
  /\ UNCHANGED <<ui, shows, singleton, support, draging, mailbox, allocs,
                 freed, client, connects, capsSeen, canDrop,
                 sess, crashed, assertFailed, pending, pushed, drainIdx,
                 relayed, peerView, fg, switches>>

(* What the peer makes of an update: SHOWN and HIDDEN set the explorer's *)
(* visibility; a drag code leaves it.                                     *)
Told(code) == IF code \in Visibility THEN code ELSE peerView

(* One iteration: leagorchannel_send_explorer_update to the peer.        *)
SliceDrainSend ==
  /\ sliceLock /\ drainIdx < Len(pending)
  /\ relayed' = Append(relayed, pending[drainIdx + 1].id)
  /\ peerView' = Told(pending[drainIdx + 1].code)
  /\ drainIdx' = drainIdx + 1
  /\ UNCHANGED <<ui, shows, singleton, support, draging, mailbox, allocs,
                 freed, client, connects, capsSeen, canDrop,
                 sess, crashed, assertFailed, pending, pushed, sliceLock, fg, switches>>

(* Mutant: the drain forgets to reset its iterator.                      *)
SliceDrainClearNoReset ==
  /\ sliceLock /\ drainIdx = Len(pending)
  /\ pending' = <<>> /\ sliceLock' = FALSE
  /\ UNCHANGED <<ui, shows, singleton, support, draging, mailbox, allocs,
                 freed, client, connects, capsSeen, canDrop,
                 sess, crashed, assertFailed, pushed, drainIdx, relayed,
                 peerView, fg, switches>>

(* After the loop: clear() and the lock is released.                      *)
SliceDrainClear ==
  /\ sliceLock /\ drainIdx = Len(pending)
  /\ pending' = <<>> /\ drainIdx' = 0 /\ sliceLock' = FALSE
  /\ UNCHANGED <<ui, shows, singleton, support, draging, mailbox, allocs,
                 freed, client, connects, capsSeen, canDrop,
                 sess, crashed, assertFailed, pushed, relayed, peerView, fg, switches>>

-----------------------------------------------------------------------------
UIStep ==
  \/ Construct \/ Show
  \/ DispatchConnectionFinished \/ DispatchConnectionClosed
  \/ DispatchCapabilities \/ DispatchExplorer
  \/ PostShowClear \/ PostShowUnpublish \/ LongPress
  \/ AppDidEnterBackground \/ AppDidEnterForeground

SessionStep ==
  \/ OnConnect \/ OnRdpRequestActivated \/ OnClose \/ StartupPost
  \/ \E f \in BOOLEAN : ReceiveCapabilities(f)
  \/ \E k \in {"start_drag", "end_drag"} : ReceiveExplorerUpdate(k)
  \/ SliceDrainLock \/ SliceDrainSend \/ SliceDrainClear

(* A null dereference ends the process: nothing happens after it.        *)
Next ==
  \/ ~crashed /\ (UIStep \/ SessionStep)
  \/ crashed /\ UNCHANGED vars

Spec == Init /\ [][Next]_vars

(* Bounds of the model: dialogs, client sessions, payloads and updates.  *)
Bounds ==
  /\ shows <= MaxShows /\ connects <= MaxConnects
  /\ allocs <= MaxPayloads /\ pushed <= MaxUpdates
  /\ switches <= MaxSwitches
-----------------------------------------------------------------------------
(* Properties.                                                             *)

(* A drag-copy capable peer is told SHOWN while the explorer is shown in *)
(* the foreground:                                                         *)
(* once nothing for the shown dialog is queued either way, the last      *)
(* update the current peer received is SHOWN.  It depends on the SHOWN   *)
(* pushed by the constructor, by MSG_CAPABILITIES and the HIDDEN of      *)
(* rexplorer_post_show reaching the peer in order, across dialogs and    *)
(* across clients (the vector is not cleared when a client leaves).      *)
Quiescent ==
  /\ MsgsTo(shows) = {} /\ pending = <<>> /\ sess = "idle"

ExplorerShownToPeer ==
  (ui = "showing" /\ fg /\ client = "activated" /\ canDrop /\ Quiescent)
    => peerView = "SHOWN"

(* While the application is in the background the current peer is not   *)
(* left believing the explorer is shown: app_didenterbackground pushes    *)
(* HIDDEN and MSG_CAPABILITIES pushes SHOWN only in the foreground.       *)
ExplorerHiddenInBackground ==
  (ui = "showing" /\ ~fg /\ client = "activated" /\ Quiescent)
    => peerView # "SHOWN"

(* did_rdpd_client_connectionfinished's VALIDATE(!drag_copy_.draging)    *)
(* never fails: a drag started by one client is over, by END_DRAG or by  *)
(* the connectionclosed message, before the next client's                *)
(* connectionfinished reaches the same dialog.                           *)
NoDragAtConnectionFinished == ~assertFailed

(* send_startup_msg never dereferences a null explorer_singleton (spec.md *)
(* 5: producers re-check the UI surface under its lock, a vanished       *)
(* surface is a no-op).                                                   *)
NoNullSlotDeref == ~crashed

====
