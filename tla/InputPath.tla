----------------------------- MODULE InputPath -----------------------------
(***************************************************************************)
(* The input injection path of kosapi: kosCreateInput / kosSendInput /     *)
(* kosDestroyInput (screenrecord.cpp) over the uinput device of            *)
(* NativeConnection (sendinput.cpp).  A caller hands kosSendInput a batch  *)
(* of Windows-style INPUT records; send_input translates each record into  *)
(* uinput events and closes the batch with one SYN_REPORT if any record   *)
(* asked for it.  The kernel keeps the device's key and axis state and    *)
(* drops key events for unregistered codes or unchanged values; Android's *)
(* InputReader sees the device state as of the last SYN_REPORT.           *)
(*                                                                         *)
(* Data is abstracted to a few codes: the scan codes a caller sends are    *)
(* the ones the MC module enumerates (the tables are KeyTables' copies of  *)
(* the source's); dx and dy are one                                        *)
(* coordinate taken from Pos (the same value for X and Y), -1 the "no     *)
(* coordinate" value of send_input.                                       *)
(***************************************************************************)
EXTENDS Integers, Sequences, SequencesExt, FiniteSets, Functions, TLC

CONSTANTS
    ScanCodes,   \* KosKeybdInput.scan_code values a caller sends
    UsbCodes,    \* SDL_Scancode values, "UNKNOWN" among them
    WinTable,    \* windows_scancode_table, scan codes 0..127
    OobReads,    \* SDL codes a read past windows_scancode_table may return
    AndroidOf,   \* index of an SDL code in Android_Keycodes (-1: none)
    KEYS,        \* keysMap as initKeysMap fills it: Android key code -> Linux key code
    KeyCodes,    \* the linuxKeyCode of every sendinput.h KEYS entry
    FlagSets,    \* MOUSEEVENTF_* flag combinations a caller sends
    Pos,         \* dx / dy values on the screen
    Data,        \* mouse_data values
    MaxBatch     \* input_count bound

ASSUME /\ MaxBatch \in Nat \ {0}
       /\ -1 \notin Pos /\ 0 \in Pos
       /\ \A sc \in ScanCodes : sc <= 127 => WinTable[sc] \in UsbCodes
       /\ "UNKNOWN" \in OobReads /\ OobReads \subseteq UsbCodes
       /\ Range(KEYS) \subseteq KeyCodes

NoCoord == -1
KEY_UNKNOWN == "KEY_UNKNOWN"

\* The if / else-if chain of send_input over the mouse flags, in code order.
Chain == <<"LEFTDOWN", "LEFTUP", "RIGHTDOWN", "RIGHTUP", "WHEEL", "HWHEEL">>

Buttons == {"BTN_TOUCH", "BTN_RIGHT"}
LinuxKeys == KeyCodes

\* Mouse records; dx / dy and mouse_data are read only with ABSOLUTE and
\* with a wheel flag, and are 0 otherwise.
MouseRecords ==
    {r \in [type : {"mouse"}, flags : FlagSets, pos : Pos, data : Data] :
        /\ "ABSOLUTE" \notin r.flags => r.pos = 0
        /\ r.flags \cap {"WHEEL", "HWHEEL"} = {} => r.data = 0}
KeyRecords == [type : {"keyboard"}, scan : ScanCodes, up : BOOLEAN]
Records == MouseRecords \cup KeyRecords
Batches == UNION {[1..n -> Records] : n \in 1..MaxBatch}

\* What a device reports: the pressed codes and the absolute position.
IsDevState(s) == s.down \subseteq Buttons \cup LinuxKeys /\ s.pos \in Pos
Fresh == [down |-> {}, pos |-> 0]

VARIABLES
    conn,    \* gConnectionPtr: "null" or "open"
    kbd,     \* the keyboard argument the open device was created with
    dev,     \* kernel side of the uinput device: state, unsynced, last SYN
    want,    \* the state the requests sent since creation ask for
    wf       \* every record since creation had a single action

vars == <<conn, kbd, dev, want, wf>>

TypeOK ==
    /\ conn \in {"null", "open"}
    /\ kbd \in BOOLEAN
    /\ DOMAIN dev = {"down", "pos", "dirty", "seen"}
    /\ IsDevState(dev) /\ dev.dirty \in BOOLEAN /\ IsDevState(dev.seen)
    /\ IsDevState(want)
    /\ wf \in BOOLEAN

Init ==
    /\ conn = "null"
    /\ kbd = FALSE
    /\ dev = [down |-> {}, pos |-> 0, dirty |-> FALSE, seen |-> Fresh]
    /\ want = Fresh
    /\ wf = TRUE

-----------------------------------------------------------------------------
(* The kernel device: what a write of one input_event does *)

KeyEv(c, v) == [t |-> "KEY", c |-> c, v |-> v]
AbsEv(x) == [t |-> "ABS", v |-> x]
RelEv == [t |-> "REL"]
SynEv == [t |-> "SYN"]

\* Codes open() registered with UI_SET_KEYBIT: the KEYS only for a keyboard.
Registered(keyboard) == Buttons \cup (IF keyboard THEN LinuxKeys ELSE {})

\* input_event handling in the kernel: a key event changes the state only
\* for a registered code whose value differs; SYN_REPORT publishes.
KernelEvent(keyboard, s, e) ==
    CASE e.t = "KEY" ->
           IF e.c \in Registered(keyboard) /\ (e.v = 1) # (e.c \in s.down)
           THEN [s EXCEPT !.down = IF e.v = 1 THEN @ \cup {e.c} ELSE @ \ {e.c},
                          !.dirty = TRUE]
           ELSE s
      [] e.t = "ABS" ->
           IF e.v # s.pos THEN [s EXCEPT !.pos = e.v, !.dirty = TRUE] ELSE s
      [] e.t = "REL" -> [s EXCEPT !.dirty = TRUE]
      [] e.t = "SYN" ->
           [s EXCEPT !.dirty = FALSE, !.seen = [down |-> s.down, pos |-> s.pos]]

Write(s, evs) == FoldLeft(LAMBDA acc, e : KernelEvent(kbd, acc, e), s, evs)

\* A key-up event for each code in `codes`, as KernelEvent applies them: every
\* registered code that is down goes up and the device has unsynced changes.
\* The codes are distinct, so the order of the events does not matter.
ReleaseKeys(s, codes) ==
    LET gone == s.down \cap codes \cap Registered(kbd)
    IN [s EXCEPT !.down = @ \ gone, !.dirty = @ \/ gone # {}]

-----------------------------------------------------------------------------
(* NativeConnection: the events each method writes *)

\* getLinuxKeyCode over keysMap (initKeysMap fills it from KEYS).
getLinuxKeyCode(a) == IF a \in DOMAIN KEYS THEN KEYS[a] ELSE KEY_UNKNOWN

\* win_scan_code_2_android_scan_code.  The guard `win_code >= 0 ||
\* win_code <= 127` always holds, so a scan code above 127 reads past the
\* 128-entry windows_scancode_table: `oob` is whatever SDL code the read
\* returns.
win_scan_code_2_android_scan_code(sc, oob) ==
    LET usb == IF sc <= 127 THEN WinTable[sc] ELSE oob
    IN IF usb = "UNKNOWN" THEN -1 ELSE AndroidOf[usb]

PointerBtn == (0 :> "BTN_TOUCH") @@ (1 :> "BTN_RIGHT")

\* nativeSendPointerDown / nativeSendPointerUp: the button of the pointer id,
\* then ABS_X and ABS_Y unless -1.
CoordUnchecked(x) == <<AbsEv(x)>>

Coord(x) == IF x # NoCoord THEN <<AbsEv(x)>> ELSE <<>>
nativeSendPointerDown(id, x) == <<KeyEv(PointerBtn[id], 1)>> \o Coord(x)
nativeSendPointerUp(id, x) == <<KeyEv(PointerBtn[id], 0)>> \o Coord(x)
nativeSendPointerMove(x) == <<AbsEv(x)>>
nativeSendWheel == <<RelEv>>

nativeSendKeyInverted(a, down) ==
    IF getLinuxKeyCode(a) # KEY_UNKNOWN
    THEN <<KeyEv(getLinuxKeyCode(a), IF down THEN 0 ELSE 1)>>
    ELSE <<>>

\* nativeSendKey: nothing for a code keysMap does not know.
nativeSendKey(a, down) ==
    IF getLinuxKeyCode(a) # KEY_UNKNOWN
    THEN <<KeyEv(getLinuxKeyCode(a), IF down THEN 1 ELSE 0)>>
    ELSE <<>>

\* nativeClear on a device in state s: BTN_RIGHT up, the loop writing every
\* KEYS code up, SYN_REPORT.
nativeClear(s) ==
    Write(ReleaseKeys(Write(s, nativeSendPointerUp(1, NoCoord)), LinuxKeys), <<SynEv>>)

\* The first flag of the else-if chain a record carries ("none" if none).
FirstFlag(flags) ==
    LET i == SelectInSeq(Chain, LAMBDA f : f \in flags)
    IN IF i = 0 THEN "none" ELSE Chain[i]

\* One mouse record of send_input: its events and whether it sets
\* requireSend.  Only the first flag of the chain is acted on; the right
\* button and the wheels drop the coordinates.
MouseInput(r) ==
    LET x == IF "ABSOLUTE" \in r.flags THEN r.pos ELSE NoCoord
        f == FirstFlag(r.flags)
    IN CASE f = "LEFTDOWN"  -> [evs |-> nativeSendPointerDown(0, x), req |-> TRUE]
         [] f = "LEFTUP"    -> [evs |-> nativeSendPointerUp(0, x), req |-> TRUE]
         [] f = "RIGHTDOWN" -> [evs |-> nativeSendPointerDown(1, NoCoord), req |-> TRUE]
         [] f = "RIGHTUP"   -> [evs |-> nativeSendPointerUp(1, NoCoord), req |-> TRUE]
         [] f \in {"WHEEL", "HWHEEL"} ->
              IF r.data # 0 THEN [evs |-> nativeSendWheel, req |-> TRUE]
                            ELSE [evs |-> <<>>, req |-> FALSE]
         [] OTHER -> IF x # NoCoord
                     THEN [evs |-> nativeSendPointerMove(x), req |-> TRUE]
                     ELSE [evs |-> <<>>, req |-> FALSE]

\* One keyboard record: requireSend as soon as the Android code is known.
KeyInput(r, oob) ==
    LET a == win_scan_code_2_android_scan_code(r.scan, oob)
    IN IF a # -1 THEN [evs |-> nativeSendKey(a, ~r.up), req |-> TRUE]
                 ELSE [evs |-> <<>>, req |-> FALSE]

send_inputLastOnly(b, oob) ==
    LET one(i) == IF b[i].type = "mouse" THEN MouseInput(b[i])
                  ELSE KeyInput(b[i], oob[i])
        evs == FoldLeft(LAMBDA acc, i : acc \o one(i).evs, <<>>, [i \in 1..Len(b) |-> i])
    IN evs \o (IF one(Len(b)).req THEN <<SynEv>> ELSE <<>>)

\* send_input: every record in order, then SYN_REPORT if requireSend.
send_input(b, oob) ==
    LET one(i) == IF b[i].type = "mouse" THEN MouseInput(b[i])
                  ELSE KeyInput(b[i], oob[i])
        all == FoldLeft(LAMBDA acc, i : [evs |-> acc.evs \o one(i).evs,
                                         req |-> acc.req \/ one(i).req],
                        [evs |-> <<>>, req |-> FALSE], [i \in 1..Len(b) |-> i])
    IN all.evs \o (IF all.req THEN <<SynEv>> ELSE <<>>)

\* NativeConnection::open with every step succeeding: a new uinput device,
\* nothing pressed, the axes at 0 (the keys it registers are Registered(kbd)).
NativeConnectionOpen == [down |-> {}, pos |-> 0, dirty |-> FALSE, seen |-> Fresh]

\* ~NativeConnection: nativeClear, then UI_DEV_DESTROY and close(mFd).  What
\* the kernel does with the device afterwards is not Android's view of it.
NativeConnectionDestroy == nativeClear(dev)

-----------------------------------------------------------------------------
(* What a batch asks for: every flag of a record applies, move first *)

Requested(keyboard, w, r) ==
    IF r.type = "mouse"
    THEN LET p  == IF "ABSOLUTE" \in r.flags THEN r.pos ELSE w.pos
             d1 == IF "LEFTDOWN" \in r.flags THEN w.down \cup {"BTN_TOUCH"} ELSE w.down
             d2 == IF "LEFTUP" \in r.flags THEN d1 \ {"BTN_TOUCH"} ELSE d1
             d3 == IF "RIGHTDOWN" \in r.flags THEN d2 \cup {"BTN_RIGHT"} ELSE d2
             d4 == IF "RIGHTUP" \in r.flags THEN d3 \ {"BTN_RIGHT"} ELSE d3
         IN [down |-> d4, pos |-> p]
    ELSE LET k == IF r.scan <= 127 /\ WinTable[r.scan] # "UNKNOWN"
                  THEN getLinuxKeyCode(AndroidOf[WinTable[r.scan]])
                  ELSE KEY_UNKNOWN
         IN IF keyboard /\ k # KEY_UNKNOWN
            THEN [w EXCEPT !.down = IF r.up THEN @ \ {k} ELSE @ \cup {k}]
            ELSE w

\* A record send_input can translate faithfully: at most one flag of the
\* chain, no coordinates with a flag that drops them, a scan code in the
\* table.
SingleAction(r) ==
    IF r.type = "mouse"
    THEN /\ Cardinality(r.flags \cap Range(Chain)) <= 1
         /\ "ABSOLUTE" \in r.flags =>
              r.flags \cap {"RIGHTDOWN", "RIGHTUP", "WHEEL", "HWHEEL"} = {}
    ELSE r.scan <= 127

-----------------------------------------------------------------------------
(* The kosapi entry points *)

\* kosCreateInput with gConnectionPtr null and NativeConnection::open
\* succeeding.  A failing open() (open, write or UI_DEV_CREATE) and a call
\* while a device exists both return false and change nothing.
kosCreateInput(keyboard) ==
    /\ conn = "null"
    /\ conn' = "open"
    /\ kbd' = keyboard
    /\ dev' = NativeConnectionOpen
    /\ want' = Fresh
    /\ wf' = TRUE

\* kosDestroyInput: delete runs ~NativeConnection (nativeClear, then
\* UI_DEV_DESTROY and close); gConnectionPtr becomes null.  With no device
\* the call returns at once.
kosDestroyInput ==
    /\ conn = "open"
    /\ dev' = NativeConnectionDestroy
    /\ conn' = "null"
    /\ UNCHANGED <<kbd, want, wf>>

\* kosSendInput with a device and a non-empty batch (otherwise it returns 0
\* and changes nothing).  `oob` is the table read of each scan code above
\* 127.
kosSendInput(b, oob) ==
    /\ conn = "open"
    /\ dev' = Write(dev, send_input(b, oob))
    /\ want' = FoldLeft(LAMBDA w, r : Requested(kbd, w, r), want, b)
    /\ wf' = (wf /\ \A i \in DOMAIN b : SingleAction(b[i]))
    /\ UNCHANGED <<conn, kbd>>

\* Only a scan code above 127 reads outside the table.
OobChoices(b) ==
    {f \in [DOMAIN b -> OobReads] :
        \A i \in DOMAIN b : (b[i].type = "mouse" \/ b[i].scan <= 127) => f[i] = "UNKNOWN"}

Next ==
    \/ \E keyboard \in BOOLEAN : kosCreateInput(keyboard)
    \/ kosDestroyInput
    \/ \E b \in Batches : \E oob \in OobChoices(b) : kosSendInput(b, oob)

Spec == Init /\ [][Next]_vars

-----------------------------------------------------------------------------
(* Properties *)

\* Between kosSendInput calls Android has seen everything written to the
\* device: send_input closes every batch that wrote an event with
\* SYN_REPORT (requireSend is set by every branch that writes).
SyncedView ==
    conn = "open" =>
        /\ ~dev.dirty
        /\ dev.seen = [down |-> dev.down, pos |-> dev.pos]

\* As long as every record carried a single action, the buttons, keys and
\* position Android sees are the ones the requests since kosCreateInput
\* ask for: the else-if chain, the pointer ids of the buttons, the
\* kernel's filtering of repeated key values and the keyboard registration
\* of open() agree with what the caller meant.
ViewFollowsRequests ==
    conn = "open" /\ wf => dev.seen = want

====
