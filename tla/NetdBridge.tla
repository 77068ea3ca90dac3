------------------------------ MODULE NetdBridge ------------------------------
(***************************************************************************)
(* The request/response bridge to netd in NetdListener.cpp.               *)
(*  - A caller (app_update_ip or getipv4_prefixlen, both on the UI        *)
(*    thread) runs sendMsg: it registers a slot under the next command    *)
(*    number, writes "<num> <msg>" to netd and waits up to 3 s on the     *)
(*    manual-reset event mRespEvent, then takes its slot's code out.      *)
(*  - The listener thread reads netd's replies, splits each into argv     *)
(*    (dispatchCommand), and runCommand fills the slot the reply's number *)
(*    names, packing its words into the caller's buffer, and sets the     *)
(*    event.                                                              *)
(* The pure parts (the tokenizer, calcCmdNum, the word packing) are       *)
(* operators checked against reference definitions.                       *)
(***************************************************************************)
EXTENDS Integers, Sequences, SequencesExt

CONSTANTS
  MaxCalls,    \* sendMsg calls made
  CmdNumMax,   \* CMDNUM_MAX, reduced (the code's is INT_MAX)
  MaxBytes,    \* the maxBytes a caller passes (sizeof its result buffer)
  Answers,     \* the word lists netd may reply with
  Codes,       \* the response codes netd may reply with
  MaxArgs,     \* CMD_ARGS_MAX, reduced (the code's is 26)
  Broadcasts,  \* unsolicited lines netd may write
  MaxBroadcasts

CmdNumMin == 1                         \* CMDNUM_MIN
Garbage == <<<<"?">>>>                 \* a result buffer never written:
                                       \* a word no reply in a model holds

ASSUME CmdNumMax >= CmdNumMin /\ MaxBytes \in Nat \ {0}
ASSUME 0 \notin Codes

-----------------------------------------------------------------------------
(* Characters.  A word is a sequence of characters.                       *)
DQ == "\""
BS == "\\"
SP == " "
Digits == {"0", "1", "2", "3", "4", "5", "6", "7", "8", "9"}
DigitVal(ch) == CHOOSE v \in 0..9 : ToString(v) = ch

(* calcCmdNum: the decimal value of a word of digits, -1 for an empty     *)
(* word or one with any other character (a broadcast).                    *)
RECURSIVE CalcDigits(_, _)
CalcDigits(s, ret) ==
  IF s = <<>> THEN ret
  ELSE IF Head(s) \notin Digits THEN -1
  ELSE CalcDigits(Tail(s), ret * 10 + DigitVal(Head(s)))

CalcCmdNum(s) == IF s = <<>> THEN -1 ELSE CalcDigits(s, 0)

(* runCommand's packing loop: words are copied while each still leaves   *)
(* room, each followed by a space; the loop stops at the first word that *)
(* does not fit.  The copied words are returned.                          *)
RECURSIVE PackArgsLoose(_, _)
PackArgsLoose(words, residue) ==
  IF words = <<>> \/ residue < Len(Head(words)) THEN <<>>
  ELSE <<Head(words)>> \o PackArgsLoose(Tail(words),
                                         residue - Len(Head(words)) - 1)

RECURSIVE PackArgs(_, _)
PackArgs(words, residue) ==
  IF words = <<>> \/ residue <= Len(Head(words)) THEN <<>>
  ELSE <<Head(words)>> \o PackArgs(Tail(words), residue - Len(Head(words)) - 1)

(* The buffer after runCommand: the last space becomes the terminator;   *)
(* with no word copied nothing is written.                                *)
PackResult(words, buf) ==
  LET copied == PackArgs(words, MaxBytes) IN
  IF copied = <<>> THEN buf ELSE copied

(* dispatchCommand's scanner, one character at a time (lines 128-190).   *)
(* The state is the words so far, the current word, the escape and quote *)
(* flags, and err: the 500 reply to an unsupported escape or to too many *)
(* words, after which the line is dropped.                                *)
ScanInit == [argv |-> <<>>, tmp |-> <<>>, esc |-> FALSE, quote |-> FALSE,
             err |-> FALSE]

ScanStepSplitInQuotes(st, ch) ==
  IF st.err THEN st
  ELSE IF ch = BS
    THEN IF st.esc THEN [st EXCEPT !.tmp = Append(@, BS), !.esc = FALSE]
                   ELSE [st EXCEPT !.esc = TRUE]
  ELSE IF st.esc
    THEN IF ch = DQ THEN [st EXCEPT !.tmp = Append(@, DQ), !.esc = FALSE]
                    ELSE [st EXCEPT !.err = TRUE]
  ELSE IF ch = DQ THEN [st EXCEPT !.quote = ~@]
  ELSE IF ch = SP
    THEN IF Len(st.argv) >= MaxArgs THEN [st EXCEPT !.err = TRUE]
         ELSE [st EXCEPT !.argv = Append(@, st.tmp), !.tmp = <<>>]
  ELSE [st EXCEPT !.tmp = Append(@, ch)]

ScanStep(st, ch) ==
  IF st.err THEN st
  ELSE IF ch = BS
    THEN IF st.esc THEN [st EXCEPT !.tmp = Append(@, BS), !.esc = FALSE]
                   ELSE [st EXCEPT !.esc = TRUE]
  ELSE IF st.esc
    THEN IF ch = DQ THEN [st EXCEPT !.tmp = Append(@, DQ), !.esc = FALSE]
                    ELSE [st EXCEPT !.err = TRUE]
  ELSE IF ch = DQ THEN [st EXCEPT !.quote = ~@]
  ELSE IF ch = SP /\ ~st.quote
    THEN IF Len(st.argv) >= MaxArgs THEN [st EXCEPT !.err = TRUE]
         ELSE [st EXCEPT !.argv = Append(@, st.tmp), !.tmp = <<>>]
  ELSE [st EXCEPT !.tmp = Append(@, ch)]

(* A refused line: no argv reaches runCommand (a split always yields at  *)
(* least one word otherwise).                                             *)
Refused == <<>>

(* The whole of dispatchCommand's splitting (lines 128-205): the last    *)
(* word is added, and an unclosed quote is an error.                      *)
Tokenize(s) ==
  LET st == FoldLeft(ScanStep, ScanInit, s) IN
  IF st.err \/ Len(st.argv) >= MaxArgs \/ st.quote THEN Refused
  ELSE Append(st.argv, st.tmp)

-----------------------------------------------------------------------------
(* State.                                                                  *)

VARIABLES
  pc,         \* the caller's place in sendMsg
  calls,      \* sendMsg calls made so far
  mCmdNum,    \* the number the next call registers under
  mSlots,     \* number -> the slot's code (its result points at `result`)
  result,     \* the caller's char result[128], reused across its calls
  cur,        \* the number of the call in progress (cmdNum)
  timedOut,   \* the call in progress gave up waiting
  event,      \* mRespEvent (manual reset)
  toNetd,     \* command numbers written to netd, not yet read by it
  fromNetd,   \* replies netd wrote, not yet read by the listener
  answered,   \* number -> the reply netd sent for it
  returned,   \* completed calls: <<[num, code, buf, timedOut]>>
  unsolicited \* broadcast lines netd wrote so far

vars == <<pc, calls, mCmdNum, mSlots, result, cur, timedOut, event, toNetd,
          fromNetd, answered, returned, unsolicited>>

Bufs == {Garbage} \cup {PackArgs(a, MaxBytes) : a \in Answers}

TypeOK ==
  /\ pc \in {"idle", "inserted", "sent", "collect"}
  /\ calls \in Nat
  /\ mCmdNum \in CmdNumMin..CmdNumMax
  /\ DOMAIN mSlots \subseteq CmdNumMin..CmdNumMax
  /\ \A n \in DOMAIN mSlots : mSlots[n] \in {0} \cup Codes
  /\ result \in Bufs
  /\ cur \in CmdNumMin..CmdNumMax
  /\ timedOut \in BOOLEAN /\ event \in BOOLEAN
  /\ toNetd \in Seq(Seq(Digits))
  /\ fromNetd \in Seq(Seq(STRING))
  /\ DOMAIN answered \subseteq CmdNumMin..CmdNumMax
  /\ \A n \in DOMAIN answered : answered[n] \in [code : Codes, words : Answers]
  /\ unsolicited \in Nat
  /\ returned \in Seq([num : CmdNumMin..CmdNumMax, code : {0} \cup Codes,
                       buf : Bufs, timedOut : BOOLEAN])

Init ==
  /\ pc = "idle" /\ calls = 0 /\ mCmdNum = CmdNumMin
  /\ mSlots = <<>> /\ result = Garbage
  /\ cur = CmdNumMin /\ timedOut = FALSE
  /\ event = FALSE
  /\ toNetd = <<>> /\ fromNetd = <<>>
  /\ answered = <<>> /\ returned = <<>> /\ unsolicited = 0

-----------------------------------------------------------------------------
(* The caller: sendMsg (lines 332-378).  The early returns at 334-345 do  *)
(* not happen: netd is connected and callers pass a message and buffer.   *)

(* asprintf's "%d": the decimal digits of a positive number.              *)
RECURSIVE ToDigits(_)
ToDigits(n) == IF n < 10 THEN <<ToString(n)>>
               ELSE ToDigits(n \div 10) \o <<ToString(n % 10)>>

SendMsgInsertNoWrap ==
  /\ pc = "idle"
  /\ mSlots' = IF mCmdNum \in DOMAIN mSlots THEN mSlots
               ELSE mSlots @@ (mCmdNum :> 0)
  /\ cur' = mCmdNum
  /\ mCmdNum' = mCmdNum + 1
  /\ calls' = calls + 1
  /\ timedOut' = FALSE
  /\ pc' = "inserted"
  /\ UNCHANGED <<result, event, toNetd, fromNetd, answered, returned,
                 unsolicited>>

(* Under mSlotsLock: insert a slot for mCmdNum (std::map::insert leaves   *)
(* an existing key alone), remember it, advance mCmdNum with its wrap.    *)
SendMsgInsert ==
  /\ pc = "idle"
  /\ mSlots' = IF mCmdNum \in DOMAIN mSlots THEN mSlots
               ELSE mSlots @@ (mCmdNum :> 0)
  /\ cur' = mCmdNum
  /\ mCmdNum' = IF mCmdNum # CmdNumMax THEN mCmdNum + 1 ELSE CmdNumMin
  /\ calls' = calls + 1
  /\ timedOut' = FALSE
  /\ pc' = "inserted"
  /\ UNCHANGED <<result, event, toNetd, fromNetd, answered, returned,
                 unsolicited>>

(* mRespEvent.Reset(), then "<num> <msg>" is written to netd.             *)
SendMsgSendNoReset ==
  /\ pc = "inserted"
  /\ toNetd' = Append(toNetd, ToDigits(cur))
  /\ pc' = "sent"
  /\ UNCHANGED <<calls, mCmdNum, mSlots, result, cur, timedOut, event,
                 fromNetd, answered, returned, unsolicited>>

SendMsgSend ==
  /\ pc = "inserted"
  /\ event' = FALSE
  /\ toNetd' = Append(toNetd, ToDigits(cur))
  /\ pc' = "sent"
  /\ UNCHANGED <<calls, mCmdNum, mSlots, result, cur, timedOut, fromNetd,
                 answered, returned, unsolicited>>

(* mRespEvent.Wait(3000) returns true.                                     *)
WaitSignaled ==
  /\ pc = "sent" /\ event
  /\ pc' = "collect"
  /\ UNCHANGED <<calls, mCmdNum, mSlots, result, cur, timedOut, event, toNetd,
                 fromNetd, answered, returned, unsolicited>>

(* The wait times out while the event is clear; the event is Reset.       *)
WaitTimeout ==
  /\ pc = "sent" /\ ~event
  /\ timedOut' = TRUE
  /\ event' = FALSE
  /\ pc' = "collect"
  /\ UNCHANGED <<calls, mCmdNum, mSlots, result, cur, toNetd, fromNetd,
                 answered, returned, unsolicited>>

(* Under mSlotsLock: read the slot's code and erase the slot; the caller  *)
(* then reads its result buffer.                                          *)
SendMsgCollect ==
  /\ pc = "collect"
  /\ returned' = Append(returned, [num |-> cur, code |-> mSlots[cur],
                                   buf |-> result, timedOut |-> timedOut])
  /\ mSlots' = [n \in DOMAIN mSlots \ {cur} |-> mSlots[n]]
  /\ pc' = "idle"
  /\ UNCHANGED <<calls, mCmdNum, result, cur, timedOut, event, toNetd,
                 fromNetd, answered, unsolicited>>

-----------------------------------------------------------------------------
(* netd, the peer: it reads each command and replies "<code> <num>        *)
(* <words>", or drops it; it may also write an unsolicited line.          *)

JoinWords(ws) ==
  IF ws = <<>> THEN <<>>
  ELSE FoldLeft(LAMBDA acc, w : acc \o <<SP>> \o w, Head(ws), Tail(ws))

NetdAnswer(code, words) ==
  LET num == CalcCmdNum(Head(toNetd)) IN
  /\ toNetd # <<>>
  /\ answered' = answered @@ (num :> [code |-> code, words |-> words])
  /\ fromNetd' = Append(fromNetd,
                   JoinWords(<<ToDigits(code), Head(toNetd)>> \o words))
  /\ toNetd' = Tail(toNetd)
  /\ UNCHANGED <<pc, calls, mCmdNum, mSlots, result, cur, timedOut, event,
                 returned, unsolicited>>

NetdDrop ==
  /\ toNetd # <<>>
  /\ toNetd' = Tail(toNetd)
  /\ UNCHANGED <<pc, calls, mCmdNum, mSlots, result, cur, timedOut, event,
                 fromNetd, answered, returned, unsolicited>>

NetdBroadcast(line) ==
  /\ fromNetd' = Append(fromNetd, line)
  /\ unsolicited' = unsolicited + 1
  /\ UNCHANGED <<pc, calls, mCmdNum, mSlots, result, cur, timedOut, event,
                 toNetd, answered, returned>>

-----------------------------------------------------------------------------
(* The listener thread: onDataAvailable hands each line to               *)
(* dispatchCommand, which splits it and calls runCommand (lines 73-330).  *)

Line == Head(fromNetd)
Argv == Tokenize(Line)

ListenerUnchanged == UNCHANGED <<pc, calls, mCmdNum, mSlots, result, cur,
                                 timedOut, event, toNetd, answered, returned,
                                 unsolicited>>

(* A split error is answered with a 500 and the line is dropped; a line  *)
(* of one word is noise (argc <= 1); one whose second word is not a       *)
(* number goes to the broadcast callback; a reply to a number without a   *)
(* slot is dropped.                                                       *)
DispatchIgnored ==
  /\ fromNetd # <<>>
  /\ \/ Argv = Refused
     \/ Argv # Refused /\ Len(Argv) <= 1
     \/ Argv # Refused /\ Len(Argv) > 1 /\ CalcCmdNum(Argv[2]) < 0
     \/ Argv # Refused /\ Len(Argv) > 1 /\ CalcCmdNum(Argv[2]) >= 0
        /\ CalcCmdNum(Argv[2]) \notin DOMAIN mSlots
  /\ fromNetd' = Tail(fromNetd)
  /\ ListenerUnchanged

(* runCommand under mSlotsLock: the slot takes the code (strtol of the   *)
(* first word, decimal here), the words from the third on are packed     *)
(* into the caller's buffer, and the event is Set.                        *)
RunCommandFill ==
  /\ fromNetd # <<>>
  /\ Argv # Refused /\ Len(Argv) > 1
  /\ CalcCmdNum(Argv[2]) \in DOMAIN mSlots
  /\ mSlots' = [mSlots EXCEPT ![CalcCmdNum(Argv[2])] = CalcDigits(Argv[1], 0)]
  /\ result' = PackResult(SubSeq(Argv, 3, Len(Argv)), result)
  /\ event' = TRUE
  /\ fromNetd' = Tail(fromNetd)
  /\ UNCHANGED <<pc, calls, mCmdNum, cur, timedOut, toNetd, answered,
                 returned, unsolicited>>

-----------------------------------------------------------------------------
Next ==
  \/ SendMsgInsert \/ SendMsgSend \/ WaitSignaled \/ WaitTimeout
  \/ SendMsgCollect
  \/ \E c \in Codes, a \in Answers : NetdAnswer(c, a)
  \/ NetdDrop
  \/ \E l \in Broadcasts : NetdBroadcast(l)
  \/ DispatchIgnored \/ RunCommandFill

Spec == Init /\ [][Next]_vars

Bounds == calls <= MaxCalls /\ unsolicited <= MaxBroadcasts

-----------------------------------------------------------------------------
(* Properties.                                                             *)

(* sendMsg hands each caller the reply to its own command: a call that   *)
(* was woken, not timed out, returns the code netd sent for its number,  *)
(* and a reply with words that fit leaves exactly those words in the     *)
(* caller's buffer.  A non-zero code, even after a timeout, is always the *)
(* one sent for the call's own number.  This rests on the Reset at line  *)
(* 359 clearing a Set left by a late reply to an earlier call.            *)
ReturnsOwnResponse ==
  \A i \in 1..Len(returned) :
    LET r == returned[i] IN
    /\ r.code # 0 => r.num \in DOMAIN answered /\ r.code = answered[r.num].code
    /\ ~r.timedOut =>
         /\ r.num \in DOMAIN answered
         /\ r.code = answered[r.num].code
         /\ PackArgs(answered[r.num].words, MaxBytes) # <<>> =>
              r.buf = PackArgs(answered[r.num].words, MaxBytes)

(* The bytes runCommand's loop writes for some words: each word and a    *)
(* space (the last space becomes the terminator).                         *)
Footprint(ws) == FoldLeft(LAMBDA acc, w : acc + Len(w) + 1, 0, ws)

(* The packing loop never writes past maxBytes, and it copies the longest *)
(* run of leading words that fits: the reference is the longest prefix   *)
(* whose footprint is at most maxBytes, over all lists of up to three     *)
(* words of up to three characters and over every reply netd has sent.    *)
LongestFit(ws) ==
  LET fits == {k \in 0..Len(ws) : Footprint(SubSeq(ws, 1, k)) <= MaxBytes}
  IN SubSeq(ws, 1, Max(fits))

PackWords == BoundedSeq(BoundedSeq({"a"}, 3), 3)

PackFitsAll(W) == \A ws \in W : PackArgs(ws, MaxBytes) = LongestFit(ws)

PackSweep == PackFitsAll(PackWords)

PackIsLongestFit ==
  PackSweep /\ PackFitsAll({answered[n].words : n \in DOMAIN answered})

(* dispatchCommand's splitting undoes the quoting a peer applies to its  *)
(* words: every word quoted, with quotes and backslashes escaped, and the *)
(* words joined by spaces, is read back as the same words, up to          *)
(* CMD_ARGS_MAX words; one word more is refused.  Checked on all lists of *)
(* up to two words of up to two of a, space, quote, backslash, and on the *)
(* words of every reply netd has sent.                                     *)
Quoted(w) ==
  <<DQ>> \o FoldLeft(LAMBDA acc, ch : acc \o IF ch \in {DQ, BS}
                                            THEN <<BS, ch>> ELSE <<ch>>,
                     <<>>, w) \o <<DQ>>

Encode(ws) == JoinWords([i \in 1..Len(ws) |-> Quoted(ws[i])])

TokenizeSweep ==
  /\ \A ws \in BoundedSeq(BoundedSeq({"a", SP, DQ, BS}, 2), 2) \ {<<>>} :
       Tokenize(Encode(ws)) = ws
  /\ Tokenize(Encode([i \in 1..MaxArgs |-> <<"a">>]))
       = [i \in 1..MaxArgs |-> <<"a">>]
  /\ Tokenize(Encode([i \in 1..MaxArgs + 1 |-> <<"a">>])) = Refused

TokenizeInvertsEncode ==
  /\ TokenizeSweep
  /\ \A n \in DOMAIN answered :
       answered[n].words # <<>> =>
         Tokenize(Encode(answered[n].words)) = answered[n].words
====
