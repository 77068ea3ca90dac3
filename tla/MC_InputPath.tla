---------------------------- MODULE MC_InputPath ----------------------------
(* Bindings of InputPath for TLC: the tables of sendinput.cpp and          *)
(* sendinput.h as KeyTables copies them, and five scan codes a caller      *)
(* sends.                                                                  *)
EXTENDS InputPath

KT == INSTANCE KeyTables

\* 0x01 ESC, 0x1E A, 0x37 PrintScreen (AKEYCODE_SYSRQ, which KEYS lacks),
\* 0x54 (UNKNOWN in the table), and 200, past the end of the table.
MCScanCodes == {1, 30, 55, 84, 200}
MCWinTable == KT!windows_scancode_table
MCUsbCodes == Range(MCWinTable)
\* What the read past the table returns: no key, a key KEYS knows, and one
\* with an AKEYCODE but no Linux key.
MCOobReads == {"UNKNOWN", "ESCAPE", "A", "PRINTSCREEN"}
MCAndroidOf == [u \in MCUsbCodes |-> KT!AndroidIndex(u)]
MCKEYS == KT!initKeysMap
MCKeyCodes == {KT!KEYS[i][1] : i \in DOMAIN KT!KEYS}
MCFlagSets == {{}, {"ABSOLUTE"}, {"LEFTDOWN", "ABSOLUTE"}, {"LEFTUP"},
               {"RIGHTDOWN"}, {"RIGHTUP", "ABSOLUTE"}, {"WHEEL"},
               {"LEFTDOWN", "LEFTUP"}, {"RIGHTDOWN", "LEFTUP"}}
MCPos == {0, 1}
MCData == {0, 1}

\* No two KEYS entries share an AKEYCODE, so keysMap keeps every Linux code
\* open() registers.
ASSUME Range(MCKEYS) = MCKeyCodes

\* No two SDL_Scancode enumerators share a value, and every entry of the
\* two SDL tables is one of them.
ASSUME /\ IsInjective(KT!SDL_Scancode)
       /\ Range(KT!windows_scancode_table) \cup Range(KT!Android_Keycodes)
            \subseteq DOMAIN KT!SDL_Scancode

====
