------------------------------ MODULE KeyTables ------------------------------
(***************************************************************************)
(* The three tables the keyboard branch of send_input goes through         *)
(* (sendinput.cpp, sendinput.h): a Windows set-1 scan code is looked up in *)
(* windows_scancode_table (an SDL_Scancode), the SDL code is searched for  *)
(* in Android_Keycodes (its index is the AKEYCODE), and keysMap, filled    *)
(* from KEYS by initKeysMap, gives the Linux key code.  SDL codes and      *)
(* Linux key codes are their enumerator names without the SDL_SCANCODE_    *)
(* prefix and with the KEY_ prefix; AKEYCODE values are the array indices *)
(* of Android_Keycodes, whose comments name them.                          *)
(***************************************************************************)
EXTENDS Integers, Sequences, FiniteSets, Functions

\* SDL_Scancode, usage page 0x07 (USB keyboard page) from SDL_SCANCODE_UNKNOWN:
\* <<enumerator, value>>.
SDL_ScancodePage07Low == <<
    <<"UNKNOWN", 0>>, <<"A", 4>>, <<"B", 5>>, <<"C", 6>>,
    <<"D", 7>>, <<"E", 8>>, <<"F", 9>>, <<"G", 10>>,
    <<"H", 11>>, <<"I", 12>>, <<"J", 13>>, <<"K", 14>>,
    <<"L", 15>>, <<"M", 16>>, <<"N", 17>>, <<"O", 18>>,
    <<"P", 19>>, <<"Q", 20>>, <<"R", 21>>, <<"S", 22>>,
    <<"T", 23>>, <<"U", 24>>, <<"V", 25>>, <<"W", 26>>,
    <<"X", 27>>, <<"Y", 28>>, <<"Z", 29>>, <<"1", 30>>,
    <<"2", 31>>, <<"3", 32>>, <<"4", 33>>, <<"5", 34>>,
    <<"6", 35>>, <<"7", 36>>, <<"8", 37>>, <<"9", 38>>,
    <<"0", 39>>, <<"RETURN", 40>>, <<"ESCAPE", 41>>, <<"BACKSPACE", 42>>,
    <<"TAB", 43>>, <<"SPACE", 44>>, <<"MINUS", 45>>, <<"EQUALS", 46>>,
    <<"LEFTBRACKET", 47>>, <<"RIGHTBRACKET", 48>>, <<"BACKSLASH", 49>>, <<"NONUSHASH", 50>>,
    <<"SEMICOLON", 51>>, <<"APOSTROPHE", 52>>, <<"GRAVE", 53>>, <<"COMMA", 54>>,
    <<"PERIOD", 55>>, <<"SLASH", 56>>, <<"CAPSLOCK", 57>>, <<"F1", 58>>,
    <<"F2", 59>>, <<"F3", 60>>, <<"F4", 61>>, <<"F5", 62>>,
    <<"F6", 63>>, <<"F7", 64>>, <<"F8", 65>>, <<"F9", 66>>,
    <<"F10", 67>>, <<"F11", 68>>, <<"F12", 69>>, <<"PRINTSCREEN", 70>>,
    <<"SCROLLLOCK", 71>>, <<"PAUSE", 72>>, <<"INSERT", 73>>, <<"HOME", 74>>,
    <<"PAGEUP", 75>>, <<"DELETE", 76>>, <<"END", 77>>, <<"PAGEDOWN", 78>>,
    <<"RIGHT", 79>>, <<"LEFT", 80>>, <<"DOWN", 81>>, <<"UP", 82>>,
    <<"NUMLOCKCLEAR", 83>>, <<"KP_DIVIDE", 84>>, <<"KP_MULTIPLY", 85>>, <<"KP_MINUS", 86>>,
    <<"KP_PLUS", 87>>, <<"KP_ENTER", 88>>, <<"KP_1", 89>>, <<"KP_2", 90>>,
    <<"KP_3", 91>>, <<"KP_4", 92>>, <<"KP_5", 93>>
    >>

\* SDL_Scancode, the rest of usage page 0x07.
SDL_ScancodePage07High == <<
    <<"KP_6", 94>>, <<"KP_7", 95>>, <<"KP_8", 96>>, <<"KP_9", 97>>,
    <<"KP_0", 98>>, <<"KP_PERIOD", 99>>, <<"NONUSBACKSLASH", 100>>, <<"APPLICATION", 101>>,
    <<"POWER", 102>>, <<"KP_EQUALS", 103>>, <<"F13", 104>>, <<"F14", 105>>,
    <<"F15", 106>>, <<"F16", 107>>, <<"F17", 108>>, <<"F18", 109>>,
    <<"F19", 110>>, <<"F20", 111>>, <<"F21", 112>>, <<"F22", 113>>,
    <<"F23", 114>>, <<"F24", 115>>, <<"EXECUTE", 116>>, <<"HELP", 117>>,
    <<"MENU", 118>>, <<"SELECT", 119>>, <<"STOP", 120>>, <<"AGAIN", 121>>,
    <<"UNDO", 122>>, <<"CUT", 123>>, <<"COPY", 124>>, <<"PASTE", 125>>,
    <<"FIND", 126>>, <<"MUTE", 127>>, <<"VOLUMEUP", 128>>, <<"VOLUMEDOWN", 129>>,
    <<"LOCKINGCAPSLOCK", 130>>, <<"LOCKINGNUMLOCK", 131>>, <<"LOCKINGSCROLLLOCK", 132>>, <<"KP_COMMA", 133>>,
    <<"KP_EQUALSAS400", 134>>, <<"INTERNATIONAL1", 135>>, <<"INTERNATIONAL2", 136>>, <<"INTERNATIONAL3", 137>>,
    <<"INTERNATIONAL4", 138>>, <<"INTERNATIONAL5", 139>>, <<"INTERNATIONAL6", 140>>, <<"INTERNATIONAL7", 141>>,
    <<"INTERNATIONAL8", 142>>, <<"INTERNATIONAL9", 143>>, <<"LANG1", 144>>, <<"LANG2", 145>>,
    <<"LANG3", 146>>, <<"LANG4", 147>>, <<"LANG5", 148>>, <<"LANG6", 149>>,
    <<"LANG7", 150>>, <<"LANG8", 151>>, <<"LANG9", 152>>, <<"ALTERASE", 153>>,
    <<"SYSREQ", 154>>, <<"CANCEL", 155>>, <<"CLEAR", 156>>, <<"PRIOR", 157>>,
    <<"RETURN2", 158>>, <<"SEPARATOR", 159>>, <<"OUT", 160>>, <<"OPER", 161>>,
    <<"CLEARAGAIN", 162>>, <<"CRSEL", 163>>, <<"EXSEL", 164>>, <<"KP_00", 176>>,
    <<"KP_000", 177>>, <<"THOUSANDSSEPARATOR", 178>>, <<"DECIMALSEPARATOR", 179>>, <<"CURRENCYUNIT", 180>>,
    <<"CURRENCYSUBUNIT", 181>>, <<"KP_LEFTPAREN", 182>>, <<"KP_RIGHTPAREN", 183>>, <<"KP_LEFTBRACE", 184>>,
    <<"KP_RIGHTBRACE", 185>>, <<"KP_TAB", 186>>, <<"KP_BACKSPACE", 187>>, <<"KP_A", 188>>,
    <<"KP_B", 189>>, <<"KP_C", 190>>, <<"KP_D", 191>>, <<"KP_E", 192>>,
    <<"KP_F", 193>>, <<"KP_XOR", 194>>, <<"KP_POWER", 195>>, <<"KP_PERCENT", 196>>,
    <<"KP_LESS", 197>>, <<"KP_GREATER", 198>>, <<"KP_AMPERSAND", 199>>, <<"KP_DBLAMPERSAND", 200>>,
    <<"KP_VERTICALBAR", 201>>, <<"KP_DBLVERTICALBAR", 202>>, <<"KP_COLON", 203>>, <<"KP_HASH", 204>>,
    <<"KP_SPACE", 205>>, <<"KP_AT", 206>>, <<"KP_EXCLAM", 207>>, <<"KP_MEMSTORE", 208>>,
    <<"KP_MEMRECALL", 209>>, <<"KP_MEMCLEAR", 210>>, <<"KP_MEMADD", 211>>, <<"KP_MEMSUBTRACT", 212>>,
    <<"KP_MEMMULTIPLY", 213>>, <<"KP_MEMDIVIDE", 214>>, <<"KP_PLUSMINUS", 215>>, <<"KP_CLEAR", 216>>,
    <<"KP_CLEARENTRY", 217>>, <<"KP_BINARY", 218>>, <<"KP_OCTAL", 219>>, <<"KP_DECIMAL", 220>>,
    <<"KP_HEXADECIMAL", 221>>, <<"LCTRL", 224>>, <<"LSHIFT", 225>>, <<"LALT", 226>>,
    <<"LGUI", 227>>, <<"RCTRL", 228>>, <<"RSHIFT", 229>>, <<"RALT", 230>>,
    <<"RGUI", 231>>, <<"MODE", 257>>
    >>

\* SDL_Scancode, usage page 0x0C, the Walther keys and the additional media
\* keys.
SDL_ScancodePage0C == <<
    <<"AUDIONEXT", 258>>, <<"AUDIOPREV", 259>>, <<"AUDIOSTOP", 260>>, <<"AUDIOPLAY", 261>>,
    <<"AUDIOMUTE", 262>>, <<"MEDIASELECT", 263>>, <<"WWW", 264>>, <<"MAIL", 265>>,
    <<"CALCULATOR", 266>>, <<"COMPUTER", 267>>, <<"AC_SEARCH", 268>>, <<"AC_HOME", 269>>,
    <<"AC_BACK", 270>>, <<"AC_FORWARD", 271>>, <<"AC_STOP", 272>>, <<"AC_REFRESH", 273>>,
    <<"AC_BOOKMARKS", 274>>, <<"BRIGHTNESSDOWN", 275>>, <<"BRIGHTNESSUP", 276>>, <<"DISPLAYSWITCH", 277>>,
    <<"KBDILLUMTOGGLE", 278>>, <<"KBDILLUMDOWN", 279>>, <<"KBDILLUMUP", 280>>, <<"EJECT", 281>>,
    <<"SLEEP", 282>>, <<"APP1", 283>>, <<"APP2", 284>>, <<"AUDIOREWIND", 285>>,
    <<"AUDIOFASTFORWARD", 286>>
    >>
\* The typedef enum SDL_Scancode: the value of each enumerator.  No two
\* share a value, so the tables below compare enumerators by name.
SDL_ScancodePairs == SDL_ScancodePage07Low \o SDL_ScancodePage07High \o SDL_ScancodePage0C

SDL_Scancode == [n \in {p[1] : p \in Range(SDL_ScancodePairs)} |->
                   (CHOOSE p \in Range(SDL_ScancodePairs) : p[1] = n)[2]]

\* windows_scancode_table, eight scan codes a row as in the source, from 0x00.
WinRows == <<
    "UNKNOWN", "ESCAPE", "1", "2", "3", "4", "5", "6",  \* 0x00
    "7", "8", "9", "0", "MINUS", "EQUALS", "BACKSPACE", "TAB",  \* 0x08
    "Q", "W", "E", "R", "T", "Y", "U", "I",  \* 0x10
    "O", "P", "LEFTBRACKET", "RIGHTBRACKET", "RETURN", "LCTRL", "A", "S",  \* 0x18
    "D", "F", "G", "H", "J", "K", "L", "SEMICOLON",  \* 0x20
    "APOSTROPHE", "GRAVE", "LSHIFT", "BACKSLASH", "Z", "X", "C", "V",  \* 0x28
    "B", "N", "M", "COMMA", "PERIOD", "SLASH", "RSHIFT", "PRINTSCREEN",  \* 0x30
    "LALT", "SPACE", "CAPSLOCK", "F1", "F2", "F3", "F4", "F5",  \* 0x38
    "F6", "F7", "F8", "F9", "F10", "NUMLOCKCLEAR", "SCROLLLOCK", "HOME",  \* 0x40
    "UP", "PAGEUP", "KP_MINUS", "LEFT", "KP_5", "RIGHT", "KP_PLUS", "END",  \* 0x48
    "DOWN", "PAGEDOWN", "INSERT", "DELETE", "UNKNOWN", "UNKNOWN", "NONUSBACKSLASH", "F11",  \* 0x50
    "F12", "PAUSE", "UNKNOWN", "LGUI", "RGUI", "APPLICATION", "UNKNOWN", "UNKNOWN",  \* 0x58
    "UNKNOWN", "UNKNOWN", "UNKNOWN", "UNKNOWN", "F13", "F14", "F15", "F16",  \* 0x60
    "F17", "F18", "F19", "UNKNOWN", "UNKNOWN", "UNKNOWN", "UNKNOWN", "UNKNOWN",  \* 0x68
    "INTERNATIONAL2", "UNKNOWN", "UNKNOWN", "INTERNATIONAL1", "UNKNOWN", "UNKNOWN", "UNKNOWN", "UNKNOWN",  \* 0x70
    "UNKNOWN", "INTERNATIONAL4", "UNKNOWN", "INTERNATIONAL5", "UNKNOWN", "INTERNATIONAL3", "UNKNOWN", "UNKNOWN"  \* 0x78
    >>

windows_scancode_table == [sc \in 0..127 |-> WinRows[sc + 1]]

\* Android_Keycodes: the SDL code of each AKEYCODE, eight a row from 0,
\* up to AKEYCODE_NUM_LOCK (143).
AndroidRowsLow == <<
    "UNKNOWN", "UNKNOWN", "UNKNOWN", "AC_HOME", "AC_BACK", "UNKNOWN", "UNKNOWN", "0",  \* 0
    "1", "2", "3", "4", "5", "6", "7", "8",  \* 8
    "9", "UNKNOWN", "UNKNOWN", "UP", "DOWN", "LEFT", "RIGHT", "SELECT",  \* 16
    "VOLUMEUP", "VOLUMEDOWN", "POWER", "UNKNOWN", "CLEAR", "A", "B", "C",  \* 24
    "D", "E", "F", "G", "H", "I", "J", "K",  \* 32
    "L", "M", "N", "O", "P", "Q", "R", "S",  \* 40
    "T", "U", "V", "W", "X", "Y", "Z", "COMMA",  \* 48
    "PERIOD", "LALT", "RALT", "LSHIFT", "RSHIFT", "TAB", "SPACE", "UNKNOWN",  \* 56
    "WWW", "MAIL", "RETURN", "BACKSPACE", "GRAVE", "MINUS", "EQUALS", "LEFTBRACKET",  \* 64
    "RIGHTBRACKET", "BACKSLASH", "SEMICOLON", "APOSTROPHE", "SLASH", "UNKNOWN", "UNKNOWN", "UNKNOWN",  \* 72
    "UNKNOWN", "UNKNOWN", "MENU", "UNKNOWN", "AC_SEARCH", "AUDIOPLAY", "AUDIOSTOP", "AUDIONEXT",  \* 80
    "AUDIOPREV", "AUDIOREWIND", "AUDIOFASTFORWARD", "MUTE", "PAGEUP", "PAGEDOWN", "UNKNOWN", "UNKNOWN",  \* 88
    "UNKNOWN", "UNKNOWN", "UNKNOWN", "UNKNOWN", "UNKNOWN", "UNKNOWN", "UNKNOWN", "UNKNOWN",  \* 96
    "UNKNOWN", "UNKNOWN", "UNKNOWN", "UNKNOWN", "UNKNOWN", "UNKNOWN", "UNKNOWN", "ESCAPE",  \* 104
    "DELETE", "LCTRL", "RCTRL", "CAPSLOCK", "SCROLLLOCK", "LGUI", "RGUI", "UNKNOWN",  \* 112
    "PRINTSCREEN", "PAUSE", "HOME", "END", "INSERT", "AC_FORWARD", "UNKNOWN", "UNKNOWN",  \* 120
    "UNKNOWN", "EJECT", "UNKNOWN", "F1", "F2", "F3", "F4", "F5",  \* 128
    "F6", "F7", "F8", "F9", "F10", "F11", "F12", "UNKNOWN"  \* 136
    >>

\* Android_Keycodes from AKEYCODE_NUMPAD_0 (144) on.
AndroidRowsHigh == <<
    "KP_0", "KP_1", "KP_2", "KP_3", "KP_4", "KP_5", "KP_6", "KP_7",  \* 144
    "KP_8", "KP_9", "KP_DIVIDE", "KP_MULTIPLY", "KP_MINUS", "KP_PLUS", "KP_PERIOD", "KP_COMMA",  \* 152
    "KP_ENTER", "KP_EQUALS", "KP_LEFTPAREN", "KP_RIGHTPAREN", "UNKNOWN", "UNKNOWN", "UNKNOWN", "UNKNOWN",  \* 160
    "UNKNOWN", "UNKNOWN", "UNKNOWN", "UNKNOWN", "UNKNOWN", "UNKNOWN", "AC_BOOKMARKS", "UNKNOWN",  \* 168
    "UNKNOWN", "UNKNOWN", "UNKNOWN", "UNKNOWN", "UNKNOWN", "UNKNOWN", "UNKNOWN", "UNKNOWN",  \* 176
    "UNKNOWN", "UNKNOWN", "UNKNOWN", "UNKNOWN", "UNKNOWN", "UNKNOWN", "UNKNOWN", "UNKNOWN",  \* 184
    "UNKNOWN", "UNKNOWN", "UNKNOWN", "UNKNOWN", "UNKNOWN", "UNKNOWN", "UNKNOWN", "UNKNOWN",  \* 192
    "UNKNOWN", "UNKNOWN", "UNKNOWN", "UNKNOWN", "UNKNOWN", "UNKNOWN", "UNKNOWN", "UNKNOWN",  \* 200
    "UNKNOWN", "UNKNOWN", "CALCULATOR", "LANG5", "UNKNOWN", "INTERNATIONAL5", "INTERNATIONAL4", "LANG3",  \* 208
    "INTERNATIONAL3", "UNKNOWN", "UNKNOWN", "UNKNOWN", "BRIGHTNESSDOWN", "BRIGHTNESSUP", "UNKNOWN", "SLEEP",  \* 216
    "UNKNOWN", "UNKNOWN", "UNKNOWN", "UNKNOWN", "UNKNOWN", "UNKNOWN", "UNKNOWN", "UNKNOWN",  \* 224
    "UNKNOWN", "UNKNOWN", "UNKNOWN", "UNKNOWN", "UNKNOWN", "UNKNOWN", "UNKNOWN", "UNKNOWN",  \* 232
    "UNKNOWN", "UNKNOWN", "UNKNOWN", "UNKNOWN", "UNKNOWN", "UNKNOWN", "UNKNOWN", "UNKNOWN",  \* 240
    "UNKNOWN", "UNKNOWN", "UNKNOWN", "UNKNOWN", "UNKNOWN", "UNKNOWN", "UNKNOWN", "UNKNOWN",  \* 248
    "UNKNOWN", "UNKNOWN", "UNKNOWN", "HELP", "UNKNOWN", "UNKNOWN", "UNKNOWN", "UNKNOWN",  \* 256
    "UNKNOWN", "UNKNOWN", "UNKNOWN", "UNKNOWN", "UNKNOWN", "UNKNOWN", "UNKNOWN", "UNKNOWN",  \* 264
    "UNKNOWN", "UNKNOWN", "UNKNOWN", "UNKNOWN", "UNKNOWN", "CUT", "COPY", "PASTE"  \* 272
    >>

AndroidRows == AndroidRowsLow \o AndroidRowsHigh

Android_Keycodes == [a \in 0..Len(AndroidRows) - 1 |-> AndroidRows[a + 1]]

\* The search loop of win_scan_code_2_android_scan_code: the first index
\* whose entry is usb_code, or -1.  The loop compares SDL_Scancode values;
\* they are distinct (MC_InputPath assumes it), so names compare the same.
AndroidIndex(usb) ==
    LET hits == {a \in DOMAIN Android_Keycodes : Android_Keycodes[a] = usb}
    IN IF hits = {} THEN -1 ELSE CHOOSE a \in hits : \A b \in hits : a <= b

\* KEYS: {linuxKeyCode, androidKeyCode} in source order, the AKEYCODE as its
\* value (the commented-out entries are left out).
KEYS == <<
    <<"KEY_ESC", 111>>, <<"KEY_1", 8>>, <<"KEY_2", 9>>, <<"KEY_3", 10>>,
    <<"KEY_4", 11>>, <<"KEY_5", 12>>, <<"KEY_6", 13>>, <<"KEY_7", 14>>,
    <<"KEY_8", 15>>, <<"KEY_9", 16>>, <<"KEY_0", 7>>, <<"KEY_MINUS", 69>>,
    <<"KEY_EQUAL", 70>>, <<"KEY_BACKSPACE", 67>>, <<"KEY_TAB", 61>>, <<"KEY_Q", 45>>,
    <<"KEY_W", 51>>, <<"KEY_E", 33>>, <<"KEY_R", 46>>, <<"KEY_T", 48>>,
    <<"KEY_Y", 53>>, <<"KEY_U", 49>>, <<"KEY_I", 37>>, <<"KEY_O", 43>>,
    <<"KEY_P", 44>>, <<"KEY_LEFTBRACE", 71>>, <<"KEY_RIGHTBRACE", 72>>, <<"KEY_ENTER", 66>>,
    <<"KEY_LEFTCTRL", 113>>, <<"KEY_A", 29>>, <<"KEY_S", 47>>, <<"KEY_D", 32>>,
    <<"KEY_F", 34>>, <<"KEY_G", 35>>, <<"KEY_H", 36>>, <<"KEY_J", 38>>,
    <<"KEY_K", 39>>, <<"KEY_L", 40>>, <<"KEY_SEMICOLON", 74>>, <<"KEY_APOSTROPHE", 75>>,
    <<"KEY_GRAVE", 68>>, <<"KEY_LEFTSHIFT", 59>>, <<"KEY_BACKSLASH", 73>>, <<"KEY_Z", 54>>,
    <<"KEY_X", 52>>, <<"KEY_C", 31>>, <<"KEY_V", 50>>, <<"KEY_B", 30>>,
    <<"KEY_N", 42>>, <<"KEY_M", 41>>, <<"KEY_COMMA", 55>>, <<"KEY_DOT", 56>>,
    <<"KEY_SLASH", 76>>, <<"KEY_RIGHTSHIFT", 60>>, <<"KEY_KPASTERISK", 17>>, <<"KEY_LEFTALT", 57>>,
    <<"KEY_SPACE", 62>>, <<"KEY_CAPSLOCK", 115>>, <<"KEY_F1", 131>>, <<"KEY_F2", 132>>,
    <<"KEY_F3", 133>>, <<"KEY_F4", 134>>, <<"KEY_F5", 135>>, <<"KEY_F6", 136>>,
    <<"KEY_F7", 137>>, <<"KEY_F8", 138>>, <<"KEY_F9", 139>>, <<"KEY_F10", 140>>,
    <<"KEY_NUMLOCK", 143>>, <<"KEY_SCROLLLOCK", 116>>, <<"KEY_KP7", 151>>, <<"KEY_KP8", 152>>,
    <<"KEY_KP9", 153>>, <<"KEY_KPMINUS", 156>>, <<"KEY_KP4", 148>>, <<"KEY_KP5", 149>>,
    <<"KEY_KP6", 150>>, <<"KEY_KPPLUS", 157>>, <<"KEY_KP1", 145>>, <<"KEY_KP2", 146>>,
    <<"KEY_KP3", 147>>, <<"KEY_KP0", 144>>, <<"KEY_KPDOT", 158>>, <<"KEY_F11", 141>>,
    <<"KEY_F12", 142>>, <<"KEY_RIGHTCTRL", 114>>, <<"KEY_RIGHTALT", 58>>, <<"KEY_UP", 19>>,
    <<"KEY_PAGEUP", 92>>, <<"KEY_LEFT", 21>>, <<"KEY_RIGHT", 22>>, <<"KEY_END", 123>>,
    <<"KEY_DOWN", 20>>, <<"KEY_PAGEDOWN", 93>>, <<"KEY_INSERT", 124>>, <<"KEY_DELETE", 112>>
    >>

\* initKeysMap: keysMap[KEYS[i].androidKeyCode] = KEYS[i].linuxKeyCode for i
\* in order, a later pair overwriting an earlier one with the same key.
initKeysMap ==
    [a \in {KEYS[i][2] : i \in DOMAIN KEYS} |->
        KEYS[CHOOSE i \in DOMAIN KEYS : KEYS[i][2] = a
                       /\ \A j \in DOMAIN KEYS : KEYS[j][2] = a => j <= i][1]]

=============================================================================
