------------------------------ MODULE KbdInput ------------------------------
(***************************************************************************)
(* Keyboard input: the keyboard interrupt decodes scan codes and puts      *)
(* characters into keyboard_iobuffer (src/device/keyboard.c), processes    *)
(* take them out with sys_read on standard input (src/fs/fs.c).            *)
(*                                                                         *)
(* A key is named by the character it types, or as one of the control keys *)
(* below.  The keys on the right that share a scan code with one on the    *)
(* left send 0xe0 first, in an interrupt of its own.                       *)
(***************************************************************************)
EXTENDS IoQueue, Integers

CONSTANTS Keys,      \* the keys that are pressed
          keymap,    \* the character of a key without and with shift
          MaxRead    \* bound on the count of one read

ControlKeys ==
    {"shift_l", "shift_r", "alt_l", "alt_r", "ctrl_l", "ctrl_r", "caps_lock"}
E0Keys == {"alt_r", "ctrl_r"}
Letters == {"a", "l", "u"}   \* keys that caps lock is meant for

ASSUME KeyAssumption ==
    /\ keymap \in [Keys \ ControlKeys -> [BOOLEAN -> Bytes]]
    /\ {"ctrl+l", "ctrl+u"} \subseteq Bytes

VARIABLES shift_status, alt_status, ctrl_status,
          caps_lock_status,   \* a 32-bit enum: 0 or 0xFFFFFFFF, here -1
          ext_scancode,       \* the last code was 0xe0
          held,               \* the control keys that are down
          sending             \* the key whose 0xe0 has been sent, or None

modVars == <<shift_status, alt_status, ctrl_status, caps_lock_status>>
keyVars == <<modVars, ext_scancode, held, sending>>
kbdVars == <<threadVars, queueVars, keyVars>>

KbdInit ==
    /\ ThreadInit
    /\ ioqueue_init
    /\ shift_status = FALSE /\ alt_status = FALSE /\ ctrl_status = FALSE
    /\ caps_lock_status = 0 /\ ext_scancode = FALSE
    /\ held = {} /\ sending = None

\* read(stdin_no, buf, count): count calls of ioq_getchar.
sys_read(t) ==
    /\ t \in Consumers
    /\ \E n \in 1..MaxRead : Enter(t, n)
    /\ UNCHANGED keyVars

-----------------------------------------------------------------------------
\* Mutant: the e0 prefix is kept when the make code of a break code is formed.
make_code_prefixed(k) == k

\* scanned_code & 0x7f: the prefix is masked off as well.
make_code(k) ==
    CASE k = "alt_r" -> "alt_l" [] k = "ctrl_r" -> "ctrl_l" [] OTHER -> k

\* The character of key k.  ctrl with l or u is a character of its own, and
\* the caps lock test compares with true, which is 1.
cur_char(k) ==
    LET temp_shift == IF caps_lock_status = 1 THEN ~shift_status ELSE shift_status
        c == keymap[k][IF k \in Letters THEN temp_shift ELSE shift_status]
    IN  CASE ctrl_status /\ c = "l" -> "ctrl+l"
          [] ctrl_status /\ c = "u" -> "ctrl+u"
          [] OTHER -> c

\* Mutant: the handler does not test for a full queue.
PutKey_overrun(c) == PutByte(c) /\ UNCHANGED callVars

\* The character goes into the queue unless it is full; then it is dropped.
PutKey(c) ==
    IF ~ioq_full THEN PutByte(c) /\ UNCHANGED callVars
                 ELSE UNCHANGED <<cur, ready, status, ticks, queueVars>>

\* The handler when a key is released: its control key's status is cleared;
\* a right shift's is not, its code matches no comparison.
break_code(k) ==
    /\ shift_status' = (shift_status /\ make_code(k) # "shift_l")
    /\ alt_status' = (alt_status /\ make_code(k) # "alt_l")
    /\ ctrl_status' = (ctrl_status /\ make_code(k) # "ctrl_l")
    /\ held' = held \ {k}
    /\ UNCHANGED <<cur, ready, status, ticks, queueVars, caps_lock_status>>

\* The handler when a control key is pressed, or repeats.
control_code(k) ==
    /\ k \in ControlKeys
    /\ shift_status' = (shift_status \/ k \in {"shift_l", "shift_r"})
    /\ alt_status' = (alt_status \/ k \in {"alt_l", "alt_r"})
    /\ ctrl_status' = (ctrl_status \/ k \in {"ctrl_l", "ctrl_r"})
    /\ caps_lock_status' = IF k = "caps_lock" THEN -1 - caps_lock_status
                                              ELSE caps_lock_status
    /\ held' = held \cup {k}
    /\ UNCHANGED <<cur, ready, status, ticks, queueVars>>

\* The handler when another key is pressed, or repeats.
char_code(k) ==
    /\ k \notin ControlKeys
    /\ PutKey(cur_char(k))
    /\ UNCHANGED <<modVars, held>>

\* One keyboard interrupt, for a code of key k.
intr_keyboard_handler(k) ==
    /\ IntrOn
    /\ Interrupted
    /\ IF k \in E0Keys /\ sending = None
       THEN /\ ext_scancode' = TRUE
            /\ sending' = k
            /\ UNCHANGED <<cur, ready, status, ticks, queueVars, modVars, held>>
       ELSE /\ sending \in {None, k}
            /\ sending' = None
            /\ ext_scancode' = FALSE
            /\ \/ k \in held /\ break_code(k)
               \/ control_code(k)
               \/ char_code(k)

KbdTimer == Timer /\ UNCHANGED keyVars
KbdIdleLoop == IdleLoop /\ UNCHANGED keyVars
ReadCode(t) == QueueCode(t) /\ UNCHANGED keyVars

KbdNext ==
    \/ \E t \in Threads : sys_read(t) \/ ReadCode(t)
    \/ \E k \in Keys : intr_keyboard_handler(k)
    \/ KbdTimer
    \/ KbdIdleLoop

KbdSpec == KbdInit /\ [][KbdNext]_kbdVars

(***************************************************************************)
(* The CPU executes queue code, which nothing interrupts; the timer ticks; *)
(* the idle loop runs.  Keys need not be pressed.                          *)
(***************************************************************************)
KbdFairSpec ==
    /\ KbdSpec
    /\ SF_kbdVars(KbdTimer)
    /\ WF_kbdVars(KbdIdleLoop)
    /\ \A t \in Consumers : WF_kbdVars(ReadCode(t))

-----------------------------------------------------------------------------
\* Type invariant.
KbdTypeOK ==
    /\ ThreadTypeOK /\ QueueTypeOK
    /\ shift_status \in BOOLEAN /\ alt_status \in BOOLEAN
    /\ ctrl_status \in BOOLEAN /\ ext_scancode \in BOOLEAN
    /\ caps_lock_status \in {0, -1}
    /\ held \subseteq Keys \cap ControlKeys
    /\ sending \in (Keys \cap E0Keys) \cup {None}

\* No control key sticks, except a right shift: when no ctrl (alt) key is down
\* its status is off, although the right one announces itself with a code of
\* its own and its release is recognised by the left one's code.
ControlKeysReleased ==
    /\ held \cap {"ctrl_l", "ctrl_r"} = {} => ~ctrl_status
    /\ held \cap {"alt_l", "alt_r"} = {} => ~alt_status

\* A reader is not left behind: when characters are there, a process inside
\* read goes on to take one.
ReaderServed ==
    \A t \in Consumers :
        pc[t] # "user" /\ ~ioq_empty ~> pc[t] = "user" \/ ioq_empty

=============================================================================
