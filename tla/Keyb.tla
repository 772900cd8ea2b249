-------------------------------- MODULE Keyb --------------------------------
(***************************************************************************)
(* The keyboard of kernel/char/keyb.c: keyb_func, the interrupt handler    *)
(* that fills a small buffer, and keyb_read, which a task runs with        *)
(* interrupts enabled and which takes keys off its front.  memcpy runs     *)
(* with interrupts disabled (string.c), so it is one step, after its       *)
(* arguments have been read in another.                                    *)
(*                                                                         *)
(* A character is a key with the name of the keymap that translated it.    *)
(* AltGr is left out: its scan code begins with 0xe0, which keyb_func      *)
(* never recognises after c & 0x7f, so altgr and is_esc stay 0.            *)
(***************************************************************************)
EXTENDS Naturals, Sequences

CONSTANTS
    BufSize,        (* BUF_SIZE                                              *)
    Key,            (* the keys that are neither shift nor caps lock         *)
    ShiftKey,       (* the keys behind shift_l and shift_r                   *)
    Sizes           (* the sizes readers ask for; the programs ask for 1     *)

ASSUME KeybAssumption ==
    /\ BufSize \in Nat \ {0}
    /\ Key # {}
    /\ Sizes \subseteq Nat

VARIABLES
    buffer_used,
    keyb_buf,       (* 0..BufSize-1 -> character                             *)
    shift,          (* the shift keys that shift_l and shift_r say are down  *)
    caps,
    pc,             (* next statement of the running keyb_read               *)
    size,           (* its arguments and temporaries                         *)
    count,
    difference,
    down,           (* history: the shift keys that are down                 *)
    locked,         (* history: caps lock, by how often it was pressed       *)
    owed,           (* history: the characters due to the readers            *)
    wrong,          (* history: a reader got something else                  *)
    excuse          (* history: why that may be; "none" so far               *)

driver == <<buffer_used, keyb_buf, shift, caps>>
reader == <<pc, size, count, difference>>
history == <<down, locked, owed, wrong, excuse>>
vars == <<driver, reader, history>>

Char == [key : Key,
         map : {"normal", "shift", "capslock", "shift_capslock"}]

Keymap(shifted, capslock) ==
    IF shifted # {} THEN IF capslock THEN "shift_capslock" ELSE "shift"
                    ELSE IF capslock THEN "capslock" ELSE "normal"

(* Whatever an unused place of the buffer holds.                            *)
Blank == [key |-> CHOOSE k \in Key : TRUE, map |-> "normal"]

TypeOK ==
    /\ buffer_used \in 0..BufSize
    /\ keyb_buf \in [0..(BufSize - 1) -> Char]
    /\ shift \subseteq ShiftKey
    /\ caps \in BOOLEAN
    /\ pc \in {"idle", "copy", "args", "move", "load", "store"}
    /\ size \in 0..BufSize
    /\ count \in 0..BufSize
    /\ difference \in 0..BufSize
    /\ down \subseteq ShiftKey
    /\ locked \in BOOLEAN
    /\ owed \in Seq(Char)
    /\ wrong \in BOOLEAN
    /\ excuse \in {"none", "lost_modifier", "cut", "raced"}

Init ==
    /\ buffer_used = 0
    /\ keyb_buf = [i \in 0..(BufSize - 1) |-> Blank]
    /\ shift = {}
    /\ caps = FALSE
    /\ pc = "idle"
    /\ size = 0
    /\ count = 0
    /\ difference = 0
    /\ down = {}
    /\ locked = FALSE
    /\ owed = <<>>
    /\ wrong = FALSE
    /\ excuse = "none"

Full == buffer_used >= BufSize

(* After an excuse there is no telling what is due.                         *)
Excuse(condition, name) ==
    excuse' = IF excuse = "none" /\ condition THEN name ELSE excuse

Owe(chars) == owed' = IF excuse' = "none" THEN chars ELSE <<>>

-----------------------------------------------------------------------------
(* keyb_func *)

(* Mutant: a shift key sets the flag when it goes up, too.                  *)
PressShiftSticks(k) ==
    /\ down' = IF k \in down THEN down \ {k} ELSE down \cup {k}
    /\ shift' = IF Full THEN shift ELSE shift \cup {k}
    /\ Excuse(Full, "lost_modifier")
    /\ Owe(owed)
    /\ UNCHANGED <<buffer_used, keyb_buf, caps, reader, locked, wrong>>

(* A shift key goes down or up.  A full buffer hides that from the driver.  *)
PressShift(k) ==
    /\ down' = IF k \in down THEN down \ {k} ELSE down \cup {k}
    /\ shift' = IF Full THEN shift
                ELSE IF k \in down THEN shift \ {k} ELSE shift \cup {k}
    /\ Excuse(Full, "lost_modifier")
    /\ Owe(owed)
    /\ UNCHANGED <<buffer_used, keyb_buf, caps, reader, locked, wrong>>

PressCaps ==
    /\ locked' = ~locked
    /\ caps' = IF Full THEN caps ELSE ~caps
    /\ Excuse(Full, "lost_modifier")
    /\ Owe(owed)
    /\ UNCHANGED <<buffer_used, keyb_buf, shift, reader, down, wrong>>

(* Any other key goes down.  A full buffer discards it.                     *)
Press(k) ==
    /\ ~Full
    /\ keyb_buf' = [keyb_buf EXCEPT ![buffer_used] =
                        [key |-> k, map |-> Keymap(shift, caps)]]
    /\ buffer_used' = buffer_used + 1
    /\ Excuse(pc \in {"load", "store"}, "raced")
    /\ Owe(Append(owed, [key |-> k, map |-> Keymap(down, locked)]))
    /\ UNCHANGED <<shift, caps, reader, down, locked, wrong>>

-----------------------------------------------------------------------------
(* keyb_read *)

(* The clamp.  Two keys inside it could make size larger than n; a keyboard *)
(* is not that fast.                                                        *)
Read(n) ==
    /\ pc = "idle"
    /\ size' = IF n > buffer_used THEN buffer_used ELSE n
    /\ pc' = "copy"
    /\ UNCHANGED <<driver, count, difference, history>>

Copy ==
    /\ pc = "copy"
    /\ wrong' = (wrong \/ (/\ excuse = "none"
                           /\ \/ size > Len(owed)
                              \/ \E i \in 1..size : keyb_buf[i - 1] # owed[i]))
    /\ owed' = SubSeq(owed, size + 1, Len(owed))
    /\ pc' = "args"
    /\ UNCHANGED <<driver, size, count, difference, down, locked, excuse>>

(* What is moved to the front is as much as the buffer has room for, not as *)
(* much as is left in it.                                                   *)
Args ==
    /\ pc = "args"
    /\ count' = BufSize - buffer_used
    /\ pc' = "move"
    /\ UNCHANGED <<driver, size, difference, history>>

Move ==
    /\ pc = "move"
    /\ keyb_buf' = [i \in 0..(BufSize - 1) |->
                        IF i < count THEN keyb_buf[i + size] ELSE keyb_buf[i]]
    /\ Excuse(size > 0 /\ count < buffer_used - size, "cut")
    /\ Owe(owed)
    /\ pc' = "load"
    /\ UNCHANGED <<buffer_used, shift, caps, size, count, difference, down,
                   locked, wrong>>

(* Mutant: a reader that did not want all keys loses the others.            *)
LoadNothingLeft ==
    /\ pc = "load"
    /\ difference' = 0
    /\ pc' = "store"
    /\ UNCHANGED <<driver, size, count, history>>

(* buffer_used -= size, as a load and a store.                              *)
Load ==
    /\ pc = "load"
    /\ difference' = buffer_used - size
    /\ pc' = "store"
    /\ UNCHANGED <<driver, size, count, history>>

Store ==
    /\ pc = "store"
    /\ buffer_used' = difference
    /\ pc' = "idle"
    /\ size' = 0
    /\ count' = 0
    /\ difference' = 0
    /\ UNCHANGED <<keyb_buf, shift, caps, history>>

Next ==
    \/ \E k \in ShiftKey : PressShift(k)
    \/ PressCaps
    \/ \E k \in Key : Press(k)
    \/ \E n \in Sizes : Read(n)
    \/ Copy \/ Args \/ Move \/ Load \/ Store

Spec == Init /\ [][Next]_vars

-----------------------------------------------------------------------------
(* Readers get the keys that were typed, each once, in order and translated *)
(* by the keymap that was due, as long as no key falls between keyb_read's  *)
(* move and its store of buffer_used, no reader leaves more keys than there *)
(* is room (BUF_SIZE - buffer_used is the wrong count), and no shift or     *)
(* caps key comes to a full buffer.                                         *)
KeysArrive == ~wrong

(* No key that a reader is still owed has fallen out of the buffer.         *)
NothingForgotten ==
    excuse = "none" /\ pc = "idle" => Len(owed) = buffer_used
=============================================================================
